------------------------- MODULE TraitDrivers_proofs -------------------------
(***************************************************************************)
(* The type invariant of TraitDrivers and its two safety properties, for   *)
(* every frequency, bandwidth, gain and crystal of its assumption and any  *)
(* number of faults.                                                       *)
(*                                                                         *)
(* The inductive invariant (IInv) says of each thing that was asked for    *)
(* which writes are in the chip (FreqShown, WidthShown, GainShown, ...):   *)
(* a call changes only the bits of its own writes (Leaves), and the writes *)
(* that a call ends with are the ones that it shows (InChip). The bits of  *)
(* any two things asked for are apart (BitsApart), so no call disturbs     *)
(* what another one left, whether it fails or not. What is left is of one  *)
(* state: that the writes spell what the properties say, which is the      *)
(* arithmetic of the three PLLs and of the tables of gains and filters.    *)
(***************************************************************************)
EXTENDS TraitDrivers, TunerRegisters_proofs, FiniteSetTheorems

Driver ==
    {s \in [model : Models, chip : UNION {[RegsOf(m) -> Bits] : m \in Models}, xtal : Nat,
            freq : Nat, bw : Nat, faults : Nat, err : {"none", "usb", "tuner"}] :
        s.chip \in [RegsOf(s.model) -> Bits]}

LEMMA DriverType ==
    ASSUME NEW s \in Driver
    PROVE  /\ s.model \in Models /\ s.chip \in [RegsOf(s.model) -> Bits]
           /\ s.xtal \in Nat /\ s.freq \in Nat /\ s.bw \in Nat /\ s.faults \in Nat
           /\ s.err \in {"none", "usb", "tuner"}
           /\ DOMAIN s = {"model", "chip", "xtal", "freq", "bw", "faults", "err"}
<1>1. /\ s \in [model : Models, chip : UNION {[RegsOf(m) -> Bits] : m \in Models}, xtal : Nat,
                 freq : Nat, bw : Nat, faults : Nat, err : {"none", "usb", "tuner"}]
      /\ s.chip \in [RegsOf(s.model) -> Bits]
      BY DEF Driver
<1>. QED
     BY <1>1

LEMMA DriverChanged ==
    ASSUME NEW s \in Driver
    PROVE  /\ \A c \in [RegsOf(s.model) -> Bits] : [s EXCEPT !.chip = c] \in Driver
           /\ \A n \in Nat, e \in {"none", "usb", "tuner"} : [s EXCEPT !.faults = n, !.err = e] \in Driver
           /\ \A e \in {"none", "usb", "tuner"} : [s EXCEPT !.err = e] \in Driver
           /\ \A f \in Nat : [s EXCEPT !.freq = f] \in Driver
           /\ \A b \in Nat : [s EXCEPT !.bw = b] \in Driver
           /\ \A x \in Nat : [s EXCEPT !.xtal = x] \in Driver
BY DEF Driver

(* A call that fails or not, from a state before it, leaves what the       *)
(* driver itself keeps to the call's own assignments, ...                  *)
Same(s, t) ==
    /\ t \in Driver /\ t.model = s.model /\ t.xtal = s.xtal /\ t.freq = s.freq /\ t.bw = s.bw
    /\ t.faults <= s.faults

(* ... and the bits outside of T.                                          *)
Untouched(s, t, T) == Agree(RegsOf(s.model), t.chip, s.chip, T)

Leaves(s, t, T) == Same(s, t) /\ Untouched(s, t, T)

(* The bits of a write are in the chip.                                    *)
Holds(s, w) == \A b \in w.mask : b \in s.chip[w.reg] <=> b \in w.val

LEMMA LeavesTrans ==
    ASSUME NEW s \in Driver, NEW u, NEW t, NEW T, Leaves(s, u, T), Leaves(u, t, T)
    PROVE  Leaves(s, t, T)
<1>1. s.faults \in Nat /\ u.faults \in Nat /\ t.faults \in Nat
      BY DriverType DEF Leaves, Same
<1>2. Same(s, t)
      BY <1>1 DEF Leaves, Same
<1>3. Untouched(s, t, T)
      BY DEF Leaves, Same, Untouched, Agree
<1>. QED
     BY <1>2, <1>3 DEF Leaves

LEMMA LeavesMore ==
    ASSUME NEW s, NEW t, NEW T, NEW U, Leaves(s, t, T), T \subseteq U
    PROVE  Leaves(s, t, U)
BY DEF Leaves, Untouched, Agree

LEMMA LeavesSelf == ASSUME NEW s \in Driver, NEW T PROVE Leaves(s, s, T)
BY DriverType DEF Leaves, Same, Untouched, Agree

(* All that a reads does is that it may fail, all that a refusal does is   *)
(* the error.                                                              *)
LEMMA ReadLeaves ==
    ASSUME NEW s \in Driver, s.err = "none", NEW t \in Read(s), NEW T
    PROVE  Leaves(s, t, T) /\ t.err \in {"none", "usb"} /\ (t.err = "none" => t = s)
<1>1. CASE t = s
      BY <1>1, LeavesSelf
<1>2. CASE t # s
  <2>1. s.faults > 0 /\ t = [s EXCEPT !.faults = @ - 1, !.err = "usb"]
        BY <1>2 DEF Read, Faulty
  <2>2. s.faults \in Nat /\ s.faults - 1 \in Nat
        BY <2>1, DriverType
  <2>3. t = [s EXCEPT !.faults = s.faults - 1, !.err = "usb"]
        BY <2>1
  <2>4. t \in Driver
        BY <2>2, <2>3, DriverChanged
  <2>5. /\ t.model = s.model /\ t.xtal = s.xtal /\ t.freq = s.freq /\ t.bw = s.bw /\ t.chip = s.chip
        /\ t.faults = s.faults - 1 /\ t.err = "usb"
        BY <2>3, DriverType
  <2>. QED
       BY <2>2, <2>4, <2>5 DEF Leaves, Same, Untouched, Agree
<1>. QED
     BY <1>1, <1>2

LEMMA RefuseLeaves ==
    ASSUME NEW s \in Driver, NEW t \in Refuse(s), NEW T
    PROVE  Leaves(s, t, T) /\ t.err = "tuner" /\ t.chip = s.chip
<1>1. t = [s EXCEPT !.err = "tuner"]
      BY DEF Refuse
<1>2. t \in Driver
      BY <1>1, DriverChanged
<1>3. /\ t.model = s.model /\ t.xtal = s.xtal /\ t.freq = s.freq /\ t.bw = s.bw /\ t.chip = s.chip
      /\ t.faults = s.faults /\ t.err = "tuner"
      BY <1>1, DriverType
<1>4. s.faults \in Nat
      BY DriverType
<1>. QED
     BY <1>2, <1>3, <1>4 DEF Leaves, Same, Untouched, Agree

(* A list of writes leaves all bits but theirs, wherever it fails, and all *)
(* of its bits in the chip that no later write of it touches if it does    *)
(* not.                                                                    *)
LEMMA ApplyLeaves ==
    ASSUME NEW s \in Driver, s.err = "none", NEW writes, Typed(writes), NEW t \in Apply(s, writes)
    PROVE  /\ \A T : Covers(T, writes) => Leaves(s, t, T)
           /\ t.err \in {"none", "usb"}
           /\ t.err = "none" => t = After(s, writes, Len(writes))
<1>. DEFINE n == Len(writes)
            Regs == RegsOf(s.model)
<1>1. n \in Nat /\ s.chip \in [Regs -> Bits] /\ s.faults \in Nat
      BY DriverType DEF Typed
<1>2. PICK k \in 0..n :
         \/ t = After(s, writes, k) /\ k = n
         \/ After(s, writes, k).faults > 0 /\ t = [After(s, writes, k) EXCEPT !.faults = @ - 1, !.err = "usb"]
  <2>1. CASE t = After(s, writes, n)
    <3>1. n \in 0..n
          BY <1>1
    <3>. HIDE DEF n
    <3>. QED
         BY <2>1, <3>1
  <2>2. CASE t # After(s, writes, n)
    <3>1. t \in Faulty({After(s, writes, i) : i \in 0..n})
          BY <2>2 DEF Apply
    <3>2. PICK k \in 0..n : /\ After(s, writes, k).faults > 0
                             /\ t = [After(s, writes, k) EXCEPT !.faults = @ - 1, !.err = "usb"]
          BY <3>1 DEF Faulty
    <3>. QED
         BY <3>2
  <2>. QED
       BY <2>1, <2>2
<1>3. PICK c \in [Regs -> Bits] : After(s, writes, k) = [s EXCEPT !.chip = c]
  <2>1. k \in 0..Len(writes) /\ s.chip \in [Regs -> Bits]
        BY <1>1
  <2>. HIDE DEF Regs, n
  <2>. QED
       BY <2>1, AfterTyped
<1>. DEFINE u == [s EXCEPT !.chip = c]
<1>4. u \in Driver /\ u.model = s.model /\ u.xtal = s.xtal /\ u.freq = s.freq /\ u.bw = s.bw
      /\ u.chip = c /\ u.faults = s.faults /\ u.err = "none"
      BY DriverChanged, DriverType
<1>5. /\ Same(s, t) /\ t.chip = c /\ t.err \in {"none", "usb"}
      /\ t.err = "none" => t = After(s, writes, n)
  <2>1. CASE t = After(s, writes, k) /\ k = n
        BY <1>1, <1>3, <1>4, <2>1 DEF Same
  <2>2. CASE u.faults > 0 /\ t = [u EXCEPT !.faults = @ - 1, !.err = "usb"]
    <3>. HIDE DEF u
    <3>1. u.faults - 1 \in Nat /\ t = [u EXCEPT !.faults = u.faults - 1, !.err = "usb"]
          BY <1>1, <1>4, <2>2
    <3>2. t \in Driver
          BY <1>4, <3>1, DriverChanged
    <3>3. /\ t.model = u.model /\ t.xtal = u.xtal /\ t.freq = u.freq /\ t.bw = u.bw /\ t.chip = u.chip
          /\ t.faults = u.faults - 1 /\ t.err = "usb"
          BY <1>4, <3>1, DriverType
    <3>. QED
         BY <1>1, <1>4, <3>2, <3>3 DEF Same
  <2>. QED
       BY <1>2, <1>3, <2>1, <2>2
<1>6. ASSUME NEW T, Covers(T, writes) PROVE Untouched(s, t, T)
  <2>0. k \in 0..Len(writes) /\ s.chip \in [Regs -> Bits]
        BY <1>1
  <2>. HIDE DEF Regs, n, u
  <2>1. PICK d \in [Regs -> Bits] :
              /\ After(s, writes, k) = [s EXCEPT !.chip = d]
              /\ Agree(Regs, d, s.chip, T)
        BY <2>0, <1>6, AfterKeeps
  <2>2. d = c
    <3>1. [s EXCEPT !.chip = d].chip = d
          BY DriverType
    <3>. QED
         BY <1>3, <1>4, <2>1, <3>1 DEF u
  <2>. QED
       BY <1>5, <2>1, <2>2 DEF Untouched, Regs
<1>. QED
     BY <1>5, <1>6 DEF Leaves

LEMMA ApplySets ==
    ASSUME NEW s \in Driver, s.err = "none", NEW writes, Typed(writes), NEW t \in Apply(s, writes),
           t.err = "none", NEW k \in 1..Len(writes), writes[k].reg \in RegsOf(s.model),
           \A i \in (k + 1)..Len(writes) : \A b \in writes[k].mask : ~Touches(writes[i], writes[k].reg, b)
    PROVE  Holds(t, writes[k])
<1>1. t = After(s, writes, Len(writes))
      BY ApplyLeaves
<1>2. s.chip \in [RegsOf(s.model) -> Bits] /\ {"chip"} \subseteq DOMAIN s
      BY DriverType
<1>. DEFINE Regs == RegsOf(s.model)
            r == writes[k].reg
<1>3. ASSUME NEW b \in writes[k].mask PROVE b \in t.chip[r] <=> b \in writes[k].val
  <2>1. Touches(writes[k], r, b)
        BY DEF Touches
  <2>2. \A i \in (k + 1)..Len(writes) : ~Touches(writes[i], r, b)
        OBVIOUS
  <2>3. s.chip \in [Regs -> Bits] /\ r \in Regs
        BY <1>2
  <2>. HIDE DEF Regs, r
  <2>4. b \in After(s, writes, Len(writes)).chip[r] <=> b \in writes[k].val
        BY <1>2, <2>1, <2>2, <2>3, AfterSets
  <2>. QED
       BY <1>1, <2>4
<1>. QED
     BY <1>3 DEF Holds

(* A write whose bits are left alone stays in the chip.                    *)
LEMMA HoldsStays ==
    ASSUME NEW s, NEW t, NEW T, Untouched(s, t, T), NEW w, w.reg \in RegsOf(s.model), w.mask \in Bits,
           \A b \in w.mask : <<w.reg, b>> \notin T, Holds(s, w)
    PROVE  Holds(t, w)
BY DEF Untouched, Agree, Holds, Bits

LEMMA WIs ==
    ASSUME NEW r, NEW v, NEW m
    PROVE  /\ W(r, v, m).reg = r /\ W(r, v, m).val = Byte(v) /\ W(r, v, m).mask = Byte(m)
           /\ W(r, v, m).val \in Bits /\ W(r, v, m).mask \in Bits
BY ByteType DEF W

LEMMA PutIs ==
    ASSUME NEW r, NEW v
    PROVE  /\ Put(r, v).reg = r /\ Put(r, v).val = Byte(v) /\ Put(r, v).mask = 0..7
           /\ Put(r, v).val \in Bits
BY WIs, FullByte DEF Put

LEMMA MaskIs ==
    ASSUME NEW n, NEW S, S \subseteq 0..7, \A b \in 0..7 : b \in Byte(n) <=> b \in S
    PROVE  Byte(n) = S
BY ByteType DEF Bits

(* The masks of the drivers' writes.                                       *)
LEMMA Masks ==
    /\ Byte(1) = {0} /\ Byte(2) = {1} /\ Byte(3) = 0..1 /\ Byte(4) = {2}
    /\ Byte(6) = 1..2 /\ Byte(7) = 0..2 /\ Byte(8) = {3} /\ Byte(\h0f) = 0..3
    /\ Byte(\h10) = {4} /\ Byte(\h18) = 3..4 /\ Byte(\h1c) = 2..4 /\ Byte(\h1f) = 0..4
    /\ Byte(\h20) = {5} /\ Byte(\h38) = 3..5 /\ Byte(\h40) = {6} /\ Byte(\h60) = 5..6
    /\ Byte(\hc0) = 6..7 /\ Byte(\he0) = 5..7 /\ Byte(\hf0) = 4..7 /\ Byte(0) = {}
<1>1. Byte(1) = {0}
  <2>1. \A b \in 0..7 : b \in Byte(1) <=> b \in {0}
        BY ByteBits
  <2>2. {0} \subseteq 0..7
        OBVIOUS
  <2>. QED
       BY <2>1, <2>2, MaskIs
<1>2. Byte(2) = {1}
  <2>1. \A b \in 0..7 : b \in Byte(2) <=> b \in {1}
        BY ByteBits
  <2>2. {1} \subseteq 0..7
        OBVIOUS
  <2>. QED
       BY <2>1, <2>2, MaskIs
<1>3. Byte(3) = 0..1
  <2>1. \A b \in 0..7 : b \in Byte(3) <=> b \in 0..1
        BY ByteBits
  <2>2. 0..1 \subseteq 0..7
        OBVIOUS
  <2>. QED
       BY <2>1, <2>2, MaskIs
<1>4. Byte(4) = {2}
  <2>1. \A b \in 0..7 : b \in Byte(4) <=> b \in {2}
        BY ByteBits
  <2>2. {2} \subseteq 0..7
        OBVIOUS
  <2>. QED
       BY <2>1, <2>2, MaskIs
<1>5. Byte(6) = 1..2
  <2>1. \A b \in 0..7 : b \in Byte(6) <=> b \in 1..2
        BY ByteBits
  <2>2. 1..2 \subseteq 0..7
        OBVIOUS
  <2>. QED
       BY <2>1, <2>2, MaskIs
<1>6. Byte(7) = 0..2
  <2>1. \A b \in 0..7 : b \in Byte(7) <=> b \in 0..2
        BY ByteBits
  <2>2. 0..2 \subseteq 0..7
        OBVIOUS
  <2>. QED
       BY <2>1, <2>2, MaskIs
<1>7. Byte(8) = {3}
  <2>1. \A b \in 0..7 : b \in Byte(8) <=> b \in {3}
        BY ByteBits
  <2>2. {3} \subseteq 0..7
        OBVIOUS
  <2>. QED
       BY <2>1, <2>2, MaskIs
<1>8. Byte(\h0f) = 0..3
  <2>1. \A b \in 0..7 : b \in Byte(\h0f) <=> b \in 0..3
        BY ByteBits
  <2>2. 0..3 \subseteq 0..7
        OBVIOUS
  <2>. QED
       BY <2>1, <2>2, MaskIs
<1>9. Byte(\h10) = {4}
  <2>1. \A b \in 0..7 : b \in Byte(\h10) <=> b \in {4}
        BY ByteBits
  <2>2. {4} \subseteq 0..7
        OBVIOUS
  <2>. QED
       BY <2>1, <2>2, MaskIs
<1>10. Byte(\h18) = 3..4
  <2>1. \A b \in 0..7 : b \in Byte(\h18) <=> b \in 3..4
        BY ByteBits
  <2>2. 3..4 \subseteq 0..7
        OBVIOUS
  <2>. QED
       BY <2>1, <2>2, MaskIs
<1>11. Byte(\h1c) = 2..4
  <2>1. \A b \in 0..7 : b \in Byte(\h1c) <=> b \in 2..4
        BY ByteBits
  <2>2. 2..4 \subseteq 0..7
        OBVIOUS
  <2>. QED
       BY <2>1, <2>2, MaskIs
<1>12. Byte(\h1f) = 0..4
  <2>1. \A b \in 0..7 : b \in Byte(\h1f) <=> b \in 0..4
        BY ByteBits
  <2>2. 0..4 \subseteq 0..7
        OBVIOUS
  <2>. QED
       BY <2>1, <2>2, MaskIs
<1>13. Byte(\h20) = {5}
  <2>1. \A b \in 0..7 : b \in Byte(\h20) <=> b \in {5}
        BY ByteBits
  <2>2. {5} \subseteq 0..7
        OBVIOUS
  <2>. QED
       BY <2>1, <2>2, MaskIs
<1>14. Byte(\h38) = 3..5
  <2>1. \A b \in 0..7 : b \in Byte(\h38) <=> b \in 3..5
        BY ByteBits
  <2>2. 3..5 \subseteq 0..7
        OBVIOUS
  <2>. QED
       BY <2>1, <2>2, MaskIs
<1>15. Byte(\h40) = {6}
  <2>1. \A b \in 0..7 : b \in Byte(\h40) <=> b \in {6}
        BY ByteBits
  <2>2. {6} \subseteq 0..7
        OBVIOUS
  <2>. QED
       BY <2>1, <2>2, MaskIs
<1>16. Byte(\h60) = 5..6
  <2>1. \A b \in 0..7 : b \in Byte(\h60) <=> b \in 5..6
        BY ByteBits
  <2>2. 5..6 \subseteq 0..7
        OBVIOUS
  <2>. QED
       BY <2>1, <2>2, MaskIs
<1>17. Byte(\hc0) = 6..7
  <2>1. \A b \in 0..7 : b \in Byte(\hc0) <=> b \in 6..7
        BY ByteBits
  <2>2. 6..7 \subseteq 0..7
        OBVIOUS
  <2>. QED
       BY <2>1, <2>2, MaskIs
<1>18. Byte(\he0) = 5..7
  <2>1. \A b \in 0..7 : b \in Byte(\he0) <=> b \in 5..7
        BY ByteBits
  <2>2. 5..7 \subseteq 0..7
        OBVIOUS
  <2>. QED
       BY <2>1, <2>2, MaskIs
<1>19. Byte(\hf0) = 4..7
  <2>1. \A b \in 0..7 : b \in Byte(\hf0) <=> b \in 4..7
        BY ByteBits
  <2>2. 4..7 \subseteq 0..7
        OBVIOUS
  <2>. QED
       BY <2>1, <2>2, MaskIs
<1>20. Byte(0) = {}
  <2>1. \A b \in 0..7 : b \in Byte(0) <=> b \in {}
        BY ByteBits
  <2>2. {} \subseteq 0..7
        OBVIOUS
  <2>. QED
       BY <2>1, <2>2, MaskIs
<1>. QED
     BY <1>1, <1>2, <1>3, <1>4, <1>5, <1>6, <1>7, <1>8, <1>9, <1>10, <1>11, <1>12, <1>13, <1>14, <1>15, <1>16, <1>17, <1>18, <1>19, <1>20

---------------------------------------------------------------------------
(* Lists of writes: w is final in one if no later write touches its bits,  *)
(* and a list spares w if none does.                                       *)
Write == [reg : Nat, val : Bits, mask : Bits]

Spares(w, writes) ==
    \A i \in 1..Len(writes) : \A b \in w.mask : ~Touches(writes[i], w.reg, b)
Final(w, writes) ==
    \E k \in 1..Len(writes) :
        /\ writes[k] = w
        /\ \A i \in (k + 1)..Len(writes) : \A b \in w.mask : ~Touches(writes[i], w.reg, b)

LEMMA WWrite == ASSUME NEW r \in Nat, NEW v, NEW m PROVE W(r, v, m) \in Write /\ Put(r, v) \in Write
BY ByteType DEF W, Put, Write

LEMMA ListTyped == ASSUME NEW writes \in Seq(Write) PROVE Typed(writes)
<1>1. Len(writes) \in Nat /\ \A i \in 1..Len(writes) : writes[i] \in Write
      OBVIOUS
<1>. QED
     BY <1>1 DEF Typed, Write

LEMMA CatIs ==
    ASSUME NEW a \in Seq(Write), NEW b \in Seq(Write)
    PROVE  /\ a \o b \in Seq(Write) /\ Len(a \o b) = Len(a) + Len(b)
           /\ Len(a) \in Nat /\ Len(b) \in Nat
           /\ \A i \in 1..Len(a) : (a \o b)[i] = a[i]
           /\ \A i \in 1..Len(b) : (a \o b)[Len(a) + i] = b[i]
           /\ \A i \in 1..(Len(a) + Len(b)) : i > Len(a) => i - Len(a) \in 1..Len(b)
OBVIOUS

LEMMA CatCovers ==
    ASSUME NEW a \in Seq(Write), NEW b \in Seq(Write), NEW T, Covers(T, a), Covers(T, b)
    PROVE  Covers(T, a \o b)
<1>. SUFFICES ASSUME NEW i \in 1..Len(a \o b) PROVE \A x \in (a \o b)[i].mask : <<(a \o b)[i].reg, x>> \in T
     BY DEF Covers
<1>0. Len(a) \in Nat /\ Len(b) \in Nat /\ Len(a \o b) = Len(a) + Len(b)
      BY CatIs
<1>1. CASE i <= Len(a)
  <2>1. i \in 1..Len(a) /\ (a \o b)[i] = a[i]
        BY <1>0, <1>1, CatIs
  <2>. QED
       BY <2>1 DEF Covers
<1>2. CASE i > Len(a)
  <2>1. i - Len(a) \in 1..Len(b) /\ i = Len(a) + (i - Len(a))
        BY <1>0, <1>2
  <2>2. (a \o b)[i] = b[i - Len(a)]
        BY <2>1, CatIs
  <2>. QED
       BY <2>1, <2>2 DEF Covers
<1>. QED
     BY <1>0, <1>1, <1>2

LEMMA CatSpares ==
    ASSUME NEW a \in Seq(Write), NEW b \in Seq(Write), NEW w, Spares(w, a), Spares(w, b)
    PROVE  Spares(w, a \o b)
<1>. SUFFICES ASSUME NEW i \in 1..Len(a \o b), NEW x \in w.mask PROVE ~Touches((a \o b)[i], w.reg, x)
     BY DEF Spares
<1>0. Len(a) \in Nat /\ Len(b) \in Nat /\ Len(a \o b) = Len(a) + Len(b)
      BY CatIs
<1>1. CASE i <= Len(a)
  <2>1. i \in 1..Len(a) /\ (a \o b)[i] = a[i]
        BY <1>0, <1>1, CatIs
  <2>. QED
       BY <2>1 DEF Spares
<1>2. CASE i > Len(a)
  <2>1. i - Len(a) \in 1..Len(b) /\ i = Len(a) + (i - Len(a))
        BY <1>0, <1>2
  <2>2. (a \o b)[i] = b[i - Len(a)]
        BY <2>1, CatIs
  <2>. QED
       BY <2>1, <2>2 DEF Spares
<1>. QED
     BY <1>0, <1>1, <1>2

LEMMA CatFinal ==
    ASSUME NEW a \in Seq(Write), NEW b \in Seq(Write), NEW w
    PROVE  /\ Final(w, a) /\ Spares(w, b) => Final(w, a \o b)
           /\ Final(w, b) => Final(w, a \o b)
<1>0. Len(a) \in Nat /\ Len(b) \in Nat /\ Len(a \o b) = Len(a) + Len(b)
      BY CatIs
<1>1. ASSUME Final(w, a), Spares(w, b) PROVE Final(w, a \o b)
  <2>1. PICK k \in 1..Len(a) :
              /\ a[k] = w
              /\ \A i \in (k + 1)..Len(a) : \A x \in w.mask : ~Touches(a[i], w.reg, x)
        BY <1>1 DEF Final
  <2>2. k \in 1..Len(a \o b) /\ (a \o b)[k] = w
        BY <1>0, <2>1, CatIs
  <2>3. ASSUME NEW i \in (k + 1)..Len(a \o b), NEW x \in w.mask PROVE ~Touches((a \o b)[i], w.reg, x)
    <3>1. CASE i <= Len(a)
      <4>1. i \in 1..Len(a) /\ i \in (k + 1)..Len(a) /\ (a \o b)[i] = a[i]
            BY <1>0, <3>1, CatIs
      <4>. QED
           BY <2>1, <4>1
    <3>2. CASE i > Len(a)
      <4>1. i - Len(a) \in 1..Len(b) /\ i = Len(a) + (i - Len(a))
            BY <1>0, <3>2
      <4>2. (a \o b)[i] = b[i - Len(a)]
            BY <4>1, CatIs
      <4>. QED
           BY <1>1, <4>1, <4>2 DEF Spares
    <3>. QED
         BY <1>0, <3>1, <3>2
  <2>. QED
       BY <2>2, <2>3 DEF Final
<1>2. ASSUME Final(w, b) PROVE Final(w, a \o b)
  <2>1. PICK k \in 1..Len(b) :
              /\ b[k] = w
              /\ \A i \in (k + 1)..Len(b) : \A x \in w.mask : ~Touches(b[i], w.reg, x)
        BY <1>2 DEF Final
  <2>2. Len(a) + k \in 1..Len(a \o b) /\ (a \o b)[Len(a) + k] = w
        BY <1>0, <2>1, CatIs
  <2>3. ASSUME NEW i \in (Len(a) + k + 1)..Len(a \o b), NEW x \in w.mask
        PROVE  ~Touches((a \o b)[i], w.reg, x)
    <3>1. i - Len(a) \in (k + 1)..Len(b) /\ i - Len(a) \in 1..Len(b) /\ i = Len(a) + (i - Len(a))
          BY <1>0
    <3>2. (a \o b)[i] = b[i - Len(a)]
          BY <3>1, CatIs
    <3>. QED
         BY <2>1, <3>1, <3>2
  <2>. QED
       BY <2>2, <2>3 DEF Final
<1>. QED
     BY <1>1, <1>2

LEMMA FinalHolds ==
    ASSUME NEW s \in Driver, s.err = "none", NEW writes \in Seq(Write), NEW t \in Apply(s, writes),
           t.err = "none", NEW w, Final(w, writes), w.reg \in RegsOf(s.model)
    PROVE  Holds(t, w)
<1>1. PICK k \in 1..Len(writes) :
              /\ writes[k] = w
              /\ \A i \in (k + 1)..Len(writes) : \A b \in w.mask : ~Touches(writes[i], w.reg, b)
      BY DEF Final
<1>2. Typed(writes)
      BY ListTyped
<1>3. writes[k].reg \in RegsOf(s.model)
      BY <1>1
<1>4. \A i \in (k + 1)..Len(writes) : \A b \in writes[k].mask : ~Touches(writes[i], writes[k].reg, b)
      BY <1>1
<1>5. Holds(t, writes[k])
      BY <1>2, <1>3, <1>4, ApplySets
<1>. QED
     BY <1>1, <1>5

(* A list of one write, of two, and of three.                              *)
LEMMA ListOne ==
    ASSUME NEW w \in Write
    PROVE  /\ <<w>> \in Seq(Write) /\ Final(w, <<w>>)
           /\ \A T : (\A b \in w.mask : <<w.reg, b>> \in T) => Covers(T, <<w>>)
           /\ \A v : (\A b \in v.mask : ~Touches(w, v.reg, b)) => Spares(v, <<w>>)
BY DEF Final, Covers, Spares
---------------------------------------------------------------------------
(* FC0012 and FC0013                                                       *)

(* What a calibration, the programming of the PLL, and a tuning write.     *)
FcCalBits == {<<6, 3>>} \cup ({\h0e} \X (0..7))
FcPllBits == ({1, 2, 3, 4, 5, 6, \h0e} \X (0..7)) \cup {<<\h11, 2>>}
FcTuneBits == FcPllBits \cup {<<7, 4>>} \cup ({\h14} \X (5..7)) \cup ({\h1d} \X (2..4))

LEMMA FcModels ==
    ASSUME NEW s, IsFc001x(s)
    PROVE  /\ RegsOf(s.model) = FcRegs(s.model)
           /\ \A r \in 1..\h15 : r \in RegsOf(s.model)
           /\ s.model = "FC0012" \/ s.model = "FC0013"
BY DEF IsFc001x, RegsOf, FcRegs

FcBand(f) == IF f < 300000 THEN 0 ELSE \h40
FcVhf(f) == IF f < 300000 THEN \h10 ELSE 0

LEMMA BandList ==
    ASSUME NEW f
    PROVE  /\ BandWrites(f) \in Seq(Write) /\ Covers(FcTuneBits, BandWrites(f))
           /\ Final(W(7, FcVhf(f), \h10), BandWrites(f))
           /\ Final(W(\h14, FcBand(f), \he0), BandWrites(f))
<1>. DEFINE a == W(\h1d, VhfTrack(f), \h1c)
            b == W(7, FcVhf(f), \h10)
            c == W(\h14, FcBand(f), \he0)
<1>1. BandWrites(f) = <<a, b, c>>
      BY DEF BandWrites, FcVhf, FcBand
<1>2. a \in Write /\ b \in Write /\ c \in Write
      BY WWrite
<1>3. a.reg = \h1d /\ b.reg = 7 /\ c.reg = \h14 /\ a.mask = 2..4 /\ b.mask = {4} /\ c.mask = 5..7
      BY WIs, Masks
<1>. HIDE DEF a, b, c
<1>4. <<a, b, c>> \in Seq(Write)
      BY <1>2
<1>5. Covers(FcTuneBits, <<a, b, c>>)
  <2>1. /\ \A x \in a.mask : <<a.reg, x>> \in FcTuneBits
        /\ \A x \in b.mask : <<b.reg, x>> \in FcTuneBits
        /\ \A x \in c.mask : <<c.reg, x>> \in FcTuneBits
        BY <1>3 DEF FcTuneBits
  <2>. QED
       BY <2>1 DEF Covers
<1>6. Final(b, <<a, b, c>>) /\ Final(c, <<a, b, c>>)
      BY <1>3 DEF Final, Touches
<1>. QED
     BY <1>1, <1>4, <1>5, <1>6 DEF b, c

(* The six registers of the PLL.                                           *)
PllHead(s, f) ==
    LET div == FcDivider(s.model, f)
        vco == f * div[2]
        half == s.xtal \div 2
        reg6 == div[4] + \h20 + BwBits(s.bw) + (IF vco >= VCO_HIGH_THRESH THEN 8 ELSE 0)
    IN  <<Put(1, Reg1(XDiv(vco, half))), Put(2, Reg2(XDiv(vco, half))),
          Put(3, Xin(vco, half) \div 256), Put(4, Xin(vco, half) % 256),
          Put(5, 8 * (div[3] \div 8) + 7), Put(6, reg6)>>

LEMMA PllWritesAre ==
    ASSUME NEW s, NEW f
    PROVE  PllWrites(s, f) =
             PllHead(s, f)
             \o (IF s.model = "FC0013"
                 THEN <<W(\h11, IF FcDivider(s.model, f)[2] = 64 THEN 4 ELSE 0, 4)>> ELSE <<>>)
             \o Recalibrate \o <<Put(\h0e, 0)>>
BY DEF PllWrites, PllHead

LEMMA PllHeadList ==
    ASSUME NEW s, NEW f
    PROVE  /\ PllHead(s, f) \in Seq(Write) /\ Len(PllHead(s, f)) = 6
           /\ \A i \in 1..6 : /\ PllHead(s, f)[i].reg = i /\ PllHead(s, f)[i].mask = 0..7
                              /\ Final(PllHead(s, f)[i], PllHead(s, f))
           /\ Covers(FcPllBits, PllHead(s, f))
<1>. DEFINE div == FcDivider(s.model, f)
            vco == f * div[2]
            half == s.xtal \div 2
            v1 == Reg1(XDiv(vco, half))
            v2 == Reg2(XDiv(vco, half))
            v3 == Xin(vco, half) \div 256
            v4 == Xin(vco, half) % 256
            v5 == 8 * (div[3] \div 8) + 7
            v6 == div[4] + \h20 + BwBits(s.bw) + (IF vco >= VCO_HIGH_THRESH THEN 8 ELSE 0)
            a1 == Put(1, v1)
            a2 == Put(2, v2)
            a3 == Put(3, v3)
            a4 == Put(4, v4)
            a5 == Put(5, v5)
            a6 == Put(6, v6)
            ws == <<a1, a2, a3, a4, a5, a6>>
<1>1. PllHead(s, f) = ws
      BY DEF PllHead
<1>. HIDE DEF v1, v2, v3, v4, v5, v6
<1>2. /\ a1 \in Write /\ a1.reg = 1 /\ a1.mask = 0..7
      /\ a2 \in Write /\ a2.reg = 2 /\ a2.mask = 0..7
      /\ a3 \in Write /\ a3.reg = 3 /\ a3.mask = 0..7
      /\ a4 \in Write /\ a4.reg = 4 /\ a4.mask = 0..7
      /\ a5 \in Write /\ a5.reg = 5 /\ a5.mask = 0..7
      /\ a6 \in Write /\ a6.reg = 6 /\ a6.mask = 0..7
      BY WWrite, PutIs
<1>. HIDE DEF a1, a2, a3, a4, a5, a6
<1>3. ws \in Seq(Write) /\ Len(ws) = 6
      BY <1>2
<1>4. \A i \in 1..6 : ws[i].reg = i /\ ws[i].mask = 0..7
      BY <1>2
<1>. HIDE DEF ws
<1>5. \A i \in 1..6 : Final(ws[i], ws)
      BY <1>3, <1>4 DEF Final, Touches
<1>6. Covers(FcPllBits, ws)
      BY <1>3, <1>4 DEF Covers, FcPllBits
<1>. QED
     BY <1>1, <1>3, <1>4, <1>5, <1>6

LEMMA RecalibrateList ==
    /\ Recalibrate \in Seq(Write) /\ <<Put(\h0e, 0)>> \in Seq(Write)
    /\ Covers(FcPllBits, Recalibrate) /\ Covers(FcPllBits, <<Put(\h0e, 0)>>)
    /\ Covers(FcCalBits, Recalibrate)
    /\ \A w : w.reg # \h0e => Spares(w, Recalibrate) /\ Spares(w, <<Put(\h0e, 0)>>)
<1>. DEFINE a == Put(\h0e, \h80)
            b == Put(\h0e, 0)
<1>1. a \in Write /\ b \in Write /\ a.reg = \h0e /\ b.reg = \h0e /\ a.mask = 0..7 /\ b.mask = 0..7
      BY WWrite, PutIs
<1>2. Recalibrate = <<a, b>>
      BY DEF Recalibrate
<1>. HIDE DEF a, b
<1>3. Recalibrate \in Seq(Write) /\ <<b>> \in Seq(Write)
      BY <1>1, <1>2
<1>4. /\ Covers(FcPllBits, <<a, b>>) /\ Covers(FcPllBits, <<b>>)
      /\ Covers(FcCalBits, <<a, b>>)
  <2>1. /\ \A x \in a.mask : <<a.reg, x>> \in FcPllBits /\ <<a.reg, x>> \in FcCalBits
        /\ \A x \in b.mask : <<b.reg, x>> \in FcPllBits /\ <<b.reg, x>> \in FcCalBits
        BY <1>1 DEF FcPllBits, FcCalBits
  <2>. QED
       BY <2>1 DEF Covers
<1>5. \A w : w.reg # \h0e => Spares(w, <<a, b>>) /\ Spares(w, <<b>>)
      BY <1>1 DEF Spares, Touches
<1>. QED
     BY <1>2, <1>3, <1>4, <1>5 DEF b

LEMMA PllList ==
    ASSUME NEW s, NEW f
    PROVE  /\ PllWrites(s, f) \in Seq(Write) /\ Covers(FcPllBits, PllWrites(s, f))
           /\ \A i \in 1..6 : Final(PllHead(s, f)[i], PllWrites(s, f))
           /\ s.model = "FC0013" =>
                Final(W(\h11, IF FcDivider(s.model, f)[2] = 64 THEN 4 ELSE 0, 4), PllWrites(s, f))
<1>. DEFINE a == PllHead(s, f)
            v == W(\h11, IF FcDivider(s.model, f)[2] = 64 THEN 4 ELSE 0, 4)
            b == IF s.model = "FC0013" THEN <<v>> ELSE <<>>
            c == Recalibrate
            d == <<Put(\h0e, 0)>>
<1>1. PllWrites(s, f) = ((a \o b) \o c) \o d
      BY PllWritesAre
<1>2. v \in Write /\ v.reg = \h11 /\ v.mask = {2}
      BY WWrite, WIs, Masks
<1>3. a \in Seq(Write) /\ b \in Seq(Write) /\ c \in Seq(Write) /\ d \in Seq(Write)
  <2>1. <<v>> \in Seq(Write) /\ <<>> \in Seq(Write)
    <3>. HIDE DEF v
    <3>. QED
         BY <1>2
  <2>. QED
       BY <2>1, PllHeadList, RecalibrateList
<1>4. Covers(FcPllBits, a) /\ Covers(FcPllBits, b) /\ Covers(FcPllBits, c) /\ Covers(FcPllBits, d)
  <2>1. Covers(FcPllBits, <<v>>) /\ Covers(FcPllBits, <<>>)
    <3>1. \A x \in v.mask : <<v.reg, x>> \in FcPllBits
          BY <1>2 DEF FcPllBits
    <3>. HIDE DEF v
    <3>. QED
         BY <3>1 DEF Covers
  <2>. QED
       BY <2>1, PllHeadList, RecalibrateList
<1>5. \A w : w.reg # \h11 => Spares(w, b)
  <2>. HIDE DEF v
  <2>1. \A w : w.reg # \h11 => Spares(w, <<v>>) /\ Spares(w, <<>>)
        BY <1>2 DEF Spares, Touches
  <2>. QED
       BY <2>1
<1>6. s.model = "FC0013" => Final(v, b)
  <2>. HIDE DEF v
  <2>1. Final(v, <<v>>)
        BY <1>2, ListOne
  <2>. QED
       BY <2>1
<1>7. \A w : w.reg # \h0e => Spares(w, c) /\ Spares(w, d)
      BY RecalibrateList
<1>8. \A i \in 1..6 : a[i].reg = i /\ Final(a[i], a)
      BY PllHeadList
<1>. HIDE DEF a, b, c, d, v
<1>9. a \o b \in Seq(Write) /\ (a \o b) \o c \in Seq(Write) /\ ((a \o b) \o c) \o d \in Seq(Write)
      BY <1>3, CatIs
<1>10. Covers(FcPllBits, ((a \o b) \o c) \o d)
  <2>1. Covers(FcPllBits, a \o b)
        BY <1>3, <1>4, CatCovers
  <2>2. Covers(FcPllBits, (a \o b) \o c)
        BY <1>3, <1>4, <1>9, <2>1, CatCovers
  <2>. QED
       BY <1>3, <1>4, <1>9, <2>2, CatCovers
<1>11. ASSUME NEW w, w.reg # \h0e, Final(w, a \o b) PROVE Final(w, ((a \o b) \o c) \o d)
  <2>1. Final(w, (a \o b) \o c)
        BY <1>3, <1>7, <1>9, <1>11, CatFinal
  <2>. QED
       BY <1>3, <1>7, <1>9, <1>11, <2>1, CatFinal
<1>12. ASSUME NEW i \in 1..6 PROVE Final(a[i], ((a \o b) \o c) \o d)
  <2>. DEFINE w == a[i]
  <2>1. Final(w, a) /\ w.reg # \h11 /\ w.reg # \h0e
        BY <1>8
  <2>. HIDE DEF w
  <2>2. Spares(w, b)
        BY <1>5, <2>1
  <2>3. Final(w, a \o b)
        BY <1>3, <2>1, <2>2, CatFinal
  <2>4. Final(w, ((a \o b) \o c) \o d)
        BY <1>11, <2>1, <2>3
  <2>. QED
       BY <2>4 DEF w
<1>13. s.model = "FC0013" => Final(v, ((a \o b) \o c) \o d)
       BY <1>2, <1>3, <1>6, <1>11, CatFinal
<1>. QED
     BY <1>1, <1>9, <1>10, <1>12, <1>13 DEF a, v
(* The programmed tuning, as writes that are in the chip: of the PLL's     *)
(* values v, the output divider's bit, the bandwidth's bits, and on an     *)
(* FC0013 those of the band.                                               *)
FcMarks(model, v, out, bits, vco64, vhf, band) ==
    {Put(1, v[1]), Put(2, v[2]), Put(3, v[3]), Put(4, v[4]), Put(5, v[5]), W(6, out, 2), W(6, bits, \hc0)}
    \cup IF model = "FC0013" THEN {W(\h11, vco64, 4), W(7, vhf, \h10), W(\h14, band, \h40)} ELSE {}

FcMarkBits ==
    ({1, 2, 3, 4, 5} \X (0..7)) \cup {<<6, 1>>, <<6, 6>>, <<6, 7>>, <<\h11, 2>>, <<7, 4>>, <<\h14, 6>>}

FcPll(model, f, xtal) ==
    LET div == FcDivider(model, f)
        vco == f * div[2]
        half == xtal \div 2
    IN  <<Reg1(XDiv(vco, half)), Reg2(XDiv(vco, half)), Xin(vco, half) \div 256,
          Xin(vco, half) % 256, 8 * (div[3] \div 8) + 7>>

FcMarksOf(model, f, xtal, bw) ==
    FcMarks(model, FcPll(model, f, xtal), FcDivider(model, f)[4], BwBits(bw),
            IF FcDivider(model, f)[2] = 64 THEN 4 ELSE 0, FcVhf(f), FcBand(f))

FcProgrammed(s, f, xtal) ==
    /\ s.freq = f
    /\ PllValid(XDiv(f * FcDivider(s.model, f)[2], xtal \div 2))
    /\ \A w \in FcMarksOf(s.model, f, xtal, s.bw) : Holds(s, w)

LEMMA FcMarksIn ==
    ASSUME NEW m, NEW v, NEW n1, NEW n2, NEW n3, NEW n4, NEW n5, NEW w \in FcMarks(m, v, n1, n2, n3, n4, n5)
    PROVE  /\ w \in Write /\ w.reg \in 1..\h15
           /\ \A b \in w.mask : <<w.reg, b>> \in FcMarkBits
<1>. DEFINE a1 == Put(1, v[1])
            a2 == Put(2, v[2])
            a3 == Put(3, v[3])
            a4 == Put(4, v[4])
            a5 == Put(5, v[5])
            a6 == W(6, n1, 2)
            a7 == W(6, n2, \hc0)
            a8 == W(\h11, n3, 4)
            a9 == W(7, n4, \h10)
            aa == W(\h14, n5, \h40)
<1>1. \/ w = a1 \/ w = a2 \/ w = a3 \/ w = a4 \/ w = a5 \/ w = a6 \/ w = a7 \/ w = a8 \/ w = a9 \/ w = aa
      BY DEF FcMarks
<1>2. /\ a1 \in Write /\ a1.reg = 1 /\ a1.mask = 0..7
      /\ a2 \in Write /\ a2.reg = 2 /\ a2.mask = 0..7
      /\ a3 \in Write /\ a3.reg = 3 /\ a3.mask = 0..7
      /\ a4 \in Write /\ a4.reg = 4 /\ a4.mask = 0..7
      /\ a5 \in Write /\ a5.reg = 5 /\ a5.mask = 0..7
      BY WWrite, PutIs
<1>3. /\ a6 \in Write /\ a6.reg = 6 /\ a6.mask = {1}
      /\ a7 \in Write /\ a7.reg = 6 /\ a7.mask = 6..7
      /\ a8 \in Write /\ a8.reg = \h11 /\ a8.mask = {2}
      /\ a9 \in Write /\ a9.reg = 7 /\ a9.mask = {4}
      /\ aa \in Write /\ aa.reg = \h14 /\ aa.mask = {6}
      BY WWrite, WIs, Masks
<1>. HIDE DEF a1, a2, a3, a4, a5, a6, a7, a8, a9, aa
<1>. QED
     BY <1>1, <1>2, <1>3 DEF FcMarkBits

(* Marks stay in the chip under whatever leaves their bits alone.          *)
LEMMA FcProgrammedStays ==
    ASSUME NEW s \in Driver, IsFc001x(s), NEW t, NEW T, Leaves(s, t, T), NEW f, NEW x, FcProgrammed(s, f, x),
           T \cap FcMarkBits = {}
    PROVE  FcProgrammed(t, f, x)
<1>1. t.model = s.model /\ t.freq = s.freq /\ t.bw = s.bw /\ Untouched(s, t, T)
      BY DEF Leaves, Same
<1>2. ASSUME NEW w \in FcMarksOf(s.model, f, x, s.bw) PROVE Holds(t, w)
  <2>1. w \in Write /\ w.reg \in RegsOf(s.model) /\ \A b \in w.mask : <<w.reg, b>> \notin T
        BY FcMarksIn, FcModels DEF FcMarksOf
  <2>2. Holds(s, w) /\ w.mask \in Bits
        BY <2>1 DEF FcProgrammed, Write
  <2>. QED
       BY <1>1, <2>1, <2>2, HoldsStays
<1>. QED
     BY <1>1, <1>2 DEF FcProgrammed

(* The rows of the table: the frequency is below the row's limit, so that  *)
(* the VCO stays below 3.56 GHz where the table was made for it.           *)
FcRow(div, f) ==
    /\ div[2] \in Nat /\ div[2] > 0 /\ div[4] \in {0, 2}
    /\ div[3] \in {\h82, 2, \h42, \h22, \h12, \h0a}
    /\ f <= 890000 => f * div[2] < 3560064

FcLimit == 4294968

LEMMA FcLast ==
    ASSUME NEW model
    PROVE  /\ DOMAIN FcDividers(model) = 1..Len(FcDividers(model)) /\ Len(FcDividers(model)) \in {10, 11}
           /\ FcDividers(model)[Len(FcDividers(model))][1] = FcLimit
           /\ model = "FC0012" => FcDividers(model) = FC0012_DIVIDERS /\ Len(FcDividers(model)) = 10
           /\ model # "FC0012" => FcDividers(model) = FC0013_DIVIDERS /\ Len(FcDividers(model)) = 11
<1>1. /\ Len(FC0012_DIVIDERS) = 10 /\ DOMAIN FC0012_DIVIDERS = 1..10
      /\ FC0012_DIVIDERS[10][1] = FcLimit
      BY SMT DEF FC0012_DIVIDERS, FcLimit
<1>2. /\ Len(FC0013_DIVIDERS) = 11 /\ DOMAIN FC0013_DIVIDERS = 1..11
      /\ FC0013_DIVIDERS[11][1] = FcLimit
      BY SMT DEF FC0013_DIVIDERS, FcLimit
<1>. QED
     BY <1>1, <1>2 DEF FcDividers

LEMMA Fc0012Rows ==
    ASSUME NEW f \in Nat, NEW i \in 1..10, f < FC0012_DIVIDERS[i][1]
    PROVE  FcRow(FC0012_DIVIDERS[i], f)
BY SMT DEF FcRow, FC0012_DIVIDERS

LEMMA Fc0013Rows ==
    ASSUME NEW f \in Nat, NEW i \in 1..11, f < FC0013_DIVIDERS[i][1]
    PROVE  FcRow(FC0013_DIVIDERS[i], f)
BY SMT DEF FcRow, FC0013_DIVIDERS

LEMMA FcRows ==
    ASSUME NEW model, NEW f \in Nat, f < FcLimit
    PROVE  \E i \in DOMAIN FcDividers(model) : FcDivider(model, f) = FcDividers(model)[i]
                                               /\ FcRow(FcDividers(model)[i], f)
<1>. DEFINE table == FcDividers(model)
            S == {i \in DOMAIN table : f < table[i][1] \/ i = Len(table)}
<1>1. /\ DOMAIN table = 1..Len(table) /\ Len(table) \in {10, 11}
      /\ table[Len(table)][1] = FcLimit
      BY FcLast
<1>2. S \in SUBSET (0..11) /\ S # {}
      BY <1>1
<1>3. Min(S) \in S
      BY <1>2, MinOf
<1>. DEFINE i == Min(S)
<1>4. i \in DOMAIN table /\ f < table[i][1]
      BY <1>1, <1>3
<1>5. FcDivider(model, f) = table[i]
      BY DEF FcDivider
<1>. HIDE DEF i, S
<1>6. FcRow(table[i], f)
  <2>1. CASE model = "FC0012"
        BY <1>1, <1>4, <2>1, FcLast, Fc0012Rows
  <2>2. CASE model # "FC0012"
        BY <1>1, <1>4, <2>2, FcLast, Fc0013Rows
  <2>. QED
       BY <2>1, <2>2
<1>. QED
     BY <1>4, <1>5, <1>6

LEMMA Reg6Bits ==
    ASSUME NEW d \in {0, 2}, NEW bits \in {0, 64, 128}, NEW fast \in {0, 8}
    PROVE  /\ 1 \in Byte(d + 32 + bits + fast) <=> 1 \in Byte(d)
           /\ 6 \in Byte(d + 32 + bits + fast) <=> 6 \in Byte(bits)
           /\ 7 \in Byte(d + 32 + bits + fast) <=> 7 \in Byte(bits)
<1>. DEFINE n == d + 32 + bits + fast
<1>1. n \in Int /\ d \in Int /\ bits \in Int
      OBVIOUS
<1>2. /\ (n \div 2) % 2 = 1 <=> (d \div 2) % 2 = 1
      /\ (n \div 64) % 2 = 1 <=> (bits \div 64) % 2 = 1
      /\ (n \div 128) % 2 = 1 <=> (bits \div 128) % 2 = 1
      OBVIOUS
<1>. HIDE DEF n
<1>. QED
     BY <1>1, <1>2, ByteBits DEF n
(* What a list of writes does, and parts of a write that is in the chip.   *)
LEMMA ApplyList ==
    ASSUME NEW s \in Driver, s.err = "none", NEW writes \in Seq(Write), NEW T, Covers(T, writes),
           NEW t \in Apply(s, writes)
    PROVE  /\ Leaves(s, t, T) /\ t \in Driver /\ t.err \in {"none", "usb"}
           /\ t.err = "none" => \A w : Final(w, writes) /\ w.reg \in RegsOf(s.model) => Holds(t, w)
<1>1. Leaves(s, t, T) /\ t.err \in {"none", "usb"}
      BY ListTyped, ApplyLeaves
<1>2. t \in Driver
      BY <1>1 DEF Leaves, Same
<1>3. ASSUME t.err = "none", NEW w, Final(w, writes), w.reg \in RegsOf(s.model) PROVE Holds(t, w)
      BY <1>3, FinalHolds
<1>. QED
     BY <1>1, <1>2, <1>3

LEMMA HoldsPart ==
    ASSUME NEW t, NEW v, Holds(t, v), NEW w, w.reg = v.reg, w.mask \subseteq v.mask,
           \A b \in w.mask : b \in w.val <=> b \in v.val
    PROVE  Holds(t, w)
BY DEF Holds

(* The calibration ...                                                     *)
LEMMA CalList ==
    ASSUME NEW n
    PROVE  /\ <<W(6, n, 8)>> \o Recalibrate \in Seq(Write)
           /\ Covers(FcCalBits, <<W(6, n, 8)>> \o Recalibrate)
<1>. DEFINE a == W(6, n, 8)
<1>1. a \in Write /\ a.reg = 6 /\ a.mask = {3}
      BY WWrite, WIs, Masks
<1>. HIDE DEF a
<1>2. <<a>> \in Seq(Write)
      BY <1>1
<1>3. Covers(FcCalBits, <<a>>)
  <2>1. \A x \in a.mask : <<a.reg, x>> \in FcCalBits
        BY <1>1 DEF FcCalBits
  <2>. QED
       BY <1>1, <2>1, ListOne
<1>. QED
     BY <1>2, <1>3, RecalibrateList, CatIs, CatCovers DEF a

LEMMA FcCalibrated ==
    ASSUME NEW s \in Driver, s.err = "none", NEW t \in FcCalibrateVco(s)
    PROVE  Leaves(s, t, FcCalBits)
<1>1. \/ t \in Read(s) /\ t.err # "none"
      \/ \E u \in Read(s) : /\ u.err = "none"
                            /\ t = u \/ t \in Apply(u, <<W(6, IF 3 \in u.chip[6] THEN 0 ELSE 8, 8)>> \o Recalibrate)
      BY DEF FcCalibrateVco, Then, Succeeded
<1>2. CASE t \in Read(s) /\ t.err # "none"
      BY <1>2, ReadLeaves
<1>3. ASSUME NEW u \in Read(s), u.err = "none",
             t = u \/ t \in Apply(u, <<W(6, IF 3 \in u.chip[6] THEN 0 ELSE 8, 8)>> \o Recalibrate)
      PROVE  Leaves(s, t, FcCalBits)
  <2>1. u = s
        BY <1>3, ReadLeaves
  <2>2. CASE t = u
        BY <2>1, <2>2, LeavesSelf
  <2>3. CASE t \in Apply(u, <<W(6, IF 3 \in u.chip[6] THEN 0 ELSE 8, 8)>> \o Recalibrate)
    <3>. DEFINE n == IF 3 \in u.chip[6] THEN 0 ELSE 8
    <3>. HIDE DEF n
    <3>1. t \in Apply(s, <<W(6, n, 8)>> \o Recalibrate)
          BY <2>1, <2>3 DEF n
    <3>. QED
         BY <3>1, CalList, ApplyList
  <2>. QED
       BY <1>3, <2>2, <2>3
<1>. QED
     BY <1>1, <1>2, <1>3

(* ... leaves the marks alone that the PLL's writes leave.                 *)
LEMMA PllMarks ==
    ASSUME NEW s \in Driver, IsFc001x(s), s.err = "none", NEW f \in Nat, f < FcLimit,
           NEW t \in Apply(s, PllWrites(s, f)), t.err = "none"
    PROVE  LET v == FcPll(s.model, f, s.xtal)
               div == FcDivider(s.model, f)
           IN  /\ Holds(t, Put(1, v[1])) /\ Holds(t, Put(2, v[2])) /\ Holds(t, Put(3, v[3]))
               /\ Holds(t, Put(4, v[4])) /\ Holds(t, Put(5, v[5]))
               /\ Holds(t, W(6, div[4], 2)) /\ Holds(t, W(6, BwBits(s.bw), \hc0))
               /\ s.model = "FC0013" => Holds(t, W(\h11, IF div[2] = 64 THEN 4 ELSE 0, 4))
<1>. DEFINE head == PllHead(s, f)
            div == FcDivider(s.model, f)
            bits == BwBits(s.bw)
            fast == IF f * div[2] >= VCO_HIGH_THRESH THEN 8 ELSE 0
            v64 == W(\h11, IF div[2] = 64 THEN 4 ELSE 0, 4)
            v == FcPll(s.model, f, s.xtal)
            reg6 == div[4] + 32 + bits + fast
<1>1. /\ \A w : Final(w, PllWrites(s, f)) /\ w.reg \in RegsOf(s.model) => Holds(t, w)
      BY PllList, ApplyList
<1>2. \A i \in 1..6 : head[i].reg = i /\ Final(head[i], PllWrites(s, f))
      BY PllList, PllHeadList
<1>3. /\ head[1] = Put(1, v[1]) /\ head[2] = Put(2, v[2]) /\ head[3] = Put(3, v[3])
      /\ head[4] = Put(4, v[4]) /\ head[5] = Put(5, v[5]) /\ head[6] = Put(6, reg6)
      BY DEF PllHead, FcPll
<1>4. div[4] \in {0, 2}
      BY FcRows DEF FcRow
<1>5. bits \in {0, 64, 128} /\ fast \in {0, 8}
      BY DEF BwBits
<1>6. s.model = "FC0013" => Final(v64, PllWrites(s, f)) /\ v64.reg = \h11
      BY PllList, WIs
<1>. HIDE DEF head, div, bits, fast, v64, v
<1>7. \A i \in 1..6 : Holds(t, head[i])
      BY <1>1, <1>2, FcModels
<1>8. Holds(t, Put(6, reg6))
      BY <1>3, <1>7
<1>9. Holds(t, W(6, div[4], 2)) /\ Holds(t, W(6, bits, \hc0))
  <2>0. /\ 1 \in Byte(reg6) <=> 1 \in Byte(div[4])
        /\ 6 \in Byte(reg6) <=> 6 \in Byte(bits)
        /\ 7 \in Byte(reg6) <=> 7 \in Byte(bits)
        BY <1>4, <1>5, Reg6Bits
  <2>. DEFINE a == Put(6, reg6)
              b == W(6, div[4], 2)
              c == W(6, bits, \hc0)
  <2>1. a.reg = 6 /\ a.mask = 0..7 /\ a.val = Byte(reg6)
        BY PutIs
  <2>2. /\ b.reg = 6 /\ b.mask = {1} /\ b.val = Byte(div[4])
        /\ c.reg = 6 /\ c.mask = 6..7 /\ c.val = Byte(bits)
        BY WIs, Masks
  <2>. HIDE DEF a, b, c, reg6
  <2>3. Holds(t, a)
        BY <1>8 DEF a
  <2>4. Holds(t, b)
        BY <2>0, <2>1, <2>2, <2>3, HoldsPart
  <2>5. Holds(t, c)
        BY <2>0, <2>1, <2>2, <2>3, HoldsPart
  <2>. QED
       BY <2>4, <2>5 DEF b, c
<1>10. s.model = "FC0013" => Holds(t, v64)
       BY <1>1, <1>6, FcModels
<1>. QED
     BY <1>3, <1>7, <1>9, <1>10 DEF v, div, bits, v64
(* set_params: whatever fails, it writes the tuning's bits only, and when  *)
(* it succeeds, the chip is programmed.                                    *)
LEMMA FcPllRun ==
    ASSUME NEW s \in Driver, IsFc001x(s), s.err = "none", NEW f \in Nat, f < FcLimit, s.freq = f,
           NEW t \in Then(Apply(s, PllWrites(s, f)), FcCalibrateVco),
           PllValid(XDiv(f * FcDivider(s.model, f)[2], s.xtal \div 2)),
           s.model = "FC0013" => Holds(s, W(7, FcVhf(f), \h10)) /\ Holds(s, W(\h14, FcBand(f), \h40))
    PROVE  Leaves(s, t, FcPllBits) /\ (t.err = "none" => FcProgrammed(t, f, s.xtal))
<1>1. \/ t \in Apply(s, PllWrites(s, f)) /\ t.err # "none"
      \/ \E u \in Apply(s, PllWrites(s, f)) : u.err = "none" /\ t \in FcCalibrateVco(u)
      BY DEF Then, Succeeded
<1>2. CASE t \in Apply(s, PllWrites(s, f)) /\ t.err # "none"
      BY <1>2, PllList, ApplyList
<1>3. ASSUME NEW u \in Apply(s, PllWrites(s, f)), u.err = "none", t \in FcCalibrateVco(u)
      PROVE  Leaves(s, t, FcPllBits) /\ (t.err = "none" => FcProgrammed(t, f, s.xtal))
  <2>1. Leaves(s, u, FcPllBits) /\ u \in Driver
        BY PllList, ApplyList
  <2>2. Leaves(u, t, FcCalBits)
        BY <1>3, <2>1, FcCalibrated
  <2>3. FcCalBits \subseteq FcPllBits /\ FcCalBits \cap FcMarkBits = {}
        BY DEF FcCalBits, FcPllBits, FcMarkBits
  <2>4. Leaves(s, t, FcPllBits)
        BY <2>1, <2>2, <2>3, LeavesMore, LeavesTrans
  <2>5. FcProgrammed(u, f, s.xtal)
    <3>0. u.model = s.model /\ u.freq = s.freq /\ u.bw = s.bw /\ Untouched(s, u, FcPllBits)
          BY <2>1 DEF Leaves, Same
    <3>. DEFINE v == FcPll(s.model, f, s.xtal)
                div == FcDivider(s.model, f)
    <3>1. /\ Holds(u, Put(1, v[1])) /\ Holds(u, Put(2, v[2])) /\ Holds(u, Put(3, v[3]))
          /\ Holds(u, Put(4, v[4])) /\ Holds(u, Put(5, v[5]))
          /\ Holds(u, W(6, div[4], 2)) /\ Holds(u, W(6, BwBits(s.bw), \hc0))
          /\ s.model = "FC0013" => Holds(u, W(\h11, IF div[2] = 64 THEN 4 ELSE 0, 4))
          BY <1>3, PllMarks
    <3>2. s.model = "FC0013" => Holds(u, W(7, FcVhf(f), \h10)) /\ Holds(u, W(\h14, FcBand(f), \h40))
      <4>. DEFINE a == W(7, FcVhf(f), \h10)
                  b == W(\h14, FcBand(f), \h40)
      <4>1. a.reg = 7 /\ a.mask = {4} /\ b.reg = \h14 /\ b.mask = {6} /\ a.mask \in Bits /\ b.mask \in Bits
            BY WIs, Masks
      <4>2. a.reg \in RegsOf(s.model) /\ b.reg \in RegsOf(s.model)
            BY <4>1, FcModels
      <4>. HIDE DEF a, b
      <4>3. /\ \A x \in a.mask : <<a.reg, x>> \notin FcPllBits
            /\ \A x \in b.mask : <<b.reg, x>> \notin FcPllBits
            BY <4>1 DEF FcPllBits
      <4>4. s.model = "FC0013" => Holds(s, a) /\ Holds(s, b)
            BY DEF a, b
      <4>5. Holds(s, a) => Holds(u, a)
            BY <3>0, <4>1, <4>2, <4>3, HoldsStays
      <4>6. Holds(s, b) => Holds(u, b)
            BY <3>0, <4>1, <4>2, <4>3, HoldsStays
      <4>. QED
           BY <4>4, <4>5, <4>6 DEF a, b
    <3>3. \A w \in FcMarksOf(u.model, f, s.xtal, u.bw) : Holds(u, w)
      <4>. HIDE DEF v, div
      <4>1. FcMarksOf(u.model, f, s.xtal, u.bw)
              = FcMarks(s.model, v, div[4], BwBits(s.bw), IF div[2] = 64 THEN 4 ELSE 0, FcVhf(f), FcBand(f))
            BY <3>0 DEF FcMarksOf, v, div
      <4>. DEFINE w1 == Put(1, v[1])
                  w2 == Put(2, v[2])
                  w3 == Put(3, v[3])
                  w4 == Put(4, v[4])
                  w5 == Put(5, v[5])
                  w6 == W(6, div[4], 2)
                  w7 == W(6, BwBits(s.bw), \hc0)
                  w8 == W(\h11, IF div[2] = 64 THEN 4 ELSE 0, 4)
                  w9 == W(7, FcVhf(f), \h10)
                  wa == W(\h14, FcBand(f), \h40)
      <4>2. FcMarks(s.model, v, div[4], BwBits(s.bw), IF div[2] = 64 THEN 4 ELSE 0, FcVhf(f), FcBand(f))
              = {w1, w2, w3, w4, w5, w6, w7} \cup IF s.model = "FC0013" THEN {w8, w9, wa} ELSE {}
            BY DEF FcMarks
      <4>3. /\ Holds(u, w1) /\ Holds(u, w2) /\ Holds(u, w3) /\ Holds(u, w4) /\ Holds(u, w5)
            /\ Holds(u, w6) /\ Holds(u, w7)
            /\ s.model = "FC0013" => Holds(u, w8) /\ Holds(u, w9) /\ Holds(u, wa)
            BY <3>1, <3>2
      <4>. HIDE DEF w1, w2, w3, w4, w5, w6, w7, w8, w9, wa
      <4>. QED
           BY <4>1, <4>2, <4>3
    <3>. QED
         BY <3>0, <3>3 DEF FcProgrammed
  <2>6. IsFc001x(u)
        BY <2>1 DEF Leaves, Same, IsFc001x
  <2>. QED
       BY <2>1, <2>2, <2>3, <2>4, <2>5, <2>6, FcProgrammedStays
<1>. QED
     BY <1>1, <1>2, <1>3

LEMMA FcSetParams ==
    ASSUME NEW s \in Driver, IsFc001x(s), s.err = "none", NEW f \in Nat, f < FcLimit, s.freq = f,
           NEW t \in set_params(s, f)
    PROVE  Leaves(s, t, FcTuneBits) /\ (t.err = "none" => FcProgrammed(t, f, s.xtal))
<1>. DEFINE S == IF s.model = "FC0013" THEN Apply(s, BandWrites(f)) ELSE {s}
            Valid(u) == PllValid(XDiv(f * FcDivider(u.model, f)[2], u.xtal \div 2))
            Run(u) == IF Valid(u) THEN Then(Apply(u, PllWrites(u, f)), FcCalibrateVco) ELSE Refuse(u)
<1>1. \/ t \in S /\ t.err # "none"
      \/ \E u \in S : u.err = "none" /\ t \in Run(u)
  <2>1. set_params(s, f) = (S \ Succeeded(S)) \cup UNION {Run(u) : u \in Succeeded(S)}
        BY DEF set_params, Then
  <2>. HIDE DEF S, Run
  <2>. QED
       BY <2>1 DEF Succeeded
<1>2. FcPllBits \subseteq FcTuneBits
      BY DEF FcTuneBits
<1>3. ASSUME NEW u \in S
      PROVE  /\ Leaves(s, u, FcTuneBits) /\ u \in Driver
             /\ u.err = "none" /\ s.model = "FC0013" =>
                   Holds(u, W(7, FcVhf(f), \h10)) /\ Holds(u, W(\h14, FcBand(f), \h40))
  <2>1. CASE s.model # "FC0013"
        BY <2>1, LeavesSelf
  <2>2. CASE s.model = "FC0013"
    <3>1. u \in Apply(s, BandWrites(f))
          BY <2>2
    <3>2. /\ Leaves(s, u, FcTuneBits) /\ u \in Driver
          /\ u.err = "none" => \A w : Final(w, BandWrites(f)) /\ w.reg \in RegsOf(s.model) => Holds(u, w)
          BY <3>1, BandList, ApplyList
    <3>. DEFINE a == W(7, FcVhf(f), \h10)
                b == W(\h14, FcBand(f), \he0)
                c == W(\h14, FcBand(f), \h40)
    <3>3. /\ a.reg = 7 /\ b.reg = \h14 /\ b.mask = 5..7 /\ c.reg = \h14 /\ c.mask = {6} /\ b.val = c.val
          BY WIs, Masks
    <3>4. Final(a, BandWrites(f)) /\ Final(b, BandWrites(f))
          BY BandList
    <3>. HIDE DEF a, b, c
    <3>5. u.err = "none" => Holds(u, a) /\ Holds(u, b)
          BY <3>2, <3>3, <3>4, FcModels
    <3>6. u.err = "none" => Holds(u, c)
          BY <3>3, <3>5, HoldsPart
    <3>. QED
         BY <3>2, <3>5, <3>6 DEF a, c
  <2>. QED
       BY <2>1, <2>2
<1>. HIDE DEF S
<1>4. CASE t \in S /\ t.err # "none"
      BY <1>3, <1>4
<1>5. ASSUME NEW u \in S, u.err = "none", t \in Run(u)
      PROVE  Leaves(s, t, FcTuneBits) /\ (t.err = "none" => FcProgrammed(t, f, s.xtal))
  <2>1. Leaves(s, u, FcTuneBits) /\ u \in Driver
        BY <1>3
  <2>2. u.model = s.model /\ u.freq = f /\ u.xtal = s.xtal /\ IsFc001x(u)
        BY <2>1 DEF Leaves, Same, IsFc001x
  <2>3. CASE Valid(u)
    <3>1. t \in Then(Apply(u, PllWrites(u, f)), FcCalibrateVco)
          BY <1>5, <2>3
    <3>2. s.model = "FC0013" => Holds(u, W(7, FcVhf(f), \h10)) /\ Holds(u, W(\h14, FcBand(f), \h40))
          BY <1>3, <1>5
    <3>3. Leaves(u, t, FcPllBits) /\ (t.err = "none" => FcProgrammed(t, f, u.xtal))
          BY <1>5, <2>1, <2>2, <2>3, <3>1, <3>2, FcPllRun
    <3>. QED
         BY <1>2, <2>1, <2>2, <3>3, LeavesMore, LeavesTrans
  <2>4. CASE ~Valid(u)
    <3>1. t \in Refuse(u)
          BY <1>5, <2>4
    <3>. QED
         BY <2>1, <3>1, RefuseLeaves, LeavesTrans
  <2>. QED
       BY <2>3, <2>4
<1>. QED
     BY <1>1, <1>4, <1>5
---------------------------------------------------------------------------
(* The bits of a setting: the calls for the setting write no others.       *)
GainBits(model) ==
    CASE model = "FC0012" -> {\h13} \X (0..4)
      [] model = "FC0013" -> {\h14} \X (0..4)
      [] model = "E4000" -> ({GAIN1} \X (0..3)) \cup {<<GAIN2, 0>>}
      [] OTHER -> {}
ModeBits(model) ==
    CASE model = "FC0012" -> {\h0d} \X (0..7)
      [] model = "FC0013" -> {<<\h0d, 3>>} \cup ({\h13} \X (0..7))
      [] model = "E4000" -> ({AGC1} \X (0..3)) \cup {<<AGC7, 0>>} \cup ({AGC11} \X (0..2))
      [] OTHER -> {}
WidthBits(model) ==
    CASE model = "E4000" -> ({FILT2} \X (0..7)) \cup ({FILT3} \X (0..4))
      [] model = "FC2580" -> {\h36, \h37, \h39, \h2e} \X (0..7)
      [] OTHER -> {}
ExitBits(model) ==
    CASE model \in {"FC0012", "FC0013"} -> {<<6, 0>>}
      [] model = "E4000" -> {<<MASTER1, 1>>}
      [] OTHER -> {}
AnyBits == Nat \X (0..7)

(* What the setting leaves in the chip, as the writes that do it.          *)
GainMarks(model, g) ==
    CASE model = "FC0012" -> {W(\h13, FC0012_LNA(g), \h1f)}
      [] model = "FC0013" -> {W(\h14, FC0013_LNA(g), \h1f)}
      [] model = "E4000" ->
           LET gains == [i \in DOMAIN E4K_LNA_GAIN |-> E4K_LNA_GAIN[i][1]]
               lna == Closest(gains, Min({g - 10 * MixerGain(g), 300}))
           IN  {W(GAIN1, E4K_LNA_GAIN[lna + 1][2], \h0f), W(GAIN2, IF MixerGain(g) = 12 THEN 1 ELSE 0, 1)}
      [] OTHER -> {}
ModeMarks(model, manual) ==
    CASE model = "FC0012" -> {Put(\h0d, IF manual THEN 2 ELSE 0)}
      [] model = "FC0013" -> {W(\h0d, IF manual THEN 8 ELSE 0, 8)}
      [] model = "E4000" -> {W(AGC1, IF manual THEN 0 ELSE 9, \h0f), W(AGC7, IF manual THEN 0 ELSE 1, 1)}
      [] OTHER -> {}
WidthMarks(model, b) ==
    CASE model = "E4000" -> {MixFilter(b[1]), RcFilter(b[1]), ChanFilter(b[1])}
      [] model = "FC2580" -> {FilterWrites(b[1], b[2])[i] : i \in 1..3}
      [] OTHER -> {}

InChip(s, marks) == \A w \in marks : Holds(s, w)
MarksIn(marks, model, bits) ==
    \A w \in marks : w \in Write /\ w.reg \in RegsOf(model) /\ \A b \in w.mask : <<w.reg, b>> \in bits

LEMMA InChipStays ==
    ASSUME NEW s, NEW t, NEW T, Leaves(s, t, T), NEW marks, NEW bits, MarksIn(marks, s.model, bits),
           InChip(s, marks), T \cap bits = {}
    PROVE  InChip(t, marks)
<1>1. ASSUME NEW w \in marks PROVE Holds(t, w)
  <2>1. w \in Write /\ w.reg \in RegsOf(s.model) /\ \A b \in w.mask : <<w.reg, b>> \notin T
        BY DEF MarksIn
  <2>. QED
       BY <2>1, HoldsStays DEF Write, InChip, Leaves
<1>. QED
     BY <1>1 DEF InChip

LEMMA AnyCovers ==
    ASSUME NEW writes \in Seq(Write) PROVE Covers(AnyBits, writes)
<1>1. \A i \in 1..Len(writes) : writes[i] \in Write
      OBVIOUS
<1>. QED
     BY <1>1 DEF Covers, AnyBits, Write, Bits

(* A list of one write, and of two or three to different bits.             *)
LEMMA DoesOne ==
    ASSUME NEW s \in Driver, s.err = "none", NEW a \in Write, NEW t \in Apply(s, <<a>>),
           NEW bits, MarksIn({a}, s.model, bits)
    PROVE  Leaves(s, t, bits) /\ (t.err = "none" => InChip(t, {a}))
<1>1. <<a>> \in Seq(Write) /\ Covers(bits, <<a>>) /\ Final(a, <<a>>) /\ a.reg \in RegsOf(s.model)
      BY ListOne DEF MarksIn
<1>. QED
     BY <1>1, ApplyList DEF InChip

Apart(a, b) == \A x \in a.mask : ~Touches(b, a.reg, x)

LEMMA DoesTwo ==
    ASSUME NEW s \in Driver, s.err = "none", NEW a \in Write, NEW b \in Write, Apart(a, b),
           NEW t \in Apply(s, <<a, b>>), NEW bits, MarksIn({a, b}, s.model, bits)
    PROVE  Leaves(s, t, bits) /\ (t.err = "none" => InChip(t, {a, b}))
<1>1. <<a, b>> \in Seq(Write) /\ a.reg \in RegsOf(s.model) /\ b.reg \in RegsOf(s.model)
      BY DEF MarksIn
<1>2. Covers(bits, <<a, b>>)
      BY DEF Covers, MarksIn
<1>3. Final(a, <<a, b>>) /\ Final(b, <<a, b>>)
      BY DEF Final, Apart
<1>. QED
     BY <1>1, <1>2, <1>3, ApplyList DEF InChip

LEMMA DoesThree ==
    ASSUME NEW s \in Driver, s.err = "none", NEW a \in Write, NEW b \in Write, NEW c \in Write,
           Apart(a, b), Apart(a, c), Apart(b, c),
           NEW t \in Apply(s, <<a, b, c>>), NEW bits, MarksIn({a, b, c}, s.model, bits)
    PROVE  Leaves(s, t, bits) /\ (t.err = "none" => InChip(t, {a, b, c}))
<1>1. <<a, b, c>> \in Seq(Write) /\ a.reg \in RegsOf(s.model) /\ b.reg \in RegsOf(s.model) /\ c.reg \in RegsOf(s.model)
      BY DEF MarksIn
<1>2. Covers(bits, <<a, b, c>>)
      BY DEF Covers, MarksIn
<1>3. Final(a, <<a, b, c>>) /\ Final(b, <<a, b, c>>) /\ Final(c, <<a, b, c>>)
      BY DEF Final, Apart
<1>. QED
     BY <1>1, <1>2, <1>3, ApplyList DEF InChip

---------------------------------------------------------------------------
(* The other calls of the FC001x.                                          *)
LEMMA FcSetFreq ==
    ASSUME NEW s \in Driver, IsFc001x(s), s.err = "none", NEW f \in Nat, f < FcLimit, NEW t \in fc_set_freq(s, f)
    PROVE  /\ t \in Driver /\ t.model = s.model /\ t.xtal = s.xtal /\ t.freq = f /\ t.bw = s.bw
           /\ t.faults <= s.faults /\ Untouched(s, t, FcTuneBits)
           /\ t.err = "none" => FcProgrammed(t, f, s.xtal)
<1>. DEFINE u == [s EXCEPT !.freq = f]
<1>1. /\ u \in Driver /\ u.model = s.model /\ u.chip = s.chip /\ u.xtal = s.xtal /\ u.freq = f /\ u.bw = s.bw
      /\ u.faults = s.faults /\ u.err = "none"
      BY DriverChanged, DriverType
<1>2. t \in set_params(u, f) /\ IsFc001x(u)
      BY <1>1 DEF fc_set_freq, IsFc001x
<1>. HIDE DEF u
<1>3. Leaves(u, t, FcTuneBits) /\ (t.err = "none" => FcProgrammed(t, f, u.xtal))
      BY <1>1, <1>2, FcSetParams
<1>. QED
     BY <1>1, <1>3 DEF Leaves, Same, Untouched

LEMMA FcSetBw ==
    ASSUME NEW s \in Driver, IsFc001x(s), s.err = "none", NEW b \in Nat, s.freq < FcLimit, NEW t \in fc_set_bw(s, b)
    PROVE  /\ t \in Driver /\ t.model = s.model /\ t.xtal = s.xtal /\ t.freq = s.freq /\ t.bw = b
           /\ t.faults <= s.faults /\ Untouched(s, t, FcTuneBits)
           /\ t.err = "none" /\ s.freq # 0 => FcProgrammed(t, s.freq, s.xtal)
<1>. DEFINE u == [s EXCEPT !.bw = b]
<1>1. /\ u \in Driver /\ u.model = s.model /\ u.chip = s.chip /\ u.xtal = s.xtal /\ u.freq = s.freq /\ u.bw = b
      /\ u.faults = s.faults /\ u.err = "none"
      BY DriverChanged, DriverType
<1>2. IsFc001x(u) /\ s.freq \in Nat
      BY <1>1, DriverType DEF IsFc001x
<1>3. t \in IF s.freq > 0 THEN set_params(u, s.freq) ELSE {u}
      BY DEF fc_set_bw
<1>. HIDE DEF u
<1>4. CASE s.freq > 0
  <2>1. Leaves(u, t, FcTuneBits) /\ (t.err = "none" => FcProgrammed(t, s.freq, u.xtal))
        BY <1>1, <1>2, <1>3, <1>4, FcSetParams
  <2>. QED
       BY <1>1, <2>1 DEF Leaves, Same, Untouched
<1>5. CASE s.freq = 0
  <2>1. t = u
        BY <1>3, <1>5
  <2>. QED
       BY <1>1, <1>5, <2>1, DriverType DEF Untouched, Agree
<1>. QED
     BY <1>2, <1>4, <1>5

LEMMA FcGain ==
    ASSUME NEW s \in Driver, IsFc001x(s), s.err = "none", NEW g, NEW t \in fc_set_gain(s, g)
    PROVE  Leaves(s, t, GainBits(s.model)) /\ (t.err = "none" => InChip(t, GainMarks(s.model, g)))
<1>. DEFINE a == W(\h13, FC0012_LNA(g), \h1f)
            b == W(\h14, FC0013_LNA(g), \h1f)
<1>1. a \in Write /\ b \in Write /\ a.reg = \h13 /\ b.reg = \h14 /\ a.mask = 0..4 /\ b.mask = 0..4
      BY WWrite, WIs, Masks
<1>2. CASE s.model = "FC0012"
  <2>1. t \in Apply(s, <<a>>) /\ GainMarks(s.model, g) = {a} /\ GainBits(s.model) = {\h13} \X (0..4)
        BY <1>2 DEF fc_set_gain, GainMarks, GainBits
  <2>. HIDE DEF a, b
  <2>2. MarksIn({a}, s.model, GainBits(s.model))
        BY <1>1, <2>1, FcModels DEF MarksIn
  <2>. QED
       BY <1>1, <2>1, <2>2, DoesOne
<1>3. CASE s.model = "FC0013"
  <2>1. t \in Apply(s, <<b>>) /\ GainMarks(s.model, g) = {b} /\ GainBits(s.model) = {\h14} \X (0..4)
        BY <1>3 DEF fc_set_gain, GainMarks, GainBits
  <2>. HIDE DEF a, b
  <2>2. MarksIn({b}, s.model, GainBits(s.model))
        BY <1>1, <2>1, FcModels DEF MarksIn
  <2>. QED
       BY <1>1, <2>1, <2>2, DoesOne
<1>. QED
     BY <1>2, <1>3, FcModels

LEMMA FcMode ==
    ASSUME NEW s \in Driver, IsFc001x(s), s.err = "none", NEW m \in BOOLEAN, NEW t \in fc_set_gain_mode(s, m)
    PROVE  Leaves(s, t, ModeBits(s.model)) /\ (t.err = "none" => InChip(t, ModeMarks(s.model, m)))
<1>. DEFINE a == Put(\h0d, IF m THEN 2 ELSE 0)
            b == W(\h0d, IF m THEN 8 ELSE 0, 8)
            c == Put(\h13, \h0a)
<1>1. /\ a \in Write /\ b \in Write /\ c \in Write
      /\ a.reg = \h0d /\ b.reg = \h0d /\ c.reg = \h13 /\ a.mask = 0..7 /\ b.mask = {3} /\ c.mask = 0..7
  <2>1. a \in Write /\ a.reg = \h0d /\ a.mask = 0..7
        BY WWrite, PutIs
  <2>2. b \in Write /\ b.reg = \h0d /\ b.mask = {3}
        BY WWrite, WIs, Masks
  <2>3. c \in Write /\ c.reg = \h13 /\ c.mask = 0..7
        BY WWrite, PutIs
  <2>. QED
       BY <2>1, <2>2, <2>3
<1>2. CASE s.model = "FC0012"
  <2>1. t \in Apply(s, <<a>>) /\ ModeMarks(s.model, m) = {a} /\ ModeBits(s.model) = {\h0d} \X (0..7)
        BY <1>2 DEF fc_set_gain_mode, ModeMarks, ModeBits
  <2>. HIDE DEF a, b, c
  <2>2. MarksIn({a}, s.model, ModeBits(s.model))
        BY <1>1, <2>1, FcModels DEF MarksIn
  <2>. QED
       BY <1>1, <2>1, <2>2, DoesOne
<1>3. CASE s.model = "FC0013"
  <2>1. /\ t \in Apply(s, <<b, c>>) /\ ModeMarks(s.model, m) = {b}
        /\ ModeBits(s.model) = {<<\h0d, 3>>} \cup ({\h13} \X (0..7))
        BY <1>3 DEF fc_set_gain_mode, ModeMarks, ModeBits
  <2>. HIDE DEF a, b, c
  <2>2. MarksIn({b, c}, s.model, ModeBits(s.model))
        BY <1>1, <2>1, FcModels DEF MarksIn
  <2>3. Apart(b, c)
        BY <1>1 DEF Apart, Touches
  <2>4. Leaves(s, t, ModeBits(s.model)) /\ (t.err = "none" => InChip(t, {b, c}))
        BY <1>1, <2>1, <2>2, <2>3, DoesTwo
  <2>. QED
       BY <2>1, <2>4 DEF InChip
<1>. QED
     BY <1>2, <1>3, FcModels

LEMMA FcExit ==
    ASSUME NEW s \in Driver, IsFc001x(s), s.err = "none", NEW t \in fc_exit(s)
    PROVE  Leaves(s, t, ExitBits(s.model))
<1>. DEFINE a == W(6, 1, 1)
<1>1. a \in Write /\ a.reg = 6 /\ a.mask = {0}
      BY WWrite, WIs, Masks
<1>2. t \in Apply(s, <<a>>) /\ ExitBits(s.model) = {<<6, 0>>}
      BY FcModels DEF fc_exit, ExitBits
<1>. HIDE DEF a
<1>3. MarksIn({a}, s.model, ExitBits(s.model))
      BY <1>1, <1>2, FcModels DEF MarksIn
<1>. QED
     BY <1>1, <1>2, <1>3, DoesOne

LEMMA FcInit ==
    ASSUME NEW s \in Driver, IsFc001x(s), s.err = "none", NEW t \in fc_init(s)
    PROVE  Leaves(s, t, AnyBits)
<1>. DEFINE table == IF s.model = "FC0012" THEN FC0012_INIT ELSE FC0013_INIT
            writes == [r \in 1..\h15 |-> Put(r, table[r])]
<1>1. t \in Apply(s, writes)
      BY DEF fc_init
<1>2. \A r \in 1..\h15 : Put(r, table[r]) \in Write
      BY WWrite
<1>3. writes \in Seq(Write)
  <2>. HIDE DEF table
  <2>. QED
       BY <1>2
<1>. HIDE DEF writes
<1>. QED
     BY <1>1, <1>3, AnyCovers, ApplyList
---------------------------------------------------------------------------
(* E4000                                                                   *)

E4kFreqBits ==
    ({SYNTH3, SYNTH4, SYNTH5, SYNTH7, BIAS} \X (0..7)) \cup ({SYNTH1} \X (1..2)) \cup ({FILT1} \X (0..3))

E4kMarks(f, xtal) ==
    LET band == E4kBand(f, xtal)
        x == E4kX(f, xtal)[1]
    IN  {Put(SYNTH7, PllVar(f)[2]), Put(SYNTH3, E4kZ(f, xtal)), Put(SYNTH4, x % 256),
         Put(SYNTH5, x \div 256), Put(BIAS, IF band = 3 THEN 0 ELSE 3), W(SYNTH1, 2 * band, 6),
         W(FILT1, RfFilter(f, band), \h0f)}

E4kProgrammed(s, f, xtal) == E4kPllValid(f, xtal) /\ InChip(s, E4kMarks(f, xtal))

LEMMA E4kModel ==
    ASSUME NEW s, s.model = "E4000"
    PROVE  /\ RegsOf(s.model) = E4kRegs /\ ~IsFc001x(s)
           /\ \A r \in {SYNTH1, SYNTH3, SYNTH4, SYNTH5, SYNTH7, BIAS, FILT1, FILT2, FILT3} : r \in E4kRegs /\ r \in Nat
           /\ \A r \in {GAIN1, GAIN2, GAIN3, GAIN4, AGC1, AGC7, AGC11, MASTER1} : r \in E4kRegs /\ r \in Nat
<1>1. RegsOf(s.model) = E4kRegs /\ ~IsFc001x(s)
      BY DEF RegsOf, IsFc001x
<1>2. \A r \in {SYNTH1, SYNTH3, SYNTH4, SYNTH5, SYNTH7, BIAS, FILT1, FILT2, FILT3} : r \in E4kRegs
      BY DEF E4kRegs
<1>3. \A r \in {GAIN1, GAIN2, GAIN3, GAIN4, AGC1, AGC7, AGC11, MASTER1} : r \in E4kRegs
      BY DEF E4kRegs
<1>4. \A r \in {SYNTH1, SYNTH3, SYNTH4, SYNTH5, SYNTH7, BIAS, FILT1, FILT2, FILT3} : r \in Nat
      BY DEF SYNTH1, SYNTH3, SYNTH4, SYNTH5, SYNTH7, BIAS, FILT1, FILT2, FILT3
<1>5. \A r \in {GAIN1, GAIN2, GAIN3, GAIN4, AGC1, AGC7, AGC11, MASTER1} : r \in Nat
      BY DEF GAIN1, GAIN2, GAIN3, GAIN4, AGC1, AGC7, AGC11, MASTER1
<1>. QED
     BY <1>1, <1>2, <1>3, <1>4, <1>5

LEMMA E4kGainCall ==
    ASSUME NEW s \in Driver, s.model = "E4000", s.err = "none", NEW g, NEW t \in e4k_set_gain(s, g)
    PROVE  Leaves(s, t, GainBits(s.model)) /\ (t.err = "none" => InChip(t, GainMarks(s.model, g)))
<1>. DEFINE gains == [i \in DOMAIN E4K_LNA_GAIN |-> E4K_LNA_GAIN[i][1]]
            lna == Closest(gains, Min({g - 10 * MixerGain(g), 300}))
            n == E4K_LNA_GAIN[lna + 1][2]
            k == IF MixerGain(g) = 12 THEN 1 ELSE 0
            a == W(GAIN1, n, \h0f)
            b == W(GAIN2, k, 1)
<1>1. /\ t \in Apply(s, <<a, b>>) /\ GainMarks(s.model, g) = {a, b}
      /\ GainBits(s.model) = ({GAIN1} \X (0..3)) \cup {<<GAIN2, 0>>}
      BY DEF e4k_set_gain, GainMarks, GainBits
<1>. HIDE DEF n, k
<1>2. a \in Write /\ b \in Write /\ a.reg = GAIN1 /\ b.reg = GAIN2 /\ a.mask = 0..3 /\ b.mask = {0}
      BY WWrite, WIs, Masks, E4kModel
<1>. HIDE DEF a, b
<1>3. MarksIn({a, b}, s.model, GainBits(s.model))
      BY <1>1, <1>2, E4kModel DEF MarksIn
<1>4. Apart(a, b)
      BY <1>2 DEF Apart, Touches, GAIN1, GAIN2
<1>. HIDE DEF gains, lna
<1>5. Leaves(s, t, GainBits(s.model)) /\ (t.err = "none" => InChip(t, {a, b}))
      BY <1>1, <1>2, <1>3, <1>4, DoesTwo
<1>. QED
     BY <1>1, <1>5

LEMMA E4kMode ==
    ASSUME NEW s \in Driver, s.model = "E4000", s.err = "none", NEW m \in BOOLEAN, NEW t \in e4k_set_gain_mode(s, m)
    PROVE  Leaves(s, t, ModeBits(s.model)) /\ (t.err = "none" => InChip(t, ModeMarks(s.model, m)))
<1>. DEFINE a(n) == W(AGC1, n, \h0f)
            b(n) == W(AGC7, n, 1)
            c == W(AGC11, 0, 7)
            bits == ({AGC1} \X (0..3)) \cup {<<AGC7, 0>>} \cup ({AGC11} \X (0..2))
<1>1. ModeBits(s.model) = bits
      BY DEF ModeBits
<1>2. \A n : a(n) \in Write /\ b(n) \in Write /\ a(n).reg = AGC1 /\ b(n).reg = AGC7 /\ a(n).mask = 0..3 /\ b(n).mask = {0}
      BY WWrite, WIs, Masks, E4kModel
<1>3. c \in Write /\ c.reg = AGC11 /\ c.mask = 0..2
      BY WWrite, WIs, Masks, E4kModel
<1>4. \A n, k : Apart(a(n), b(k)) /\ Apart(a(n), c) /\ Apart(b(k), c)
      BY <1>2, <1>3 DEF Apart, Touches, AGC1, AGC7, AGC11
<1>5. CASE m
  <2>1. t \in Apply(s, <<a(0), b(0)>>) /\ ModeMarks(s.model, m) = {a(0), b(0)}
        BY <1>5 DEF e4k_set_gain_mode, ManualGain, ModeMarks
  <2>. DEFINE x == a(0)
              y == b(0)
  <2>2. x \in Write /\ y \in Write /\ Apart(x, y) /\ x.reg = AGC1 /\ y.reg = AGC7 /\ x.mask = 0..3 /\ y.mask = {0}
        BY <1>2, <1>4
  <2>. HIDE DEF x, y
  <2>3. MarksIn({x, y}, s.model, bits)
        BY <2>2, E4kModel DEF MarksIn
  <2>. HIDE DEF bits
  <2>4. t \in Apply(s, <<x, y>>) /\ ModeMarks(s.model, m) = {x, y}
        BY <2>1 DEF x, y
  <2>. QED
       BY <1>1, <2>2, <2>3, <2>4, DoesTwo
<1>6. CASE ~m
  <2>1. t \in Apply(s, <<a(9), b(1), c>>) /\ ModeMarks(s.model, m) = {a(9), b(1)}
        BY <1>6 DEF e4k_set_gain_mode, ManualGain, ModeMarks
  <2>. DEFINE x == a(9)
              y == b(1)
  <2>2. /\ x \in Write /\ y \in Write /\ Apart(x, y) /\ x.reg = AGC1 /\ y.reg = AGC7 /\ x.mask = 0..3 /\ y.mask = {0}
        /\ Apart(x, c) /\ Apart(y, c)
        BY <1>2, <1>4
  <2>. HIDE DEF x, y, c
  <2>3. MarksIn({x, y, c}, s.model, bits)
        BY <1>3, <2>2, E4kModel DEF MarksIn
  <2>. HIDE DEF bits
  <2>4. t \in Apply(s, <<x, y, c>>) /\ ModeMarks(s.model, m) = {x, y}
        BY <2>1 DEF x, y
  <2>5. Leaves(s, t, bits) /\ (t.err = "none" => InChip(t, {x, y, c}))
        BY <1>3, <2>2, <2>3, <2>4, DoesThree
  <2>. QED
       BY <1>1, <2>4, <2>5 DEF InChip
<1>. QED
     BY <1>5, <1>6

LEMMA FilterWritesAre ==
    ASSUME NEW bw
    PROVE  LET a == MixFilter(bw)
               b == RcFilter(bw)
               c == ChanFilter(bw)
           IN  /\ a \in Write /\ b \in Write /\ c \in Write
               /\ a.reg = FILT2 /\ b.reg = FILT2 /\ c.reg = FILT3
               /\ a.mask = 4..7 /\ b.mask = 0..3 /\ c.mask = 0..4
               /\ a.val = Byte(16 * Closest(MIX_FILTER_BW, bw)) /\ b.val = Byte(Closest(IFRC_FILTER_BW, bw))
               /\ c.val = Byte(Closest(IFCH_FILTER_BW, bw))
<1>. DEFINE x == 16 * Closest(MIX_FILTER_BW, bw)
            y == Closest(IFRC_FILTER_BW, bw)
            z == Closest(IFCH_FILTER_BW, bw)
<1>1. FILT2 \in Nat /\ FILT3 \in Nat
      BY DEF FILT2, FILT3
<1>2. MixFilter(bw) = W(FILT2, x, \hf0) /\ RcFilter(bw) = W(FILT2, y, \h0f) /\ ChanFilter(bw) = W(FILT3, z, \h1f)
      BY DEF MixFilter, RcFilter, ChanFilter
<1>. HIDE DEF x, y, z
<1>3. W(FILT2, x, \hf0) \in Write /\ W(FILT2, y, \h0f) \in Write /\ W(FILT3, z, \h1f) \in Write
      BY <1>1, WWrite
<1>4. /\ W(FILT2, x, \hf0).reg = FILT2 /\ W(FILT2, x, \hf0).mask = 4..7 /\ W(FILT2, x, \hf0).val = Byte(x)
      /\ W(FILT2, y, \h0f).reg = FILT2 /\ W(FILT2, y, \h0f).mask = 0..3 /\ W(FILT2, y, \h0f).val = Byte(y)
      /\ W(FILT3, z, \h1f).reg = FILT3 /\ W(FILT3, z, \h1f).mask = 0..4 /\ W(FILT3, z, \h1f).val = Byte(z)
      BY WIs, Masks
<1>. QED
     BY <1>2, <1>3, <1>4 DEF x, y, z

LEMMA E4kMarksWidth ==
    ASSUME NEW s, s.model = "E4000", NEW b
    PROVE  MarksIn({MixFilter(b), RcFilter(b), ChanFilter(b)}, s.model, WidthBits(s.model))
<1>1. WidthBits(s.model) = ({FILT2} \X (0..7)) \cup ({FILT3} \X (0..4))
      BY DEF WidthBits
<1>. QED
     BY <1>1, FilterWritesAre, E4kModel DEF MarksIn

LEMMA E4kSetBw ==
    ASSUME NEW s \in Driver, s.model = "E4000", s.err = "none", NEW b, NEW t \in e4k_set_bw(s, b)
    PROVE  Leaves(s, t, WidthBits(s.model)) /\ (t.err = "none" => InChip(t, WidthMarks(s.model, <<b, 0>>)))
<1>. DEFINE x == MixFilter(b)
            y == RcFilter(b)
            z == ChanFilter(b)
<1>1. t \in Apply(s, <<x, y, z>>) /\ WidthMarks(s.model, <<b, 0>>) = {x, y, z}
      BY DEF e4k_set_bw, WidthMarks
<1>2. x \in Write /\ y \in Write /\ z \in Write /\ Apart(x, y) /\ Apart(x, z) /\ Apart(y, z)
      BY FilterWritesAre DEF Apart, Touches, FILT2, FILT3
<1>3. MarksIn({x, y, z}, s.model, WidthBits(s.model))
      BY E4kMarksWidth
<1>. HIDE DEF x, y, z
<1>. QED
     BY <1>1, <1>2, <1>3, DoesThree
(* The tuning's list of writes: only the first of the two to SYNTH1 is     *)
(* not final.                                                              *)
LEMMA E4kTuneList ==
    ASSUME NEW n1, NEW n2, NEW n3, NEW n4, NEW n5, NEW n6, NEW n7
    PROVE  LET writes == <<Put(SYNTH7, n1), Put(SYNTH3, n2), Put(SYNTH4, n3), Put(SYNTH5, n4), Put(BIAS, n5),
                           W(SYNTH1, 0, 6), W(SYNTH1, n6, 6), W(FILT1, n7, \h0f)>>
               marks == {Put(SYNTH7, n1), Put(SYNTH3, n2), Put(SYNTH4, n3), Put(SYNTH5, n4), Put(BIAS, n5),
                         W(SYNTH1, n6, 6), W(FILT1, n7, \h0f)}
           IN  /\ writes \in Seq(Write) /\ Covers(E4kFreqBits, writes)
               /\ \A w \in marks : Final(w, writes)
               /\ \A s : s.model = "E4000" => MarksIn(marks, s.model, E4kFreqBits)
<1>. DEFINE a1 == Put(SYNTH7, n1)
            a2 == Put(SYNTH3, n2)
            a3 == Put(SYNTH4, n3)
            a4 == Put(SYNTH5, n4)
            a5 == Put(BIAS, n5)
            a6 == W(SYNTH1, 0, 6)
            a7 == W(SYNTH1, n6, 6)
            a8 == W(FILT1, n7, \h0f)
            writes == <<a1, a2, a3, a4, a5, a6, a7, a8>>
            marks == {a1, a2, a3, a4, a5, a7, a8}
<1>1. /\ SYNTH7 = 13 /\ SYNTH3 = 9 /\ SYNTH4 = 10 /\ SYNTH5 = 11 /\ BIAS = 120 /\ SYNTH1 = 7 /\ FILT1 = 16
      BY DEF SYNTH1, SYNTH3, SYNTH4, SYNTH5, SYNTH7, BIAS, FILT1
<1>2. /\ a1 \in Write /\ a1.reg = 13 /\ a1.mask = 0..7
      /\ a2 \in Write /\ a2.reg = 9 /\ a2.mask = 0..7
      /\ a3 \in Write /\ a3.reg = 10 /\ a3.mask = 0..7
      /\ a4 \in Write /\ a4.reg = 11 /\ a4.mask = 0..7
      /\ a5 \in Write /\ a5.reg = 120 /\ a5.mask = 0..7
      BY <1>1, WWrite, PutIs
<1>3. /\ a6 \in Write /\ a6.reg = 7 /\ a6.mask = 1..2
      /\ a7 \in Write /\ a7.reg = 7 /\ a7.mask = 1..2
      /\ a8 \in Write /\ a8.reg = 16 /\ a8.mask = 0..3
      BY <1>1, WWrite, WIs, Masks
<1>4. E4kFreqBits = ({9, 10, 11, 13, 120} \X (0..7)) \cup ({7} \X (1..2)) \cup ({16} \X (0..3))
      BY <1>1 DEF E4kFreqBits
<1>. HIDE DEF a1, a2, a3, a4, a5, a6, a7, a8
<1>5. writes \in Seq(Write) /\ Len(writes) = 8
      BY <1>2, <1>3
<1>6. \A w \in marks \cup {a6} : \A b \in w.mask : <<w.reg, b>> \in E4kFreqBits
      BY <1>2, <1>3, <1>4
<1>7. Covers(E4kFreqBits, writes)
      BY <1>5, <1>6 DEF Covers
<1>8. \A w \in marks : Final(w, writes)
  <2>1. /\ a1 = writes[1] /\ a2 = writes[2] /\ a3 = writes[3] /\ a4 = writes[4] /\ a5 = writes[5]
        /\ a6 = writes[6] /\ a7 = writes[7] /\ a8 = writes[8]
        OBVIOUS
  <2>. HIDE DEF writes
  <2>2. Final(a1, writes) /\ Final(a2, writes) /\ Final(a3, writes)
        BY <1>2, <1>3, <1>5, <2>1 DEF Final, Touches
  <2>3. Final(a4, writes) /\ Final(a5, writes)
        BY <1>2, <1>3, <1>5, <2>1 DEF Final, Touches
  <2>4. Final(a7, writes) /\ Final(a8, writes)
        BY <1>2, <1>3, <1>5, <2>1 DEF Final, Touches
  <2>. QED
       BY <2>2, <2>3, <2>4
<1>9. ASSUME NEW s, s.model = "E4000" PROVE MarksIn(marks, s.model, E4kFreqBits)
  <2>1. \A w \in marks : w \in Write /\ w.reg \in E4kRegs
    <3>1. {7, 9, 10, 11, 13, 16, 120} \subseteq E4kRegs
          BY <1>1, <1>9, E4kModel
    <3>. QED
         BY <1>2, <1>3, <3>1
  <2>. QED
       BY <1>6, <1>9, <2>1, E4kModel DEF MarksIn
<1>. QED
     BY <1>5, <1>7, <1>8, <1>9 DEF a1, a2, a3, a4, a5, a6, a7, a8

LEMMA E4kTuneWrites ==
    ASSUME NEW s \in Driver, s.model = "E4000", s.err = "none", NEW f, NEW t \in tune_params(s, f)
    PROVE  /\ Leaves(s, t, E4kFreqBits) /\ t \in Driver /\ t.err \in {"none", "usb"}
           /\ t.err = "none" => InChip(t, E4kMarks(f, s.xtal))
<1>. DEFINE band == E4kBand(f, s.xtal)
            x == E4kX(f, s.xtal)[1]
            n1 == PllVar(f)[2]
            n2 == E4kZ(f, s.xtal)
            n3 == x % 256
            n4 == x \div 256
            n5 == IF band = 3 THEN 0 ELSE 3
            n6 == 2 * band
            n7 == RfFilter(f, band)
            writes == <<Put(SYNTH7, n1), Put(SYNTH3, n2), Put(SYNTH4, n3), Put(SYNTH5, n4), Put(BIAS, n5),
                        W(SYNTH1, 0, 6), W(SYNTH1, n6, 6), W(FILT1, n7, \h0f)>>
            marks == {Put(SYNTH7, n1), Put(SYNTH3, n2), Put(SYNTH4, n3), Put(SYNTH5, n4), Put(BIAS, n5),
                      W(SYNTH1, n6, 6), W(FILT1, n7, \h0f)}
<1>1. t \in Apply(s, writes) /\ E4kMarks(f, s.xtal) = marks
      BY DEF tune_params, E4kMarks
<1>. HIDE DEF n1, n2, n3, n4, n5, n6, n7
<1>2. /\ writes \in Seq(Write) /\ Covers(E4kFreqBits, writes) /\ \A w \in marks : Final(w, writes)
      /\ MarksIn(marks, s.model, E4kFreqBits)
      BY E4kTuneList
<1>. HIDE DEF writes, marks
<1>3. /\ Leaves(s, t, E4kFreqBits) /\ t \in Driver /\ t.err \in {"none", "usb"}
      /\ t.err = "none" => \A w : Final(w, writes) /\ w.reg \in RegsOf(s.model) => Holds(t, w)
      BY <1>1, <1>2, ApplyList
<1>4. t.err = "none" => InChip(t, marks)
      BY <1>2, <1>3 DEF InChip, MarksIn
<1>. QED
     BY <1>1, <1>3, <1>4

LEMMA E4kMarksFreq ==
    ASSUME NEW s, s.model = "E4000", NEW f, NEW x
    PROVE  MarksIn(E4kMarks(f, x), s.model, E4kFreqBits)
<1>. DEFINE band == E4kBand(f, x)
            xx == E4kX(f, x)[1]
            n1 == PllVar(f)[2]
            n2 == E4kZ(f, x)
            n3 == xx % 256
            n4 == xx \div 256
            n5 == IF band = 3 THEN 0 ELSE 3
            n6 == 2 * band
            n7 == RfFilter(f, band)
            marks == {Put(SYNTH7, n1), Put(SYNTH3, n2), Put(SYNTH4, n3), Put(SYNTH5, n4), Put(BIAS, n5),
                      W(SYNTH1, n6, 6), W(FILT1, n7, \h0f)}
<1>1. E4kMarks(f, x) = marks
      BY DEF E4kMarks
<1>. HIDE DEF n1, n2, n3, n4, n5, n6, n7
<1>2. MarksIn(marks, s.model, E4kFreqBits)
      BY E4kTuneList
<1>. QED
     BY <1>1, <1>2

(* set_freq, with the read of the lock that may refuse.                    *)
LEMMA E4kSetFreq ==
    ASSUME NEW s \in Driver, s.model = "E4000", s.err = "none", NEW f, NEW t \in e4k_set_freq(s, f)
    PROVE  Leaves(s, t, E4kFreqBits) /\ (t.err = "none" => E4kProgrammed(t, f, s.xtal))
<1>1. CASE ~E4kPllValid(f, s.xtal)
  <2>1. t \in Refuse(s)
        BY <1>1 DEF e4k_set_freq
  <2>. QED
       BY <2>1, RefuseLeaves
<1>2. CASE E4kPllValid(f, s.xtal)
  <2>. DEFINE S == tune_params(s, f)
              R == Then(S, Read)
  <2>1. \/ t \in R /\ t.err # "none"
        \/ \E v \in R : v.err = "none" /\ t \in {v} \cup Refuse(v)
    <3>1. e4k_set_freq(s, f) = Then(R, LAMBDA u : {u} \cup Refuse(u))
          BY <1>2 DEF e4k_set_freq
    <3>2. e4k_set_freq(s, f) = (R \ Succeeded(R)) \cup UNION {{u} \cup Refuse(u) : u \in Succeeded(R)}
          BY <3>1 DEF Then
    <3>. HIDE DEF R
    <3>. QED
         BY <3>2 DEF Succeeded
  <2>2. ASSUME NEW v \in R
        PROVE  Leaves(s, v, E4kFreqBits) /\ v \in Driver /\ (v.err = "none" => InChip(v, E4kMarks(f, s.xtal)))
    <3>1. \/ v \in S /\ v.err # "none"
          \/ \E u \in S : u.err = "none" /\ v \in Read(u)
      <4>1. R = (S \ Succeeded(S)) \cup UNION {Read(u) : u \in Succeeded(S)}
            BY DEF Then
      <4>. HIDE DEF S, R
      <4>. QED
           BY <2>2, <4>1 DEF Succeeded
    <3>2. CASE v \in S /\ v.err # "none"
          BY <3>2, E4kTuneWrites
    <3>3. ASSUME NEW u \in S, u.err = "none", v \in Read(u)
          PROVE  Leaves(s, v, E4kFreqBits) /\ v \in Driver /\ (v.err = "none" => InChip(v, E4kMarks(f, s.xtal)))
      <4>1. /\ Leaves(s, u, E4kFreqBits) /\ u \in Driver
            /\ InChip(u, E4kMarks(f, s.xtal))
            BY <3>3, E4kTuneWrites
      <4>2. Leaves(u, v, E4kFreqBits) /\ (v.err = "none" => v = u)
            BY <3>3, <4>1, ReadLeaves
      <4>3. Leaves(s, v, E4kFreqBits)
            BY <4>1, <4>2, LeavesTrans
      <4>. QED
           BY <4>1, <4>2, <4>3 DEF Leaves, Same
    <3>. QED
         BY <3>1, <3>2, <3>3
  <2>. HIDE DEF R
  <2>3. CASE t \in R /\ t.err # "none"
        BY <2>2, <2>3
  <2>4. ASSUME NEW v \in R, v.err = "none", t \in {v} \cup Refuse(v)
        PROVE  Leaves(s, t, E4kFreqBits) /\ (t.err = "none" => E4kProgrammed(t, f, s.xtal))
    <3>1. CASE t = v
          BY <1>2, <2>2, <2>4, <3>1 DEF E4kProgrammed
    <3>2. CASE t \in Refuse(v)
          BY <2>2, <3>2, RefuseLeaves, LeavesTrans
    <3>. QED
         BY <2>4, <3>1, <3>2
  <2>. QED
       BY <2>1, <2>3, <2>4
<1>. QED
     BY <1>1, <1>2
(* The IF stages have fields of their own.                                 *)
StageBits(i) == {IF_STAGE_FIELD[i][1]} \X Byte(IF_STAGE_FIELD[i][3])
AllStageBits == ({GAIN3} \X (0..6)) \cup ({GAIN4} \X (0..5))

StageMark(g) == StageWrite(StageByte(g[1]), GainByte(g[2]))
StageTaken(g) ==
    /\ StageByte(g[1]) \in DOMAIN IF_STAGE_GAIN
    /\ GainByte(g[2]) \in Range(IF_STAGE_GAIN[StageByte(g[1])])

LEMMA StageFields ==
    /\ DOMAIN IF_STAGE_GAIN = 1..6
    /\ IF_STAGE_FIELD[1][1] = GAIN3 /\ Byte(IF_STAGE_FIELD[1][3]) = {0}
    /\ IF_STAGE_FIELD[2][1] = GAIN3 /\ Byte(IF_STAGE_FIELD[2][3]) = 1..2
    /\ IF_STAGE_FIELD[3][1] = GAIN3 /\ Byte(IF_STAGE_FIELD[3][3]) = 3..4
    /\ IF_STAGE_FIELD[4][1] = GAIN3 /\ Byte(IF_STAGE_FIELD[4][3]) = 5..6
    /\ IF_STAGE_FIELD[5][1] = GAIN4 /\ Byte(IF_STAGE_FIELD[5][3]) = 0..2
    /\ IF_STAGE_FIELD[6][1] = GAIN4 /\ Byte(IF_STAGE_FIELD[6][3]) = 3..5
<1>1. DOMAIN IF_STAGE_GAIN = 1..6
      BY DEF IF_STAGE_GAIN
<1>2. /\ IF_STAGE_FIELD[1][1] = GAIN3 /\ IF_STAGE_FIELD[2][1] = GAIN3 /\ IF_STAGE_FIELD[3][1] = GAIN3
      /\ IF_STAGE_FIELD[4][1] = GAIN3 /\ IF_STAGE_FIELD[5][1] = GAIN4 /\ IF_STAGE_FIELD[6][1] = GAIN4
      BY DEF IF_STAGE_FIELD
<1>3. /\ IF_STAGE_FIELD[1][3] = 1 /\ IF_STAGE_FIELD[2][3] = 6 /\ IF_STAGE_FIELD[3][3] = \h18
      /\ IF_STAGE_FIELD[4][3] = \h60 /\ IF_STAGE_FIELD[5][3] = 7 /\ IF_STAGE_FIELD[6][3] = \h38
      BY DEF IF_STAGE_FIELD
<1>. QED
     BY <1>1, <1>2, <1>3, Masks

LEMMA StagesApart ==
    ASSUME NEW i \in 1..6
    PROVE  /\ IF_STAGE_FIELD[i][1] \in {GAIN3, GAIN4} /\ StageBits(i) \subseteq AllStageBits
           /\ \A j \in 1..6 : j # i => StageBits(i) \cap StageBits(j) = {}
<1>1. GAIN3 # GAIN4
      BY DEF GAIN3, GAIN4
<1>2. /\ StageBits(1) = {GAIN3} \X {0} /\ StageBits(2) = {GAIN3} \X (1..2) /\ StageBits(3) = {GAIN3} \X (3..4)
      /\ StageBits(4) = {GAIN3} \X (5..6) /\ StageBits(5) = {GAIN4} \X (0..2) /\ StageBits(6) = {GAIN4} \X (3..5)
      BY StageFields DEF StageBits
<1>3. i = 1 \/ i = 2 \/ i = 3 \/ i = 4 \/ i = 5 \/ i = 6
      OBVIOUS
<1>4. IF_STAGE_FIELD[i][1] \in {GAIN3, GAIN4}
      BY <1>3, StageFields
<1>5. StageBits(i) \subseteq AllStageBits
      BY <1>2, <1>3 DEF AllStageBits
<1>6. ASSUME NEW j \in 1..6, j # i PROVE StageBits(i) \cap StageBits(j) = {}
  <2>1. j = 1 \/ j = 2 \/ j = 3 \/ j = 4 \/ j = 5 \/ j = 6
        OBVIOUS
  <2>. QED
       BY <1>1, <1>2, <1>3, <1>6, <2>1
<1>. QED
     BY <1>4, <1>5, <1>6

LEMMA StageWriteIs ==
    ASSUME NEW i \in 1..6, NEW gain
    PROVE  LET w == StageWrite(i, gain)
           IN  /\ w \in Write /\ w.reg = IF_STAGE_FIELD[i][1] /\ w.mask = Byte(IF_STAGE_FIELD[i][3])
               /\ \A b \in w.mask : <<w.reg, b>> \in StageBits(i)
               /\ \A s : s.model = "E4000" => w.reg \in RegsOf(s.model)
<1>. DEFINE reg == IF_STAGE_FIELD[i][1]
            n == (Min({k \in DOMAIN IF_STAGE_GAIN[i] : IF_STAGE_GAIN[i][k] = gain}) - 1) * IF_STAGE_FIELD[i][2]
            mask == IF_STAGE_FIELD[i][3]
<1>1. StageWrite(i, gain) = W(reg, n, mask)
      BY DEF StageWrite
<1>2. reg \in {GAIN3, GAIN4}
      BY StagesApart
<1>3. reg \in Nat
      BY <1>2 DEF GAIN3, GAIN4
<1>. HIDE DEF n
<1>4. W(reg, n, mask) \in Write /\ W(reg, n, mask).reg = reg /\ W(reg, n, mask).mask = Byte(mask)
      BY <1>3, WWrite, WIs
<1>5. \A b \in Byte(mask) : <<reg, b>> \in StageBits(i)
      BY DEF StageBits
<1>6. \A s : s.model = "E4000" => reg \in RegsOf(s.model)
      BY <1>2, E4kModel
<1>. HIDE DEF reg, mask
<1>7. /\ W(reg, n, mask) \in Write
      /\ \A b \in W(reg, n, mask).mask : <<W(reg, n, mask).reg, b>> \in StageBits(i)
      /\ \A s : s.model = "E4000" => W(reg, n, mask).reg \in RegsOf(s.model)
      BY <1>4, <1>5, <1>6
<1>. QED
     BY <1>1, <1>4, <1>7 DEF reg, mask

LEMMA E4kStage ==
    ASSUME NEW s \in Driver, s.model = "E4000", s.err = "none", NEW g \in Int \X Int,
           NEW t \in e4k_set_if_gain(s, g[1], g[2])
    PROVE  \/ /\ StageTaken(g) /\ t.err \in {"none", "usb"} /\ Leaves(s, t, StageBits(StageByte(g[1])))
              /\ t.err = "none" => Holds(t, StageMark(g))
           \/ t.err = "tuner" /\ Leaves(s, t, {})
<1>1. CASE StageTaken(g)
  <2>. DEFINE w == StageMark(g)
              i == StageByte(g[1])
  <2>1. t \in Apply(s, <<w>>)
        BY <1>1 DEF e4k_set_if_gain, StageTaken, StageMark
  <2>2. i \in 1..6
        BY <1>1, StageFields DEF StageTaken
  <2>3. w = StageWrite(i, GainByte(g[2]))
        BY DEF StageMark
  <2>. HIDE DEF w, i
  <2>4. w \in Write /\ MarksIn({w}, s.model, StageBits(i))
        BY <2>2, <2>3, StageWriteIs DEF MarksIn
  <2>5. Leaves(s, t, StageBits(i)) /\ (t.err = "none" => InChip(t, {w}))
        BY <2>1, <2>4, DoesOne
  <2>6. t.err \in {"none", "usb"}
        BY <2>1, <2>4, ListOne, ListTyped, ApplyLeaves
  <2>. QED
       BY <1>1, <2>5, <2>6 DEF InChip, w, i
<1>2. CASE ~StageTaken(g)
  <2>1. t \in Refuse(s)
        BY <1>2 DEF e4k_set_if_gain, StageTaken
  <2>. QED
       BY <2>1, RefuseLeaves
<1>. QED
     BY <1>1, <1>2

---------------------------------------------------------------------------
LEMMA E4kExit ==
    ASSUME NEW s \in Driver, s.model = "E4000", s.err = "none", NEW t \in e4k_exit(s)
    PROVE  Leaves(s, t, ExitBits(s.model))
<1>. DEFINE a == W(MASTER1, 0, 2)
<1>1. a \in Write /\ a.reg = MASTER1 /\ a.mask = {1}
      BY WWrite, WIs, Masks, E4kModel
<1>2. t \in Apply(s, <<a>>) /\ ExitBits(s.model) = {<<MASTER1, 1>>}
      BY DEF e4k_exit, ExitBits
<1>. HIDE DEF a
<1>3. MarksIn({a}, s.model, ExitBits(s.model))
      BY <1>1, <1>2, E4kModel DEF MarksIn
<1>. QED
     BY <1>1, <1>2, <1>3, DoesOne

(* The lists of init.                                                      *)
LEMMA E4kInitLists == E4kReset \o E4kSetup \in Seq(Write)
<1>1. E4kReset \in Seq(Write)
  <2>. DEFINE P(r, v) == Put(r, v)
  <2>1. \A r \in Nat : \A v : P(r, v) \in Write
        BY WWrite
  <2>2. MASTER1 \in Nat /\ CLK_INP \in Nat /\ REF_CLK \in Nat
        BY DEF MASTER1, CLK_INP, REF_CLK
  <2>3. E4kReset =
          <<P(MASTER1, 7), P(CLK_INP, 0), P(REF_CLK, 0), P(\h7a, \h96), P(\h7e, 1),
            P(\h7f, \hfe), P(\h82, 0), P(\h86, \h50), P(\h87, \h20), P(\h88, 1),
            P(\h9f, \h7f), P(\ha0, 7), P(\h1d, \h10), P(\h1e, 4), P(\h1f, \h1a)>>
        BY DEF E4kReset
  <2>4. /\ P(MASTER1, 7) \in Write /\ P(CLK_INP, 0) \in Write /\ P(REF_CLK, 0) \in Write
        /\ P(\h7a, \h96) \in Write /\ P(\h7e, 1) \in Write /\ P(\h7f, \hfe) \in Write
        /\ P(\h82, 0) \in Write /\ P(\h86, \h50) \in Write
        BY <2>1, <2>2
  <2>5. /\ P(\h87, \h20) \in Write /\ P(\h88, 1) \in Write /\ P(\h9f, \h7f) \in Write
        /\ P(\ha0, 7) \in Write /\ P(\h1d, \h10) \in Write /\ P(\h1e, 4) \in Write
        /\ P(\h1f, \h1a) \in Write
        BY <2>1
  <2>. HIDE DEF P
  <2>. QED
       BY <2>3, <2>4, <2>5
<1>2. \A m \in BOOLEAN : ManualGain(m) \in Seq(Write)
  <2>. DEFINE a(n) == W(AGC1, n, \h0f)
              b(n) == W(AGC7, n, 1)
              c == W(AGC11, 0, 7)
  <2>1. \A n : a(n) \in Write /\ b(n) \in Write
        BY WWrite DEF AGC1, AGC7
  <2>2. c \in Write
        BY WWrite DEF AGC11
  <2>3. \A m : ManualGain(m) = IF m THEN <<a(0), b(0)>> ELSE <<a(9), b(1), c>>
        BY DEF ManualGain
  <2>. HIDE DEF a, b, c
  <2>4. a(0) \in Write /\ b(0) \in Write /\ a(9) \in Write /\ b(1) \in Write
        BY <2>1
  <2>5. <<a(0), b(0)>> \in Seq(Write) /\ <<a(9), b(1), c>> \in Seq(Write)
        BY <2>2, <2>4
  <2>. QED
       BY <2>3, <2>5
<1>. DEFINE tail == <<StageWrite(1, 6), StageWrite(2, 0), StageWrite(3, 0), StageWrite(4, 0),
                      StageWrite(5, 9), StageWrite(6, 9), MixFilter(1900), RcFilter(1000), ChanFilter(2150),
                      W(FILT3, 0, \h20), W(\h2d, 0, 3), W(\h70, 0, 3), W(\h71, 0, 3)>>
<1>3. tail \in Seq(Write)
  <2>. DEFINE w == W(FILT3, 0, \h20)
              x(r) == W(r, 0, 3)
  <2>1. w \in Write
        BY WWrite DEF FILT3
  <2>2. x(\h2d) \in Write /\ x(\h70) \in Write /\ x(\h71) \in Write
        BY WWrite
  <2>3. /\ StageWrite(1, 6) \in Write /\ StageWrite(2, 0) \in Write /\ StageWrite(3, 0) \in Write
        /\ StageWrite(4, 0) \in Write /\ StageWrite(5, 9) \in Write /\ StageWrite(6, 9) \in Write
        BY StageWriteIs
  <2>4. MixFilter(1900) \in Write /\ RcFilter(1000) \in Write /\ ChanFilter(2150) \in Write
        BY FilterWritesAre
  <2>. HIDE DEF w, x
  <2>5. tail = <<StageWrite(1, 6), StageWrite(2, 0), StageWrite(3, 0), StageWrite(4, 0),
                 StageWrite(5, 9), StageWrite(6, 9), MixFilter(1900), RcFilter(1000), ChanFilter(2150),
                 w, x(\h2d), x(\h70), x(\h71)>>
        BY DEF w, x
  <2>. HIDE DEF tail
  <2>. QED
       BY <2>1, <2>2, <2>3, <2>4, <2>5
<1>4. E4kSetup = (ManualGain(TRUE) \o ManualGain(FALSE)) \o tail
      BY DEF E4kSetup
<1>. HIDE DEF tail
<1>5. E4kSetup \in Seq(Write)
      BY <1>2, <1>3, <1>4, CatIs
<1>. QED
     BY <1>1, <1>5, CatIs

LEMMA E4kInit ==
    ASSUME NEW s \in Driver, s.model = "E4000", s.err = "none", NEW t \in e4k_init(s)
    PROVE  Leaves(s, t, AnyBits)
<1>1. PICK v \in Read(s) : t \in Apply([v EXCEPT !.err = "none"], E4kReset \o E4kSetup)
      BY DEF e4k_init
<1>2. Leaves(s, v, AnyBits)
      BY ReadLeaves
<1>. DEFINE u == [v EXCEPT !.err = "none"]
<1>3. v \in Driver
      BY <1>2 DEF Leaves, Same
<1>4. /\ u \in Driver /\ u.model = v.model /\ u.chip = v.chip /\ u.xtal = v.xtal /\ u.freq = v.freq /\ u.bw = v.bw
      /\ u.faults = v.faults /\ u.err = "none"
      BY <1>3, DriverChanged, DriverType
<1>5. t \in Apply(u, E4kReset \o E4kSetup)
      BY <1>1
<1>. HIDE DEF u
<1>6. Leaves(u, t, AnyBits)
      BY <1>4, <1>5, E4kInitLists, AnyCovers, ApplyList
<1>7. Leaves(s, u, AnyBits)
      BY <1>2, <1>4 DEF Leaves, Same, Untouched
<1>. QED
     BY <1>6, <1>7, LeavesTrans
---------------------------------------------------------------------------
(* FC2580                                                                  *)

Fc2580PllRegs == {\h02, \h18, \h1a, \h1b, \h1c, \h4b}

(* The registers of a band are different ones, and no others are among     *)
(* them.                                                                   *)
LEMMA UHFRegs ==
    LET regs == BandRegs("UHF")
    IN  /\ DOMAIN regs = 1..20
        /\ \A i \in 1..20 : /\ regs[i] \in Nat /\ regs[i] \notin Fc2580PllRegs
                            /\ regs[i] \notin {\h2e, \h36, \h37, \h39} /\ regs[i] # \h2d
                            /\ \A j \in (i + 1)..20 : regs[j] # regs[i]
<1>. DEFINE regs == BandRegs("UHF")
<1>1. DOMAIN regs = 1..20
      BY DEF BandRegs
<1>2. regs[1] = \h25 /\ regs[2] = \h27 /\ regs[3] = \h28 /\ regs[4] = \h29 /\ regs[5] = \h30
      BY DEF BandRegs
<1>3. regs[6] = \h50 /\ regs[7] = \h53 /\ regs[8] = \h5f /\ regs[9] = \h61 /\ regs[10] = \h62
      BY DEF BandRegs
<1>4. regs[11] = \h67 /\ regs[12] = \h68 /\ regs[13] = \h69 /\ regs[14] = \h6a /\ regs[15] = \h63
      BY DEF BandRegs
<1>5. regs[16] = \h6b /\ regs[17] = \h6c /\ regs[18] = \h6d /\ regs[19] = \h6e /\ regs[20] = \h6f
      BY DEF BandRegs
<1>. HIDE DEF regs
<1>6. \A i \in 1..20 : regs[i] \in Nat /\ regs[i] \notin Fc2580PllRegs /\ regs[i] \notin {\h2e, \h36, \h37, \h39} /\ regs[i] # \h2d
      BY <1>2, <1>3, <1>4, <1>5 DEF Fc2580PllRegs
<1>7. \A j \in 2..20 : regs[j] # regs[1]
      BY <1>2, <1>3, <1>4, <1>5
<1>8. \A j \in 3..20 : regs[j] # regs[2]
      BY <1>2, <1>3, <1>4, <1>5
<1>9. \A j \in 4..20 : regs[j] # regs[3]
      BY <1>2, <1>3, <1>4, <1>5
<1>10. \A j \in 5..20 : regs[j] # regs[4]
      BY <1>2, <1>3, <1>4, <1>5
<1>11. \A j \in 6..20 : regs[j] # regs[5]
      BY <1>2, <1>3, <1>4, <1>5
<1>12. \A j \in 7..20 : regs[j] # regs[6]
      BY <1>2, <1>3, <1>4, <1>5
<1>13. \A j \in 8..20 : regs[j] # regs[7]
      BY <1>2, <1>3, <1>4, <1>5
<1>14. \A j \in 9..20 : regs[j] # regs[8]
      BY <1>2, <1>3, <1>4, <1>5
<1>15. \A j \in 10..20 : regs[j] # regs[9]
      BY <1>2, <1>3, <1>4, <1>5
<1>16. \A j \in 11..20 : regs[j] # regs[10]
      BY <1>2, <1>3, <1>4, <1>5
<1>17. \A j \in 12..20 : regs[j] # regs[11]
      BY <1>2, <1>3, <1>4, <1>5
<1>18. \A j \in 13..20 : regs[j] # regs[12]
      BY <1>2, <1>3, <1>4, <1>5
<1>19. \A j \in 14..20 : regs[j] # regs[13]
      BY <1>2, <1>3, <1>4, <1>5
<1>20. \A j \in 15..20 : regs[j] # regs[14]
      BY <1>2, <1>3, <1>4, <1>5
<1>21. \A j \in 16..20 : regs[j] # regs[15]
      BY <1>2, <1>3, <1>4, <1>5
<1>22. \A j \in 17..20 : regs[j] # regs[16]
      BY <1>2, <1>3, <1>4, <1>5
<1>23. \A j \in 18..20 : regs[j] # regs[17]
      BY <1>2, <1>3, <1>4, <1>5
<1>24. \A j \in 19..20 : regs[j] # regs[18]
      BY <1>2, <1>3, <1>4, <1>5
<1>25. \A j \in 20..20 : regs[j] # regs[19]
      BY <1>2, <1>3, <1>4, <1>5
<1>26. \A i \in 1..20 : \A j \in (i + 1)..20 : regs[j] # regs[i]
      BY <1>7, <1>8, <1>9, <1>10, <1>11, <1>12, <1>13, <1>14, <1>15, <1>16, <1>17, <1>18, <1>19, <1>20, <1>21, <1>22, <1>23, <1>24, <1>25
<1>. QED
     BY <1>1, <1>6, <1>26 DEF regs

LEMMA VHFRegs ==
    LET regs == BandRegs("VHF")
    IN  /\ DOMAIN regs = 1..19
        /\ \A i \in 1..19 : /\ regs[i] \in Nat /\ regs[i] \notin Fc2580PllRegs
                            /\ regs[i] \notin {\h2e, \h36, \h37, \h39}
                            /\ \A j \in (i + 1)..19 : regs[j] # regs[i]
<1>. DEFINE regs == BandRegs("VHF")
<1>1. DOMAIN regs = 1..19
      BY DEF BandRegs
<1>2. regs[1] = \h27 /\ regs[2] = \h28 /\ regs[3] = \h29 /\ regs[4] = \h30 /\ regs[5] = \h50
      BY DEF BandRegs
<1>3. regs[6] = \h53 /\ regs[7] = \h5f /\ regs[8] = \h61 /\ regs[9] = \h62 /\ regs[10] = \h63
      BY DEF BandRegs
<1>4. regs[11] = \h67 /\ regs[12] = \h68 /\ regs[13] = \h69 /\ regs[14] = \h6a /\ regs[15] = \h6b
      BY DEF BandRegs
<1>5. regs[16] = \h6c /\ regs[17] = \h6d /\ regs[18] = \h6e /\ regs[19] = \h6f
      BY DEF BandRegs
<1>. HIDE DEF regs
<1>6. \A i \in 1..19 : regs[i] \in Nat /\ regs[i] \notin Fc2580PllRegs /\ regs[i] \notin {\h2e, \h36, \h37, \h39}
      BY <1>2, <1>3, <1>4, <1>5 DEF Fc2580PllRegs
<1>7. \A j \in 2..19 : regs[j] # regs[1]
      BY <1>2, <1>3, <1>4, <1>5
<1>8. \A j \in 3..19 : regs[j] # regs[2]
      BY <1>2, <1>3, <1>4, <1>5
<1>9. \A j \in 4..19 : regs[j] # regs[3]
      BY <1>2, <1>3, <1>4, <1>5
<1>10. \A j \in 5..19 : regs[j] # regs[4]
      BY <1>2, <1>3, <1>4, <1>5
<1>11. \A j \in 6..19 : regs[j] # regs[5]
      BY <1>2, <1>3, <1>4, <1>5
<1>12. \A j \in 7..19 : regs[j] # regs[6]
      BY <1>2, <1>3, <1>4, <1>5
<1>13. \A j \in 8..19 : regs[j] # regs[7]
      BY <1>2, <1>3, <1>4, <1>5
<1>14. \A j \in 9..19 : regs[j] # regs[8]
      BY <1>2, <1>3, <1>4, <1>5
<1>15. \A j \in 10..19 : regs[j] # regs[9]
      BY <1>2, <1>3, <1>4, <1>5
<1>16. \A j \in 11..19 : regs[j] # regs[10]
      BY <1>2, <1>3, <1>4, <1>5
<1>17. \A j \in 12..19 : regs[j] # regs[11]
      BY <1>2, <1>3, <1>4, <1>5
<1>18. \A j \in 13..19 : regs[j] # regs[12]
      BY <1>2, <1>3, <1>4, <1>5
<1>19. \A j \in 14..19 : regs[j] # regs[13]
      BY <1>2, <1>3, <1>4, <1>5
<1>20. \A j \in 15..19 : regs[j] # regs[14]
      BY <1>2, <1>3, <1>4, <1>5
<1>21. \A j \in 16..19 : regs[j] # regs[15]
      BY <1>2, <1>3, <1>4, <1>5
<1>22. \A j \in 17..19 : regs[j] # regs[16]
      BY <1>2, <1>3, <1>4, <1>5
<1>23. \A j \in 18..19 : regs[j] # regs[17]
      BY <1>2, <1>3, <1>4, <1>5
<1>24. \A j \in 19..19 : regs[j] # regs[18]
      BY <1>2, <1>3, <1>4, <1>5
<1>25. \A i \in 1..19 : \A j \in (i + 1)..19 : regs[j] # regs[i]
      BY <1>7, <1>8, <1>9, <1>10, <1>11, <1>12, <1>13, <1>14, <1>15, <1>16, <1>17, <1>18, <1>19, <1>20, <1>21, <1>22, <1>23, <1>24
<1>. QED
     BY <1>1, <1>6, <1>25 DEF regs

LEMMA LRegs ==
    LET regs == BandRegs("L")
    IN  /\ DOMAIN regs = 1..20
        /\ \A i \in 1..20 : /\ regs[i] \in Nat /\ regs[i] \notin Fc2580PllRegs
                            /\ regs[i] \notin {\h2e, \h36, \h37, \h39}
                            /\ \A j \in (i + 1)..20 : regs[j] # regs[i]
<1>. DEFINE regs == BandRegs("L")
<1>1. DOMAIN regs = 1..20
      BY DEF BandRegs
<1>2. regs[1] = \h2b /\ regs[2] = \h2c /\ regs[3] = \h2d /\ regs[4] = \h30 /\ regs[5] = \h44
      BY DEF BandRegs
<1>3. regs[6] = \h50 /\ regs[7] = \h53 /\ regs[8] = \h5f /\ regs[9] = \h61 /\ regs[10] = \h62
      BY DEF BandRegs
<1>4. regs[11] = \h63 /\ regs[12] = \h67 /\ regs[13] = \h68 /\ regs[14] = \h69 /\ regs[15] = \h6a
      BY DEF BandRegs
<1>5. regs[16] = \h6b /\ regs[17] = \h6c /\ regs[18] = \h6d /\ regs[19] = \h6e /\ regs[20] = \h6f
      BY DEF BandRegs
<1>. HIDE DEF regs
<1>6. \A i \in 1..20 : regs[i] \in Nat /\ regs[i] \notin Fc2580PllRegs /\ regs[i] \notin {\h2e, \h36, \h37, \h39}
      BY <1>2, <1>3, <1>4, <1>5 DEF Fc2580PllRegs
<1>7. \A j \in 2..20 : regs[j] # regs[1]
      BY <1>2, <1>3, <1>4, <1>5
<1>8. \A j \in 3..20 : regs[j] # regs[2]
      BY <1>2, <1>3, <1>4, <1>5
<1>9. \A j \in 4..20 : regs[j] # regs[3]
      BY <1>2, <1>3, <1>4, <1>5
<1>10. \A j \in 5..20 : regs[j] # regs[4]
      BY <1>2, <1>3, <1>4, <1>5
<1>11. \A j \in 6..20 : regs[j] # regs[5]
      BY <1>2, <1>3, <1>4, <1>5
<1>12. \A j \in 7..20 : regs[j] # regs[6]
      BY <1>2, <1>3, <1>4, <1>5
<1>13. \A j \in 8..20 : regs[j] # regs[7]
      BY <1>2, <1>3, <1>4, <1>5
<1>14. \A j \in 9..20 : regs[j] # regs[8]
      BY <1>2, <1>3, <1>4, <1>5
<1>15. \A j \in 10..20 : regs[j] # regs[9]
      BY <1>2, <1>3, <1>4, <1>5
<1>16. \A j \in 11..20 : regs[j] # regs[10]
      BY <1>2, <1>3, <1>4, <1>5
<1>17. \A j \in 12..20 : regs[j] # regs[11]
      BY <1>2, <1>3, <1>4, <1>5
<1>18. \A j \in 13..20 : regs[j] # regs[12]
      BY <1>2, <1>3, <1>4, <1>5
<1>19. \A j \in 14..20 : regs[j] # regs[13]
      BY <1>2, <1>3, <1>4, <1>5
<1>20. \A j \in 15..20 : regs[j] # regs[14]
      BY <1>2, <1>3, <1>4, <1>5
<1>21. \A j \in 16..20 : regs[j] # regs[15]
      BY <1>2, <1>3, <1>4, <1>5
<1>22. \A j \in 17..20 : regs[j] # regs[16]
      BY <1>2, <1>3, <1>4, <1>5
<1>23. \A j \in 18..20 : regs[j] # regs[17]
      BY <1>2, <1>3, <1>4, <1>5
<1>24. \A j \in 19..20 : regs[j] # regs[18]
      BY <1>2, <1>3, <1>4, <1>5
<1>25. \A j \in 20..20 : regs[j] # regs[19]
      BY <1>2, <1>3, <1>4, <1>5
<1>26. \A i \in 1..20 : \A j \in (i + 1)..20 : regs[j] # regs[i]
      BY <1>7, <1>8, <1>9, <1>10, <1>11, <1>12, <1>13, <1>14, <1>15, <1>16, <1>17, <1>18, <1>19, <1>20, <1>21, <1>22, <1>23, <1>24, <1>25
<1>. QED
     BY <1>1, <1>6, <1>26 DEF regs
LEMMA BandIs == ASSUME NEW f PROVE BandOf(f) \in {"UHF", "VHF", "L"}
BY SMT DEF BandOf

LEMMA BandRegsAre ==
    ASSUME NEW b \in {"UHF", "VHF", "L"}
    PROVE  \E n \in {19, 20} :
              /\ n = (IF b = "VHF" THEN 19 ELSE 20) /\ DOMAIN BandRegs(b) = 1..n
              /\ \A i \in 1..n :
                    /\ BandRegs(b)[i] \in Nat /\ BandRegs(b)[i] \notin Fc2580PllRegs
                    /\ BandRegs(b)[i] \notin {\h2e, \h36, \h37, \h39}
                    /\ b = "UHF" => BandRegs(b)[i] # \h2d
                    /\ \A j \in (i + 1)..n : BandRegs(b)[j] # BandRegs(b)[i]
<1>1. CASE b = "UHF"
      BY <1>1, UHFRegs
<1>2. CASE b = "VHF"
      BY <1>2, VHFRegs
<1>3. CASE b = "L"
      BY <1>3, LRegs
<1>. QED
     BY <1>1, <1>2, <1>3

ByteNumber == {n \in Nat : n <= 255}

LEMMA CatType ==
    ASSUME NEW S, NEW a \in Seq(S), NEW b \in Seq(S)
    PROVE  a \o b \in Seq(S) /\ Len(a \o b) = Len(a) + Len(b) /\ DOMAIN a = 1..Len(a)
OBVIOUS

LEMMA BytesJoin ==
    ASSUME NEW a \in Seq(ByteNumber), NEW b \in Seq(ByteNumber)
    PROVE  a \o b \in Seq(ByteNumber) /\ Len(a \o b) = Len(a) + Len(b)
OBVIOUS

LEMMA BandBytesAre ==
    ASSUME NEW f
    PROVE  /\ DOMAIN BandBytes(f) = DOMAIN BandRegs(BandOf(f))
           /\ BandBytes(f) \in Seq(ByteNumber)
<1>1. CASE BandOf(f) = "UHF"
  <2>. DEFINE a == <<\hf0, \h77, \h53, \h60, 9, \h8c, \h50>>
              b == UhfPart(f)
              c == <<\h15, \h0b, \h0c, \h78, \h32, \h14>>
  <2>1. BandBytes(f) = (a \o b) \o c
        BY <1>1 DEF BandBytes
  <2>2. a \in Seq(ByteNumber) /\ c \in Seq(ByteNumber) /\ Len(a) = 7 /\ Len(c) = 6
        BY DEF ByteNumber
  <2>3. b \in Seq(ByteNumber) /\ Len(b) = 7
    <3>1. \/ b = <<\h13, 7, 6, 6, 8, \h10, \h12>>
          \/ b = <<\h15, 3, 3, 3, 5, \h0c, \h0e>>
          \/ b = <<\h15, 7, 6, 7, 9, \h10, \h12>>
          BY SMT DEF UhfPart
    <3>2. <<\h13, 7, 6, 6, 8, \h10, \h12>> \in Seq(ByteNumber) /\ Len(<<\h13, 7, 6, 6, 8, \h10, \h12>>) = 7
          BY DEF ByteNumber
    <3>3. <<\h15, 3, 3, 3, 5, \h0c, \h0e>> \in Seq(ByteNumber) /\ Len(<<\h15, 3, 3, 3, 5, \h0c, \h0e>>) = 7
          BY DEF ByteNumber
    <3>4. <<\h15, 7, 6, 7, 9, \h10, \h12>> \in Seq(ByteNumber) /\ Len(<<\h15, 7, 6, 7, 9, \h10, \h12>>) = 7
          BY DEF ByteNumber
    <3>. HIDE DEF b
    <3>5. CASE b = <<\h13, 7, 6, 6, 8, \h10, \h12>>
          BY <3>2, <3>5
    <3>6. CASE b = <<\h15, 3, 3, 3, 5, \h0c, \h0e>>
          BY <3>3, <3>6
    <3>7. CASE b = <<\h15, 7, 6, 7, 9, \h10, \h12>>
          BY <3>4, <3>7
    <3>. QED
         BY <3>1, <3>5, <3>6, <3>7
  <2>. HIDE DEF a, b, c
  <2>4. a \o b \in Seq(ByteNumber) /\ Len(a \o b) = 7 + 7
        BY <2>2, <2>3, BytesJoin
  <2>. DEFINE d == a \o b
              e == d \o c
  <2>. HIDE DEF d
  <2>5. e \in Seq(ByteNumber) /\ Len(e) = (7 + 7) + 6
        BY <2>2, <2>4, BytesJoin DEF d
  <2>6. BandBytes(f) = e
        BY <2>1 DEF d
  <2>. HIDE DEF e
  <2>7. DOMAIN e = 1..Len(e)
        BY <2>5, CatType
  <2>8. Len(e) = 20
        BY <2>5
  <2>. QED
       BY <1>1, <2>5, <2>6, <2>7, <2>8, UHFRegs
<1>2. CASE BandOf(f) = "VHF"
  <2>. DEFINE a == <<\h77, \h33, \h40, 9, \h8c, \h50, \h0f, 7, 0, \h15, 3, 5, \h10, \h12,
                     8, \h0a, \h78, \h32, \h54>>
  <2>1. BandBytes(f) = a
        BY <1>2 DEF BandBytes
  <2>2. a \in Seq(ByteNumber) /\ DOMAIN a = 1..19
        BY DEF ByteNumber
  <2>. HIDE DEF a
  <2>. QED
       BY <1>2, <2>1, <2>2, VHFRegs
<1>3. CASE BandOf(f) = "L"
  <2>. DEFINE a == <<\h70, \h37, \he7, 9, \h20, \h8c, \h50, \h0f, \h0f, 0, \h13, 0, 2,
                     \h0c, \h0e, 8, \h0a, \ha0, \h50, \h14>>
  <2>1. BandBytes(f) = a
        BY <1>3 DEF BandBytes
  <2>2. a \in Seq(ByteNumber) /\ DOMAIN a = 1..20
        BY DEF ByteNumber
  <2>. HIDE DEF a
  <2>. QED
       BY <1>3, <2>1, <2>2, LRegs
<1>. QED
     BY <1>1, <1>2, <1>3, BandIs

(* What FC2580's registers are, and its tuning's marks.                    *)
LEMMA Fc2580Model ==
    ASSUME NEW s, s.model = "FC2580"
    PROVE  /\ RegsOf(s.model) = Fc2580Regs /\ ~IsFc001x(s)
           /\ \A b \in {"UHF", "VHF", "L"} : \A i \in DOMAIN BandRegs(b) : BandRegs(b)[i] \in Fc2580Regs
           /\ \A r \in {\h02, \h18, \h1a, \h1b, \h1c, \h2e, \h36, \h37, \h39} : r \in Fc2580Regs
<1>1. RegsOf(s.model) = Fc2580Regs /\ ~IsFc001x(s)
      BY DEF RegsOf, IsFc001x
<1>. DEFINE A == {Fc2580Init[i].reg : i \in DOMAIN Fc2580Init}
            B == UNION {Range(BandRegs(b)) : b \in {"UHF", "VHF", "L"}}
            C == {\h18, \h1a, \h1b, \h1c, \h2e, \h36, \h37, \h39, \h4b}
<1>0. Fc2580Regs = (A \cup B) \cup C
      BY DEF Fc2580Regs
<1>. HIDE DEF A
<1>2. \A b \in {"UHF", "VHF", "L"} : \A i \in DOMAIN BandRegs(b) : BandRegs(b)[i] \in Fc2580Regs
  <2>1. \A b : \A i \in DOMAIN BandRegs(b) : BandRegs(b)[i] \in Range(BandRegs(b))
        BY DEF Range
  <2>2. \A b \in {"UHF", "VHF", "L"} : Range(BandRegs(b)) \subseteq Fc2580Regs
    <3>1. \A b \in {"UHF", "VHF", "L"} : Range(BandRegs(b)) \subseteq B
          OBVIOUS
    <3>. HIDE DEF B, C
    <3>. QED
         BY <1>0, <3>1
  <2>. QED
       BY <2>1, <2>2
<1>3. \A r \in {\h18, \h1a, \h1b, \h1c, \h2e, \h36, \h37, \h39} : r \in Fc2580Regs
  <2>. HIDE DEF B
  <2>. QED
       BY <1>0
<1>4. \h02 \in Fc2580Regs
  <2>1. 15 \in DOMAIN Fc2580Init /\ Fc2580Init[15] = Put(\h02, \h0e)
        BY DEF Fc2580Init
  <2>2. Fc2580Init[15].reg = 2
        BY <2>1, PutIs
  <2>. QED
       BY <2>1, <2>2 DEF Fc2580Regs
<1>. QED
     BY <1>1, <1>2, <1>3, <1>4

BandMarks(f) == {Put(BandRegs(BandOf(f))[i], BandBytes(f)[i]) : i \in DOMAIN BandRegs(BandOf(f))}
PllMarks2580(f, xtal) ==
    LET k == KVal(f, xtal)
    IN  {Put(\h02, Data02(f)), Put(\h18, RBits(RDiv(f, xtal)) + k \div 65536),
         Put(\h1a, (k \div 256) % 256), Put(\h1b, k % 256)}
NMarks(f, xtal) == {Put(\h1c, NVal(f, xtal))}

Fc2580Programmed(s, f, xtal) ==
    /\ xtal # 0 /\ FComp(f, xtal) # 0 /\ ~(NVal(f, xtal) > 255)
    /\ InChip(s, BandMarks(f)) /\ InChip(s, PllMarks2580(f, xtal)) /\ InChip(s, NMarks(f, xtal))

(* The bits of each, of which no two share any.                            *)
BandMarkBits(f) == {BandRegs(BandOf(f))[i] : i \in DOMAIN BandRegs(BandOf(f))} \X (0..7)
PllMarkBits2580 == {\h02, \h18, \h1a, \h1b, \h4b} \X (0..7)
NMarkBits(f) == ({\h1c} \X (0..7)) \cup IF BandOf(f) = "UHF" THEN {\h2d} \X (0..7) ELSE {}
FilterBits == {\h36, \h37, \h39, \h2e} \X (0..7)

LEMMA BandMarksAre ==
    ASSUME NEW f, NEW s, s.model = "FC2580"
    PROVE  /\ MarksIn(BandMarks(f), s.model, BandMarkBits(f))
           /\ BandMarkBits(f) \cap FilterBits = {} /\ BandMarkBits(f) \cap PllMarkBits2580 = {}
           /\ BandMarkBits(f) \cap NMarkBits(f) = {}
           /\ WriteBand(f) \in Seq(Write) /\ Covers(BandMarkBits(f), WriteBand(f))
           /\ \A w \in BandMarks(f) : Final(w, WriteBand(f))
<1>. DEFINE band == BandOf(f)
            regs == BandRegs(band)
            bytes == BandBytes(f)
            bits == BandMarkBits(f)
            a(i) == Put(regs[i], bytes[i])
<1>1. band \in {"UHF", "VHF", "L"}
      BY BandIs
<1>2. PICK n \in {19, 20} :
              /\ n = (IF band = "VHF" THEN 19 ELSE 20) /\ DOMAIN regs = 1..n
              /\ \A i \in 1..n :
                    /\ regs[i] \in Nat /\ regs[i] \notin Fc2580PllRegs
                    /\ regs[i] \notin {\h2e, \h36, \h37, \h39}
                    /\ band = "UHF" => regs[i] # \h2d
                    /\ \A j \in (i + 1)..n : regs[j] # regs[i]
  <2>. HIDE DEF band
  <2>. QED
       BY <1>1, BandRegsAre, Zenon
<1>3. DOMAIN bytes = 1..n
      BY <1>2, BandBytesAre
<1>4. \A i \in 1..n : regs[i] \in RegsOf(s.model)
      BY <1>1, <1>2, Fc2580Model
<1>5. bits = {regs[i] : i \in 1..n} \X (0..7)
      BY <1>2 DEF BandMarkBits
<1>6. BandMarks(f) = {a(i) : i \in 1..n}
      BY <1>2 DEF BandMarks
<1>7. WriteBand(f) = [i \in 1..n |-> a(i)]
      BY <1>3 DEF WriteBand
<1>8. /\ bits \cap FilterBits = {} /\ bits \cap PllMarkBits2580 = {}
      /\ bits \cap NMarkBits(f) = {}
  <2>. HIDE DEF bits, regs
  <2>1. bits \cap FilterBits = {}
        BY <1>2, <1>5 DEF FilterBits
  <2>2. bits \cap PllMarkBits2580 = {}
        BY <1>2, <1>5 DEF PllMarkBits2580, Fc2580PllRegs
  <2>3. bits \cap NMarkBits(f) = {}
        BY <1>2, <1>5 DEF NMarkBits, Fc2580PllRegs
  <2>. QED
       BY <2>1, <2>2, <2>3
<1>. HIDE DEF regs, bytes, bits
<1>9. \A i \in 1..n : a(i) \in Write /\ a(i).reg = regs[i] /\ a(i).mask = 0..7
  <2>. SUFFICES ASSUME NEW i \in 1..n PROVE a(i) \in Write /\ a(i).reg = regs[i] /\ a(i).mask = 0..7
       OBVIOUS
  <2>1. regs[i] \in Nat
        BY <1>2
  <2>2. Put(regs[i], bytes[i]) \in Write
        BY <2>1, WWrite
  <2>. QED
       BY <2>2, PutIs
<1>. HIDE DEF a
<1>10. MarksIn(BandMarks(f), s.model, bits)
       BY <1>4, <1>5, <1>6, <1>9 DEF MarksIn
<1>. DEFINE writes == [i \in 1..n |-> a(i)]
<1>11. writes \in Seq(Write) /\ Len(writes) = n /\ \A i \in 1..n : writes[i] = a(i)
       BY <1>9
<1>. HIDE DEF writes
<1>12. Covers(bits, writes)
       BY <1>5, <1>9, <1>11 DEF Covers
<1>13. ASSUME NEW i \in 1..n PROVE Final(a(i), writes)
  <2>1. \A j \in (i + 1)..n : j \in 1..n /\ regs[j] # regs[i]
        BY <1>2
  <2>2. \A j \in (i + 1)..n : \A b \in a(i).mask : ~Touches(writes[j], a(i).reg, b)
        BY <1>9, <1>11, <2>1 DEF Touches
  <2>. QED
       BY <1>11, <2>2 DEF Final
<1>. QED
     BY <1>6, <1>7, <1>8, <1>10, <1>11, <1>12, <1>13 DEF writes, bits
(* The filter's writes, and the triggers of its calibration.               *)
FilterMarks(mode, xtal) == {FilterWrites(mode, xtal)[i] : i \in 1..3}
FilterMarkBits == {\h36, \h37, \h39} \X (0..7)
TriggerBits == {\h2e} \X (0..7)

LEMMA FilterList ==
    ASSUME NEW mode, NEW xtal
    PROVE  LET writes == FilterWrites(mode, xtal)
           IN  /\ writes \in Seq(Write) /\ Covers(FilterBits, writes)
               /\ \A w \in FilterMarks(mode, xtal) : Final(w, writes)
               /\ \A s : s.model = "FC2580" => MarksIn(FilterMarks(mode, xtal), s.model, FilterMarkBits)
<1>. DEFINE n1 == IF mode = 1 THEN \h1c ELSE \h18
            n2 == Min({(FilterCoeff(mode) * xtal) \div 1000000, 255})
            n3 == IF mode \in {7, 8} THEN \h80 ELSE 0
            a1 == Put(\h36, n1)
            a2 == Put(\h37, n2)
            a3 == Put(\h39, n3)
            a4 == Put(\h2e, 9)
            writes == <<a1, a2, a3, a4>>
<1>1. FilterWrites(mode, xtal) = writes
      BY DEF FilterWrites
<1>. HIDE DEF n1, n2, n3
<1>2. /\ a1 \in Write /\ a1.reg = \h36 /\ a1.mask = 0..7
      /\ a2 \in Write /\ a2.reg = \h37 /\ a2.mask = 0..7
      /\ a3 \in Write /\ a3.reg = \h39 /\ a3.mask = 0..7
      /\ a4 \in Write /\ a4.reg = \h2e /\ a4.mask = 0..7
  <2>1. a1 \in Write /\ a2 \in Write /\ a3 \in Write /\ a4 \in Write
        BY WWrite
  <2>2. a1.reg = \h36 /\ a1.mask = 0..7 /\ a2.reg = \h37 /\ a2.mask = 0..7
        BY PutIs
  <2>3. a3.reg = \h39 /\ a3.mask = 0..7 /\ a4.reg = \h2e /\ a4.mask = 0..7
        BY PutIs
  <2>. QED
       BY <2>1, <2>2, <2>3
<1>. HIDE DEF a1, a2, a3, a4
<1>3. writes \in Seq(Write) /\ Len(writes) = 4
      BY <1>2
<1>4. writes[1] = a1 /\ writes[2] = a2 /\ writes[3] = a3 /\ writes[4] = a4
      OBVIOUS
<1>. HIDE DEF writes
<1>5. FilterMarks(mode, xtal) = {a1, a2, a3}
      BY <1>1, <1>4 DEF FilterMarks
<1>6. Covers(FilterBits, writes)
      BY <1>2, <1>3, <1>4 DEF Covers, FilterBits
<1>7. Final(a1, writes) /\ Final(a2, writes) /\ Final(a3, writes)
      BY <1>2, <1>3, <1>4 DEF Final, Touches
<1>8. \A s : s.model = "FC2580" => MarksIn({a1, a2, a3}, s.model, FilterMarkBits)
      BY <1>2, Fc2580Model DEF MarksIn, FilterMarkBits
<1>. QED
     BY <1>1, <1>3, <1>5, <1>6, <1>7, <1>8

LEMMA TriggerLists ==
    /\ <<Put(\h2e, 1)>> \in Seq(Write) /\ Covers(TriggerBits, <<Put(\h2e, 1)>>)
    /\ <<Put(\h2e, 1), Put(\h2e, 9), Put(\h2e, 1)>> \in Seq(Write)
    /\ Covers(TriggerBits, <<Put(\h2e, 1), Put(\h2e, 9), Put(\h2e, 1)>>)
<1>. DEFINE a == Put(\h2e, 1)
            b == Put(\h2e, 9)
<1>1. a \in Write /\ b \in Write /\ a.reg = \h2e /\ b.reg = \h2e /\ a.mask = 0..7 /\ b.mask = 0..7
      BY WWrite, PutIs
<1>. HIDE DEF a, b
<1>2. <<a>> \in Seq(Write) /\ <<a, b, a>> \in Seq(Write)
      BY <1>1
<1>3. /\ \A x \in a.mask : <<a.reg, x>> \in TriggerBits
      /\ \A x \in b.mask : <<b.reg, x>> \in TriggerBits
      BY <1>1 DEF TriggerBits
<1>4. Covers(TriggerBits, <<a>>) /\ Covers(TriggerBits, <<a, b, a>>)
      BY <1>3 DEF Covers
<1>. QED
     BY <1>2, <1>4 DEF a, b

LEMMA FilterSet ==
    ASSUME NEW s \in Driver, s.model = "FC2580", s.err = "none", NEW mode, NEW t \in set_filter(s, mode)
    PROVE  /\ Leaves(s, t, FilterBits) /\ t \in Driver
           /\ t.err = "none" => InChip(t, FilterMarks(mode, s.xtal))
<1>. DEFINE S == Apply(s, FilterWrites(mode, s.xtal))
            R == Then(S, Read)
            marks == FilterMarks(mode, s.xtal)
            Trigger(v) == Apply(v, <<Put(\h2e, 1)>>)
                          \cup Apply(v, <<Put(\h2e, 1), Put(\h2e, 9), Put(\h2e, 1)>>)
<1>0. /\ FilterWrites(mode, s.xtal) \in Seq(Write) /\ Covers(FilterBits, FilterWrites(mode, s.xtal))
      /\ \A w \in marks : Final(w, FilterWrites(mode, s.xtal))
      /\ MarksIn(marks, s.model, FilterMarkBits)
      BY FilterList
<1>1. \/ t \in R /\ t.err # "none"
      \/ \E v \in R : v.err = "none" /\ t \in Trigger(v)
  <2>1. set_filter(s, mode) = (R \ Succeeded(R)) \cup UNION {Trigger(v) : v \in Succeeded(R)}
        BY DEF set_filter, Then
  <2>. HIDE DEF R, Trigger
  <2>. QED
       BY <2>1 DEF Succeeded
<1>2. ASSUME NEW u \in S
      PROVE  Leaves(s, u, FilterBits) /\ u \in Driver /\ (u.err = "none" => InChip(u, marks))
  <2>1. /\ Leaves(s, u, FilterBits) /\ u \in Driver
        /\ u.err = "none" => \A w : Final(w, FilterWrites(mode, s.xtal)) /\ w.reg \in RegsOf(s.model) => Holds(u, w)
    <3>. HIDE DEF marks
    <3>. QED
         BY <1>0, ApplyList
  <2>. HIDE DEF marks
  <2>. QED
       BY <1>0, <2>1 DEF InChip, MarksIn
<1>3. ASSUME NEW v \in R
      PROVE  Leaves(s, v, FilterBits) /\ v \in Driver /\ (v.err = "none" => InChip(v, marks))
  <2>1. \/ v \in S /\ v.err # "none"
        \/ \E u \in S : u.err = "none" /\ v \in Read(u)
    <3>1. R = (S \ Succeeded(S)) \cup UNION {Read(u) : u \in Succeeded(S)}
          BY DEF Then
    <3>. HIDE DEF S, R
    <3>. QED
         BY <1>3, <3>1 DEF Succeeded
  <2>. HIDE DEF S, marks
  <2>2. CASE v \in S /\ v.err # "none"
        BY <1>2, <2>2
  <2>3. ASSUME NEW u \in S, u.err = "none", v \in Read(u)
        PROVE  Leaves(s, v, FilterBits) /\ v \in Driver /\ (v.err = "none" => InChip(v, marks))
    <3>1. Leaves(s, u, FilterBits) /\ u \in Driver /\ InChip(u, marks)
          BY <1>2, <2>3
    <3>2. Leaves(u, v, FilterBits) /\ (v.err = "none" => v = u)
          BY <2>3, <3>1, ReadLeaves
    <3>3. Leaves(s, v, FilterBits)
          BY <3>1, <3>2, LeavesTrans
    <3>. QED
         BY <3>1, <3>2, <3>3 DEF Leaves, Same
  <2>. QED
       BY <2>1, <2>2, <2>3
<1>. HIDE DEF R, S, marks
<1>4. CASE t \in R /\ t.err # "none"
      BY <1>3, <1>4
<1>5. ASSUME NEW v \in R, v.err = "none", t \in Trigger(v)
      PROVE  Leaves(s, t, FilterBits) /\ t \in Driver /\ InChip(t, marks)
  <2>1. Leaves(s, v, FilterBits) /\ v \in Driver /\ InChip(v, marks) /\ v.model = s.model
        BY <1>3, <1>5 DEF Leaves, Same
  <2>2. Leaves(v, t, TriggerBits) /\ t \in Driver
    <3>1. CASE t \in Apply(v, <<Put(\h2e, 1)>>)
          BY <1>5, <2>1, <3>1, TriggerLists, ApplyList
    <3>2. CASE t \in Apply(v, <<Put(\h2e, 1), Put(\h2e, 9), Put(\h2e, 1)>>)
          BY <1>5, <2>1, <3>2, TriggerLists, ApplyList
    <3>. QED
         BY <1>5, <3>1, <3>2
  <2>3. TriggerBits \subseteq FilterBits /\ TriggerBits \cap FilterMarkBits = {}
        BY DEF TriggerBits, FilterBits, FilterMarkBits
  <2>4. Leaves(s, t, FilterBits)
        BY <2>1, <2>2, <2>3, LeavesMore, LeavesTrans
  <2>5. InChip(t, marks)
        BY <1>0, <2>1, <2>2, <2>3, InChipStays
  <2>. QED
       BY <2>2, <2>4, <2>5
<1>. QED
     BY <1>1, <1>4, <1>5 DEF marks

LEMMA Fc2580SetBw ==
    ASSUME NEW s \in Driver, s.model = "FC2580", s.err = "none", NEW b, NEW t \in fc2580_set_bw(s, b)
    PROVE  /\ Leaves(s, t, WidthBits(s.model))
           /\ t.err = "none" => InChip(t, WidthMarks(s.model, <<FilterMode(b), s.xtal>>))
<1>1. WidthBits(s.model) = FilterBits
      BY DEF WidthBits, FilterBits
<1>2. WidthMarks(s.model, <<FilterMode(b), s.xtal>>) = FilterMarks(FilterMode(b), s.xtal)
      BY DEF WidthMarks, FilterMarks
<1>3. CASE s.xtal = 0
  <2>1. t \in Refuse(s)
        BY <1>3 DEF fc2580_set_bw
  <2>. QED
       BY <2>1, RefuseLeaves
<1>4. CASE s.xtal # 0
  <2>1. t \in set_filter(s, FilterMode(b))
        BY <1>4 DEF fc2580_set_bw
  <2>. QED
       BY <1>1, <1>2, <2>1, FilterSet
<1>. QED
     BY <1>3, <1>4

LEMMA Fc2580InitLeaves ==
    ASSUME NEW s \in Driver, s.model = "FC2580", s.err = "none", NEW t \in fc2580_init(s)
    PROVE  Leaves(s, t, AnyBits)
<1>. DEFINE S == Apply(s, Fc2580Init)
<1>1. CASE s.xtal = 0
  <2>1. t \in Refuse(s)
        BY <1>1 DEF fc2580_init
  <2>. QED
       BY <2>1, RefuseLeaves
<1>2. CASE s.xtal # 0
  <2>1. \/ t \in S /\ t.err # "none"
        \/ \E u \in S : u.err = "none" /\ t \in set_filter(u, 8)
    <3>1. fc2580_init(s) = (S \ Succeeded(S)) \cup UNION {set_filter(u, 8) : u \in Succeeded(S)}
          BY <1>2 DEF fc2580_init, Then
    <3>. HIDE DEF S
    <3>. QED
         BY <3>1 DEF Succeeded
  <2>2. Fc2580Init \in Seq(Write)
    <3>. DEFINE P(r, v) == Put(r, v)
    <3>1. Fc2580Init =
            <<P(\h00, 0), P(\h12, \h86), P(\h14, \h5c), P(\h16, \h3c), P(\h1f, \hd2),
              P(\h09, \hd7), P(\h0b, \hd5), P(\h0c, \h32), P(\h0e, \h43), P(\h21, \h0a),
              P(\h22, \h82), P(\h45, \h20), P(\h4c, 2), P(\h3f, \h88), P(\h02, \h0e),
              P(\h58, \h14)>>
          BY DEF Fc2580Init
    <3>2. \A r \in Nat : \A v : P(r, v) \in Write
          BY WWrite
    <3>. HIDE DEF P
    <3>3. /\ P(\h00, 0) \in Write /\ P(\h12, \h86) \in Write /\ P(\h14, \h5c) \in Write
          /\ P(\h16, \h3c) \in Write /\ P(\h1f, \hd2) \in Write /\ P(\h09, \hd7) \in Write
          /\ P(\h0b, \hd5) \in Write /\ P(\h0c, \h32) \in Write
          BY <3>2
    <3>4. /\ P(\h0e, \h43) \in Write /\ P(\h21, \h0a) \in Write /\ P(\h22, \h82) \in Write
          /\ P(\h45, \h20) \in Write /\ P(\h4c, 2) \in Write /\ P(\h3f, \h88) \in Write
          /\ P(\h02, \h0e) \in Write /\ P(\h58, \h14) \in Write
          BY <3>2
    <3>. QED
         BY <3>1, <3>3, <3>4
  <2>3. \A u \in S : Leaves(s, u, AnyBits) /\ u \in Driver
        BY <2>2, AnyCovers, ApplyList
  <2>. HIDE DEF S
  <2>4. CASE t \in S /\ t.err # "none"
        BY <2>3, <2>4
  <2>5. ASSUME NEW u \in S, u.err = "none", t \in set_filter(u, 8) PROVE Leaves(s, t, AnyBits)
    <3>1. Leaves(s, u, AnyBits) /\ u \in Driver /\ u.model = "FC2580"
          BY <2>3 DEF Leaves, Same
    <3>2. Leaves(u, t, FilterBits)
          BY <2>5, <3>1, FilterSet
    <3>3. FilterBits \subseteq AnyBits
          BY DEF FilterBits, AnyBits
    <3>. QED
         BY <3>1, <3>2, <3>3, LeavesMore, LeavesTrans
  <2>. QED
       BY <2>1, <2>4, <2>5
<1>. QED
     BY <1>1, <1>2
(* The lists of the PLL and of N.                                          *)
LEMMA PllList2580 ==
    ASSUME NEW f, NEW xtal
    PROVE  LET writes == PllBytes2580(f, xtal)
               marks == PllMarks2580(f, xtal)
           IN  /\ writes \in Seq(Write) /\ Covers(PllMarkBits2580, writes)
               /\ \A w \in marks : Final(w, writes)
               /\ \A s : s.model = "FC2580" => MarksIn(marks, s.model, PllMarkBits2580)
<1>. DEFINE k == KVal(f, xtal)
            n1 == Data02(f)
            n2 == RBits(RDiv(f, xtal)) + k \div 65536
            n3 == (k \div 256) % 256
            n4 == k % 256
            a0 == Put(\h4b, \h22)
            a1 == Put(\h02, n1)
            a2 == Put(\h18, n2)
            a3 == Put(\h1a, n3)
            a4 == Put(\h1b, n4)
            head == IF xtal >= 28000 THEN <<a0>> ELSE <<>>
            tail == <<a1, a2, a3, a4>>
            marks == {a1, a2, a3, a4}
<1>1. PllBytes2580(f, xtal) = head \o tail /\ PllMarks2580(f, xtal) = marks
      BY SMT DEF PllBytes2580, PllMarks2580
<1>. HIDE DEF n1, n2, n3, n4
<1>2. /\ a0 \in Write /\ a1 \in Write /\ a2 \in Write /\ a3 \in Write /\ a4 \in Write
      BY WWrite
<1>3. /\ a0.reg = \h4b /\ a0.mask = 0..7 /\ a1.reg = \h02 /\ a1.mask = 0..7
      /\ a2.reg = \h18 /\ a2.mask = 0..7
      BY PutIs
<1>4. a3.reg = \h1a /\ a3.mask = 0..7 /\ a4.reg = \h1b /\ a4.mask = 0..7
      BY PutIs
<1>. HIDE DEF a0, a1, a2, a3, a4
<1>5. head \in Seq(Write) /\ Covers(PllMarkBits2580, head)
  <2>1. <<a0>> \in Seq(Write) /\ <<>> \in Seq(Write)
        BY <1>2
  <2>2. Covers(PllMarkBits2580, <<a0>>)
    <3>1. \A x \in a0.mask : <<a0.reg, x>> \in PllMarkBits2580
          BY <1>3 DEF PllMarkBits2580
    <3>. QED
         BY <3>1 DEF Covers
  <2>3. Covers(PllMarkBits2580, <<>>)
        BY DEF Covers
  <2>. QED
       BY <2>1, <2>2, <2>3
<1>6. tail \in Seq(Write) /\ Len(tail) = 4
      BY <1>2
<1>7. tail[1] = a1 /\ tail[2] = a2 /\ tail[3] = a3 /\ tail[4] = a4
      OBVIOUS
<1>. HIDE DEF head, tail
<1>8. Covers(PllMarkBits2580, tail)
      BY <1>3, <1>4, <1>6, <1>7 DEF Covers, PllMarkBits2580
<1>9. Final(a1, tail) /\ Final(a2, tail) /\ Final(a3, tail) /\ Final(a4, tail)
      BY <1>3, <1>4, <1>6, <1>7 DEF Final, Touches
<1>10. \A w \in marks : Final(w, head \o tail)
       BY <1>5, <1>6, <1>9, CatFinal
<1>11. head \o tail \in Seq(Write) /\ Covers(PllMarkBits2580, head \o tail)
       BY <1>5, <1>6, <1>8, CatIs, CatCovers
<1>12. ASSUME NEW s, s.model = "FC2580" PROVE MarksIn(marks, s.model, PllMarkBits2580)
       BY <1>2, <1>3, <1>4, <1>12, Fc2580Model DEF MarksIn, PllMarkBits2580
<1>. QED
     BY <1>1, <1>10, <1>11, <1>12

Upper2d(f) == IF f <= 794000 THEN \h9f ELSE \h8f
NWrites(f, xtal) ==
    <<Put(\h1c, NVal(f, xtal))>>
    \o IF BandOf(f) # "UHF" THEN <<>> ELSE <<Put(\h2d, Upper2d(f))>>

LEMMA LoadNIs ==
    ASSUME NEW s, NEW f
    PROVE  LoadN(s, f) = IF NVal(f, s.xtal) > 255 THEN Refuse(s) ELSE Apply(s, NWrites(f, s.xtal))
BY SMT DEF LoadN, NWrites, Upper2d

LEMMA NList ==
    ASSUME NEW f, NEW xtal
    PROVE  LET writes == NWrites(f, xtal)
           IN  /\ writes \in Seq(Write) /\ Covers(NMarkBits(f), writes)
               /\ \A w \in NMarks(f, xtal) : Final(w, writes)
               /\ \A s : s.model = "FC2580" => MarksIn(NMarks(f, xtal), s.model, {\h1c} \X (0..7))
<1>. DEFINE n == NVal(f, xtal)
            k == Upper2d(f)
            a == Put(\h1c, n)
            b == Put(\h2d, k)
            tail == IF BandOf(f) # "UHF" THEN <<>> ELSE <<b>>
<1>. HIDE DEF n, k
<1>1. a \in Write /\ b \in Write
      BY WWrite
<1>2. a.reg = \h1c /\ a.mask = 0..7 /\ b.reg = \h2d /\ b.mask = 0..7
      BY PutIs
<1>3. NMarks(f, xtal) = {a}
      BY DEF NMarks, n
<1>. HIDE DEF a, b
<1>4. <<a>> \in Seq(Write) /\ Final(a, <<a>>)
      BY <1>1, ListOne
<1>5. tail \in Seq(Write)
      BY <1>1
<1>6. Spares(a, tail)
  <2>1. Spares(a, <<>>) /\ Spares(a, <<b>>)
        BY <1>2 DEF Spares, Touches
  <2>. QED
       BY <2>1
<1>7. Covers(NMarkBits(f), <<a>>)
  <2>1. \A x \in a.mask : <<a.reg, x>> \in NMarkBits(f)
        BY <1>2 DEF NMarkBits
  <2>. QED
       BY <2>1 DEF Covers
<1>8. Covers(NMarkBits(f), tail)
  <2>1. CASE BandOf(f) = "UHF"
    <3>1. \A x \in b.mask : <<b.reg, x>> \in NMarkBits(f)
          BY <1>2, <2>1 DEF NMarkBits
    <3>2. tail = <<b>>
          BY <2>1
    <3>3. Covers(NMarkBits(f), <<b>>)
          BY <3>1 DEF Covers
    <3>. QED
         BY <3>2, <3>3
  <2>2. CASE BandOf(f) # "UHF"
    <3>1. tail = <<>>
          BY <2>2
    <3>2. Covers(NMarkBits(f), <<>>)
          BY DEF Covers
    <3>. QED
         BY <3>1, <3>2
  <2>. QED
       BY <2>1, <2>2
<1>. HIDE DEF tail
<1>9. /\ <<a>> \o tail \in Seq(Write) /\ Covers(NMarkBits(f), <<a>> \o tail)
      /\ Final(a, <<a>> \o tail)
      BY <1>4, <1>5, <1>6, <1>7, <1>8, CatIs, CatCovers, CatFinal
<1>. DEFINE writes == <<a>> \o tail
<1>11. NWrites(f, xtal) = writes
       BY DEF NWrites, a, b, tail, n, k
<1>. HIDE DEF writes
<1>10. ASSUME NEW s, s.model = "FC2580" PROVE MarksIn({a}, s.model, {\h1c} \X (0..7))
       BY <1>1, <1>2, <1>10, Fc2580Model DEF MarksIn
<1>. QED
     BY <1>3, <1>9, <1>10, <1>11 DEF writes

LEMMA NLoaded ==
    ASSUME NEW s \in Driver, s.model = "FC2580", s.err = "none", NEW f, NEW t \in LoadN(s, f)
    PROVE  /\ Leaves(s, t, NMarkBits(f)) /\ t \in Driver
           /\ t.err = "none" => ~(NVal(f, s.xtal) > 255) /\ InChip(t, NMarks(f, s.xtal))
<1>. DEFINE n == NVal(f, s.xtal)
            writes == NWrites(f, s.xtal)
<1>1. CASE n > 255
  <2>1. t \in Refuse(s)
        BY <1>1, LoadNIs
  <2>2. Leaves(s, t, NMarkBits(f)) /\ t.err = "tuner"
        BY <2>1, RefuseLeaves
  <2>. QED
       BY <2>2 DEF Leaves, Same
<1>2. CASE ~(n > 255)
  <2>0. t \in Apply(s, writes)
        BY <1>2, LoadNIs
  <2>1. /\ writes \in Seq(Write) /\ Covers(NMarkBits(f), writes)
        /\ \A w \in NMarks(f, s.xtal) : Final(w, writes)
        /\ MarksIn(NMarks(f, s.xtal), s.model, {\h1c} \X (0..7))
        BY NList
  <2>. HIDE DEF writes
  <2>2. /\ Leaves(s, t, NMarkBits(f)) /\ t \in Driver
        /\ t.err = "none" => \A w : Final(w, writes) /\ w.reg \in RegsOf(s.model) => Holds(t, w)
        BY <2>0, <2>1, ApplyList
  <2>. QED
       BY <1>2, <2>1, <2>2 DEF InChip, MarksIn
<1>. QED
     BY <1>1, <1>2
(* set_freq: the band's registers, its filter, the PLL, N.                 *)
LEMMA MarksApart ==
    /\ FilterMarkBits \subseteq FilterBits /\ FilterMarkBits \cap PllMarkBits2580 = {}
    /\ \A f : FilterMarkBits \cap NMarkBits(f) = {} /\ PllMarkBits2580 \cap NMarkBits(f) = {}
    /\ ({\h1c} \X (0..7)) \cap FilterBits = {} /\ PllMarkBits2580 \cap FilterBits = {}
<1>1. FilterMarkBits \subseteq FilterBits /\ FilterMarkBits \cap PllMarkBits2580 = {}
      BY DEF FilterMarkBits, FilterBits, PllMarkBits2580
<1>2. ({\h1c} \X (0..7)) \cap FilterBits = {} /\ PllMarkBits2580 \cap FilterBits = {}
      BY DEF FilterBits, PllMarkBits2580
<1>3. ASSUME NEW f PROVE FilterMarkBits \cap NMarkBits(f) = {} /\ PllMarkBits2580 \cap NMarkBits(f) = {}
  <2>1. NMarkBits(f) \subseteq {\h1c, \h2d} \X (0..7)
        BY DEF NMarkBits
  <2>2. ({\h1c, \h2d} \X (0..7)) \cap FilterMarkBits = {} /\ ({\h1c, \h2d} \X (0..7)) \cap PllMarkBits2580 = {}
        BY DEF FilterMarkBits, PllMarkBits2580
  <2>. QED
       BY <2>1, <2>2
<1>. QED
     BY <1>1, <1>2, <1>3

LEMMA Fc2580SetFreq ==
    ASSUME NEW s \in Driver, s.model = "FC2580", s.err = "none", NEW f \in Nat, NEW t \in fc2580_set_freq(s, f)
    PROVE  /\ t \in Driver /\ t.model = s.model /\ t.xtal = s.xtal /\ t.bw = s.bw /\ t.faults <= s.faults
           /\ t.freq = s.freq \/ t.freq = f
           /\ t.err = "none" => /\ Fc2580Programmed(t, f, s.xtal)
                                /\ InChip(t, FilterMarks(BandFilter(f), s.xtal))
<1>. DEFINE R0 == Apply(s, WriteBand(f))
            R1 == Then(R0, LAMBDA u : set_filter(u, BandFilter(f)))
            R2 == Then(R1, LAMBDA u : Apply(u, PllBytes2580(f, u.xtal)))
            R3 == Then(R2, LAMBDA u : LoadN(u, f))
            M0 == BandMarks(f)
            M1 == FilterMarks(BandFilter(f), s.xtal)
            M2 == PllMarks2580(f, s.xtal)
            M3 == NMarks(f, s.xtal)
<1>0. s.faults \in Nat /\ s.freq \in Nat
      BY DriverType
<1>1. CASE s.xtal = 0 \/ FComp(f, s.xtal) = 0
  <2>1. t \in Refuse(s)
        BY <1>1 DEF fc2580_set_freq
  <2>2. Leaves(s, t, {}) /\ t.err = "tuner"
        BY <2>1, RefuseLeaves
  <2>. QED
       BY <2>2 DEF Leaves, Same
<1>2. CASE ~(s.xtal = 0 \/ FComp(f, s.xtal) = 0)
  <2>0. /\ MarksIn(M0, s.model, BandMarkBits(f)) /\ MarksIn(M1, s.model, FilterMarkBits)
        /\ MarksIn(M2, s.model, PllMarkBits2580) /\ MarksIn(M3, s.model, {\h1c} \X (0..7))
        BY BandMarksAre, FilterList, PllList2580, NList
  <2>00. /\ BandMarkBits(f) \cap FilterBits = {} /\ BandMarkBits(f) \cap PllMarkBits2580 = {}
         /\ BandMarkBits(f) \cap NMarkBits(f) = {}
         /\ FilterMarkBits \cap PllMarkBits2580 = {} /\ FilterMarkBits \cap NMarkBits(f) = {}
         /\ PllMarkBits2580 \cap NMarkBits(f) = {}
         BY BandMarksAre, MarksApart
  <2>1. \A u \in R0 : Leaves(s, u, AnyBits) /\ u \in Driver /\ (u.err = "none" => InChip(u, M0))
    <3>. SUFFICES ASSUME NEW u \in R0
                  PROVE  Leaves(s, u, AnyBits) /\ u \in Driver /\ (u.err = "none" => InChip(u, M0))
         OBVIOUS
    <3>1. /\ Leaves(s, u, AnyBits) /\ u \in Driver
          /\ u.err = "none" => \A w : Final(w, WriteBand(f)) /\ w.reg \in RegsOf(s.model) => Holds(u, w)
      <4>1. WriteBand(f) \in Seq(Write) /\ Covers(AnyBits, WriteBand(f))
            BY BandMarksAre, AnyCovers
      <4>. QED
           BY <4>1, ApplyList
    <3>2. \A w \in M0 : Final(w, WriteBand(f)) /\ w.reg \in RegsOf(s.model)
          BY <2>0, BandMarksAre DEF MarksIn
    <3>. QED
         BY <3>1, <3>2 DEF InChip
  <2>2. \A v \in R1 : /\ Leaves(s, v, AnyBits) /\ v \in Driver
                      /\ v.err = "none" => InChip(v, M0) /\ InChip(v, M1)
    <3>. SUFFICES ASSUME NEW v \in R1
                  PROVE  /\ Leaves(s, v, AnyBits) /\ v \in Driver
                         /\ v.err = "none" => InChip(v, M0) /\ InChip(v, M1)
         OBVIOUS
    <3>1. \/ v \in R0 /\ v.err # "none"
          \/ \E u \in R0 : u.err = "none" /\ v \in set_filter(u, BandFilter(f))
      <4>1. R1 = (R0 \ Succeeded(R0)) \cup UNION {set_filter(u, BandFilter(f)) : u \in Succeeded(R0)}
            BY DEF Then
      <4>. HIDE DEF R0, R1
      <4>. QED
           BY <4>1 DEF Succeeded
    <3>. HIDE DEF R0, R1, M0, M1
    <3>2. CASE v \in R0 /\ v.err # "none"
          BY <2>1, <3>2
    <3>3. ASSUME NEW u \in R0, u.err = "none", v \in set_filter(u, BandFilter(f))
          PROVE  /\ Leaves(s, v, AnyBits) /\ v \in Driver
                 /\ v.err = "none" => InChip(v, M0) /\ InChip(v, M1)
      <4>1. Leaves(s, u, AnyBits) /\ u \in Driver /\ InChip(u, M0) /\ u.model = s.model /\ u.xtal = s.xtal
            BY <2>1, <3>3 DEF Leaves, Same
      <4>2. /\ Leaves(u, v, FilterBits) /\ v \in Driver
            /\ v.err = "none" => InChip(v, FilterMarks(BandFilter(f), u.xtal))
            BY <3>3, <4>1, FilterSet
      <4>3. InChip(v, M0)
            BY <2>0, <2>00, <4>1, <4>2, InChipStays
      <4>4. FilterBits \subseteq AnyBits
            BY DEF FilterBits, AnyBits
      <4>5. Leaves(s, v, AnyBits)
            BY <4>1, <4>2, <4>4, LeavesMore, LeavesTrans
      <4>. QED
           BY <4>1, <4>2, <4>3, <4>5 DEF M1
    <3>. QED
         BY <3>1, <3>2, <3>3
  <2>3. \A v \in R2 : /\ Leaves(s, v, AnyBits) /\ v \in Driver
                      /\ v.err = "none" => InChip(v, M0) /\ InChip(v, M1) /\ InChip(v, M2)
    <3>. SUFFICES ASSUME NEW v \in R2
                  PROVE  /\ Leaves(s, v, AnyBits) /\ v \in Driver
                         /\ v.err = "none" => InChip(v, M0) /\ InChip(v, M1) /\ InChip(v, M2)
         OBVIOUS
    <3>1. \/ v \in R1 /\ v.err # "none"
          \/ \E u \in R1 : u.err = "none" /\ v \in Apply(u, PllBytes2580(f, u.xtal))
      <4>1. R2 = (R1 \ Succeeded(R1)) \cup UNION {Apply(u, PllBytes2580(f, u.xtal)) : u \in Succeeded(R1)}
            BY DEF Then
      <4>. HIDE DEF R1, R2
      <4>. QED
           BY <4>1 DEF Succeeded
    <3>. HIDE DEF R0, R1, R2, M0, M1
    <3>2. CASE v \in R1 /\ v.err # "none"
          BY <2>2, <3>2
    <3>3. ASSUME NEW u \in R1, u.err = "none", v \in Apply(u, PllBytes2580(f, u.xtal))
          PROVE  /\ Leaves(s, v, AnyBits) /\ v \in Driver
                 /\ v.err = "none" => InChip(v, M0) /\ InChip(v, M1) /\ InChip(v, M2)
      <4>1. /\ Leaves(s, u, AnyBits) /\ u \in Driver /\ InChip(u, M0) /\ InChip(u, M1)
            /\ u.model = s.model /\ u.xtal = s.xtal
            BY <2>2, <3>3 DEF Leaves, Same
      <4>. DEFINE writes == PllBytes2580(f, s.xtal)
      <4>2. /\ writes \in Seq(Write) /\ Covers(PllMarkBits2580, writes) /\ \A w \in M2 : Final(w, writes)
            BY PllList2580
      <4>3. v \in Apply(u, writes)
            BY <3>3, <4>1
      <4>. HIDE DEF writes, M2
      <4>4. /\ Leaves(u, v, PllMarkBits2580) /\ v \in Driver
            /\ v.err = "none" => \A w : Final(w, writes) /\ w.reg \in RegsOf(u.model) => Holds(v, w)
            BY <3>3, <4>1, <4>2, <4>3, ApplyList
      <4>5. v.err = "none" => InChip(v, M2)
            BY <2>0, <4>1, <4>2, <4>4 DEF InChip, MarksIn
      <4>6. InChip(v, M0)
            BY <2>0, <2>00, <4>1, <4>4, InChipStays
      <4>7. InChip(v, M1)
            BY <2>0, <2>00, <4>1, <4>4, InChipStays
      <4>8. PllMarkBits2580 \subseteq AnyBits
            BY DEF PllMarkBits2580, AnyBits
      <4>9. Leaves(s, v, AnyBits)
            BY <4>1, <4>4, <4>8, LeavesMore, LeavesTrans
      <4>. QED
           BY <4>4, <4>5, <4>6, <4>7, <4>9
    <3>. QED
         BY <3>1, <3>2, <3>3
  <2>4. \A v \in R3 : /\ Leaves(s, v, AnyBits) /\ v \in Driver
                      /\ v.err = "none" => /\ InChip(v, M0) /\ InChip(v, M1) /\ InChip(v, M2) /\ InChip(v, M3)
                                           /\ ~(NVal(f, s.xtal) > 255)
    <3>. SUFFICES ASSUME NEW v \in R3
                  PROVE  /\ Leaves(s, v, AnyBits) /\ v \in Driver
                         /\ v.err = "none" => /\ InChip(v, M0) /\ InChip(v, M1) /\ InChip(v, M2) /\ InChip(v, M3)
                                              /\ ~(NVal(f, s.xtal) > 255)
         OBVIOUS
    <3>1. \/ v \in R2 /\ v.err # "none"
          \/ \E u \in R2 : u.err = "none" /\ v \in LoadN(u, f)
      <4>1. R3 = (R2 \ Succeeded(R2)) \cup UNION {LoadN(u, f) : u \in Succeeded(R2)}
            BY DEF Then
      <4>. HIDE DEF R2, R3
      <4>. QED
           BY <4>1 DEF Succeeded
    <3>. HIDE DEF R0, R1, R2, R3, M0, M1, M2
    <3>2. CASE v \in R2 /\ v.err # "none"
          BY <2>3, <3>2
    <3>3. ASSUME NEW u \in R2, u.err = "none", v \in LoadN(u, f)
          PROVE  /\ Leaves(s, v, AnyBits) /\ v \in Driver
                 /\ v.err = "none" => /\ InChip(v, M0) /\ InChip(v, M1) /\ InChip(v, M2) /\ InChip(v, M3)
                                      /\ ~(NVal(f, s.xtal) > 255)
      <4>1. /\ Leaves(s, u, AnyBits) /\ u \in Driver /\ InChip(u, M0) /\ InChip(u, M1) /\ InChip(u, M2)
            /\ u.model = s.model /\ u.xtal = s.xtal
            BY <2>3, <3>3 DEF Leaves, Same
      <4>2. /\ Leaves(u, v, NMarkBits(f)) /\ v \in Driver
            /\ v.err = "none" => ~(NVal(f, u.xtal) > 255) /\ InChip(v, NMarks(f, u.xtal))
            BY <3>3, <4>1, NLoaded
      <4>3. v.err = "none" => ~(NVal(f, s.xtal) > 255) /\ InChip(v, M3)
            BY <4>1, <4>2
      <4>. HIDE DEF M3
      <4>4. InChip(v, M0)
            BY <2>0, <2>00, <4>1, <4>2, InChipStays
      <4>5. InChip(v, M1)
            BY <2>0, <2>00, <4>1, <4>2, InChipStays
      <4>6. InChip(v, M2)
            BY <2>0, <2>00, <4>1, <4>2, InChipStays
      <4>7. NMarkBits(f) \subseteq AnyBits
            BY DEF NMarkBits, AnyBits
      <4>8. Leaves(s, v, AnyBits)
            BY <4>1, <4>2, <4>7, LeavesMore, LeavesTrans
      <4>. QED
           BY <4>2, <4>3, <4>4, <4>5, <4>6, <4>8
    <3>. QED
         BY <3>1, <3>2, <3>3
  <2>5. \/ t \in R3 /\ t.err # "none"
        \/ \E u \in R3 : u.err = "none" /\ t = [u EXCEPT !.freq = f]
    <3>1. fc2580_set_freq(s, f) = (R3 \ Succeeded(R3)) \cup UNION {{[u EXCEPT !.freq = f]} : u \in Succeeded(R3)}
          BY <1>2 DEF fc2580_set_freq, Then
    <3>. HIDE DEF R3
    <3>. QED
         BY <3>1 DEF Succeeded
  <2>. HIDE DEF R0, R1, R2, R3
  <2>6. CASE t \in R3 /\ t.err # "none"
        BY <2>4, <2>6 DEF Leaves, Same
  <2>7. ASSUME NEW u \in R3, u.err = "none", t = [u EXCEPT !.freq = f]
        PROVE  /\ t \in Driver /\ t.model = s.model /\ t.xtal = s.xtal /\ t.bw = s.bw /\ t.faults <= s.faults
               /\ t.freq = f /\ Fc2580Programmed(t, f, s.xtal) /\ InChip(t, M1)
    <3>1. /\ Leaves(s, u, AnyBits) /\ u \in Driver
          /\ InChip(u, M0) /\ InChip(u, M1) /\ InChip(u, M2) /\ InChip(u, M3) /\ ~(NVal(f, s.xtal) > 255)
          BY <2>4, <2>7
    <3>2. /\ t \in Driver /\ t.model = u.model /\ t.xtal = u.xtal /\ t.bw = u.bw /\ t.faults = u.faults
          /\ t.freq = f /\ t.chip = u.chip
          BY <2>7, <3>1, DriverChanged, DriverType
    <3>3. InChip(t, M0) /\ InChip(t, M1) /\ InChip(t, M2) /\ InChip(t, M3)
          BY <3>1, <3>2 DEF InChip, Holds
    <3>4. Fc2580Programmed(t, f, s.xtal)
          BY <1>2, <3>1, <3>3 DEF Fc2580Programmed
    <3>. QED
         BY <3>1, <3>2, <3>3, <3>4 DEF Leaves, Same
  <2>. QED
       BY <2>5, <2>6, <2>7
<1>. QED
     BY <1>1, <1>2
---------------------------------------------------------------------------
(* What was asked for, as what the driver and the chip show of it.         *)
FreqShown(s, p) ==
    /\ IsFc001x(s) => FcProgrammed(s, p[1], p[2])
    /\ s.model = "E4000" => E4kProgrammed(s, p[1], p[2])
    /\ s.model = "FC2580" => Fc2580Programmed(s, p[1], p[2])
WidthShown(s, b) == IF IsFc001x(s) THEN s.bw = b[1] ELSE InChip(s, WidthMarks(s.model, b))
GainShown(s, g) == InChip(s, GainMarks(s.model, g))
ModeShown(s, m) == InChip(s, ModeMarks(s.model, m))
StageShown(s, g) == s.model = "E4000" /\ StageTaken(g) /\ Holds(s, StageMark(g))

FreqMarkBits(model) ==
    CASE model \in {"FC0012", "FC0013"} -> FcMarkBits
      [] model = "E4000" -> E4kFreqBits
      [] OTHER -> AnyBits \ FilterBits

LEMMA ModelIs ==
    ASSUME NEW s \in Driver
    PROVE  /\ s.model \in {"FC0012", "FC0013", "E4000", "FC2580"}
           /\ IsFc001x(s) <=> s.model \in {"FC0012", "FC0013"}
BY DriverType, TraitAssumption DEF IsFc001x

(* The marks of a setting lie in its bits.                                 *)
LEMMA GainMarksIn ==
    ASSUME NEW s \in Driver, NEW g PROVE MarksIn(GainMarks(s.model, g), s.model, GainBits(s.model))
<1>1. CASE s.model = "FC0012"
  <2>. DEFINE a == W(\h13, FC0012_LNA(g), \h1f)
  <2>1. a \in Write /\ a.reg = \h13 /\ a.mask = 0..4
        BY WWrite, WIs, Masks
  <2>2. GainMarks(s.model, g) = {a} /\ GainBits(s.model) = {\h13} \X (0..4)
        BY <1>1 DEF GainMarks, GainBits
  <2>3. \h13 \in RegsOf(s.model)
        BY <1>1, FcModels DEF IsFc001x
  <2>. HIDE DEF a
  <2>. QED
       BY <2>1, <2>2, <2>3 DEF MarksIn
<1>2. CASE s.model = "FC0013"
  <2>. DEFINE a == W(\h14, FC0013_LNA(g), \h1f)
  <2>1. a \in Write /\ a.reg = \h14 /\ a.mask = 0..4
        BY WWrite, WIs, Masks
  <2>2. GainMarks(s.model, g) = {a} /\ GainBits(s.model) = {\h14} \X (0..4)
        BY <1>2 DEF GainMarks, GainBits
  <2>3. \h14 \in RegsOf(s.model)
        BY <1>2, FcModels DEF IsFc001x
  <2>. HIDE DEF a
  <2>. QED
       BY <2>1, <2>2, <2>3 DEF MarksIn
<1>3. CASE s.model = "E4000"
  <2>. DEFINE gains == [i \in DOMAIN E4K_LNA_GAIN |-> E4K_LNA_GAIN[i][1]]
              lna == Closest(gains, Min({g - 10 * MixerGain(g), 300}))
              a == W(GAIN1, E4K_LNA_GAIN[lna + 1][2], \h0f)
              b == W(GAIN2, IF MixerGain(g) = 12 THEN 1 ELSE 0, 1)
  <2>1. GainMarks(s.model, g) = {a, b} /\ GainBits(s.model) = ({GAIN1} \X (0..3)) \cup {<<GAIN2, 0>>}
        BY <1>3 DEF GainMarks, GainBits
  <2>2. /\ a \in Write /\ a.reg = GAIN1 /\ a.mask = 0..3
        /\ b \in Write /\ b.reg = GAIN2 /\ b.mask = {0}
    <3>1. GAIN1 \in Nat /\ GAIN2 \in Nat
          BY <1>3, E4kModel
    <3>. HIDE DEF lna
    <3>. QED
         BY <3>1, WWrite, WIs, Masks
  <2>3. GAIN1 \in RegsOf(s.model) /\ GAIN2 \in RegsOf(s.model)
        BY <1>3, E4kModel
  <2>. HIDE DEF a, b
  <2>. QED
       BY <2>1, <2>2, <2>3 DEF MarksIn
<1>4. CASE s.model = "FC2580"
      BY <1>4 DEF GainMarks, MarksIn
<1>. QED
     BY <1>1, <1>2, <1>3, <1>4, ModelIs

LEMMA ModeMarksIn ==
    ASSUME NEW s \in Driver, NEW m PROVE MarksIn(ModeMarks(s.model, m), s.model, ModeBits(s.model))
<1>1. CASE s.model = "FC0012"
  <2>. DEFINE a == Put(\h0d, IF m THEN 2 ELSE 0)
  <2>1. a \in Write /\ a.reg = \h0d /\ a.mask = 0..7
        BY WWrite, PutIs
  <2>2. ModeMarks(s.model, m) = {a} /\ ModeBits(s.model) = {\h0d} \X (0..7)
        BY <1>1 DEF ModeMarks, ModeBits
  <2>3. \h0d \in RegsOf(s.model)
        BY <1>1, FcModels DEF IsFc001x
  <2>. HIDE DEF a
  <2>. QED
       BY <2>1, <2>2, <2>3 DEF MarksIn
<1>2. CASE s.model = "FC0013"
  <2>. DEFINE a == W(\h0d, IF m THEN 8 ELSE 0, 8)
  <2>1. a \in Write /\ a.reg = \h0d /\ a.mask = {3}
        BY WWrite, WIs, Masks
  <2>2. ModeMarks(s.model, m) = {a} /\ <<\h0d, 3>> \in ModeBits(s.model)
        BY <1>2 DEF ModeMarks, ModeBits
  <2>3. \h0d \in RegsOf(s.model)
        BY <1>2, FcModels DEF IsFc001x
  <2>. HIDE DEF a
  <2>. QED
       BY <2>1, <2>2, <2>3 DEF MarksIn
<1>3. CASE s.model = "E4000"
  <2>. DEFINE a == W(AGC1, IF m THEN 0 ELSE 9, \h0f)
              b == W(AGC7, IF m THEN 0 ELSE 1, 1)
  <2>1. /\ ModeMarks(s.model, m) = {a, b}
        /\ ModeBits(s.model) = ({AGC1} \X (0..3)) \cup {<<AGC7, 0>>} \cup ({AGC11} \X (0..2))
        BY <1>3 DEF ModeMarks, ModeBits
  <2>2. /\ a \in Write /\ a.reg = AGC1 /\ a.mask = 0..3
        /\ b \in Write /\ b.reg = AGC7 /\ b.mask = {0}
    <3>1. AGC1 \in Nat /\ AGC7 \in Nat
          BY <1>3, E4kModel
    <3>. QED
         BY <3>1, WWrite, WIs, Masks
  <2>3. AGC1 \in RegsOf(s.model) /\ AGC7 \in RegsOf(s.model)
        BY <1>3, E4kModel
  <2>. HIDE DEF a, b
  <2>. QED
       BY <2>1, <2>2, <2>3 DEF MarksIn
<1>4. CASE s.model = "FC2580"
      BY <1>4 DEF ModeMarks, MarksIn
<1>. QED
     BY <1>1, <1>2, <1>3, <1>4, ModelIs

LEMMA WidthMarksIn ==
    ASSUME NEW s \in Driver, NEW b PROVE MarksIn(WidthMarks(s.model, b), s.model, WidthBits(s.model))
<1>1. CASE s.model \in {"FC0012", "FC0013"}
      BY <1>1 DEF WidthMarks, MarksIn
<1>2. CASE s.model = "E4000"
  <2>1. WidthMarks(s.model, b) = {MixFilter(b[1]), RcFilter(b[1]), ChanFilter(b[1])}
        BY <1>2 DEF WidthMarks
  <2>. QED
       BY <1>2, <2>1, E4kMarksWidth
<1>3. CASE s.model = "FC2580"
  <2>1. WidthMarks(s.model, b) = FilterMarks(b[1], b[2]) /\ WidthBits(s.model) = FilterBits
        BY <1>3 DEF WidthMarks, FilterMarks, WidthBits, FilterBits
  <2>2. MarksIn(FilterMarks(b[1], b[2]), s.model, FilterMarkBits)
        BY <1>3, FilterList
  <2>3. FilterMarkBits \subseteq FilterBits
        BY MarksApart
  <2>. QED
       BY <2>1, <2>2, <2>3 DEF MarksIn
<1>. QED
     BY <1>1, <1>2, <1>3, ModelIs
(* Each stays under what leaves its bits alone.                            *)
LEMMA FreqStays ==
    ASSUME NEW s \in Driver, NEW t, NEW T, Leaves(s, t, T), NEW p, FreqShown(s, p),
           T \cap FreqMarkBits(s.model) = {}
    PROVE  FreqShown(t, p)
<1>1. t.model = s.model /\ Untouched(s, t, T) /\ (IsFc001x(t) <=> IsFc001x(s))
      BY DEF Leaves, Same, IsFc001x
<1>2. CASE IsFc001x(s)
  <2>1. FcProgrammed(s, p[1], p[2]) /\ T \cap FcMarkBits = {}
        BY <1>2 DEF FreqShown, FreqMarkBits, IsFc001x
  <2>2. FcProgrammed(t, p[1], p[2])
        BY <1>2, <2>1, FcProgrammedStays
  <2>. QED
       BY <1>1, <1>2, <2>2 DEF FreqShown, IsFc001x
<1>3. CASE s.model = "E4000"
  <2>1. E4kProgrammed(s, p[1], p[2]) /\ T \cap E4kFreqBits = {} /\ ~IsFc001x(s)
        BY <1>3, E4kModel DEF FreqShown, FreqMarkBits
  <2>2. MarksIn(E4kMarks(p[1], p[2]), s.model, E4kFreqBits)
        BY <1>3, E4kMarksFreq
  <2>3. InChip(t, E4kMarks(p[1], p[2]))
        BY <2>1, <2>2, InChipStays DEF E4kProgrammed
  <2>. QED
       BY <1>1, <1>3, <2>1, <2>3 DEF FreqShown, E4kProgrammed
<1>4. CASE s.model = "FC2580"
  <2>. DEFINE f == p[1]
              x == p[2]
  <2>1. Fc2580Programmed(s, f, x) /\ T \cap (AnyBits \ FilterBits) = {} /\ ~IsFc001x(s) /\ s.model # "E4000"
        BY <1>4, Fc2580Model DEF FreqShown, FreqMarkBits
  <2>2. /\ MarksIn(BandMarks(f), s.model, BandMarkBits(f)) /\ BandMarkBits(f) \cap FilterBits = {}
        /\ MarksIn(PllMarks2580(f, x), s.model, PllMarkBits2580) /\ PllMarkBits2580 \cap FilterBits = {}
        /\ MarksIn(NMarks(f, x), s.model, {\h1c} \X (0..7)) /\ ({\h1c} \X (0..7)) \cap FilterBits = {}
        BY <1>4, BandMarksAre, PllList2580, NList, MarksApart
  <2>3. /\ BandMarkBits(f) \subseteq AnyBits /\ PllMarkBits2580 \subseteq AnyBits
        /\ ({\h1c} \X (0..7)) \subseteq AnyBits
    <3>1. BandMarkBits(f) \subseteq AnyBits
          BY BandIs, BandRegsAre DEF BandMarkBits, AnyBits
    <3>2. PllMarkBits2580 \subseteq AnyBits
          BY DEF PllMarkBits2580, AnyBits
    <3>3. ({\h1c} \X (0..7)) \subseteq AnyBits
          BY DEF AnyBits
    <3>. QED
         BY <3>1, <3>2, <3>3
  <2>4. /\ T \cap BandMarkBits(f) = {} /\ T \cap PllMarkBits2580 = {} /\ T \cap ({\h1c} \X (0..7)) = {}
        BY <2>1, <2>2, <2>3
  <2>. HIDE DEF f, x
  <2>5. InChip(t, BandMarks(f)) /\ InChip(t, PllMarks2580(f, x)) /\ InChip(t, NMarks(f, x))
    <3>1. InChip(s, BandMarks(f)) /\ InChip(s, PllMarks2580(f, x)) /\ InChip(s, NMarks(f, x))
          BY <2>1 DEF Fc2580Programmed
    <3>2. InChip(t, BandMarks(f))
          BY <2>2, <2>4, <3>1, InChipStays
    <3>3. InChip(t, PllMarks2580(f, x))
          BY <2>2, <2>4, <3>1, InChipStays
    <3>4. InChip(t, NMarks(f, x))
          BY <2>2, <2>4, <3>1, InChipStays
    <3>. QED
         BY <3>2, <3>3, <3>4
  <2>. QED
       BY <1>1, <2>1, <2>5 DEF FreqShown, Fc2580Programmed, f, x
<1>. QED
     BY <1>2, <1>3, <1>4, ModelIs DEF IsFc001x

LEMMA SettingsStay ==
    ASSUME NEW s \in Driver, NEW t, NEW T, Leaves(s, t, T)
    PROVE  /\ T \cap WidthBits(s.model) = {} => \A b : WidthShown(s, b) => WidthShown(t, b)
           /\ T \cap GainBits(s.model) = {} => \A g : GainShown(s, g) => GainShown(t, g)
           /\ T \cap ModeBits(s.model) = {} => \A m : ModeShown(s, m) => ModeShown(t, m)
           /\ \A g : StageShown(s, g) /\ T \cap StageBits(StageByte(g[1])) = {} => StageShown(t, g)
<1>1. t.model = s.model /\ t.bw = s.bw /\ Untouched(s, t, T)
      BY DEF Leaves, Same
<1>2. ASSUME T \cap WidthBits(s.model) = {}, NEW b, WidthShown(s, b) PROVE WidthShown(t, b)
  <2>1. CASE IsFc001x(s)
        BY <1>1, <1>2, <2>1 DEF WidthShown, IsFc001x
  <2>2. CASE ~IsFc001x(s)
    <3>1. InChip(t, WidthMarks(s.model, b))
          BY <1>2, <2>2, WidthMarksIn, InChipStays DEF WidthShown
    <3>. QED
         BY <1>1, <2>2, <3>1 DEF WidthShown, IsFc001x
  <2>. QED
       BY <2>1, <2>2
<1>3. ASSUME T \cap GainBits(s.model) = {}, NEW g, GainShown(s, g) PROVE GainShown(t, g)
      BY <1>1, <1>3, GainMarksIn, InChipStays DEF GainShown
<1>4. ASSUME T \cap ModeBits(s.model) = {}, NEW m, ModeShown(s, m) PROVE ModeShown(t, m)
      BY <1>1, <1>4, ModeMarksIn, InChipStays DEF ModeShown
<1>5. ASSUME NEW g, StageShown(s, g), T \cap StageBits(StageByte(g[1])) = {} PROVE StageShown(t, g)
  <2>. DEFINE w == StageMark(g)
              i == StageByte(g[1])
  <2>1. i \in 1..6 /\ s.model = "E4000" /\ Holds(s, w)
        BY <1>5, StageFields DEF StageShown, StageTaken
  <2>2. w \in Write /\ w.reg \in RegsOf(s.model) /\ \A b \in w.mask : <<w.reg, b>> \notin T
    <3>1. w = StageWrite(i, GainByte(g[2]))
          BY DEF StageMark
    <3>. HIDE DEF i, w
    <3>2. w \in Write /\ w.reg \in RegsOf(s.model) /\ \A b \in w.mask : <<w.reg, b>> \in StageBits(i)
          BY <2>1, <3>1, StageWriteIs
    <3>. QED
         BY <1>5, <3>2 DEF i
  <2>. HIDE DEF i, w
  <2>3. Holds(t, w)
        BY <1>1, <2>1, <2>2, HoldsStays DEF Write
  <2>. QED
       BY <1>1, <1>5, <2>3 DEF StageShown, w
<1>. QED
     BY <1>2, <1>3, <1>4, <1>5

(* What is shown goes by the chip, for an FC001x also by what it remembers.*)
LEMMA ChipShows ==
    ASSUME NEW s, NEW t, t.model = s.model, t.chip = s.chip
    PROVE  /\ t.bw = s.bw /\ t.freq = s.freq => \A p : FreqShown(s, p) => FreqShown(t, p)
           /\ t.bw = s.bw => \A b : WidthShown(s, b) => WidthShown(t, b)
           /\ \A g : GainShown(s, g) => GainShown(t, g)
           /\ \A m : ModeShown(s, m) => ModeShown(t, m)
           /\ \A g : StageShown(s, g) => StageShown(t, g)
<1>1. \A w : Holds(s, w) <=> Holds(t, w)
      BY DEF Holds
<1>2. \A marks : InChip(s, marks) <=> InChip(t, marks)
      BY <1>1 DEF InChip
<1>3. IsFc001x(t) <=> IsFc001x(s)
      BY DEF IsFc001x
<1>4. ASSUME t.bw = s.bw, t.freq = s.freq, NEW p, FreqShown(s, p) PROVE FreqShown(t, p)
  <2>1. \A f, y : FcProgrammed(s, f, y) => FcProgrammed(t, f, y)
        BY <1>1, <1>4 DEF FcProgrammed
  <2>2. \A f, y : E4kProgrammed(s, f, y) => E4kProgrammed(t, f, y)
        BY <1>2 DEF E4kProgrammed
  <2>3. \A f, y : Fc2580Programmed(s, f, y) => Fc2580Programmed(t, f, y)
        BY <1>2 DEF Fc2580Programmed
  <2>. QED
       BY <1>3, <1>4, <2>1, <2>2, <2>3 DEF FreqShown
<1>5. ASSUME t.bw = s.bw, NEW b, WidthShown(s, b) PROVE WidthShown(t, b)
      BY <1>2, <1>3, <1>5 DEF WidthShown
<1>6. \A g : GainShown(s, g) => GainShown(t, g)
      BY <1>2 DEF GainShown
<1>7. \A m : ModeShown(s, m) => ModeShown(t, m)
      BY <1>2 DEF ModeShown
<1>8. \A g : StageShown(s, g) => StageShown(t, g)
      BY <1>1 DEF StageShown
<1>. QED
     BY <1>4, <1>5, <1>6, <1>7, <1>8

(* The bits of different settings are different ones.                      *)
LEMMA FcBitsApart ==
    ASSUME NEW m \in {"FC0012", "FC0013"}
    PROVE  /\ FcTuneBits \cap GainBits(m) = {} /\ FcTuneBits \cap ModeBits(m) = {}
           /\ GainBits(m) \cap ModeBits(m) = {} /\ WidthBits(m) = {}
           /\ FreqMarkBits(m) \cap GainBits(m) = {} /\ FreqMarkBits(m) \cap ModeBits(m) = {}
           /\ ExitBits(m) \cap GainBits(m) = {} /\ ExitBits(m) \cap ModeBits(m) = {}
           /\ ExitBits(m) \cap FreqMarkBits(m) = {}
<1>1. CASE m = "FC0012"
  <2>1. /\ GainBits(m) = {\h13} \X (0..4) /\ ModeBits(m) = {\h0d} \X (0..7) /\ ExitBits(m) = {<<6, 0>>}
        /\ FreqMarkBits(m) = FcMarkBits /\ WidthBits(m) = {}
        BY <1>1 DEF GainBits, ModeBits, ExitBits, WidthBits, FreqMarkBits
  <2>2. FcTuneBits \cap ({\h13} \X (0..4)) = {} /\ FcTuneBits \cap ({\h0d} \X (0..7)) = {}
        BY DEF FcTuneBits, FcPllBits
  <2>3. FcMarkBits \cap ({\h13} \X (0..4)) = {} /\ FcMarkBits \cap ({\h0d} \X (0..7)) = {}
        BY DEF FcMarkBits
  <2>4. <<6, 0>> \notin FcMarkBits
        BY DEF FcMarkBits
  <2>. QED
       BY <2>1, <2>2, <2>3, <2>4
<1>2. CASE m = "FC0013"
  <2>1. /\ GainBits(m) = {\h14} \X (0..4) /\ ModeBits(m) = {<<\h0d, 3>>} \cup ({\h13} \X (0..7))
        /\ ExitBits(m) = {<<6, 0>>} /\ FreqMarkBits(m) = FcMarkBits /\ WidthBits(m) = {}
        BY <1>2 DEF GainBits, ModeBits, ExitBits, WidthBits, FreqMarkBits
  <2>2. FcTuneBits \cap ({\h14} \X (0..4)) = {}
        BY DEF FcTuneBits, FcPllBits
  <2>3. FcTuneBits \cap ({<<\h0d, 3>>} \cup ({\h13} \X (0..7))) = {}
        BY DEF FcTuneBits, FcPllBits
  <2>4. FcMarkBits \cap ({\h14} \X (0..4)) = {}
        BY DEF FcMarkBits
  <2>5. FcMarkBits \cap ({<<\h0d, 3>>} \cup ({\h13} \X (0..7))) = {}
        BY DEF FcMarkBits
  <2>6. <<6, 0>> \notin FcMarkBits
        BY DEF FcMarkBits
  <2>. QED
       BY <2>1, <2>2, <2>3, <2>4, <2>5, <2>6
<1>. QED
     BY <1>1, <1>2

LEMMA E4kBitsApart ==
    /\ E4kFreqBits \cap WidthBits("E4000") = {} /\ E4kFreqBits \cap GainBits("E4000") = {}
    /\ E4kFreqBits \cap ModeBits("E4000") = {} /\ E4kFreqBits \cap AllStageBits = {}
    /\ E4kFreqBits \cap ExitBits("E4000") = {}
    /\ WidthBits("E4000") \cap GainBits("E4000") = {} /\ WidthBits("E4000") \cap ModeBits("E4000") = {}
    /\ WidthBits("E4000") \cap AllStageBits = {} /\ WidthBits("E4000") \cap ExitBits("E4000") = {}
    /\ GainBits("E4000") \cap ModeBits("E4000") = {} /\ GainBits("E4000") \cap AllStageBits = {}
    /\ GainBits("E4000") \cap ExitBits("E4000") = {}
    /\ ModeBits("E4000") \cap AllStageBits = {} /\ ModeBits("E4000") \cap ExitBits("E4000") = {}
    /\ AllStageBits \cap ExitBits("E4000") = {} /\ FreqMarkBits("E4000") = E4kFreqBits
<1>. DEFINE A == {\h09, \h0a, \h0b, \h0d, \h78, \h07, \h10}
            B == {\h11, \h12}
            C == {\h14, \h15}
            D == {\h1a, \h20, \h24}
            E == {\h16, \h17}
            F == {\h00}
<1>1. \A b \in E4kFreqBits : b[1] \in A
      BY DEF E4kFreqBits, SYNTH3, SYNTH4, SYNTH5, SYNTH7, BIAS, SYNTH1, FILT1
<1>2. \A b \in WidthBits("E4000") : b[1] \in B
      BY DEF WidthBits, FILT2, FILT3
<1>3. \A b \in GainBits("E4000") : b[1] \in C
      BY DEF GainBits, GAIN1, GAIN2
<1>4. \A b \in ModeBits("E4000") : b[1] \in D
      BY DEF ModeBits, AGC1, AGC7, AGC11
<1>5. \A b \in AllStageBits : b[1] \in E
      BY DEF AllStageBits, GAIN3, GAIN4
<1>6. \A b \in ExitBits("E4000") : b[1] \in F
      BY DEF ExitBits, MASTER1
<1>7. /\ A \cap B = {} /\ A \cap C = {} /\ A \cap D = {} /\ A \cap E = {} /\ A \cap F = {}
      /\ B \cap C = {} /\ B \cap D = {} /\ B \cap E = {} /\ B \cap F = {}
      /\ C \cap D = {} /\ C \cap E = {} /\ C \cap F = {}
      /\ D \cap E = {} /\ D \cap F = {} /\ E \cap F = {}
      OBVIOUS
<1>8. FreqMarkBits("E4000") = E4kFreqBits
      BY DEF FreqMarkBits
<1>. HIDE DEF A, B, C, D, E, F
<1>. QED
     BY <1>1, <1>2, <1>3, <1>4, <1>5, <1>6, <1>7, <1>8
(* What a call may disturb is not what shows another setting.              *)
LEMMA BitsApart ==
    ASSUME NEW s \in Driver
    PROVE  LET m == s.model
           IN  /\ GainBits(m) \cap FreqMarkBits(m) = {} /\ GainBits(m) \cap WidthBits(m) = {}
               /\ GainBits(m) \cap ModeBits(m) = {}
               /\ ModeBits(m) \cap FreqMarkBits(m) = {} /\ ModeBits(m) \cap WidthBits(m) = {}
               /\ ExitBits(m) \cap FreqMarkBits(m) = {} /\ ExitBits(m) \cap WidthBits(m) = {}
               /\ ExitBits(m) \cap GainBits(m) = {} /\ ExitBits(m) \cap ModeBits(m) = {}
               /\ WidthBits(m) \cap FreqMarkBits(m) = {}
               /\ m = "E4000" => /\ GainBits(m) \cap AllStageBits = {} /\ ModeBits(m) \cap AllStageBits = {}
                                 /\ ExitBits(m) \cap AllStageBits = {} /\ WidthBits(m) \cap AllStageBits = {}
<1>1. CASE s.model \in {"FC0012", "FC0013"}
      BY <1>1, FcBitsApart
<1>2. CASE s.model = "E4000"
      BY <1>2, E4kBitsApart
<1>3. CASE s.model = "FC2580"
  <2>1. GainBits(s.model) = {} /\ ModeBits(s.model) = {} /\ ExitBits(s.model) = {}
        BY <1>3 DEF GainBits, ModeBits, ExitBits
  <2>2. FreqMarkBits(s.model) = AnyBits \ FilterBits /\ WidthBits(s.model) = FilterBits
        BY <1>3 DEF FreqMarkBits, WidthBits, FilterBits
  <2>. QED
       BY <1>3, <2>1, <2>2
<1>. QED
     BY <1>1, <1>2, <1>3, ModelIs

---------------------------------------------------------------------------
(* The inductive invariant: the driver between two calls, and that all     *)
(* that was asked for is shown.                                            *)
Lone(S) == S = {} \/ \E x : S = {x}

DriverOK(s) ==
    /\ s \in Driver /\ s.faults <= MaxFaults
    /\ s.xtal \in Xtals[s.model] /\ s.freq \in Freqs[s.model] \cup {0}

FreqOK(s, S) ==
    /\ S \subseteq Freqs[s.model] \X Xtals[s.model] /\ Lone(S)
    /\ \A p \in S : FreqShown(s, p)
WidthOK(s, S) ==
    /\ S \subseteq Nat \X Nat /\ Lone(S) /\ (IsFc001x(s) => S # {})
    /\ \A b \in S : WidthShown(s, b)
GainOK(s, S) == S \subseteq Int /\ Lone(S) /\ \A g \in S : GainShown(s, g)
ModeOK(s, S) == S \subseteq BOOLEAN /\ Lone(S) /\ \A m \in S : ModeShown(s, m)
StagesOK(s, S) == S \subseteq Int \X Int /\ \A g \in S : StageShown(s, g)

Asked ==
    [freq : SUBSET (Nat \X Nat), bw : SUBSET (Nat \X Nat), gain : SUBSET Int, manual : SUBSET BOOLEAN,
     stages : SUBSET (Int \X Int)]

AskedOK(s, a) ==
    /\ a \in Asked
    /\ FreqOK(s, a.freq) /\ WidthOK(s, a.bw) /\ GainOK(s, a.gain) /\ ModeOK(s, a.manual)
    /\ StagesOK(s, a.stages)

IInv == DriverOK(drv) /\ drv.err = "none" /\ AskedOK(drv, asked)

LEMMA InputTypes ==
    ASSUME NEW s \in Driver
    PROVE  /\ Freqs[s.model] \subseteq Nat /\ Xtals[s.model] \subseteq Nat
           /\ \A f \in Freqs[s.model] \cup {0} : f \in Nat /\ f < FcLimit
           /\ 0 \notin Freqs[s.model] /\ 0 \notin Xtals[s.model]
           /\ Bandwidths[s.model] \subseteq Nat /\ Gains[s.model] \subseteq Int
<1>1. /\ Freqs[s.model] \subseteq KHz /\ Xtals[s.model] \subseteq KHz
      /\ Bandwidths[s.model] \subseteq Nat /\ Gains[s.model] \subseteq Int
      BY DriverType, TraitAssumption
<1>2. KHz \subseteq Nat /\ 0 \notin KHz /\ \A f \in KHz : f < FcLimit
      BY SMT DEF KHz, FcLimit
<1>3. 0 \in Nat /\ 0 < FcLimit
      BY SMT DEF FcLimit
<1>. QED
     BY <1>1, <1>2, <1>3

LEMMA NoneOK ==
    ASSUME NEW s
    PROVE  /\ FreqOK(s, {}) /\ GainOK(s, {}) /\ ModeOK(s, {}) /\ StagesOK(s, {})
           /\ ~IsFc001x(s) => WidthOK(s, {})
BY DEF FreqOK, GainOK, ModeOK, StagesOK, WidthOK, Lone

(* Settings whose bits are left alone stay shown.                          *)
LEMMA PartsStay ==
    ASSUME NEW s \in Driver, NEW t, NEW T, Leaves(s, t, T)
    PROVE  /\ T \cap FreqMarkBits(s.model) = {} => \A S : FreqOK(s, S) => FreqOK(t, S)
           /\ T \cap WidthBits(s.model) = {} => \A S : WidthOK(s, S) => WidthOK(t, S)
           /\ T \cap GainBits(s.model) = {} => \A S : GainOK(s, S) => GainOK(t, S)
           /\ T \cap ModeBits(s.model) = {} => \A S : ModeOK(s, S) => ModeOK(t, S)
           /\ (s.model = "E4000" => T \cap AllStageBits = {}) => \A S : StagesOK(s, S) => StagesOK(t, S)
<1>1. t.model = s.model /\ (IsFc001x(t) <=> IsFc001x(s))
      BY DEF Leaves, Same, IsFc001x
<1>2. T \cap FreqMarkBits(s.model) = {} => \A S : FreqOK(s, S) => FreqOK(t, S)
      BY <1>1, FreqStays DEF FreqOK
<1>3. T \cap WidthBits(s.model) = {} => \A S : WidthOK(s, S) => WidthOK(t, S)
      BY <1>1, SettingsStay DEF WidthOK
<1>4. T \cap GainBits(s.model) = {} => \A S : GainOK(s, S) => GainOK(t, S)
      BY <1>1, SettingsStay DEF GainOK
<1>5. T \cap ModeBits(s.model) = {} => \A S : ModeOK(s, S) => ModeOK(t, S)
      BY <1>1, SettingsStay DEF ModeOK
<1>6. ASSUME s.model = "E4000" => T \cap AllStageBits = {}, NEW S, StagesOK(s, S) PROVE StagesOK(t, S)
  <2>1. ASSUME NEW g \in S PROVE StageShown(t, g)
    <3>1. StageShown(s, g)
          BY <1>6 DEF StagesOK
    <3>2. StageByte(g[1]) \in 1..6 /\ s.model = "E4000"
          BY <3>1, StageFields DEF StageShown, StageTaken
    <3>3. T \cap StageBits(StageByte(g[1])) = {}
      <4>. DEFINE i == StageByte(g[1])
      <4>1. i \in 1..6
            BY <3>2
      <4>. HIDE DEF i
      <4>2. StageBits(i) \subseteq AllStageBits
            BY <4>1, StagesApart
      <4>. QED
           BY <1>6, <3>2, <4>2 DEF i
    <3>. QED
         BY <3>1, <3>3, SettingsStay
  <2>. QED
       BY <1>6, <2>1 DEF StagesOK
<1>. QED
     BY <1>2, <1>3, <1>4, <1>5, <1>6

LEMMA SameChipOK ==
    ASSUME NEW s, NEW t, t.model = s.model, t.bw = s.bw, t.freq = s.freq, t.chip = s.chip, NEW a, AskedOK(s, a)
    PROVE  AskedOK(t, a)
<1>1. IsFc001x(t) <=> IsFc001x(s)
      BY DEF IsFc001x
<1>2. FreqOK(t, a.freq)
      BY ChipShows DEF AskedOK, FreqOK
<1>3. WidthOK(t, a.bw)
      BY <1>1, ChipShows DEF AskedOK, WidthOK
<1>4. GainOK(t, a.gain) /\ ModeOK(t, a.manual)
      BY ChipShows DEF AskedOK, GainOK, ModeOK
<1>5. StagesOK(t, a.stages)
      BY ChipShows DEF AskedOK, StagesOK
<1>. QED
     BY <1>2, <1>3, <1>4, <1>5 DEF AskedOK

(* A call's outcome t, and what it enters.                                 *)
LEMMA Entered ==
    ASSUME NEW t, DriverOK(t), AskedOK(t, asked'), drv' = [t EXCEPT !.err = "none"]
    PROVE  IInv'
<1>1. /\ drv' \in Driver /\ drv'.err = "none" /\ drv'.model = t.model /\ drv'.bw = t.bw /\ drv'.freq = t.freq
      /\ drv'.chip = t.chip /\ drv'.faults = t.faults /\ drv'.xtal = t.xtal
      BY DriverType, DriverChanged DEF DriverOK
<1>. DEFINE d == drv'
            a == asked'
<1>2. /\ d \in Driver /\ d.err = "none" /\ d.model = t.model /\ d.bw = t.bw /\ d.freq = t.freq
      /\ d.chip = t.chip /\ d.faults = t.faults /\ d.xtal = t.xtal /\ AskedOK(t, a)
      BY <1>1
<1>. HIDE DEF d, a
<1>3. DriverOK(d)
      BY <1>2 DEF DriverOK
<1>4. AskedOK(d, a)
      BY <1>2, SameChipOK
<1>5. DriverOK(drv') /\ drv'.err = "none" /\ AskedOK(drv', asked')
      BY <1>2, <1>3, <1>4 DEF d, a
<1>. QED
     BY <1>5 DEF IInv, DriverOK, AskedOK, FreqOK, WidthOK, GainOK, ModeOK, StagesOK, Driver,
          FreqShown, WidthShown, GainShown, ModeShown, StageShown, IsFc001x, InChip, Holds,
          FcProgrammed, E4kProgrammed, Fc2580Programmed

LEMMA LeftOK ==
    ASSUME NEW s, DriverOK(s), NEW t, NEW T, Leaves(s, t, T)
    PROVE  DriverOK(t) /\ t \in Driver /\ t.model = s.model
<1>1. t \in Driver /\ t.model = s.model /\ t.xtal = s.xtal /\ t.freq = s.freq /\ t.faults <= s.faults
      BY DEF Leaves, Same
<1>2. t.faults \in Nat /\ s.faults \in Nat /\ MaxFaults \in Nat
      BY <1>1, DriverType, TraitAssumption DEF DriverOK
<1>. QED
     BY <1>1, <1>2 DEF DriverOK
(* What each call leaves alone, and what it shows when it returns Ok.      *)
LEMMA GainOutcome ==
    ASSUME NEW s \in Driver, s.err = "none", NEW g, NEW t \in set_gain(s, g)
    PROVE  Leaves(s, t, GainBits(s.model)) /\ (t.err = "none" => GainShown(t, g))
<1>1. CASE IsFc001x(s)
  <2>1. t \in fc_set_gain(s, g)
        BY <1>1 DEF set_gain, IsFc001x
  <2>. QED
       BY <1>1, <2>1, FcGain DEF GainShown, Leaves, Same
<1>2. CASE s.model = "E4000"
  <2>1. t \in e4k_set_gain(s, g)
        BY <1>2 DEF set_gain, IsFc001x
  <2>. QED
       BY <1>2, <2>1, E4kGainCall DEF GainShown, Leaves, Same
<1>3. CASE s.model = "FC2580"
  <2>1. t = s
        BY <1>3 DEF set_gain, IsFc001x
  <2>2. GainMarks(s.model, g) = {}
        BY <1>3 DEF GainMarks
  <2>. QED
       BY <2>1, <2>2, LeavesSelf DEF GainShown, InChip
<1>. QED
     BY <1>1, <1>2, <1>3, ModelIs

LEMMA ModeOutcome ==
    ASSUME NEW s \in Driver, s.err = "none", NEW m \in BOOLEAN, NEW t \in set_gain_mode(s, m)
    PROVE  Leaves(s, t, ModeBits(s.model)) /\ (t.err = "none" => ModeShown(t, m))
<1>1. CASE IsFc001x(s)
  <2>1. t \in fc_set_gain_mode(s, m)
        BY <1>1 DEF set_gain_mode, IsFc001x
  <2>. QED
       BY <1>1, <2>1, FcMode DEF ModeShown, Leaves, Same
<1>2. CASE s.model = "E4000"
  <2>1. t \in e4k_set_gain_mode(s, m)
        BY <1>2 DEF set_gain_mode, IsFc001x
  <2>. QED
       BY <1>2, <2>1, E4kMode DEF ModeShown, Leaves, Same
<1>3. CASE s.model = "FC2580"
  <2>1. t = s
        BY <1>3 DEF set_gain_mode, IsFc001x
  <2>2. ModeMarks(s.model, m) = {}
        BY <1>3 DEF ModeMarks
  <2>. QED
       BY <2>1, <2>2, LeavesSelf DEF ModeShown, InChip
<1>. QED
     BY <1>1, <1>2, <1>3, ModelIs

LEMMA ExitOutcome ==
    ASSUME NEW s \in Driver, s.err = "none", NEW t \in exit(s)
    PROVE  Leaves(s, t, ExitBits(s.model))
<1>1. CASE IsFc001x(s)
      BY <1>1, FcExit DEF exit, IsFc001x
<1>2. CASE s.model = "E4000"
      BY <1>2, E4kExit DEF exit, IsFc001x
<1>3. CASE s.model = "FC2580"
  <2>1. t = s
        BY <1>3 DEF exit, IsFc001x
  <2>. QED
       BY <2>1, LeavesSelf
<1>. QED
     BY <1>1, <1>2, <1>3, ModelIs

LEMMA InitOutcome ==
    ASSUME NEW s \in Driver, s.err = "none", NEW t \in init(s)
    PROVE  Leaves(s, t, AnyBits)
<1>1. CASE IsFc001x(s)
      BY <1>1, FcInit DEF init, IsFc001x
<1>2. CASE s.model = "E4000"
      BY <1>2, E4kInit DEF init, IsFc001x
<1>3. CASE s.model = "FC2580"
      BY <1>3, Fc2580InitLeaves DEF init, IsFc001x
<1>. QED
     BY <1>1, <1>2, <1>3, ModelIs

---------------------------------------------------------------------------
(* Each call keeps the invariant.                                          *)
LEMMA GainKeeps == ASSUME IInv, SetGain PROVE IInv'
<1>0. PICK g \in Gains[drv.model] :
         Call(set_gain(drv, g), LAMBDA u, ok : [asked EXCEPT !.gain = IF ok THEN {g} ELSE {}])
      BY DEF SetGain
<1>1. PICK t \in set_gain(drv, g) :
         /\ drv' = [t EXCEPT !.err = "none"]
         /\ asked' = [asked EXCEPT !.gain = IF t.err = "none" THEN {g} ELSE {}]
      BY <1>0 DEF Call
<1>2. drv \in Driver /\ drv.err = "none" /\ DriverOK(drv) /\ AskedOK(drv, asked)
      BY DEF IInv, DriverOK
<1>3. Leaves(drv, t, GainBits(drv.model)) /\ (t.err = "none" => GainShown(t, g)) /\ g \in Int
      BY <1>1, <1>2, GainOutcome, InputTypes
<1>. DEFINE T == GainBits(drv.model)
            a == [asked EXCEPT !.gain = IF t.err = "none" THEN {g} ELSE {}]
<1>4. /\ T \cap FreqMarkBits(drv.model) = {} /\ T \cap WidthBits(drv.model) = {}
      /\ T \cap ModeBits(drv.model) = {} /\ (drv.model = "E4000" => T \cap AllStageBits = {})
      BY <1>2, BitsApart
<1>5. /\ a \in Asked /\ a.freq = asked.freq /\ a.bw = asked.bw /\ a.manual = asked.manual
      /\ a.stages = asked.stages /\ a.gain = IF t.err = "none" THEN {g} ELSE {}
      BY <1>2, <1>3 DEF AskedOK, Asked
<1>. HIDE DEF T
<1>6. /\ FreqOK(t, asked.freq) /\ WidthOK(t, asked.bw) /\ ModeOK(t, asked.manual)
      /\ StagesOK(t, asked.stages)
      BY <1>2, <1>3, <1>4, PartsStay DEF AskedOK, T
<1>. HIDE DEF a
<1>7. GainOK(t, a.gain)
      BY <1>3, <1>5, NoneOK DEF GainOK, Lone
<1>8. AskedOK(t, a)
      BY <1>5, <1>6, <1>7 DEF AskedOK
<1>9. DriverOK(t)
      BY <1>2, <1>3, LeftOK
<1>10. AskedOK(t, asked')
       BY <1>1, <1>8 DEF a
<1>. QED
     BY <1>1, <1>9, <1>10, Entered

LEMMA ModeKeeps == ASSUME IInv, SetGainMode PROVE IInv'
<1>0. PICK m \in BOOLEAN :
         Call(set_gain_mode(drv, m), LAMBDA u, ok : [asked EXCEPT !.manual = IF ok THEN {m} ELSE {}])
      BY DEF SetGainMode
<1>1. PICK t \in set_gain_mode(drv, m) :
         /\ drv' = [t EXCEPT !.err = "none"]
         /\ asked' = [asked EXCEPT !.manual = IF t.err = "none" THEN {m} ELSE {}]
      BY <1>0 DEF Call
<1>2. drv \in Driver /\ drv.err = "none" /\ DriverOK(drv) /\ AskedOK(drv, asked)
      BY DEF IInv, DriverOK
<1>3. Leaves(drv, t, ModeBits(drv.model)) /\ (t.err = "none" => ModeShown(t, m))
      BY <1>1, <1>2, ModeOutcome
<1>. DEFINE T == ModeBits(drv.model)
            a == [asked EXCEPT !.manual = IF t.err = "none" THEN {m} ELSE {}]
<1>4. /\ T \cap FreqMarkBits(drv.model) = {} /\ T \cap WidthBits(drv.model) = {}
      /\ T \cap GainBits(drv.model) = {} /\ (drv.model = "E4000" => T \cap AllStageBits = {})
      BY <1>2, BitsApart
<1>5. /\ a \in Asked /\ a.freq = asked.freq /\ a.bw = asked.bw /\ a.gain = asked.gain
      /\ a.stages = asked.stages /\ a.manual = IF t.err = "none" THEN {m} ELSE {}
      BY <1>2 DEF AskedOK, Asked
<1>. HIDE DEF T
<1>6. /\ FreqOK(t, asked.freq) /\ WidthOK(t, asked.bw) /\ GainOK(t, asked.gain)
      /\ StagesOK(t, asked.stages)
      BY <1>2, <1>3, <1>4, PartsStay DEF AskedOK, T
<1>. HIDE DEF a
<1>7. ModeOK(t, a.manual)
      BY <1>3, <1>5, NoneOK DEF ModeOK, Lone
<1>8. AskedOK(t, a)
      BY <1>5, <1>6, <1>7 DEF AskedOK
<1>9. DriverOK(t)
      BY <1>2, <1>3, LeftOK
<1>10. AskedOK(t, asked')
       BY <1>1, <1>8 DEF a
<1>. QED
     BY <1>1, <1>9, <1>10, Entered

LEMMA ExitKeeps == ASSUME IInv, Exit PROVE IInv'
<1>1. PICK t \in exit(drv) : drv' = [t EXCEPT !.err = "none"] /\ asked' = asked
      BY DEF Exit, Call
<1>2. drv \in Driver /\ drv.err = "none" /\ DriverOK(drv) /\ AskedOK(drv, asked)
      BY DEF IInv, DriverOK
<1>. DEFINE T == ExitBits(drv.model)
<1>3. Leaves(drv, t, T)
      BY <1>1, <1>2, ExitOutcome
<1>4. /\ T \cap FreqMarkBits(drv.model) = {} /\ T \cap WidthBits(drv.model) = {}
      /\ T \cap GainBits(drv.model) = {} /\ T \cap ModeBits(drv.model) = {}
      /\ (drv.model = "E4000" => T \cap AllStageBits = {})
      BY <1>2, BitsApart
<1>. HIDE DEF T
<1>5. AskedOK(t, asked)
      BY <1>2, <1>3, <1>4, PartsStay DEF AskedOK
<1>6. DriverOK(t)
      BY <1>2, <1>3, LeftOK
<1>7. AskedOK(t, asked')
      BY <1>1, <1>5
<1>. QED
     BY <1>1, <1>6, <1>7, Entered

LEMMA InitKeeps == ASSUME IInv, InitAgain PROVE IInv'
<1>1. PICK t \in init(drv) :
         /\ drv' = [t EXCEPT !.err = "none"]
         /\ asked' = [NotAsked EXCEPT !.bw = IF IsFc001x(t) THEN asked.bw ELSE {}]
      BY DEF InitAgain, Call
<1>2. drv \in Driver /\ drv.err = "none" /\ DriverOK(drv) /\ AskedOK(drv, asked)
      BY DEF IInv, DriverOK
<1>3. Leaves(drv, t, AnyBits)
      BY <1>1, <1>2, InitOutcome
<1>4. t.model = drv.model /\ t.bw = drv.bw /\ (IsFc001x(t) <=> IsFc001x(drv))
      BY <1>3 DEF Leaves, Same, IsFc001x
<1>. DEFINE a == [NotAsked EXCEPT !.bw = IF IsFc001x(t) THEN asked.bw ELSE {}]
<1>5. /\ a.freq = {} /\ a.gain = {} /\ a.manual = {} /\ a.stages = {}
      /\ a.bw = (IF IsFc001x(t) THEN asked.bw ELSE {}) /\ a \in Asked
      BY <1>2 DEF AskedOK, Asked, NotAsked
<1>. HIDE DEF a
<1>6. WidthOK(t, a.bw)
  <2>1. CASE IsFc001x(t)
    <3>1. WidthOK(drv, asked.bw) /\ a.bw = asked.bw
          BY <1>2, <1>5, <2>1 DEF AskedOK
    <3>. QED
         BY <1>4, <2>1, <3>1 DEF WidthOK, WidthShown
  <2>2. CASE ~IsFc001x(t)
        BY <1>5, <2>2, NoneOK
  <2>. QED
       BY <2>1, <2>2
<1>7. AskedOK(t, a)
      BY <1>5, <1>6, NoneOK DEF AskedOK
<1>8. DriverOK(t)
      BY <1>2, <1>3, LeftOK
<1>9. AskedOK(t, asked')
      BY <1>1, <1>7 DEF a
<1>. QED
     BY <1>1, <1>8, <1>9, Entered

LEMMA XtalKeeps == ASSUME IInv, SetXtal PROVE IInv'
<1>1. PICK x \in Xtals[drv.model] : drv' = [drv EXCEPT !.xtal = x] /\ asked' = asked
      BY DEF SetXtal
<1>2. drv \in Driver /\ drv.err = "none" /\ DriverOK(drv) /\ AskedOK(drv, asked) /\ x \in Nat
      BY InputTypes DEF IInv, DriverOK
<1>. DEFINE t == [drv EXCEPT !.xtal = x]
<1>3. /\ t \in Driver /\ t.model = drv.model /\ t.bw = drv.bw /\ t.freq = drv.freq /\ t.chip = drv.chip
      /\ t.faults = drv.faults /\ t.xtal = x /\ t.err = "none"
      BY <1>2, DriverType, DriverChanged
<1>. HIDE DEF t
<1>4. DriverOK(t) /\ AskedOK(t, asked)
      BY <1>1, <1>2, <1>3, SameChipOK DEF DriverOK
<1>5. AskedOK(t, asked') /\ drv' = t
      BY <1>1, <1>4 DEF t
<1>6. t = [t EXCEPT !.err = "none"]
      BY <1>3, DriverType DEF Driver
<1>. QED
     BY <1>4, <1>5, <1>6, Entered
(* The settings that a retuned FC001x keeps: s is the state before, u the  *)
(* state that the call first stored.                                       *)
LEMMA FcRetuned ==
    ASSUME NEW s \in Driver, IsFc001x(s), NEW u \in Driver, u.model = s.model, u.chip = s.chip,
           NEW t, Leaves(u, t, FcTuneBits)
    PROVE  /\ \A S : GainOK(s, S) => GainOK(t, S)
           /\ \A S : ModeOK(s, S) => ModeOK(t, S)
           /\ \A S : StagesOK(s, S) => StagesOK(t, S)
           /\ u.bw = s.bw => \A S : WidthOK(s, S) => WidthOK(t, S)
<1>1. u.model \in {"FC0012", "FC0013"} /\ u.model # "E4000"
      BY DEF IsFc001x
<1>2. /\ FcTuneBits \cap GainBits(u.model) = {} /\ FcTuneBits \cap ModeBits(u.model) = {}
      /\ FcTuneBits \cap WidthBits(u.model) = {}
      BY <1>1, FcBitsApart
<1>3. \A S : GainOK(s, S) => GainOK(u, S)
      BY ChipShows DEF GainOK
<1>4. \A S : ModeOK(s, S) => ModeOK(u, S)
      BY ChipShows DEF ModeOK
<1>5. \A S : StagesOK(s, S) => StagesOK(u, S)
      BY ChipShows DEF StagesOK
<1>6. u.bw = s.bw => \A S : WidthOK(s, S) => WidthOK(u, S)
  <2>1. IsFc001x(u) <=> IsFc001x(s)
        BY DEF IsFc001x
  <2>. QED
       BY <2>1, ChipShows DEF WidthOK
<1>. QED
     BY <1>1, <1>2, <1>3, <1>4, <1>5, <1>6, PartsStay

LEMMA FreqOutcome ==
    ASSUME NEW s \in Driver, s.err = "none", NEW f \in Nat, f < FcLimit, NEW t \in set_freq(s, f)
    PROVE  /\ t \in Driver /\ t.model = s.model /\ t.xtal = s.xtal /\ t.faults <= s.faults
           /\ t.freq = s.freq \/ t.freq = f
           /\ t.err = "none" => FreqShown(t, <<f, t.xtal>>)
           /\ \A S : GainOK(s, S) => GainOK(t, S)
           /\ \A S : ModeOK(s, S) => ModeOK(t, S)
           /\ \A S : StagesOK(s, S) => StagesOK(t, S)
           /\ s.model # "FC2580" => \A S : WidthOK(s, S) => WidthOK(t, S)
           /\ s.model = "FC2580" /\ t.err = "none" => WidthShown(t, <<BandFilter(f), t.xtal>>)
<1>1. CASE IsFc001x(s)
  <2>1. t \in fc_set_freq(s, f)
        BY <1>1 DEF set_freq, IsFc001x
  <2>2. /\ t \in Driver /\ t.model = s.model /\ t.xtal = s.xtal /\ t.freq = f /\ t.bw = s.bw
        /\ t.faults <= s.faults /\ Untouched(s, t, FcTuneBits)
        /\ t.err = "none" => FcProgrammed(t, f, s.xtal)
        BY <1>1, <2>1, FcSetFreq
  <2>. DEFINE u == [s EXCEPT !.freq = f]
  <2>3. /\ u \in Driver /\ u.model = s.model /\ u.chip = s.chip /\ u.xtal = s.xtal /\ u.freq = f /\ u.bw = s.bw
        /\ u.faults = s.faults
        BY DriverChanged, DriverType
  <2>. HIDE DEF u
  <2>4. Leaves(u, t, FcTuneBits)
        BY <2>2, <2>3 DEF Leaves, Same, Untouched
  <2>5. t.err = "none" => FreqShown(t, <<f, t.xtal>>)
        BY <1>1, <2>2 DEF FreqShown, IsFc001x
  <2>6. /\ \A S : GainOK(s, S) => GainOK(t, S)
        /\ \A S : ModeOK(s, S) => ModeOK(t, S)
        /\ \A S : StagesOK(s, S) => StagesOK(t, S)
        /\ \A S : WidthOK(s, S) => WidthOK(t, S)
        BY <1>1, <2>3, <2>4, FcRetuned
  <2>7. s.model # "FC2580"
        BY <1>1 DEF IsFc001x
  <2>. QED
       BY <2>2, <2>5, <2>6, <2>7
<1>2. CASE s.model = "E4000"
  <2>1. t \in e4k_set_freq(s, f)
        BY <1>2 DEF set_freq, IsFc001x
  <2>2. Leaves(s, t, E4kFreqBits) /\ (t.err = "none" => E4kProgrammed(t, f, s.xtal))
        BY <1>2, <2>1, E4kSetFreq
  <2>3. /\ t \in Driver /\ t.model = s.model /\ t.xtal = s.xtal /\ t.faults <= s.faults /\ t.freq = s.freq
        BY <2>2 DEF Leaves, Same
  <2>4. t.err = "none" => FreqShown(t, <<f, t.xtal>>)
        BY <1>2, <2>2, <2>3 DEF FreqShown, IsFc001x
  <2>5. /\ E4kFreqBits \cap GainBits(s.model) = {} /\ E4kFreqBits \cap ModeBits(s.model) = {}
        /\ E4kFreqBits \cap WidthBits(s.model) = {} /\ E4kFreqBits \cap AllStageBits = {}
        BY <1>2, E4kBitsApart
  <2>6. /\ \A S : GainOK(s, S) => GainOK(t, S)
        /\ \A S : ModeOK(s, S) => ModeOK(t, S)
        /\ \A S : StagesOK(s, S) => StagesOK(t, S)
        /\ \A S : WidthOK(s, S) => WidthOK(t, S)
        BY <2>2, <2>5, PartsStay
  <2>. QED
       BY <1>2, <2>3, <2>4, <2>6
<1>3. CASE s.model = "FC2580"
  <2>1. t \in fc2580_set_freq(s, f)
        BY <1>3 DEF set_freq, IsFc001x
  <2>2. /\ t \in Driver /\ t.model = s.model /\ t.xtal = s.xtal /\ t.bw = s.bw /\ t.faults <= s.faults
        /\ t.freq = s.freq \/ t.freq = f
        /\ t.err = "none" => /\ Fc2580Programmed(t, f, s.xtal)
                             /\ InChip(t, FilterMarks(BandFilter(f), s.xtal))
        BY <1>3, <2>1, Fc2580SetFreq
  <2>3. ~IsFc001x(t) /\ t.model = "FC2580"
        BY <1>3, <2>2 DEF IsFc001x
  <2>4. t.err = "none" => FreqShown(t, <<f, t.xtal>>)
        BY <2>2, <2>3 DEF FreqShown
  <2>5. t.err = "none" => WidthShown(t, <<BandFilter(f), t.xtal>>)
        BY <2>2, <2>3 DEF WidthShown, WidthMarks, FilterMarks
  <2>6. \A S : GainOK(s, S) => GainOK(t, S)
        BY <2>3 DEF GainOK, GainShown, GainMarks, InChip
  <2>7. \A S : ModeOK(s, S) => ModeOK(t, S)
        BY <2>3 DEF ModeOK, ModeShown, ModeMarks, InChip
  <2>8. \A S : StagesOK(s, S) => StagesOK(t, S)
        BY <1>3 DEF StagesOK, StageShown
  <2>. QED
       BY <1>3, <2>2, <2>4, <2>5, <2>6, <2>7, <2>8
<1>. QED
     BY <1>1, <1>2, <1>3, ModelIs

LEMMA FilterModes == ASSUME NEW f PROVE BandFilter(f) \in Nat /\ FilterMode(f) \in Nat
BY DEF BandFilter, FilterMode

LEMMA FreqKeeps == ASSUME IInv, SetFreq PROVE IInv'
<1>0. PICK f \in Freqs[drv.model] :
         Call(set_freq(drv, f),
              LAMBDA u, ok :
                 [asked EXCEPT !.freq = IF ok THEN {<<f, u.xtal>>} ELSE {},
                               !.bw = IF drv.model # "FC2580" THEN @
                                      ELSE IF ok THEN {<<BandFilter(f), u.xtal>>} ELSE {}])
      BY DEF SetFreq
<1>. DEFINE Entry(u, ok) ==
              [asked EXCEPT !.freq = IF ok THEN {<<f, u.xtal>>} ELSE {},
                            !.bw = IF drv.model # "FC2580" THEN @
                                   ELSE IF ok THEN {<<BandFilter(f), u.xtal>>} ELSE {}]
<1>1. PICK t \in set_freq(drv, f) :
         /\ drv' = [t EXCEPT !.err = "none"]
         /\ asked' = Entry(t, t.err = "none")
      BY <1>0 DEF Call
<1>2. drv \in Driver /\ drv.err = "none" /\ DriverOK(drv) /\ AskedOK(drv, asked)
      BY DEF IInv, DriverOK
<1>3. f \in Nat /\ f < FcLimit /\ Freqs[drv.model] \subseteq Nat /\ Xtals[drv.model] \subseteq Nat
      BY <1>2, InputTypes
<1>4. /\ t \in Driver /\ t.model = drv.model /\ t.xtal = drv.xtal /\ t.faults <= drv.faults
      /\ t.freq = drv.freq \/ t.freq = f
      /\ t.err = "none" => FreqShown(t, <<f, t.xtal>>)
      /\ \A S : GainOK(drv, S) => GainOK(t, S)
      /\ \A S : ModeOK(drv, S) => ModeOK(t, S)
      /\ \A S : StagesOK(drv, S) => StagesOK(t, S)
      /\ drv.model # "FC2580" => \A S : WidthOK(drv, S) => WidthOK(t, S)
      /\ drv.model = "FC2580" /\ t.err = "none" => WidthShown(t, <<BandFilter(f), t.xtal>>)
      BY <1>1, <1>2, <1>3, FreqOutcome
<1>. DEFINE a == Entry(t, t.err = "none")
<1>5. t.xtal \in Xtals[drv.model] /\ t.xtal \in Nat /\ BandFilter(f) \in Nat
      BY <1>2, <1>3, <1>4, FilterModes DEF DriverOK
<1>6. /\ a.freq = IF t.err = "none" THEN {<<f, t.xtal>>} ELSE {}
      /\ a.bw = IF drv.model # "FC2580" THEN asked.bw
                ELSE IF t.err = "none" THEN {<<BandFilter(f), t.xtal>>} ELSE {}
      /\ a.gain = asked.gain /\ a.manual = asked.manual /\ a.stages = asked.stages
      BY <1>2 DEF AskedOK, Asked
<1>7. a \in Asked
  <2>. DEFINE F == IF t.err = "none" THEN {<<f, t.xtal>>} ELSE {}
              B == IF drv.model # "FC2580" THEN asked.bw
                   ELSE IF t.err = "none" THEN {<<BandFilter(f), t.xtal>>} ELSE {}
  <2>1. asked \in Asked /\ asked.bw \in SUBSET (Nat \X Nat)
        BY <1>2 DEF AskedOK, Asked
  <2>2. F \in SUBSET (Nat \X Nat)
        BY <1>3, <1>5
  <2>3. B \in SUBSET (Nat \X Nat)
        BY <1>5, <2>1
  <2>4. a = [asked EXCEPT !.freq = F, !.bw = B]
        BY <2>1 DEF Asked
  <2>. HIDE DEF F, B, a
  <2>. QED
       BY <2>1, <2>2, <2>3, <2>4 DEF Asked
<1>. HIDE DEF a, Entry
<1>8. FreqOK(t, a.freq)
  <2>1. CASE t.err = "none"
    <3>1. a.freq = {<<f, t.xtal>>}
          BY <1>6, <2>1
    <3>2. a.freq \subseteq Freqs[t.model] \X Xtals[t.model] /\ Lone(a.freq)
          BY <1>4, <1>5, <3>1 DEF Lone
    <3>. QED
         BY <1>4, <2>1, <3>1, <3>2 DEF FreqOK
  <2>2. CASE t.err # "none"
        BY <1>6, <2>2, NoneOK
  <2>. QED
       BY <2>1, <2>2
<1>9. WidthOK(t, a.bw)
  <2>1. CASE drv.model # "FC2580"
        BY <1>2, <1>4, <1>6, <2>1 DEF AskedOK
  <2>2. CASE drv.model = "FC2580" /\ t.err = "none"
    <3>1. a.bw = {<<BandFilter(f), t.xtal>>}
          BY <1>6, <2>2
    <3>2. a.bw \subseteq Nat \X Nat /\ Lone(a.bw) /\ a.bw # {}
          BY <1>5, <3>1 DEF Lone
    <3>. QED
         BY <1>4, <2>2, <3>1, <3>2 DEF WidthOK
  <2>3. CASE drv.model = "FC2580" /\ t.err # "none"
    <3>1. a.bw = {} /\ ~IsFc001x(t)
          BY <1>4, <1>6, <2>3 DEF IsFc001x
    <3>. QED
         BY <3>1, NoneOK
  <2>. QED
       BY <2>1, <2>2, <2>3
<1>10. AskedOK(t, a)
       BY <1>2, <1>4, <1>6, <1>7, <1>8, <1>9 DEF AskedOK
<1>11. DriverOK(t)
  <2>1. t.faults \in Nat /\ drv.faults \in Nat /\ MaxFaults \in Nat
        BY <1>2, <1>4, DriverType, TraitAssumption
  <2>. QED
       BY <1>2, <1>4, <2>1 DEF DriverOK
<1>12. AskedOK(t, asked')
       BY <1>1, <1>10 DEF a
<1>. QED
     BY <1>1, <1>11, <1>12, Entered
LEMMA FcBwOutcome ==
    ASSUME NEW s, DriverOK(s), s.err = "none", IsFc001x(s), NEW b \in Nat, NEW t \in set_bw(s, b)
    PROVE  /\ DriverOK(t) /\ t.model = s.model /\ t.xtal = s.xtal /\ t.freq = s.freq /\ t.bw = b
           /\ t.err = "none" /\ t.freq # 0 => FreqShown(t, <<t.freq, t.xtal>>)
           /\ \A S : GainOK(s, S) => GainOK(t, S)
           /\ \A S : ModeOK(s, S) => ModeOK(t, S)
           /\ \A S : StagesOK(s, S) => StagesOK(t, S)
<1>1. t \in fc_set_bw(s, b) /\ s \in Driver
      BY DEF set_bw, IsFc001x, DriverOK
<1>2. s.freq < FcLimit
      BY <1>1, InputTypes DEF DriverOK
<1>3. /\ t \in Driver /\ t.model = s.model /\ t.xtal = s.xtal /\ t.freq = s.freq /\ t.bw = b
      /\ t.faults <= s.faults /\ Untouched(s, t, FcTuneBits)
      /\ t.err = "none" /\ s.freq # 0 => FcProgrammed(t, s.freq, s.xtal)
      BY <1>1, <1>2, FcSetBw
<1>. DEFINE u == [s EXCEPT !.bw = b]
<1>4. /\ u \in Driver /\ u.model = s.model /\ u.chip = s.chip /\ u.xtal = s.xtal /\ u.freq = s.freq /\ u.bw = b
      /\ u.faults = s.faults
      BY <1>1, DriverChanged, DriverType
<1>. HIDE DEF u
<1>5. Leaves(u, t, FcTuneBits)
      BY <1>3, <1>4 DEF Leaves, Same, Untouched
<1>6. t.err = "none" /\ t.freq # 0 => FreqShown(t, <<t.freq, t.xtal>>)
      BY <1>3 DEF FreqShown, IsFc001x
<1>7. /\ \A S : GainOK(s, S) => GainOK(t, S)
      /\ \A S : ModeOK(s, S) => ModeOK(t, S)
      /\ \A S : StagesOK(s, S) => StagesOK(t, S)
      BY <1>1, <1>4, <1>5, FcRetuned
<1>8. DriverOK(t)
  <2>1. t.faults \in Nat /\ s.faults \in Nat /\ MaxFaults \in Nat
        BY <1>1, <1>3, DriverType, TraitAssumption
  <2>. QED
       BY <1>3, <2>1 DEF DriverOK
<1>. QED
     BY <1>3, <1>6, <1>7, <1>8

LEMMA ChipBwOutcome ==
    ASSUME NEW s \in Driver, s.err = "none", ~IsFc001x(s), NEW b \in Nat, NEW t \in set_bw(s, b)
    PROVE  /\ Leaves(s, t, WidthBits(s.model))
           /\ t.err = "none" =>
                WidthShown(t, IF s.model = "E4000" THEN <<b, 0>> ELSE <<FilterMode(b), t.xtal>>)
<1>1. CASE s.model = "E4000"
  <2>1. t \in e4k_set_bw(s, b)
        BY <1>1 DEF set_bw, IsFc001x
  <2>2. Leaves(s, t, WidthBits(s.model)) /\ (t.err = "none" => InChip(t, WidthMarks(s.model, <<b, 0>>)))
        BY <1>1, <2>1, E4kSetBw
  <2>. QED
       BY <1>1, <2>2 DEF WidthShown, Leaves, Same, IsFc001x
<1>2. CASE s.model = "FC2580"
  <2>1. t \in fc2580_set_bw(s, b)
        BY <1>2 DEF set_bw, IsFc001x
  <2>2. /\ Leaves(s, t, WidthBits(s.model))
        /\ t.err = "none" => InChip(t, WidthMarks(s.model, <<FilterMode(b), s.xtal>>))
        BY <1>2, <2>1, Fc2580SetBw
  <2>. QED
       BY <1>2, <2>2 DEF WidthShown, Leaves, Same, IsFc001x
<1>. QED
     BY <1>1, <1>2, ModelIs

LEMMA FcBwKeeps ==
    ASSUME IInv, NEW b \in Nat, IsFc001x(drv), NEW t \in set_bw(drv, b), drv' = [t EXCEPT !.err = "none"],
           asked' = [asked EXCEPT !.bw = {<<b, 0>>},
                                  !.freq = IF t.freq = 0 THEN asked.freq
                                           ELSE IF t.err = "none" THEN {<<t.freq, t.xtal>>} ELSE {}]
    PROVE  IInv'
<1>1. drv \in Driver /\ drv.err = "none" /\ DriverOK(drv) /\ AskedOK(drv, asked)
      BY DEF IInv, DriverOK
<1>2. /\ DriverOK(t) /\ t.model = drv.model /\ t.xtal = drv.xtal /\ t.freq = drv.freq /\ t.bw = b
      /\ t.err = "none" /\ t.freq # 0 => FreqShown(t, <<t.freq, t.xtal>>)
      /\ \A S : GainOK(drv, S) => GainOK(t, S)
      /\ \A S : ModeOK(drv, S) => ModeOK(t, S)
      /\ \A S : StagesOK(drv, S) => StagesOK(t, S)
      BY <1>1, FcBwOutcome
<1>. DEFINE F == IF t.freq = 0 THEN asked.freq ELSE IF t.err = "none" THEN {<<t.freq, t.xtal>>} ELSE {}
            B == {<<b, 0>>}
            a == [asked EXCEPT !.bw = B, !.freq = F]
<1>3. FreqOK(t, F)
  <2>1. CASE t.freq = 0
    <3>1. asked.freq = {}
      <4>1. ASSUME NEW p \in asked.freq PROVE FALSE
        <5>1. FcProgrammed(drv, p[1], p[2]) /\ p[1] \in Freqs[drv.model]
              BY <1>1 DEF AskedOK, FreqOK, FreqShown
        <5>2. p[1] # 0
              BY <1>1, <5>1, InputTypes
        <5>. QED
             BY <1>2, <2>1, <5>1, <5>2 DEF FcProgrammed
      <4>. QED
           BY <4>1
    <3>. QED
         BY <2>1, <3>1, NoneOK
  <2>2. CASE t.freq # 0 /\ t.err = "none"
    <3>1. F = {<<t.freq, t.xtal>>}
          BY <2>2
    <3>2. F \subseteq Freqs[t.model] \X Xtals[t.model] /\ Lone(F)
      <4>1. t.freq \in Freqs[t.model] /\ t.xtal \in Xtals[t.model]
            BY <1>2, <2>2 DEF DriverOK
      <4>. HIDE DEF F
      <4>. QED
           BY <3>1, <4>1 DEF Lone
    <3>. QED
         BY <1>2, <2>2, <3>1, <3>2 DEF FreqOK
  <2>3. CASE t.freq # 0 /\ t.err # "none"
        BY <2>3, NoneOK
  <2>. QED
       BY <2>1, <2>2, <2>3
<1>4. WidthOK(t, B)
  <2>1. IsFc001x(t)
        BY <1>2 DEF IsFc001x
  <2>2. WidthShown(t, <<b, 0>>)
        BY <1>2, <2>1 DEF WidthShown
  <2>. QED
       BY <2>1, <2>2 DEF WidthOK, Lone
<1>5. F \in SUBSET (Nat \X Nat) /\ B \in SUBSET (Nat \X Nat) /\ asked \in Asked
  <2>1. t \in Driver /\ F \subseteq Freqs[t.model] \X Xtals[t.model]
        BY <1>2, <1>3 DEF FreqOK, DriverOK
  <2>2. Freqs[t.model] \subseteq Nat /\ Xtals[t.model] \subseteq Nat
        BY <2>1, InputTypes
  <2>3. F \in SUBSET (Nat \X Nat)
    <3>. HIDE DEF F
    <3>. QED
         BY <2>1, <2>2
  <2>. QED
       BY <1>1, <2>3 DEF AskedOK
<1>6. asked' = a
      OBVIOUS
<1>. HIDE DEF F, B
<1>7. /\ a \in Asked /\ a.freq = F /\ a.bw = B /\ a.gain = asked.gain /\ a.manual = asked.manual
      /\ a.stages = asked.stages
      BY <1>5 DEF Asked
<1>. HIDE DEF a
<1>8. AskedOK(t, a)
      BY <1>1, <1>2, <1>3, <1>4, <1>7 DEF AskedOK
<1>9. AskedOK(t, asked')
      BY <1>6, <1>8
<1>. QED
     BY <1>2, <1>9, Entered

LEMMA ChipBwKeeps ==
    ASSUME IInv, NEW b \in Nat, ~IsFc001x(drv), NEW t \in set_bw(drv, b), drv' = [t EXCEPT !.err = "none"],
           asked' = [asked EXCEPT !.bw = IF t.err = "none"
                                         THEN {IF drv.model = "E4000" THEN <<b, 0>>
                                               ELSE <<FilterMode(b), t.xtal>>}
                                         ELSE {}]
    PROVE  IInv'
<1>1. drv \in Driver /\ drv.err = "none" /\ DriverOK(drv) /\ AskedOK(drv, asked)
      BY DEF IInv, DriverOK
<1>. DEFINE T == WidthBits(drv.model)
            w == IF drv.model = "E4000" THEN <<b, 0>> ELSE <<FilterMode(b), t.xtal>>
            B == IF t.err = "none" THEN {w} ELSE {}
            a == [asked EXCEPT !.bw = B]
<1>2. Leaves(drv, t, T) /\ (t.err = "none" => WidthShown(t, w))
      BY <1>1, ChipBwOutcome
<1>3. /\ T \cap FreqMarkBits(drv.model) = {} /\ T \cap GainBits(drv.model) = {}
      /\ T \cap ModeBits(drv.model) = {} /\ (drv.model = "E4000" => T \cap AllStageBits = {})
  <2>1. /\ T \cap FreqMarkBits(drv.model) = {} /\ GainBits(drv.model) \cap T = {}
        /\ ModeBits(drv.model) \cap T = {} /\ (drv.model = "E4000" => T \cap AllStageBits = {})
        BY <1>1, BitsApart
  <2>. QED
       BY <2>1
<1>4. DriverOK(t) /\ t \in Driver /\ t.model = drv.model /\ t.xtal \in Nat
      BY <1>1, <1>2, LeftOK, DriverType
<1>5. w \in Nat \X Nat
      BY <1>4, FilterModes
<1>6. asked' = a
      OBVIOUS
<1>. HIDE DEF T, w
<1>7. WidthOK(t, B)
  <2>1. ~IsFc001x(t)
        BY <1>4 DEF IsFc001x
  <2>. QED
       BY <1>2, <1>5, <2>1 DEF WidthOK, Lone
<1>8. /\ FreqOK(t, asked.freq) /\ GainOK(t, asked.gain) /\ ModeOK(t, asked.manual)
      /\ StagesOK(t, asked.stages)
      BY <1>1, <1>2, <1>3, PartsStay DEF AskedOK
<1>9. B \in SUBSET (Nat \X Nat) /\ asked \in Asked
      BY <1>1, <1>5 DEF AskedOK
<1>. HIDE DEF B
<1>10. /\ a \in Asked /\ a.freq = asked.freq /\ a.bw = B /\ a.gain = asked.gain /\ a.manual = asked.manual
       /\ a.stages = asked.stages
       BY <1>9 DEF Asked
<1>. HIDE DEF a
<1>11. AskedOK(t, a)
       BY <1>7, <1>8, <1>10 DEF AskedOK
<1>12. AskedOK(t, asked')
       BY <1>6, <1>11
<1>. QED
     BY <1>4, <1>12, Entered

LEMMA BwKeeps == ASSUME IInv, SetBw PROVE IInv'
<1>. DEFINE Entry(b, u, ok) ==
              [asked EXCEPT
                 !.bw = CASE IsFc001x(u) -> {<<b, 0>>}
                          [] u.model = "E4000" -> IF ok THEN {<<b, 0>>} ELSE {}
                          [] OTHER -> IF ok THEN {<<FilterMode(b), u.xtal>>} ELSE {},
                 !.freq = IF ~IsFc001x(u) \/ u.freq = 0 THEN @
                          ELSE IF ok THEN {<<u.freq, u.xtal>>} ELSE {}]
<1>0. PICK b \in Bandwidths[drv.model] : Call(set_bw(drv, b), LAMBDA u, ok : Entry(b, u, ok))
      BY DEF SetBw
<1>1. PICK t \in set_bw(drv, b) :
         /\ drv' = [t EXCEPT !.err = "none"]
         /\ asked' = Entry(b, t, t.err = "none")
      BY <1>0 DEF Call
<1>2. drv \in Driver /\ drv.err = "none" /\ DriverOK(drv) /\ AskedOK(drv, asked) /\ b \in Nat
      BY InputTypes DEF IInv, DriverOK
<1>3. CASE IsFc001x(drv)
  <2>1. t.model = drv.model
        BY <1>1, <1>2, <1>3, FcBwOutcome
  <2>2. IsFc001x(t)
        BY <1>3, <2>1 DEF IsFc001x
  <2>3. asked' = [asked EXCEPT !.bw = {<<b, 0>>},
                               !.freq = IF t.freq = 0 THEN asked.freq
                                        ELSE IF t.err = "none" THEN {<<t.freq, t.xtal>>} ELSE {}]
    <3>1. asked \in Asked
          BY <1>2 DEF AskedOK
    <3>. QED
         BY <1>1, <2>2, <3>1 DEF Asked, IsFc001x
  <2>. HIDE DEF Entry
  <2>. QED
       BY <1>1, <1>2, <1>3, <2>3, FcBwKeeps
<1>4. CASE ~IsFc001x(drv)
  <2>1. t.model = drv.model
        BY <1>1, <1>2, <1>4, ChipBwOutcome DEF Leaves, Same
  <2>2. ~IsFc001x(t)
        BY <1>4, <2>1 DEF IsFc001x
  <2>3. asked' = [asked EXCEPT !.bw = IF t.err = "none"
                                      THEN {IF drv.model = "E4000" THEN <<b, 0>>
                                            ELSE <<FilterMode(b), t.xtal>>}
                                      ELSE {}]
    <3>1. asked \in Asked
          BY <1>2 DEF AskedOK
    <3>. QED
         BY <1>1, <2>1, <2>2, <3>1 DEF Asked, IsFc001x
  <2>. HIDE DEF Entry
  <2>. QED
       BY <1>1, <1>2, <1>4, <2>3, ChipBwKeeps
<1>. QED
     BY <1>3, <1>4
LEMMA StageKeeps == ASSUME IInv, SetIfGain PROVE IInv'
<1>. DEFINE Entry(g, u, ok) ==
              [asked EXCEPT !.stages =
                 IF u.err = "tuner" THEN @
                 ELSE {h \in @ : StageByte(h[1]) # StageByte(g[1])} \cup IF ok THEN {g} ELSE {}]
<1>0. PICK g \in StageGains :
         drv.model = "E4000" /\ Call(set_if_gain(drv, g[1], g[2]), LAMBDA u, ok : Entry(g, u, ok))
      BY DEF SetIfGain
<1>1. PICK t \in set_if_gain(drv, g[1], g[2]) :
         /\ drv' = [t EXCEPT !.err = "none"]
         /\ asked' = Entry(g, t, t.err = "none")
      BY <1>0 DEF Call
<1>2. /\ drv \in Driver /\ drv.err = "none" /\ DriverOK(drv) /\ AskedOK(drv, asked) /\ g \in Int \X Int
      /\ asked \in Asked
      BY TraitAssumption DEF IInv, DriverOK, AskedOK
<1>. DEFINE i == StageByte(g[1])
            S == IF t.err = "tuner" THEN asked.stages
                 ELSE {h \in asked.stages : StageByte(h[1]) # i} \cup IF t.err = "none" THEN {g} ELSE {}
            a == [asked EXCEPT !.stages = S]
<1>3. asked' = a
      BY <1>1, <1>2 DEF Asked
<1>4. \/ /\ StageTaken(g) /\ t.err \in {"none", "usb"} /\ Leaves(drv, t, StageBits(i))
         /\ t.err = "none" => Holds(t, StageMark(g))
      \/ t.err = "tuner" /\ Leaves(drv, t, {})
  <2>1. t \in e4k_set_if_gain(drv, g[1], g[2])
        BY <1>0, <1>1 DEF set_if_gain
  <2>. QED
       BY <1>0, <1>2, <2>1, E4kStage
<1>5. /\ t.err = "tuner" => S = asked.stages
      /\ t.err = "none" => S = {h \in asked.stages : StageByte(h[1]) # i} \cup {g}
      /\ t.err = "usb" => S = {h \in asked.stages : StageByte(h[1]) # i}
      OBVIOUS
<1>6. StagesOK(drv, asked.stages) /\ asked.stages \subseteq Int \X Int
      BY <1>2 DEF AskedOK, StagesOK
<1>7. S \subseteq Int \X Int
      BY <1>2, <1>6
<1>. HIDE DEF i, S, Entry
<1>8. PICK T : /\ Leaves(drv, t, T) /\ T \subseteq AllStageBits
               /\ StagesOK(t, S)
  <2>1. CASE t.err = "tuner"
    <3>1. Leaves(drv, t, {}) /\ S = asked.stages
          BY <1>4, <1>5, <2>1
    <3>2. StagesOK(t, S)
          BY <1>2, <1>6, <3>1, PartsStay
    <3>. QED
         BY <3>1, <3>2
  <2>2. CASE t.err # "tuner"
    <3>1. /\ StageTaken(g) /\ t.err \in {"none", "usb"} /\ Leaves(drv, t, StageBits(i))
          /\ t.err = "none" => Holds(t, StageMark(g))
          BY <1>4, <2>2
    <3>2. i \in 1..6
          BY <3>1, StageFields DEF StageTaken, i
    <3>3. StageBits(i) \subseteq AllStageBits
          BY <3>2, StagesApart
    <3>4. ASSUME NEW h \in asked.stages, StageByte(h[1]) # i PROVE StageShown(t, h)
      <4>. DEFINE j == StageByte(h[1])
      <4>1. StageShown(drv, h)
            BY <1>6 DEF StagesOK
      <4>2. j \in 1..6
            BY <4>1, StageFields DEF StageShown, StageTaken
      <4>3. StageBits(i) \cap StageBits(j) = {}
        <5>1. j # i
              BY <3>4
        <5>. HIDE DEF j
        <5>. QED
             BY <3>2, <4>2, <5>1, StagesApart
      <4>. QED
           BY <1>2, <3>1, <4>1, <4>3, SettingsStay
    <3>5. t.err = "none" => StageShown(t, g)
          BY <1>0, <3>1 DEF StageShown, Leaves, Same
    <3>6. \A h \in S : StageShown(t, h)
          BY <1>5, <3>1, <3>4, <3>5
    <3>. QED
         BY <1>7, <3>1, <3>3, <3>6 DEF StagesOK
  <2>. QED
       BY <2>1, <2>2
<1>9. /\ T \cap FreqMarkBits(drv.model) = {} /\ T \cap WidthBits(drv.model) = {}
      /\ T \cap GainBits(drv.model) = {} /\ T \cap ModeBits(drv.model) = {}
      BY <1>0, <1>8, E4kBitsApart
<1>10. /\ FreqOK(t, asked.freq) /\ WidthOK(t, asked.bw) /\ GainOK(t, asked.gain) /\ ModeOK(t, asked.manual)
       BY <1>2, <1>8, <1>9, PartsStay DEF AskedOK
<1>11. /\ a \in Asked /\ a.freq = asked.freq /\ a.bw = asked.bw /\ a.gain = asked.gain
       /\ a.manual = asked.manual /\ a.stages = S
       BY <1>2, <1>7 DEF Asked
<1>. HIDE DEF a
<1>12. AskedOK(t, a)
       BY <1>8, <1>10, <1>11 DEF AskedOK
<1>13. DriverOK(t)
       BY <1>2, <1>8, LeftOK
<1>14. AskedOK(t, asked')
       BY <1>3, <1>12
<1>. QED
     BY <1>1, <1>13, <1>14, Entered

LEMMA NewDriver ==
    ASSUME NEW m \in Models, NEW x \in Xtals[m]
    PROVE  LET s == New(m, x)
           IN  /\ s \in Driver /\ s.model = m /\ s.xtal = x /\ s.freq = 0 /\ s.err = "none"
               /\ s.faults = MaxFaults
<1>. DEFINE s == New(m, x)
            c == [r \in RegsOf(m) |-> {}]
            b == IF m \in {"FC0012", "FC0013"} THEN BW_6MHZ ELSE 0
<1>1. s = [model |-> m, chip |-> c, xtal |-> x, freq |-> 0, bw |-> b, faults |-> MaxFaults, err |-> "none"]
      BY DEF New
<1>2. x \in Nat /\ MaxFaults \in Nat
      BY TraitAssumption DEF KHz
<1>3. b \in Nat
      BY DEF BW_6MHZ
<1>4. c \in [RegsOf(m) -> Bits]
      BY DEF Bits
<1>. HIDE DEF c, b, s
<1>. QED
     BY <1>1, <1>2, <1>3, <1>4 DEF Driver, s

LEMMA InitOK == Init => IInv
<1>1. SUFFICES ASSUME Init PROVE IInv
      OBVIOUS
<1>2. /\ drv \in UNION {UNION {init(New(k, y)) : y \in Xtals[k]} : k \in Models}
      /\ drv.err = "none" /\ drv.faults = MaxFaults
      BY <1>1 DEF Init
<1>m. PICK m \in Models : drv \in UNION {init(New(m, y)) : y \in Xtals[m]}
      BY <1>2
<1>x. PICK x \in Xtals[m] : drv \in init(New(m, x))
      BY <1>m
<1>. DEFINE s == New(m, x)
<1>3. s \in Driver /\ s.model = m /\ s.xtal = x /\ s.freq = 0 /\ s.err = "none" /\ s.faults = MaxFaults
      BY NewDriver
<1>. HIDE DEF s
<1>4. Leaves(s, drv, AnyBits)
      BY <1>x, <1>3, InitOutcome DEF s
<1>5. /\ drv \in Driver /\ drv.model = m /\ drv.xtal = x /\ drv.freq = 0 /\ drv.bw \in Nat
      BY <1>3, <1>4, DriverType DEF Leaves, Same
<1>6. DriverOK(drv)
  <2>1. MaxFaults \in Nat
        BY TraitAssumption
  <2>. QED
       BY <1>2, <1>5, <2>1 DEF DriverOK
<1>. DEFINE B == IF IsFc001x(drv) THEN {<<drv.bw, 0>>} ELSE {}
            a == [NotAsked EXCEPT !.bw = B]
<1>7. asked = a
      BY <1>1 DEF Init
<1>8. WidthOK(drv, B)
  <2>1. CASE IsFc001x(drv)
    <3>1. WidthShown(drv, <<drv.bw, 0>>) /\ <<drv.bw, 0>> \in Nat \X Nat /\ B = {<<drv.bw, 0>>}
          BY <1>5, <2>1 DEF WidthShown
    <3>. HIDE DEF B
    <3>. QED
         BY <3>1 DEF WidthOK, Lone
  <2>2. CASE ~IsFc001x(drv)
        BY <2>2, NoneOK
  <2>. QED
       BY <2>1, <2>2
<1>. HIDE DEF B
<1>9. /\ a \in Asked /\ a.freq = {} /\ a.bw = B /\ a.gain = {} /\ a.manual = {} /\ a.stages = {}
      BY <1>8 DEF Asked, NotAsked, WidthOK
<1>. HIDE DEF a
<1>10. AskedOK(drv, a)
       BY <1>8, <1>9, NoneOK DEF AskedOK
<1>. QED
     BY <1>2, <1>6, <1>7, <1>10 DEF IInv

LEMMA NextKeeps == IInv /\ [Next]_vars => IInv'
<1>1. SUFFICES ASSUME IInv, [Next]_vars PROVE IInv'
      OBVIOUS
<1>2. CASE UNCHANGED vars
      BY <1>1, <1>2 DEF vars, IInv, DriverOK, AskedOK, FreqOK, WidthOK, GainOK, ModeOK, StagesOK, Driver,
         FreqShown, WidthShown, GainShown, ModeShown, StageShown, IsFc001x, InChip, Holds,
         FcProgrammed, E4kProgrammed, Fc2580Programmed
<1>. QED
     BY <1>1, <1>2, FreqKeeps, BwKeeps, GainKeeps, ModeKeeps, StageKeeps, XtalKeeps, ExitKeeps, InitKeeps
        DEF Next

(* The driver between two calls, and that what was asked for is shown.     *)
THEOREM Invariance == Spec => []IInv
<1>. QED
     BY InitOK, NextKeeps, PTL DEF Spec
LEMMA LoneCounts == ASSUME NEW S, Lone(S) PROVE Cardinality(S) <= 1
<1>1. CASE S = {}
  <2>1. Cardinality(S) = 0
        BY <1>1, FS_EmptySet
  <2>. QED
       BY <2>1
<1>2. CASE \E x : S = {x}
  <2>1. PICK x : S = {x}
        BY <1>2
  <2>2. Cardinality(S) = 1
        BY <2>1, FS_Singleton
  <2>. QED
       BY <2>2
<1>. QED
     BY <1>1, <1>2 DEF Lone

(* The type invariant: whatever fails in whatever order, the registers     *)
(* stay bytes, the crystal and the frequency that the driver remembers     *)
(* (and applies again) are ones that it was given, the faults are never    *)
(* more than were to come, and a setting counts as asked for once at most. *)
THEOREM TypeCorrect == Spec => []TypeOK
<1>1. IInv => TypeOK
  <2>1. SUFFICES ASSUME IInv PROVE TypeOK
        OBVIOUS
  <2>2. /\ drv \in Driver /\ drv.faults <= MaxFaults /\ drv.xtal \in Xtals[drv.model]
        /\ drv.freq \in Freqs[drv.model] \cup {0} /\ drv.err = "none"
        BY <2>1 DEF IInv, DriverOK
  <2>3. /\ drv.model \in Models /\ drv.chip \in [RegsOf(drv.model) -> SUBSET (0..7)] /\ drv.faults \in Nat
        BY <2>2, DriverType DEF Bits
  <2>4. /\ Lone(asked.freq) /\ Lone(asked.bw) /\ Lone(asked.gain) /\ Lone(asked.manual)
        /\ DOMAIN asked = {"freq", "bw", "gain", "manual", "stages"}
        BY <2>1 DEF IInv, AskedOK, FreqOK, WidthOK, GainOK, ModeOK, Asked
  <2>5. \A part \in DOMAIN asked \ {"stages"} : Cardinality(asked[part]) <= 1
        BY <2>4, LoneCounts
  <2>6. drv.faults \in 0..MaxFaults
        BY <2>2, <2>3, TraitAssumption
  <2>. QED
       BY <2>2, <2>3, <2>5, <2>6 DEF TypeOK
<1>. QED
     BY <1>1, Invariance, PTL

---------------------------------------------------------------------------
(* What registers are worth, of which the writes are in the chip           *)
LEMMA PutShown ==
    ASSUME NEW s \in Driver, NEW r \in RegsOf(s.model), NEW v, Holds(s, Put(r, v))
    PROVE  /\ s.chip[r] = Byte(v)
           /\ v \in Nat /\ v <= 255 => ByteValue(s.chip[r]) = v
<1>1. /\ Put(r, v).reg = r /\ Put(r, v).val = Byte(v) /\ Put(r, v).mask = 0..7 /\ Byte(v) \in Bits
      BY PutIs, ByteType
<1>2. s.chip[r] \in Bits
      BY DriverType
<1>3. \A b \in 0..7 : b \in s.chip[r] <=> b \in Byte(v)
      BY <1>1 DEF Holds
<1>4. s.chip[r] = Byte(v)
      BY <1>1, <1>2, <1>3 DEF Bits
<1>. QED
     BY <1>4, ByteSpells

LEMMA WShown ==
    ASSUME NEW s, NEW r, NEW v, NEW m, Holds(s, W(r, v, m))
    PROVE  s.chip[r] \cap Byte(m) = Byte(v) \cap Byte(m)
<1>1. W(r, v, m).reg = r /\ W(r, v, m).val = Byte(v) /\ W(r, v, m).mask = Byte(m)
      BY WIs
<1>. QED
     BY <1>1 DEF Holds

(* Fields of a byte: the value of some of its bits, moved to the right.    *)
LEMMA Shifts ==
    /\ 2^0 = 1 /\ 2^1 = 2 /\ 2^2 = 4 /\ 2^3 = 8 /\ 2^4 = 16 /\ 2^5 = 32 /\ 2^6 = 64 /\ 2^7 = 128
BY Powers

LEMMA LowField ==
    ASSUME NEW v \in Nat, v <= 255
    PROVE  /\ PartSum(v, 0..0) = v % 2 /\ PartSum(v, 0..1) = v % 4 /\ PartSum(v, 0..3) = v % 16 /\ PartSum(v, 0..4) = v % 32
           /\ PartSum(v, 1..2) = 2 * ((v \div 2) % 4) /\ PartSum(v, 4..7) = 16 * (v \div 16)
           /\ PartSum(v, 3..7) = 8 * (v \div 8) /\ PartSum(v, 6..7) = 64 * (v \div 64)
           /\ PartSum(v, 4..5) = 16 * ((v \div 16) % 4) /\ PartSum(v, 1..1) = 2 * ((v \div 2) % 2)
<1>1. /\ v % 2 = v - 2 * (v \div 2) /\ v % 4 = v - 4 * (v \div 4)
      /\ v % 16 = v - 16 * (v \div 16) /\ v % 32 = v - 32 * (v \div 32)
      /\ (v \div 2) % 4 = (v \div 2) - 4 * (v \div 8) /\ (v \div 16) % 4 = (v \div 16) - 4 * (v \div 64)
      OBVIOUS
<1>. QED
     BY <1>1, Halves DEF PartSum
---------------------------------------------------------------------------
(* The arithmetic of the FC001x's PLL                                      *)

LEMMA DivMod ==
    ASSUME NEW n \in Nat, NEW d \in Nat, d > 0
    PROVE  n \div d \in Nat /\ n % d \in Nat /\ n % d < d /\ n = d * (n \div d) + (n % d)
OBVIOUS

LEMMA Least ==
    ASSUME NEW a \in Int, NEW b \in Int
    PROVE  Min({a, b}) = IF a <= b THEN a ELSE b
<1>1. \A x : (x \in {a, b} /\ \A y \in {a, b} : x <= y) <=> x = IF a <= b THEN a ELSE b
      OBVIOUS
<1>. QED
     BY <1>1 DEF Min

(* Quotients up to 503 fit the two registers.                              *)
LEMMA Registers12 ==
    ASSUME NEW x \in Nat, x <= 503, PllValid(x)
    PROVE  /\ Reg1(x) \in Nat /\ Reg1(x) <= 255 /\ Reg2(x) \in Nat /\ Reg2(x) <= 255
           /\ 8 * Reg2(x) + Reg1(x) = x
<1>1. Am(x) \in Nat /\ Am(x) <= 9 /\ Am(x) >= 2 /\ (x - Am(x)) % 8 = 0
      BY DEF Am
<1>2. Pm(x) = (x - Am(x)) \div 8 /\ Pm(x) >= 0
      BY DEF Pm, PllValid
<1>. DEFINE a == Am(x)
            p == Pm(x)
<1>3. a \in Nat /\ a <= 9 /\ a >= 2 /\ p \in Int /\ p >= 0 /\ x = a + 8 * p
      BY <1>1, <1>2
<1>4. Reg1(x) = (IF p > 31 THEN (a + 8 * (p - 31)) % 256 ELSE a) /\ Reg2(x) = Min({p, 31})
      BY DEF Reg1, Reg2
<1>5. Reg2(x) = IF p <= 31 THEN p ELSE 31
      BY <1>3, <1>4, Least
<1>. HIDE DEF a, p
<1>. QED
     BY <1>3, <1>4, <1>5

(* The quotient, its rounding, and the fraction with its sign.             *)
RoundUp(r, half) == IF 2 * r >= half THEN 1 ELSE 0
Signed(xin) == IF xin >= 32768 THEN xin - 65536 ELSE xin

LEMMA Rounding ==
    ASSUME NEW half \in Nat, half > 0, NEW vco \in Nat, vco < 503 * half
    PROVE  /\ XDiv(vco, half) \in Nat /\ XDiv(vco, half) <= 503
           /\ vco - half * XDiv(vco, half) = (vco % half) - half * RoundUp(vco % half, half)
<1>. DEFINE q == vco \div half
            r == vco % half
            over == RoundUp(r, half)
<1>1. q \in Nat /\ r \in Nat /\ r < half /\ vco = half * q + r
      BY DivMod
<1>2. XDiv(vco, half) = (q + over) % 65536 /\ over \in {0, 1}
      BY DEF XDiv, RoundUp
<1>. HIDE DEF q, r, over
<1>3. q <= 502
  <2>1. SUFFICES ASSUME q >= 503 PROVE FALSE
        BY <1>1
  <2>2. half * q >= half * 503
        BY <1>1, <2>1
  <2>. QED
       BY <1>1, <2>2
<1>4. XDiv(vco, half) = q + over
      BY <1>1, <1>2, <1>3
<1>5. half * (q + over) = half * q + half * over
      BY <1>1, <1>2
<1>6. vco - half * (q + over) = r - half * over
  <2>. DEFINE A == half * q
              B == half * over
              C == half * (q + over)
  <2>1. A \in Int /\ B \in Int /\ C \in Int /\ vco = A + r /\ C = A + B
        BY <1>1, <1>2, <1>5
  <2>. HIDE DEF A, B, C
  <2>2. vco - C = r - B
        BY <1>1, <2>1
  <2>. QED
       BY <2>2 DEF B, C
<1>. QED
     BY <1>1, <1>2, <1>3, <1>4, <1>6 DEF r, over

FractionFits(vco, half) ==
    /\ Xin(vco, half) \in Nat /\ Xin(vco, half) < 65536
    /\ half <= 65536 =>
         32768 * ((vco % half) - half * RoundUp(vco % half, half)) - half * Signed(Xin(vco, half))
           \in 0..(half - 1)

(* Of a remainder that fits its 16 bits nothing is lost.                   *)
LEMMA Fraction == ASSUME NEW half \in Nat, half > 0, NEW vco \in Nat PROVE FractionFits(vco, half)
<1>. DEFINE r == vco % half
            low == r % 65536
            over == RoundUp(r, half)
            y == Shifted(low, half, 15)
            X == y[1]
            R == y[2]
            xin == Xin(vco, half)
            signed == Signed(xin)
<1>1. r \in Nat /\ r < half
      BY DivMod
<1>2. low \in Nat /\ low < half /\ (half <= 65536 => low = r)
  <2>. HIDE DEF r
  <2>. QED
       BY <1>1
<1>3. X \in Nat /\ R \in Nat /\ X < 32768 /\ R < half /\ half * X + R = 32768 * low
  <2>. HIDE DEF low
  <2>1. Divided(low, half, Pow2[15], y)
        BY <1>2, ShiftedDivides
  <2>. QED
       BY <2>1, Pow2Is DEF Divided
<1>4. xin = IF X >= 16384 THEN X + 32768 ELSE X
      BY DEF Xin
<1>. HIDE DEF r, low, y, X, R, xin
<1>5. xin \in Nat /\ xin < 65536
      BY <1>3, <1>4
<1>6. ASSUME half <= 65536
      PROVE  32768 * (r - half * over) - half * signed \in 0..(half - 1)
  <2>1. half * X + R = 32768 * r
        BY <1>2, <1>3, <1>6
  <2>2. X >= 16384 <=> 2 * r >= half
    <3>1. CASE X >= 16384
      <4>1. half * X >= half * 16384
            BY <1>3, <3>1
      <4>. DEFINE A == half * X
      <4>2. A \in Nat /\ A >= half * 16384 /\ A + R = 32768 * r
            BY <1>3, <2>1, <4>1
      <4>. HIDE DEF A
      <4>. QED
           BY <1>1, <1>3, <3>1, <4>2
    <3>2. CASE ~(X >= 16384)
      <4>1. half * X <= half * 16383
            BY <1>3, <3>2
      <4>. DEFINE A == half * X
      <4>2. A \in Nat /\ A <= half * 16383 /\ A + R = 32768 * r
            BY <1>3, <2>1, <4>1
      <4>. HIDE DEF A
      <4>. QED
           BY <1>1, <1>3, <3>2, <4>2
    <3>. QED
         BY <3>1, <3>2
  <2>3. signed = X - 32768 * over /\ over \in {0, 1}
        BY <1>1, <1>3, <1>4, <2>2 DEF RoundUp, Signed
  <2>. HIDE DEF over, signed
  <2>4. half * signed = half * X - 32768 * (half * over)
        BY <1>3, <2>3
  <2>5. 32768 * (r - half * over) - half * signed = R
    <3>. DEFINE A == half * X
                B == half * over
                C == half * signed
    <3>1. A \in Int /\ B \in Int /\ C \in Int /\ C = A - 32768 * B /\ A + R = 32768 * r
          BY <1>3, <2>1, <2>3, <2>4
    <3>. HIDE DEF A, B, C
    <3>2. 32768 * (r - B) - C = R
          BY <1>1, <1>3, <3>1
    <3>. QED
         BY <3>2 DEF B, C
  <2>. QED
       BY <1>3, <2>5
<1>. QED
     BY <1>5, <1>6 DEF FractionFits, r, over, xin, signed

(* A programmed FC001x is tuned.                                           *)
LEMMA FcShown ==
    ASSUME NEW s \in Driver, IsFc001x(s), NEW f, NEW x, FcProgrammed(s, f, x)
    PROVE  LET div == FcDivider(s.model, f)
               half == x \div 2
               vco == f * div[2]
           IN  /\ Holds(s, Put(1, Reg1(XDiv(vco, half)))) /\ Holds(s, Put(2, Reg2(XDiv(vco, half))))
               /\ Holds(s, Put(3, Xin(vco, half) \div 256)) /\ Holds(s, Put(4, Xin(vco, half) % 256))
               /\ Holds(s, Put(5, 8 * (div[3] \div 8) + 7)) /\ Holds(s, W(6, div[4], 2))
               /\ Holds(s, W(6, BwBits(s.bw), \hc0))
               /\ s.model = "FC0013" =>
                    /\ Holds(s, W(\h11, IF div[2] = 64 THEN 4 ELSE 0, 4)) /\ Holds(s, W(7, FcVhf(f), \h10))
                    /\ Holds(s, W(\h14, FcBand(f), \h40))
               /\ PllValid(XDiv(vco, half))
<1>. DEFINE div == FcDivider(s.model, f)
            v == FcPll(s.model, f, x)
            half == x \div 2
            vco == f * div[2]
<1>1. /\ v[1] = Reg1(XDiv(vco, half)) /\ v[2] = Reg2(XDiv(vco, half)) /\ v[3] = Xin(vco, half) \div 256
      /\ v[4] = Xin(vco, half) % 256 /\ v[5] = 8 * (div[3] \div 8) + 7
      BY DEF FcPll
<1>2. \A w \in FcMarks(s.model, v, div[4], BwBits(s.bw), IF div[2] = 64 THEN 4 ELSE 0, FcVhf(f), FcBand(f)) :
         Holds(s, w)
      BY DEF FcProgrammed, FcMarksOf
<1>3. PllValid(XDiv(vco, half))
      BY DEF FcProgrammed
<1>. HIDE DEF v, div, half, vco
<1>4. /\ Holds(s, Put(1, v[1])) /\ Holds(s, Put(2, v[2])) /\ Holds(s, Put(3, v[3])) /\ Holds(s, Put(4, v[4]))
      /\ Holds(s, Put(5, v[5])) /\ Holds(s, W(6, div[4], 2)) /\ Holds(s, W(6, BwBits(s.bw), \hc0))
      BY <1>2 DEF FcMarks
<1>5. s.model = "FC0013" =>
        /\ Holds(s, W(\h11, IF div[2] = 64 THEN 4 ELSE 0, 4)) /\ Holds(s, W(7, FcVhf(f), \h10))
        /\ Holds(s, W(\h14, FcBand(f), \h40))
      BY <1>2 DEF FcMarks
<1>. QED
     BY <1>1, <1>3, <1>4, <1>5 DEF div, half, vco

LEMMA BitIn ==
    ASSUME NEW b \in 0..7, NEW c, NEW d, c \cap {b} = d \cap {b}
    PROVE  b \in c <=> b \in d
OBVIOUS

FcFieldsFit(s, div, f) ==
    /\ ByteValue(s.chip[5] \cap 3..7) \div 2^3 = div[3] \div 8
    /\ ByteValue(s.chip[6] \cap 1..1) \div 2^1 = div[4] \div 2
    /\ s.model = "FC0013" =>
         /\ (2 \in s.chip[\h11]) = (div[2] = 64)
         /\ (6 \in s.chip[\h14]) = (f >= 300000) /\ (4 \in s.chip[7]) = (f < 300000)

LEMMA FcFields ==
    ASSUME NEW s \in Driver, IsFc001x(s), NEW f \in Nat, f < FcLimit, NEW x, FcProgrammed(s, f, x)
    PROVE  FcFieldsFit(s, FcDivider(s.model, f), f)
<1>. DEFINE div == FcDivider(s.model, f)
<1>1. /\ Holds(s, Put(5, 8 * (div[3] \div 8) + 7)) /\ Holds(s, W(6, div[4], 2))
      /\ s.model = "FC0013" =>
           /\ Holds(s, W(\h11, IF div[2] = 64 THEN 4 ELSE 0, 4)) /\ Holds(s, W(7, FcVhf(f), \h10))
           /\ Holds(s, W(\h14, FcBand(f), \h40))
      BY FcShown
<1>2. div[4] \in {0, 2} /\ div[3] \in {\h82, 2, \h42, \h22, \h12, \h0a}
      BY FcRows DEF FcRow
<1>3. \A r \in {5, 6, 7, \h11, \h14} : r \in RegsOf(s.model)
      BY FcModels
<1>. HIDE DEF div
<1>4. ByteValue(s.chip[5] \cap 3..7) \div 2^3 = div[3] \div 8
  <2>. DEFINE v == 8 * (div[3] \div 8) + 7
  <2>1. v \in Nat /\ v <= 255 /\ v \div 8 = div[3] \div 8 /\ (8 * (v \div 8)) \div 8 = v \div 8
        BY <1>2
  <2>2. s.chip[5] = Byte(v)
        BY <1>1, <1>3, PutShown
  <2>. HIDE DEF v
  <2>3. ByteValue(Byte(v) \cap 3..7) = PartSum(v, 3..7)
        BY <2>1, PartSpells
  <2>4. PartSum(v, 3..7) = 8 * (v \div 8)
        BY <2>1, LowField
  <2>. QED
       BY <2>1, <2>2, <2>3, <2>4, Shifts
<1>5. ByteValue(s.chip[6] \cap 1..1) \div 2^1 = div[4] \div 2
  <2>1. s.chip[6] \cap {1} = Byte(div[4]) \cap {1}
        BY <1>1, WShown, Masks
  <2>2. 1..1 = {1}
        OBVIOUS
  <2>3. ByteValue(s.chip[6] \cap 1..1) = PartSum(div[4], 1..1)
        BY <1>2, <2>1, <2>2, PartSpells
  <2>4. PartSum(div[4], 1..1) = 2 * ((div[4] \div 2) % 2)
        BY <1>2, LowField
  <2>5. (2 * ((div[4] \div 2) % 2)) \div 2 = div[4] \div 2
        BY <1>2
  <2>. QED
       BY <2>3, <2>4, <2>5, Shifts
<1>6. ASSUME s.model = "FC0013"
      PROVE  /\ (2 \in s.chip[\h11]) = (div[2] = 64)
             /\ (6 \in s.chip[\h14]) = (f >= 300000) /\ (4 \in s.chip[7]) = (f < 300000)
  <2>1. 2 \in s.chip[\h11] <=> 2 \in Byte(IF div[2] = 64 THEN 4 ELSE 0)
    <3>1. s.chip[\h11] \cap {2} = Byte(IF div[2] = 64 THEN 4 ELSE 0) \cap {2}
          BY <1>1, <1>6, WShown, Masks
    <3>. QED
         BY <3>1
  <2>2. 6 \in s.chip[\h14] <=> 6 \in Byte(FcBand(f))
    <3>1. s.chip[\h14] \cap {6} = Byte(FcBand(f)) \cap {6}
          BY <1>1, <1>6, WShown, Masks
    <3>. QED
         BY <3>1
  <2>3. 4 \in s.chip[7] <=> 4 \in Byte(FcVhf(f))
    <3>1. s.chip[7] \cap {4} = Byte(FcVhf(f)) \cap {4}
          BY <1>1, <1>6, WShown, Masks
    <3>. QED
         BY <3>1
  <2>4. 2 \in Byte(4) /\ 2 \notin Byte(0) /\ 6 \in Byte(\h40) /\ 6 \notin Byte(0) /\ 4 \in Byte(\h10) /\ 4 \notin Byte(0)
        BY Masks
  <2>5. FcBand(f) = (IF f < 300000 THEN 0 ELSE \h40) /\ FcVhf(f) = (IF f < 300000 THEN \h10 ELSE 0)
        BY DEF FcBand, FcVhf
  <2>. QED
       BY <2>1, <2>2, <2>3, <2>4, <2>5
<1>. QED
     BY <1>4, <1>5, <1>6 DEF div, FcFieldsFit

FcQuotientFits(s, vco, half) ==
    LET signed == Signed(256 * ByteValue(s.chip[3]) + ByteValue(s.chip[4]))
        beyond == vco - half * (8 * ByteValue(s.chip[2]) + ByteValue(s.chip[1]))
    IN  /\ beyond \in -half..half
        /\ half <= 65536 => 32768 * beyond - half * signed \in 0..(half - 1)

LEMMA FcQuotient ==
    ASSUME NEW s \in Driver, IsFc001x(s), NEW f \in Nat, f < FcLimit, NEW x, FcProgrammed(s, f, x),
           NEW half \in Nat, half > 0, half = x \div 2, NEW vco \in Nat, vco = f * FcDivider(s.model, f)[2],
           vco < 503 * half
    PROVE  FcQuotientFits(s, vco, half)
<1>. DEFINE q == XDiv(vco, half)
            n == Xin(vco, half)
            r == vco % half
            over == RoundUp(r, half)
<1>1. /\ Holds(s, Put(1, Reg1(q))) /\ Holds(s, Put(2, Reg2(q))) /\ Holds(s, Put(3, n \div 256))
      /\ Holds(s, Put(4, n % 256)) /\ PllValid(q)
      BY FcShown
<1>2. q \in Nat /\ q <= 503 /\ vco - half * q = r - half * over
      BY Rounding
<1>3. /\ n \in Nat /\ n < 65536
      /\ half <= 65536 => 32768 * (r - half * over) - half * Signed(n) \in 0..(half - 1)
  <2>1. FractionFits(vco, half)
        BY Fraction
  <2>. QED
       BY <2>1 DEF FractionFits
<1>4. r \in Nat /\ r < half
      BY DivMod
<1>5. over \in {0, 1}
      BY DEF RoundUp
<1>6. \A k \in {1, 2, 3, 4} : k \in RegsOf(s.model)
      BY FcModels
<1>. HIDE DEF q, n, r
<1>7. Reg1(q) \in Nat /\ Reg1(q) <= 255 /\ Reg2(q) \in Nat /\ Reg2(q) <= 255 /\ 8 * Reg2(q) + Reg1(q) = q
      BY <1>1, <1>2, Registers12
<1>8. /\ n \div 256 \in Nat /\ n \div 256 <= 255 /\ n % 256 \in Nat /\ n % 256 <= 255
      /\ 256 * (n \div 256) + (n % 256) = n
      BY <1>3
<1>9. ByteValue(s.chip[1]) = Reg1(q) /\ ByteValue(s.chip[2]) = Reg2(q)
      BY <1>1, <1>6, <1>7, PutShown
<1>10. ByteValue(s.chip[3]) = n \div 256 /\ ByteValue(s.chip[4]) = n % 256
       BY <1>1, <1>6, <1>8, PutShown
<1>11. 8 * ByteValue(s.chip[2]) + ByteValue(s.chip[1]) = q
       BY <1>7, <1>9
<1>12. 256 * ByteValue(s.chip[3]) + ByteValue(s.chip[4]) = n
       BY <1>8, <1>10
<1>13. r - half * over \in -half..half
  <2>1. half * over = IF over = 1 THEN half ELSE 0
        BY <1>5
  <2>. HIDE DEF over
  <2>. QED
       BY <1>4, <2>1
<1>. HIDE DEF over
<1>. QED
     BY <1>2, <1>3, <1>11, <1>12, <1>13 DEF FcQuotientFits

LEMMA FcIsTuned == ASSUME IInv, IsFc001x(drv), NEW p \in asked.freq PROVE FcTuned(p[1], p[2])
<1>. DEFINE f == p[1]
            x == p[2]
            m == drv.model
            div == FcDivider(m, f)
            half == x \div 2
            vco == f * div[2]
<1>1. /\ drv \in Driver /\ f \in Freqs[m] /\ x \in Xtals[m] /\ FcProgrammed(drv, f, x)
      BY DEF IInv, DriverOK, AskedOK, FreqOK, FreqShown
<1>2. f \in Nat /\ f < FcLimit /\ x \in Nat /\ x # 0
      BY <1>1, InputTypes
<1>3. x % 2 = 0
      BY <1>1, DriverType, TraitAssumption DEF IsFc001x
<1>4. half \in Nat /\ half > 0
      BY <1>2, <1>3
<1>5. PICK i \in DOMAIN FcDividers(m) : div = FcDividers(m)[i] /\ FcRow(FcDividers(m)[i], f)
      BY <1>2, FcRows
<1>6. vco \in Nat
      BY <1>2, <1>5 DEF FcRow
<1>7. FcFieldsFit(drv, div, f)
  <2>1. drv \in Driver /\ IsFc001x(drv) /\ f \in Nat /\ f < FcLimit /\ FcProgrammed(drv, f, x)
        BY <1>1, <1>2
  <2>. HIDE DEF f, x
  <2>. QED
       BY <2>1, FcFields
<1>8. vco < 503 * half => FcQuotientFits(drv, vco, half)
  <2>1. /\ drv \in Driver /\ IsFc001x(drv) /\ f \in Nat /\ f < FcLimit /\ FcProgrammed(drv, f, x)
        /\ half = x \div 2 /\ vco = f * FcDivider(drv.model, f)[2] /\ half \in Nat /\ half > 0 /\ vco \in Nat
        BY <1>1, <1>2, <1>4, <1>6
  <2>. HIDE DEF f, x, half, vco
  <2>. QED
       BY <2>1, FcQuotient
<1>9. f <= 890000 => vco < 3560064
      BY <1>5 DEF FcRow
<1>. DEFINE table == FcDividers(m)
<1>10. table = FcDividers(m) /\ i \in DOMAIN table /\ div = table[i] /\ vco = f * div[2]
       BY <1>5
<1>. HIDE DEF div, vco, half, table, f, m
<1>11. /\ Field(5, 3, 7) = table[i][3] \div 8 /\ Field(6, 1, 1) = table[i][4] \div 2
       /\ m = "FC0013" => (2 \in drv.chip[\h11]) = (table[i][2] = 64)
       BY <1>7, <1>10 DEF Field, FcFieldsFit, m
<1>12. m = "FC0013" => (6 \in drv.chip[\h14]) = (f >= 300000) /\ (4 \in drv.chip[7]) = (f < 300000)
       BY <1>7 DEF FcFieldsFit, m
<1>13. f * table[i][2] < 503 * half =>
         /\ f * table[i][2] - half * (8 * Reg(2) + Reg(1)) \in -half..half
         /\ half <= 65536 =>
              32768 * (f * table[i][2] - half * (8 * Reg(2) + Reg(1))) - half * Signed(256 * Reg(3) + Reg(4))
                \in 0..(half - 1)
  <2>1. f * table[i][2] = vco
        BY <1>10
  <2>. QED
       BY <1>8, <2>1 DEF FcQuotientFits, Reg
<1>14. f <= 890000 => f * table[i][2] < 3560064
       BY <1>9, <1>10
<1>. DEFINE xin == 256 * Reg(3) + Reg(4)
            signed == IF xin >= 32768 THEN xin - 65536 ELSE xin
<1>15. Signed(256 * Reg(3) + Reg(4)) = signed
       BY DEF Signed
<1>. HIDE DEF signed
<1>16. f * table[i][2] < 503 * half =>
         /\ f * table[i][2] - half * (8 * Reg(2) + Reg(1)) \in -half..half
         /\ half <= 65536 =>
              32768 * (f * table[i][2] - half * (8 * Reg(2) + Reg(1))) - half * signed \in 0..(half - 1)
       BY <1>13, <1>15
<1>17. FcTuned(f, x)
       BY <1>10, <1>11, <1>12, <1>14, <1>16 DEF FcTuned, signed, half, table, m
<1>. QED
     BY <1>17 DEF f
---------------------------------------------------------------------------
(* The entry of a table that is nearest to x                               *)
LEMMA Nearest ==
    ASSUME NEW n \in Nat, n >= 1, NEW table, DOMAIN table = 1..n, \A i \in 1..n : table[i] \in Int,
           NEW x \in Int
    PROVE  /\ Closest(table, x) + 1 \in 1..n /\ Closest(table, x) \in Nat
           /\ \A j \in 1..n : AbsDiff(table[Closest(table, x) + 1], x) <= AbsDiff(table[j], x)
<1>. DEFINE d(i) == AbsDiff(table[i], x)
            best == {i \in 1..n : \A j \in 1..n : d(i) <= d(j)}
<1>1. \A i \in 1..n : d(i) \in Nat
      BY DEF AbsDiff
<1>2. Closest(table, x) = Min(best) - 1
      BY DEF Closest
<1>3. 1 \in 1..n
      OBVIOUS
<1>. HIDE DEF d
<1>4. best # {}
  <2>. DEFINE S == {k \in 0..d(1) : \E i \in 1..n : d(i) = k}
  <2>1. d(1) \in Nat
        BY <1>1, <1>3
  <2>2. d(1) \in S
        BY <2>1, <1>3
  <2>3. S \in SUBSET (0..d(1)) /\ S # {}
        BY <2>2
  <2>. DEFINE m == Min(S)
  <2>4. m \in S /\ \A y \in S : m <= y
        BY <2>1, <2>3, MinOf
  <2>. HIDE DEF m
  <2>5. PICK i \in 1..n : d(i) = m
        BY <2>4
  <2>6. ASSUME NEW j \in 1..n PROVE d(i) <= d(j)
    <3>1. CASE d(j) <= d(1)
      <4>1. d(j) \in S
            BY <1>1, <2>1, <3>1
      <4>. QED
           BY <2>4, <2>5, <4>1
    <3>2. CASE ~(d(j) <= d(1))
      <4>1. m <= d(1) /\ m \in Nat
            BY <2>2, <2>4, <2>1
      <4>. QED
           BY <1>1, <2>1, <2>5, <3>2, <4>1
    <3>. QED
         BY <3>1, <3>2
  <2>. QED
       BY <2>5, <2>6
<1>5. best \in SUBSET (0..n)
      OBVIOUS
<1>6. Min(best) \in best
      BY <1>4, <1>5, MinOf
<1>. DEFINE i == Min(best)
<1>7. i \in 1..n /\ \A j \in 1..n : d(i) <= d(j)
      BY <1>6
<1>. HIDE DEF i, best
<1>8. Closest(table, x) + 1 = i
      BY <1>2, <1>7 DEF i
<1>9. Closest(table, x) \in Nat
      BY <1>2, <1>7 DEF i
<1>. QED
     BY <1>7, <1>8, <1>9 DEF d

LEMMA FilterCenters ==
    /\ DOMAIN RF_FILT_CENTER_UHF = 1..16 /\ \A i \in 1..16 : RF_FILT_CENTER_UHF[i] \in Int
    /\ DOMAIN RF_FILT_CENTER_L = 1..16 /\ \A i \in 1..16 : RF_FILT_CENTER_L[i] \in Int
<1>1. DOMAIN RF_FILT_CENTER_UHF = 1..16 /\ \A i \in 1..16 : RF_FILT_CENTER_UHF[i] \in Int
      BY SMT DEF RF_FILT_CENTER_UHF
<1>2. DOMAIN RF_FILT_CENTER_L = 1..16 /\ \A i \in 1..16 : RF_FILT_CENTER_L[i] \in Int
      BY SMT DEF RF_FILT_CENTER_L
<1>. QED
     BY <1>1, <1>2

---------------------------------------------------------------------------
(* A programmed E4000 is tuned.                                            *)
LEMMA E4kShown ==
    ASSUME NEW s, NEW f, NEW x, E4kProgrammed(s, f, x)
    PROVE  /\ E4kPllValid(f, x)
           /\ Holds(s, Put(SYNTH7, PllVar(f)[2])) /\ Holds(s, Put(SYNTH3, E4kZ(f, x)))
           /\ Holds(s, Put(SYNTH4, E4kX(f, x)[1] % 256)) /\ Holds(s, Put(SYNTH5, E4kX(f, x)[1] \div 256))
           /\ Holds(s, Put(BIAS, IF E4kBand(f, x) = 3 THEN 0 ELSE 3)) /\ Holds(s, W(SYNTH1, 2 * E4kBand(f, x), 6))
           /\ Holds(s, W(FILT1, RfFilter(f, E4kBand(f, x)), \h0f))
BY DEF E4kProgrammed, E4kMarks, InChip

LEMMA PllVarIs ==
    ASSUME NEW f \in Nat
    PROVE  /\ PllVar(f) \in Range(PLL_VARS) \cup {<<0, 0, 2>>}
           /\ PllVar(f)[2] \in Nat /\ PllVar(f)[2] <= 255 /\ PllVar(f)[3] \in Nat
<1>. DEFINE above == {i \in DOMAIN PLL_VARS : f < PLL_VARS[i][1]}
<1>1. DOMAIN PLL_VARS = 1..10
      BY SMT DEF PLL_VARS
<1>2. \A i \in 1..10 : PLL_VARS[i][2] \in Nat /\ PLL_VARS[i][2] <= 255 /\ PLL_VARS[i][3] \in Nat
      BY SMT DEF PLL_VARS
<1>3. PllVar(f) = IF above = {} THEN <<0, 0, 2>> ELSE PLL_VARS[Min(above)]
      BY DEF PllVar
<1>4. CASE above = {}
      BY <1>3, <1>4
<1>5. CASE above # {}
  <2>1. above \in SUBSET (0..10)
        BY <1>1
  <2>2. Min(above) \in 1..10
        BY <1>1, <1>5, <2>1, MinOf
  <2>. DEFINE i == Min(above)
  <2>3. i \in 1..10 /\ PllVar(f) = PLL_VARS[i]
        BY <1>3, <1>5, <2>2
  <2>. HIDE DEF i
  <2>4. PLL_VARS[i] \in Range(PLL_VARS)
        BY <1>1, <2>3 DEF Range
  <2>. QED
       BY <1>2, <2>3, <2>4
<1>. QED
     BY <1>4, <1>5

\* The quotient z and the fraction n of the E4000's PLL
E4kQuotientFits(vco, xtal, z, n) ==
    /\ vco - z * xtal \in 0..(xtal - 1)
    /\ 65536 * (vco - z * xtal) - xtal * n \in 0..(xtal - 1)

LEMMA E4kQuotient ==
    ASSUME NEW f \in Nat, NEW x \in Nat, x > 0, NEW m \in Nat, m = PllVar(f)[3]
    PROVE  /\ E4kZ(f, x) \in Nat /\ E4kX(f, x)[1] \in Nat /\ E4kX(f, x)[1] < 65536
           /\ E4kQuotientFits(f * m, x, E4kZ(f, x), E4kX(f, x)[1])
<1>. DEFINE vco == f * m
            z == vco \div x
            r == vco % x
            y == Shifted(r, x, 16)
            n == y[1]
            R == y[2]
<1>1. vco \in Nat
      OBVIOUS
<1>2. E4kZ(f, x) = z /\ E4kX(f, x) = y
      BY DEF E4kZ, E4kX
<1>. HIDE DEF vco
<1>3. z \in Nat /\ r \in Nat /\ r < x /\ vco = x * z + r
      BY <1>1, DivMod
<1>. HIDE DEF z, r
<1>4. Divided(r, x, Pow2[16], y)
      BY <1>3, ShiftedDivides
<1>5. n \in Nat /\ R \in Nat /\ n < 65536 /\ R < x /\ x * n + R = 65536 * r
      BY <1>4, Pow2Is DEF Divided
<1>. HIDE DEF y, n, R
<1>6. vco - z * x = r
  <2>1. z * x = x * z /\ x * z \in Nat
        BY <1>3
  <2>. DEFINE A == x * z
  <2>2. A \in Nat /\ vco = A + r /\ z * x = A
        BY <1>3, <2>1
  <2>. HIDE DEF A
  <2>. QED
       BY <1>3, <2>2
<1>7. 65536 * r - x * n = R
  <2>. DEFINE A == x * n
  <2>1. A \in Nat /\ A + R = 65536 * r
        BY <1>5
  <2>. HIDE DEF A
  <2>2. 65536 * r - A = R
        BY <1>3, <1>5, <2>1
  <2>. QED
       BY <2>2 DEF A
<1>8. r \in 0..(x - 1) /\ R \in 0..(x - 1)
      BY <1>3, <1>5
<1>9. E4kQuotientFits(vco, x, z, n)
      BY <1>6, <1>7, <1>8 DEF E4kQuotientFits
<1>. QED
     BY <1>2, <1>3, <1>5, <1>9 DEF vco, n

BandLimits(f, b) ==
    /\ b = 0 => f <= 140000
    /\ b = 1 => f >= 140000 /\ f <= 350000
    /\ b = 2 => f >= 350000 /\ f <= 1135000
    /\ b = 3 => f >= 1135000 /\ f <= 4294967

LEMMA E4kBandIs ==
    ASSUME NEW f \in Nat, f < FcLimit, NEW x
    PROVE  E4kBand(f, x) \in 0..3 /\ BandLimits(f, E4kBand(f, x))
<1>1. /\ Below(f, x, 140000) => f <= 140000
      /\ ~Below(f, x, 140000) => f >= 140000
      /\ Below(f, x, 350000) => f <= 350000
      /\ ~Below(f, x, 350000) => f >= 350000
      /\ Below(f, x, 1135000) => f <= 1135000
      /\ ~Below(f, x, 1135000) => f >= 1135000
      BY SMT DEF Below
<1>2. f <= 4294967
      BY SMT DEF FcLimit
<1>. DEFINE B1 == Below(f, x, 140000)
            B2 == Below(f, x, 350000)
            B3 == Below(f, x, 1135000)
            b == E4kBand(f, x)
<1>3. b = CASE B1 -> 0 [] ~B1 /\ B2 -> 1 [] ~B2 /\ B3 -> 2 [] OTHER -> 3
      BY DEF E4kBand
<1>4. (B1 => B2) /\ (B2 => B3)
      BY SMT DEF Below
<1>. HIDE DEF b, B1, B2, B3
<1>5. (B1 => b = 0) /\ (~B1 /\ B2 => b = 1) /\ (~B2 /\ B3 => b = 2) /\ (~B3 => b = 3)
      BY <1>3, <1>4
<1>6. /\ B1 => f <= 140000
      /\ ~B1 => f >= 140000
      /\ B2 => f <= 350000
      /\ ~B2 => f >= 350000
      /\ B3 => f <= 1135000
      /\ ~B3 => f >= 1135000
      BY <1>1, SMT DEF B1, B2, B3
<1>7. ASSUME B1 PROVE b \in 0..3 /\ BandLimits(f, b)
  <2>1. b = 0 /\ f <= 140000
        BY <1>5, <1>6, <1>7, SMT
  <2>. QED
       BY <2>1, SMT DEF BandLimits
<1>8. ASSUME ~B1 /\ B2 PROVE b \in 0..3 /\ BandLimits(f, b)
  <2>1. b = 1 /\ f >= 140000 /\ f <= 350000
        BY <1>5, <1>6, <1>8, SMT
  <2>. QED
       BY <2>1, SMT DEF BandLimits
<1>9. ASSUME ~B2 /\ B3 PROVE b \in 0..3 /\ BandLimits(f, b)
  <2>1. b = 2 /\ f >= 350000 /\ f <= 1135000
        BY <1>5, <1>6, <1>9, SMT
  <2>. QED
       BY <2>1, SMT DEF BandLimits
<1>10. ASSUME ~B3 PROVE b \in 0..3 /\ BandLimits(f, b)
  <2>1. b = 3 /\ f >= 1135000 /\ f <= 4294967
        BY <1>2, <1>5, <1>6, <1>10, SMT
  <2>. QED
       BY <2>1, SMT DEF BandLimits
<1>11. b \in 0..3 /\ BandLimits(f, b)
       BY <1>4, <1>7, <1>8, <1>9, <1>10, Zenon
<1>. QED
     BY <1>11, Zenon DEF b

\* What E4kTuned says, of the frequency f with the crystal x, and the VCO's quotient z and fraction n
E4kFieldsFit(s, f, b) ==
    /\ ByteValue(s.chip[SYNTH1] \cap 1..2) \div 2^1 = b
    /\ (ByteValue(s.chip[BIAS]) = 0) = (b = 3)
    /\ LET centers == IF b = 2 THEN RF_FILT_CENTER_UHF ELSE RF_FILT_CENTER_L
       IN  b >= 2 => \A i \in DOMAIN centers :
                         AbsDiff(centers[(ByteValue(s.chip[FILT1] \cap 0..3) \div 2^0) + 1], f)
                            <= AbsDiff(centers[i], f)

LEMMA LowNibble ==
    ASSUME NEW s, NEW r, NEW v \in Nat, v <= 15, Holds(s, W(r, v, \h0f))
    PROVE  ByteValue(s.chip[r] \cap 0..3) \div 2^0 = v
<1>1. s.chip[r] \cap 0..3 = Byte(v) \cap 0..3
      BY WShown, Masks
<1>2. ByteValue(s.chip[r] \cap 0..3) = PartSum(v, 0..3)
      BY <1>1, PartSpells
<1>3. v <= 255 /\ v % 16 = v /\ v \div 1 = v
      OBVIOUS
<1>4. PartSum(v, 0..3) = v % 16
      BY <1>3, LowField
<1>. QED
     BY <1>2, <1>3, <1>4, Shifts

LEMMA E4kFields ==
    ASSUME NEW s \in Driver, s.model = "E4000", NEW f \in Nat, f < FcLimit, NEW x, E4kProgrammed(s, f, x)
    PROVE  E4kFieldsFit(s, f, E4kBand(f, x))
<1>. DEFINE b == E4kBand(f, x)
<1>1. b \in 0..3
      BY E4kBandIs
<1>2. /\ Holds(s, Put(BIAS, IF b = 3 THEN 0 ELSE 3)) /\ Holds(s, W(SYNTH1, 2 * b, 6))
      /\ Holds(s, W(FILT1, RfFilter(f, b), \h0f))
      BY E4kShown
<1>3. BIAS \in RegsOf(s.model)
      BY E4kModel
<1>. HIDE DEF b
<1>4. ByteValue(s.chip[SYNTH1] \cap 1..2) \div 2^1 = b
  <2>. DEFINE v == 2 * b
  <2>1. v \in Nat /\ v <= 255 /\ (2 * ((v \div 2) % 4)) \div 2 = b
        BY <1>1
  <2>2. s.chip[SYNTH1] \cap 1..2 = Byte(v) \cap 1..2
        BY <1>2, WShown, Masks
  <2>. HIDE DEF v
  <2>3. ByteValue(s.chip[SYNTH1] \cap 1..2) = PartSum(v, 1..2)
        BY <2>1, <2>2, PartSpells
  <2>4. PartSum(v, 1..2) = 2 * ((v \div 2) % 4)
        BY <2>1, LowField
  <2>. QED
       BY <2>1, <2>3, <2>4, Shifts
<1>5. (ByteValue(s.chip[BIAS]) = 0) = (b = 3)
  <2>. DEFINE v == IF b = 3 THEN 0 ELSE 3
  <2>1. v \in Nat /\ v <= 255 /\ (v = 0) = (b = 3)
        BY <1>1
  <2>2. Holds(s, Put(BIAS, v))
        BY <1>2
  <2>. HIDE DEF v
  <2>. QED
       BY <1>3, <2>1, <2>2, PutShown
<1>6. ASSUME NEW table, DOMAIN table = 1..16, \A i \in 1..16 : table[i] \in Int, RfFilter(f, b) = Closest(table, f)
      PROVE  \A i \in DOMAIN table :
                 AbsDiff(table[(ByteValue(s.chip[FILT1] \cap 0..3) \div 2^0) + 1], f) <= AbsDiff(table[i], f)
  <2>. DEFINE c == Closest(table, f)
  <2>1. f \in Int /\ 16 \in Nat /\ 16 >= 1 /\ DOMAIN table = 1..16 /\ \A i \in 1..16 : table[i] \in Int
        BY <1>6
  <2>2. c + 1 \in 1..16 /\ c \in Nat /\ \A i \in 1..16 : AbsDiff(table[c + 1], f) <= AbsDiff(table[i], f)
        BY <2>1, Nearest
  <2>3. Holds(s, W(FILT1, c, \h0f))
        BY <1>2, <1>6
  <2>. HIDE DEF c
  <2>4. c <= 15
        BY <2>2
  <2>5. ByteValue(s.chip[FILT1] \cap 0..3) \div 2^0 = c
        BY <2>2, <2>3, <2>4, LowNibble
  <2>. QED
       BY <1>6, <2>2, <2>5
<1>7. CASE b = 2
  <2>1. RfFilter(f, b) = Closest(RF_FILT_CENTER_UHF, f)
        BY <1>7 DEF RfFilter
  <2>2. \A i \in DOMAIN RF_FILT_CENTER_UHF :
           AbsDiff(RF_FILT_CENTER_UHF[(ByteValue(s.chip[FILT1] \cap 0..3) \div 2^0) + 1], f)
             <= AbsDiff(RF_FILT_CENTER_UHF[i], f)
        BY <1>6, <2>1, FilterCenters
  <2>. QED
       BY <1>4, <1>5, <1>7, <2>2 DEF E4kFieldsFit, b
<1>8. CASE b = 3
  <2>1. RfFilter(f, b) = Closest(RF_FILT_CENTER_L, f)
        BY <1>8 DEF RfFilter
  <2>2. \A i \in DOMAIN RF_FILT_CENTER_L :
           AbsDiff(RF_FILT_CENTER_L[(ByteValue(s.chip[FILT1] \cap 0..3) \div 2^0) + 1], f)
             <= AbsDiff(RF_FILT_CENTER_L[i], f)
        BY <1>6, <2>1, FilterCenters
  <2>. QED
       BY <1>4, <1>5, <1>8, <2>2 DEF E4kFieldsFit, b
<1>9. CASE b \in 0..1
  <2>1. ~(b >= 2)
        BY <1>9
  <2>. QED
       BY <1>4, <1>5, <2>1 DEF E4kFieldsFit, b
<1>. QED
     BY <1>1, <1>7, <1>8, <1>9

LEMMA E4kRegisters ==
    ASSUME NEW s \in Driver, s.model = "E4000", NEW f \in Nat, NEW x \in Nat, x > 0, E4kProgrammed(s, f, x)
    PROVE  /\ ByteValue(s.chip[SYNTH7]) = PllVar(f)[2]
           /\ E4kQuotientFits(f * PllVar(f)[3], x, ByteValue(s.chip[SYNTH3]),
                              256 * ByteValue(s.chip[SYNTH5]) + ByteValue(s.chip[SYNTH4]))
<1>. DEFINE z == E4kZ(f, x)
            n == E4kX(f, x)[1]
            m == PllVar(f)[3]
            v == PllVar(f)[2]
<1>1. v \in Nat /\ v <= 255 /\ m \in Nat
      BY PllVarIs
<1>2. z \in Nat /\ n \in Nat /\ n < 65536 /\ E4kQuotientFits(f * m, x, z, n)
      BY <1>1, E4kQuotient
<1>3. /\ E4kPllValid(f, x) /\ Holds(s, Put(SYNTH7, v)) /\ Holds(s, Put(SYNTH3, z))
      /\ Holds(s, Put(SYNTH4, n % 256)) /\ Holds(s, Put(SYNTH5, n \div 256))
      BY E4kShown
<1>4. z <= 255
      BY <1>3, SMT DEF E4kPllValid
<1>5. SYNTH7 \in RegsOf(s.model) /\ SYNTH3 \in RegsOf(s.model) /\ SYNTH4 \in RegsOf(s.model) /\ SYNTH5 \in RegsOf(s.model)
      BY E4kModel
<1>. HIDE DEF z, n, m, v
<1>6. n % 256 \in Nat /\ n % 256 <= 255 /\ n \div 256 \in Nat /\ n \div 256 <= 255 /\ 256 * (n \div 256) + (n % 256) = n
      BY <1>2
<1>7. ByteValue(s.chip[SYNTH7]) = v /\ ByteValue(s.chip[SYNTH3]) = z
      BY <1>1, <1>2, <1>3, <1>4, <1>5, PutShown
<1>8. ByteValue(s.chip[SYNTH4]) = n % 256 /\ ByteValue(s.chip[SYNTH5]) = n \div 256
      BY <1>3, <1>5, <1>6, PutShown
<1>9. 256 * ByteValue(s.chip[SYNTH5]) + ByteValue(s.chip[SYNTH4]) = n
      BY <1>6, <1>8
<1>. QED
     BY <1>2, <1>7, <1>9 DEF v, m

LEMMA E4kIsTuned == ASSUME IInv, drv.model = "E4000", NEW p \in asked.freq PROVE E4kTuned(p[1], p[2])
<1>. DEFINE f == p[1]
            x == p[2]
            b == E4kBand(f, x)
            v == PllVar(f)
<1>1. drv \in Driver /\ f \in Freqs[drv.model] /\ x \in Xtals[drv.model] /\ E4kProgrammed(drv, f, x)
      BY DEF IInv, DriverOK, AskedOK, FreqOK, FreqShown
<1>2. f \in Nat /\ f < FcLimit /\ x \in Nat /\ x > 0
      BY <1>1, InputTypes
<1>. HIDE DEF f, x
<1>3. b \in 0..3 /\ BandLimits(f, b)
      BY <1>2, E4kBandIs
<1>4. E4kFieldsFit(drv, f, b)
      BY <1>1, <1>2, E4kFields
<1>5. /\ ByteValue(drv.chip[SYNTH7]) = v[2]
      /\ E4kQuotientFits(f * v[3], x, ByteValue(drv.chip[SYNTH3]),
                         256 * ByteValue(drv.chip[SYNTH5]) + ByteValue(drv.chip[SYNTH4]))
      BY <1>1, <1>2, E4kRegisters
<1>6. v \in Range(PLL_VARS) \cup {<<0, 0, 2>>}
      BY <1>2, PllVarIs
<1>. HIDE DEF v, b
<1>. DEFINE bands == <<<<0, 140000>>, <<140000, 350000>>, <<350000, 1135000>>, <<1135000, 4294967>>>>
<1>7. f \in bands[b + 1][1]..bands[b + 1][2]
  <2>1. f \in Int /\ (b = 0 \/ b = 1 \/ b = 2 \/ b = 3)
        BY <1>2, <1>3
  <2>2. b = 0 => bands[b + 1][1] = 0 /\ bands[b + 1][2] = 140000
        BY SMT
  <2>3. b = 1 => bands[b + 1][1] = 140000 /\ bands[b + 1][2] = 350000
        BY SMT
  <2>4. b = 2 => bands[b + 1][1] = 350000 /\ bands[b + 1][2] = 1135000
        BY SMT
  <2>5. b = 3 => bands[b + 1][1] = 1135000 /\ bands[b + 1][2] = 4294967
        BY SMT
  <2>. DEFINE lo == bands[b + 1][1]
              hi == bands[b + 1][2]
  <2>6. /\ b = 0 => lo = 0 /\ hi = 140000
        /\ b = 1 => lo = 140000 /\ hi = 350000
        /\ b = 2 => lo = 350000 /\ hi = 1135000
        /\ b = 3 => lo = 1135000 /\ hi = 4294967
        BY <2>2, <2>3, <2>4, <2>5, SMT
  <2>. HIDE DEF lo, hi, bands
  <2>8. lo \in Int /\ hi \in Int /\ lo <= f /\ f <= hi
        BY <1>2, <1>3, <2>1, <2>6, SMT DEF BandLimits
  <2>7. f \in lo..hi
        BY <2>1, <2>8, SMT
  <2>. QED
       BY <2>7, Zenon DEF lo, hi
<1>. DEFINE centers == IF b = 2 THEN RF_FILT_CENTER_UHF ELSE RF_FILT_CENTER_L
            k == ByteValue(drv.chip[FILT1] \cap 0..3) \div 2^0
<1>8. /\ Field(SYNTH1, 1, 2) = b /\ (Reg(BIAS) = 0) = (b = 3)
      /\ b >= 2 => \A i \in DOMAIN centers : AbsDiff(centers[Field(FILT1, 0, 3) + 1], f) <= AbsDiff(centers[i], f)
  <2>1. ByteValue(drv.chip[SYNTH1] \cap 1..2) \div 2^1 = b /\ (ByteValue(drv.chip[BIAS]) = 0) = (b = 3)
        BY <1>4, Zenon DEF E4kFieldsFit
  <2>2. b >= 2 => \A i \in DOMAIN centers : AbsDiff(centers[k + 1], f) <= AbsDiff(centers[i], f)
        BY <1>4, Zenon DEF E4kFieldsFit
  <2>3. Field(FILT1, 0, 3) = k
        BY Zenon DEF Field
  <2>. HIDE DEF centers, k
  <2>4. b >= 2 => \A i \in DOMAIN centers : AbsDiff(centers[Field(FILT1, 0, 3) + 1], f) <= AbsDiff(centers[i], f)
        BY <2>2, <2>3, Zenon
  <2>5. Field(SYNTH1, 1, 2) = b /\ (Reg(BIAS) = 0) = (b = 3)
        BY <2>1, Zenon DEF Field, Reg
  <2>. QED
       BY <2>4, <2>5
<1>9. /\ Reg(SYNTH7) = v[2] /\ f * v[3] - Reg(SYNTH3) * x \in 0..(x - 1)
      /\ 65536 * (f * v[3] - Reg(SYNTH3) * x) - x * (256 * Reg(SYNTH5) + Reg(SYNTH4)) \in 0..(x - 1)
      BY <1>5, SMT DEF Reg, E4kQuotientFits
<1>. HIDE DEF bands, centers, k
<1>10. E4kTuned(f, x)
       BY <1>6, <1>7, <1>8, <1>9, SMT DEF E4kTuned, bands, centers
<1>. QED
     BY <1>10, Zenon DEF f, x
---------------------------------------------------------------------------
(* The arithmetic of the FC2580's PLL                                      *)
KLimit == 1048576

LEMMA CrystalSmall ==
    ASSUME NEW s \in Driver, s.model = "FC2580", NEW x \in Xtals[s.model]
    PROVE  x \in Nat /\ x > 0 /\ x < KLimit
<1>1. x \in CoeffKHz
      BY DriverType, TraitAssumption
<1>. QED
     BY <1>1, SMT DEF CoeffKHz, KLimit

LEMMA VcoIs ==
    ASSUME NEW f \in Nat, NEW x \in Nat, x > 0
    PROVE  Vco(f) \in Nat /\ RDiv(f, x) \in {1, 2, 4} /\ FComp(f, x) \in Nat /\ FComp(f, x) <= x
<1>1. VcoMult(BandOf(f)) \in {2, 4, 12}
  <2>. DEFINE band == BandOf(f)
  <2>. HIDE DEF band
  <2>. QED
       BY DEF VcoMult, band
<1>2. Vco(f) \in Nat
      BY <1>1 DEF Vco
<1>3. RDiv(f, x) \in {1, 2, 4}
  <2>. DEFINE V == Vco(f)
              B1 == V >= 152 * x
              B2 == V >= 76 * x /\ V < 152 * x
  <2>1. RDiv(f, x) = CASE B1 -> 1 [] B2 -> 2 [] OTHER -> 4
        BY DEF RDiv
  <2>2. ~(B1 /\ B2)
        BY <1>2
  <2>. HIDE DEF B1, B2
  <2>. QED
       BY <2>1, <2>2
<1>4. FComp(f, x) = x \div RDiv(f, x)
      BY DEF FComp
<1>5. x \div 1 \in Nat /\ x \div 2 \in Nat /\ x \div 4 \in Nat /\ x \div 1 <= x /\ x \div 2 <= x /\ x \div 4 <= x
      OBVIOUS
<1>. QED
     BY <1>2, <1>3, <1>4, <1>5

\* N with the rest of V, and K with the rest of that: d is twice the comparison frequency fc
QuotientOf(V, fc, n, rem) ==
    n \in Nat /\ rem \in Nat /\ rem < 2 * fc /\ V - 2 * fc * n = rem
FractionOf(rem, fc, k) ==
    /\ k \in Nat /\ k < 1048576
    /\ 1048576 * rem - 2 * fc * k \in -fc..fc

LEMMA NDivides ==
    ASSUME NEW V \in Nat, NEW fc \in Nat, fc > 0, NEW n, n = (V \div 2) \div fc
    PROVE  QuotientOf(V, fc, n, V - 2 * fc * n)
<1>. DEFINE h == V \div 2
            g == h % fc
<1>1. h \in Nat /\ V - 2 * h \in {0, 1}
      OBVIOUS
<1>. HIDE DEF h
<1>2. n = h \div fc
      BY DEF h
<1>3. n \in Nat /\ g \in Nat /\ g < fc /\ h = fc * n + g
      BY <1>1, <1>2, DivMod
<1>. HIDE DEF g
<1>4. 2 * fc * n = 2 * (fc * n) /\ fc * n \in Nat
      BY <1>3
<1>. DEFINE A == fc * n
            B == 2 * fc * n
<1>5. A \in Nat /\ B = 2 * A /\ h = A + g
      BY <1>3, <1>4
<1>. HIDE DEF A, B
<1>6. V - B \in Nat /\ V - B < 2 * fc
      BY <1>1, <1>3, <1>5
<1>. QED
     BY <1>3, <1>6 DEF QuotientOf, B

LEMMA KRounds ==
    ASSUME NEW fc \in Nat, fc > 0, fc < KLimit, NEW rem \in Nat, rem < 2 * fc,
           NEW y, y = Shifted(rem, 2 * fc, 20), NEW k, k = IF y[2] >= fc THEN y[1] + 1 ELSE y[1]
    PROVE  FractionOf(rem, fc, k)
<1>. DEFINE d == 2 * fc
            q == y[1]
            R == y[2]
            P == 1048576
<1>1. d \in Nat /\ rem < d
      OBVIOUS
<1>2. y = Shifted(rem, d, 20)
      OBVIOUS
<1>. HIDE DEF d
<1>3. Divided(rem, d, Pow2[20], y)
      BY <1>1, <1>2, ShiftedDivides
<1>4. q \in Nat /\ R \in Nat /\ q < P /\ R < d /\ d * q + R = P * rem
      BY <1>3, Pow2Is, SMT DEF Divided
<1>5. k = IF R >= fc THEN q + 1 ELSE q
      OBVIOUS
<1>6. d = 2 * fc
      BY DEF d
<1>. HIDE DEF q, R
<1>7. R >= fc => q < P - 1
  <2>1. SUFFICES ASSUME R >= fc, q >= P - 1 PROVE FALSE
        BY <1>4, SMT
  <2>0. fc < P
        BY SMT DEF KLimit
  <2>2. q = P - 1
        BY <1>4, <2>1, SMT
  <2>3. d * (P - 1) + R = P * rem
        BY <1>4, <2>2
  <2>4. P * d - d + R = P * rem
        BY <1>1, <2>3, <1>4, SMT
  <2>5. P * (d - rem) = d - R
        BY <1>1, <1>4, <2>4, SMT
  <2>6. d - rem >= 1 /\ d - R <= fc
        BY <1>1, <1>4, <1>6, <2>1, SMT
  <2>. QED
       BY <1>1, <1>4, <2>0, <2>5, <2>6, SMT
<1>8. k \in Nat /\ k < P
      BY <1>4, <1>5, <1>7, SMT
<1>9. d * k = d * q + (IF R >= fc THEN d ELSE 0)
  <2>1. d * (q + 1) = d * q + d
        BY <1>1, <1>4
  <2>. QED
       BY <1>1, <1>4, <1>5, <2>1
<1>10. P * rem - d * k \in -fc..fc
  <2>. DEFINE A == d * q
              B == d * k
              C == P * rem
  <2>1. A \in Nat /\ B = A + (IF R >= fc THEN d ELSE 0) /\ A + R = C /\ C \in Nat
        BY <1>1, <1>4, <1>9, SMT
  <2>. HIDE DEF A, B, C
  <2>2. C - B = IF R >= fc THEN R - d ELSE R
        BY <1>1, <1>4, <2>1
  <2>3. C - B \in -fc..fc
        BY <1>4, <1>6, <2>2
  <2>. QED
       BY <2>3 DEF B, C
<1>. QED
     BY <1>8, <1>10 DEF FractionOf, d

\* What Fc2580Tuned says of the rest of the VCO and the coarse and fine parts of K
CoarseFits(rem, fc, c, l) ==
    /\ 1024 * rem - 2 * fc * c \in -fc..(2 * fc)
    /\ 1024 * (1024 * rem - 2 * fc * c) - 2 * fc * l \in -fc..fc

LEMMA CoarseAndFine ==
    ASSUME NEW fc \in Nat, fc > 0, NEW rem \in Nat, NEW k, FractionOf(rem, fc, k)
    PROVE  CoarseFits(rem, fc, k \div 1024, k % 1024)
<1>. DEFINE c == k \div 1024
            l == k % 1024
            d == 2 * fc
<1>1. k \in Nat /\ 1048576 * rem - d * k \in -fc..fc
      BY DEF FractionOf
<1>2. c \in Nat /\ l \in Nat /\ l < 1024 /\ k = 1024 * c + l
      BY <1>1
<1>3. d \in Nat /\ d = 2 * fc
      OBVIOUS
<1>. HIDE DEF c, l, d
<1>4. d * k = 1024 * (d * c) + d * l
      BY <1>2, <1>3
<1>5. 0 <= d * l /\ d * l <= d * 1023
      BY <1>2, <1>3
<1>. DEFINE A == d * c
            B == d * l
            C == d * k
            M == 1024 * rem
<1>6. /\ A \in Nat /\ B \in Nat /\ C \in Nat /\ M \in Nat /\ C = 1024 * A + B /\ B <= 1023 * d
      /\ 1024 * M - C \in -fc..fc
      BY <1>1, <1>2, <1>3, <1>4, <1>5
<1>. HIDE DEF A, B, C
<1>7. 1024 * (M - A) - B \in -fc..fc
      BY <1>6
<1>8. M - A \in -fc..(2 * fc)
      BY <1>3, <1>6, <1>7
<1>. QED
     BY <1>7, <1>8 DEF CoarseFits, A, B, d, c, l
---------------------------------------------------------------------------
(* A programmed FC2580 is tuned.                                           *)
LEMMA Fc2580Shown ==
    ASSUME NEW s, NEW f, NEW x, Fc2580Programmed(s, f, x)
    PROVE  /\ x # 0 /\ FComp(f, x) # 0 /\ ~(NVal(f, x) > 255)
           /\ Holds(s, Put(\h02, Data02(f))) /\ Holds(s, Put(\h18, RBits(RDiv(f, x)) + KVal(f, x) \div 65536))
           /\ Holds(s, Put(\h1a, (KVal(f, x) \div 256) % 256)) /\ Holds(s, Put(\h1b, KVal(f, x) % 256))
           /\ Holds(s, Put(\h1c, NVal(f, x)))
           /\ \A i \in DOMAIN BandRegs(BandOf(f)) : Holds(s, Put(BandRegs(BandOf(f))[i], BandBytes(f)[i]))
<1>. DEFINE k == KVal(f, x)
            n2 == RBits(RDiv(f, x)) + k \div 65536
            n3 == (k \div 256) % 256
            n4 == k % 256
<1>1. /\ PllMarks2580(f, x) = {Put(\h02, Data02(f)), Put(\h18, n2), Put(\h1a, n3), Put(\h1b, n4)}
      /\ NMarks(f, x) = {Put(\h1c, NVal(f, x))}
      BY SMT DEF PllMarks2580, NMarks
<1>. HIDE DEF n2, n3, n4
<1>2. x # 0 /\ FComp(f, x) # 0 /\ ~(NVal(f, x) > 255)
      BY DEF Fc2580Programmed
<1>3. InChip(s, BandMarks(f)) /\ InChip(s, PllMarks2580(f, x)) /\ InChip(s, NMarks(f, x))
      BY DEF Fc2580Programmed
<1>4. /\ Holds(s, Put(\h02, Data02(f))) /\ Holds(s, Put(\h18, n2)) /\ Holds(s, Put(\h1a, n3))
      /\ Holds(s, Put(\h1b, n4)) /\ Holds(s, Put(\h1c, NVal(f, x)))
      BY <1>1, <1>3 DEF InChip
<1>5. \A i \in DOMAIN BandRegs(BandOf(f)) : Holds(s, Put(BandRegs(BandOf(f))[i], BandBytes(f)[i]))
      BY <1>3 DEF InChip, BandMarks
<1>. QED
     BY <1>2, <1>4, <1>5, SMT DEF n2, n3, n4

Fc2580BandFits(s, f) ==
    /\ ByteValue(s.chip[2] \cap 6..7) \div 2^6 = CASE f > 1000000 -> 1 [] f <= 400000 -> 2 [] OTHER -> 0
    /\ (3 \in s.chip[2]) = (Vco(f) >= 2600000)
    /\ \A i \in DOMAIN BandBytes(f) : ByteValue(s.chip[BandRegs(BandOf(f))[i]]) = BandBytes(f)[i]

LEMMA BandBitsOf ==
    ASSUME NEW f \in Nat
    PROVE  BandBits(BandOf(f)) = 64 * (CASE f > 1000000 -> 1 [] f <= 400000 -> 2 [] OTHER -> 0)
<1>1. /\ f > 1000000 => BandOf(f) = "L"
      /\ f <= 400000 => BandOf(f) = "VHF"
      /\ ~(f > 1000000) /\ ~(f <= 400000) => BandOf(f) = "UHF"
      BY SMT DEF BandOf
<1>2. BandBits("L") = 64 /\ BandBits("VHF") = 128 /\ BandBits("UHF") = 0
      BY DEF BandBits
<1>. DEFINE hi == f > 1000000
            lo == f <= 400000
<1>3. ~(hi /\ lo)
      BY SMT
<1>4. /\ hi => BandBits(BandOf(f)) = 64
      /\ lo => BandBits(BandOf(f)) = 128
      /\ ~hi /\ ~lo => BandBits(BandOf(f)) = 0
      BY <1>1, <1>2
<1>. HIDE DEF hi, lo
<1>5. BandBits(BandOf(f)) = 64 * (CASE hi -> 1 [] lo -> 2 [] OTHER -> 0)
  <2>1. CASE hi
    <3>1. (CASE hi -> 1 [] lo -> 2 [] OTHER -> 0) = 1
          BY <1>3, <2>1
    <3>. QED
         BY <1>4, <2>1, <3>1
  <2>2. CASE lo
    <3>1. (CASE hi -> 1 [] lo -> 2 [] OTHER -> 0) = 2
          BY <1>3, <2>2
    <3>. QED
         BY <1>4, <2>2, <3>1
  <2>3. CASE ~hi /\ ~lo
    <3>1. (CASE hi -> 1 [] lo -> 2 [] OTHER -> 0) = 0
          BY <2>3
    <3>. QED
         BY <1>4, <2>3, <3>1
  <2>. QED
       BY <2>1, <2>2, <2>3
<1>. QED
     BY <1>5 DEF hi, lo

LEMMA Fc2580Band ==
    ASSUME NEW s \in Driver, s.model = "FC2580", NEW f \in Nat, NEW x, Fc2580Programmed(s, f, x)
    PROVE  Fc2580BandFits(s, f)
<1>. DEFINE c == CASE f > 1000000 -> 1 [] f <= 400000 -> 2 [] OTHER -> 0
            high == Vco(f) >= 2600000
            v == Data02(f)
<1>1. c \in 0..2
  <2>. DEFINE hi == f > 1000000
              lo == f <= 400000
  <2>1. ~(hi /\ lo)
        BY SMT
  <2>2. c = CASE hi -> 1 [] lo -> 2 [] OTHER -> 0
        BY SMT
  <2>. HIDE DEF hi, lo, c
  <2>3. CASE hi
        BY <2>1, <2>2, <2>3
  <2>4. CASE lo
        BY <2>1, <2>2, <2>4
  <2>5. CASE ~hi /\ ~lo
        BY <2>2, <2>5
  <2>. QED
       BY <2>3, <2>4, <2>5
<1>2. BandBits(BandOf(f)) = 64 * c
      BY BandBitsOf
<1>3. high \in BOOLEAN /\ v = 6 + (IF high THEN 8 ELSE 0) + BandBits(BandOf(f))
      BY SMT DEF Data02, BORDER_FREQ
<1>4. /\ Holds(s, Put(2, v))
      /\ \A i \in DOMAIN BandRegs(BandOf(f)) : Holds(s, Put(BandRegs(BandOf(f))[i], BandBytes(f)[i]))
      BY Fc2580Shown
<1>5. 2 \in RegsOf(s.model)
      BY Fc2580Model
<1>. HIDE DEF c, high, v
<1>6. v \in Nat /\ v <= 255 /\ v \div 64 = c /\ ((v \div 8) % 2 = 1) = high
      BY <1>1, <1>2, <1>3
<1>7. s.chip[2] = Byte(v)
      BY <1>4, <1>5, PutShown
<1>8. ByteValue(s.chip[2] \cap 6..7) \div 2^6 = c
  <2>1. ByteValue(s.chip[2] \cap 6..7) = PartSum(v, 6..7)
        BY <1>6, <1>7, PartSpells
  <2>2. PartSum(v, 6..7) = 64 * (v \div 64)
        BY <1>6, LowField
  <2>3. (64 * c) \div 64 = c
        BY <1>1
  <2>. QED
       BY <1>6, <2>1, <2>2, <2>3, Shifts
<1>9. (3 \in s.chip[2]) = high
  <2>1. 3 \in Byte(v) <=> (v \div 8) % 2 = 1
        BY <1>6, ByteBits
  <2>. QED
       BY <1>3, <1>6, <1>7, <2>1
<1>10. ASSUME NEW i \in DOMAIN BandBytes(f)
       PROVE  ByteValue(s.chip[BandRegs(BandOf(f))[i]]) = BandBytes(f)[i]
  <2>. DEFINE r == BandRegs(BandOf(f))[i]
              n == BandBytes(f)[i]
  <2>1. i \in DOMAIN BandRegs(BandOf(f)) /\ n \in ByteNumber
        BY <1>10, BandBytesAre
  <2>2. r \in RegsOf(s.model)
        BY <2>1, BandIs, Fc2580Model
  <2>3. Holds(s, Put(r, n))
        BY <1>4, <2>1
  <2>. HIDE DEF r, n
  <2>4. n \in Nat /\ n <= 255
        BY <2>1 DEF ByteNumber
  <2>5. ByteValue(s.chip[r]) = n
        BY <2>2, <2>3, <2>4, PutShown
  <2>. QED
       BY <2>5 DEF r, n
<1>. QED
     BY <1>8, <1>9, <1>10, SMT DEF Fc2580BandFits, c, high

Fc2580PllFits(s, f, x) ==
    LET fc == FComp(f, x)
        kt == ByteValue(s.chip[\h18] \cap 0..3) \div 2^0
        kl == ByteValue(s.chip[\h1a] \cap 0..1) \div 2^0
        rem == Vco(f) - 2 * fc * ByteValue(s.chip[\h1c])
    IN  /\ ByteValue(s.chip[\h18] \cap 4..5) \div 2^4 = RDiv(f, x) \div 2
        /\ rem \in 0..(2 * fc)
        /\ CoarseFits(rem, fc, 64 * kt + ByteValue(s.chip[\h1a]) \div 4, 256 * kl + ByteValue(s.chip[\h1b]))

\* The parts of K as the PLL's registers have them
LEMMA KParts ==
    ASSUME NEW k \in Nat, k < KLimit
    PROVE  /\ k \div 65536 \in 0..15 /\ (k \div 256) % 256 \in 0..255 /\ k % 256 \in 0..255
           /\ 64 * (k \div 65536) + ((k \div 256) % 256) \div 4 = k \div 1024
           /\ 256 * (((k \div 256) % 256) % 4) + (k % 256) = k % 1024
<1>1. /\ k \div 65536 \in 0..15 /\ (k \div 256) % 256 \in 0..255 /\ k % 256 \in 0..255
      BY SMT DEF KLimit
<1>2. k = 65536 * (k \div 65536) + 256 * ((k \div 256) % 256) + (k % 256)
      BY SMT
<1>. DEFINE kt == k \div 65536
            km == (k \div 256) % 256
            kb == k % 256
<1>3. kt \in Nat /\ km \in 0..255 /\ kb \in 0..255 /\ k = 65536 * kt + 256 * km + kb
      BY <1>1, <1>2, SMT
<1>. HIDE DEF kt, km, kb
<1>4. 64 * kt + km \div 4 = k \div 1024 /\ 256 * (km % 4) + kb = k % 1024
      BY <1>3, SMT
<1>. QED
     BY <1>1, <1>4, SMT DEF kt, km, kb

KBytesShown(s, rb, kt, km, kb) ==
    /\ ByteValue(s.chip[\h18] \cap 4..5) \div 2^4 = rb \div 16
    /\ 64 * (ByteValue(s.chip[\h18] \cap 0..3) \div 2^0) + ByteValue(s.chip[\h1a]) \div 4 = 64 * kt + km \div 4
    /\ 256 * (ByteValue(s.chip[\h1a] \cap 0..1) \div 2^0) + ByteValue(s.chip[\h1b]) = 256 * (km % 4) + kb

LEMMA Fc2580KBytes ==
    ASSUME NEW s \in Driver, s.model = "FC2580", NEW rb \in {0, 16, 32}, NEW kt \in 0..15,
           NEW km \in 0..255, NEW kb \in 0..255, NEW v \in 0..255, v = rb + kt,
           Holds(s, Put(\h18, v)), Holds(s, Put(\h1a, km)), Holds(s, Put(\h1b, kb))
    PROVE  KBytesShown(s, rb, kt, km, kb)
<1>1. /\ km \in Nat /\ km <= 255 /\ kb \in Nat /\ kb <= 255 /\ v \in Nat /\ v <= 255
      OBVIOUS
<1>2. \h18 \in RegsOf(s.model) /\ \h1a \in RegsOf(s.model) /\ \h1b \in RegsOf(s.model)
      BY Fc2580Model
<1>3. s.chip[\h18] = Byte(v) /\ s.chip[\h1a] = Byte(km)
      BY <1>2, PutShown
<1>4. ByteValue(s.chip[\h1a]) = km /\ ByteValue(s.chip[\h1b]) = kb
      BY <1>1, <1>2, PutShown
<1>5. /\ ByteValue(s.chip[\h18] \cap 4..5) = PartSum(v, 4..5) /\ ByteValue(s.chip[\h18] \cap 0..3) = PartSum(v, 0..3)
      /\ ByteValue(s.chip[\h1a] \cap 0..1) = PartSum(km, 0..1)
      BY <1>3, PartSpells
<1>6. PartSum(v, 4..5) = 16 * ((v \div 16) % 4) /\ PartSum(v, 0..3) = v % 16
      BY <1>1, LowField
<1>7. PartSum(km, 0..1) = km % 4
      BY <1>1, LowField
<1>8. (16 * ((v \div 16) % 4)) \div 16 = rb \div 16 /\ (v % 16) \div 1 = kt /\ (km % 4) \div 1 = km % 4
      OBVIOUS
<1>9. /\ ByteValue(s.chip[\h18] \cap 4..5) \div 2^4 = rb \div 16
      /\ ByteValue(s.chip[\h18] \cap 0..3) \div 2^0 = kt
      /\ ByteValue(s.chip[\h1a] \cap 0..1) \div 2^0 = km % 4
      BY <1>5, <1>6, <1>7, <1>8, Shifts
<1>. QED
     BY <1>4, <1>9 DEF KBytesShown

LEMMA Fc2580Pll ==
    ASSUME NEW s \in Driver, s.model = "FC2580", NEW f \in Nat, NEW x \in Nat, x > 0, x < KLimit,
           Fc2580Programmed(s, f, x)
    PROVE  Fc2580PllFits(s, f, x)
<1>. DEFINE V == Vco(f)
            r == RDiv(f, x)
            fc == FComp(f, x)
            n == NVal(f, x)
            k == KVal(f, x)
            rem == V - 2 * fc * n
            y == Shifted(rem, 2 * fc, 20)
<1>1. V \in Nat /\ r \in {1, 2, 4} /\ fc \in Nat /\ fc <= x
      BY VcoIs
<1>2. /\ fc # 0 /\ ~(n > 255)
      /\ Holds(s, Put(\h18, RBits(r) + k \div 65536)) /\ Holds(s, Put(\h1a, (k \div 256) % 256))
      /\ Holds(s, Put(\h1b, k % 256)) /\ Holds(s, Put(\h1c, n))
      BY Fc2580Shown
<1>3. n = (V \div 2) \div fc
      BY DEF NVal
<1>4. k = IF y[2] >= fc THEN y[1] + 1 ELSE y[1]
      BY DEF KVal
<1>. HIDE DEF V, r, fc, n, k
<1>5. fc > 0 /\ fc < KLimit
      BY <1>1, <1>2, SMT DEF KLimit
<1>6. QuotientOf(V, fc, n, rem)
      BY <1>1, <1>3, <1>5, NDivides
<1>. HIDE DEF rem
<1>7. n \in Nat /\ rem \in Nat /\ rem < 2 * fc /\ V - 2 * fc * n = rem
      BY <1>6 DEF QuotientOf
<1>8. FractionOf(rem, fc, k)
  <2>1. y = Shifted(rem, 2 * fc, 20)
        OBVIOUS
  <2>. HIDE DEF y
  <2>. QED
       BY <1>1, <1>4, <1>5, <1>7, <2>1, KRounds
<1>9. CoarseFits(rem, fc, k \div 1024, k % 1024)
      BY <1>1, <1>5, <1>7, <1>8, CoarseAndFine
<1>10. k \in Nat /\ k < KLimit
       BY <1>8, SMT DEF FractionOf, KLimit
<1>11. RBits(r) \in {0, 16, 32} /\ RBits(r) \div 16 = r \div 2
  <2>1. r = 1 \/ r = 2 \/ r = 4
        BY <1>1
  <2>2. RBits(1) = 0 /\ RBits(2) = 16 /\ RBits(4) = 32
        BY DEF RBits
  <2>. QED
       BY <2>1, <2>2
<1>. DEFINE rb == RBits(r)
            kt == k \div 65536
            km == (k \div 256) % 256
            kb == k % 256
            v == rb + kt
<1>12. /\ rb \in {0, 16, 32} /\ Holds(s, Put(\h18, v)) /\ Holds(s, Put(\h1a, km)) /\ Holds(s, Put(\h1b, kb))
       BY <1>2, <1>11
<1>17. kt \in 0..15 /\ km \in 0..255 /\ kb \in 0..255
       BY <1>10, KParts
<1>22. 64 * kt + km \div 4 = k \div 1024 /\ 256 * (km % 4) + kb = k % 1024
       BY <1>10, KParts
<1>18. v = rb + kt
       OBVIOUS
<1>23. rb \div 16 = r \div 2
       BY <1>11
<1>. HIDE DEF rb, kt, km, kb, v
<1>19. v \in 0..255
       BY <1>12, <1>17, <1>18, SMTT(30)
<1>13. KBytesShown(s, rb, kt, km, kb)
  <2>. HIDE DEF y
  <2>. QED
       BY <1>12, <1>17, <1>18, <1>19, Fc2580KBytes, ZenonT(40)
<1>14. ByteValue(s.chip[\h1c]) = n
  <2>1. \h1c \in RegsOf(s.model)
        BY Fc2580Model
  <2>2. n <= 255
        BY <1>2, <1>7
  <2>. QED
       BY <1>2, <1>7, <2>1, <2>2, PutShown
<1>15. rem \in 0..(2 * fc)
       BY <1>1, <1>7
<1>16. V - 2 * fc * ByteValue(s.chip[\h1c]) = rem
       BY <1>7, <1>14
<1>. HIDE DEF y
<1>20. CoarseFits(rem, fc, 64 * (ByteValue(s.chip[\h18] \cap 0..3) \div 2^0) + ByteValue(s.chip[\h1a]) \div 4,
                  256 * (ByteValue(s.chip[\h1a] \cap 0..1) \div 2^0) + ByteValue(s.chip[\h1b]))
  <2>. DEFINE c == 64 * (ByteValue(s.chip[\h18] \cap 0..3) \div 2^0) + ByteValue(s.chip[\h1a]) \div 4
              l == 256 * (ByteValue(s.chip[\h1a] \cap 0..1) \div 2^0) + ByteValue(s.chip[\h1b])
  <2>1. c = k \div 1024 /\ l = k % 1024
        BY <1>13, <1>22 DEF KBytesShown
  <2>. HIDE DEF c, l
  <2>2. CoarseFits(rem, fc, c, l)
        BY <1>9, <2>1
  <2>. QED
       BY <2>2 DEF c, l
<1>21. ByteValue(s.chip[\h18] \cap 4..5) \div 2^4 = r \div 2
       BY <1>13, <1>23 DEF KBytesShown
<1>. QED
     BY <1>15, <1>16, <1>20, <1>21 DEF Fc2580PllFits, V, fc, r

LEMMA Fc2580IsTuned ==
    ASSUME IInv, drv.model = "FC2580", NEW p \in asked.freq PROVE Fc2580Tuned(p[1], p[2])
<1>. DEFINE f == p[1]
            x == p[2]
<1>1. drv \in Driver /\ f \in Freqs[drv.model] /\ x \in Xtals[drv.model] /\ Fc2580Programmed(drv, f, x)
      BY DEF IInv, DriverOK, AskedOK, FreqOK, FreqShown
<1>2. f \in Nat
      BY <1>1, InputTypes
<1>. HIDE DEF f, x
<1>3. x \in Nat /\ x > 0 /\ x < KLimit
      BY <1>1, CrystalSmall
<1>4. Fc2580BandFits(drv, f)
      BY <1>1, <1>2, Fc2580Band
<1>5. Fc2580PllFits(drv, f, x)
      BY <1>1, <1>2, <1>3, Fc2580Pll
<1>6. Fc2580Tuned(f, x)
      BY <1>4, <1>5, SMT DEF Fc2580Tuned, Fc2580BandFits, Fc2580PllFits, CoarseFits, Field, Reg
<1>. QED
     BY <1>6 DEF f, x
---------------------------------------------------------------------------
(* Bandwidths                                                              *)
LEMMA BwBitsAre == ASSUME NEW bw PROVE BwBits(bw) \in {0, 64, 128}
<1>. DEFINE B1 == bw = BW_6MHZ
            B2 == bw = BW_7MHZ
<1>1. BwBits(bw) = CASE B1 -> 128 [] B2 -> 64 [] OTHER -> 0
      BY DEF BwBits
<1>2. ~(B1 /\ B2)
      BY DEF BW_6MHZ, BW_7MHZ
<1>. HIDE DEF B1, B2
<1>. QED
     BY <1>1, <1>2

LEMMA FcBwIs == ASSUME IInv, IsFc001x(drv), NEW b \in asked.bw PROVE FcBw(b)
<1>1. SUFFICES ASSUME asked.freq # {} PROVE 64 * Field(6, 6, 7) = BwBits(b[1])
      BY DEF FcBw
<1>2. PICK p : p \in asked.freq
      BY <1>1
<1>3. drv \in Driver /\ FcProgrammed(drv, p[1], p[2]) /\ drv.bw = b[1]
      BY <1>2 DEF IInv, DriverOK, AskedOK, FreqOK, FreqShown, WidthOK, WidthShown
<1>. DEFINE v == BwBits(drv.bw)
            f == p[1]
            x == p[2]
<1>4. drv \in Driver /\ IsFc001x(drv) /\ FcProgrammed(drv, f, x)
      BY <1>3
<1>. HIDE DEF f, x
<1>5. Holds(drv, W(6, BwBits(drv.bw), \hc0))
      BY <1>4, FcShown
<1>6. v \in {0, 64, 128}
      BY BwBitsAre
<1>7. Holds(drv, W(6, v, \hc0))
      BY <1>5
<1>8. BwBits(b[1]) = v
      BY <1>3
<1>. HIDE DEF v
<1>9. drv.chip[6] \cap 6..7 = Byte(v) \cap 6..7
      BY <1>7, WShown, Masks
<1>10. v \in Nat /\ v <= 255 /\ 64 * ((64 * (v \div 64)) \div 64) = v
       BY <1>6
<1>11. ByteValue(drv.chip[6] \cap 6..7) = PartSum(v, 6..7)
       BY <1>9, <1>10, PartSpells
<1>12. PartSum(v, 6..7) = 64 * (v \div 64)
       BY <1>10, LowField
<1>. QED
     BY <1>8, <1>10, <1>11, <1>12, Shifts DEF Field

NearestOf(table, n, c, x) ==
    /\ c \in Nat /\ c < n /\ DOMAIN table = 1..n
    /\ \A j \in 1..n : AbsDiff(table[c + 1], x) <= AbsDiff(table[j], x)

LEMMA NearestIs ==
    ASSUME NEW n \in Nat, n >= 1, NEW table, DOMAIN table = 1..n, \A i \in 1..n : table[i] \in Int,
           NEW x \in Int
    PROVE  NearestOf(table, n, Closest(table, x), x)
<1>1. /\ Closest(table, x) + 1 \in 1..n /\ Closest(table, x) \in Nat
      /\ \A j \in 1..n : AbsDiff(table[Closest(table, x) + 1], x) <= AbsDiff(table[j], x)
      BY Nearest
<1>2. Closest(table, x) < n
      BY <1>1
<1>. QED
     BY <1>1, <1>2 DEF NearestOf

LEMMA Members ==
    ASSUME NEW S, NEW c \in Seq(S) PROVE \A i \in 1..Len(c) : c[i] \in S
OBVIOUS

LEMMA FilterTables ==
    /\ DOMAIN MIX_FILTER_BW = 1..16 /\ \A i \in 1..16 : MIX_FILTER_BW[i] \in Int
    /\ DOMAIN IFRC_FILTER_BW = 1..16 /\ \A i \in 1..16 : IFRC_FILTER_BW[i] \in Int
    /\ DOMAIN IFCH_FILTER_BW = 1..32 /\ \A i \in 1..32 : IFCH_FILTER_BW[i] \in Int
<1>1. DOMAIN IFRC_FILTER_BW = 1..16 /\ \A i \in 1..16 : IFRC_FILTER_BW[i] \in Int
      BY SMT DEF IFRC_FILTER_BW
<1>2. DOMAIN IFCH_FILTER_BW = 1..32 /\ \A i \in 1..32 : IFCH_FILTER_BW[i] \in Int
      BY SMT DEF IFCH_FILTER_BW
<1>3. DOMAIN MIX_FILTER_BW = 1..16 /\ \A i \in 1..16 : MIX_FILTER_BW[i] \in Int
  <2>. DEFINE a == [i \in 1..8 |-> 27000]
              b == <<4600, 4200, 3800, 3400, 3300, 2700, 2300, 1900>>
  <2>1. a \in Seq(Int) /\ Len(a) = 8
        BY SMT
  <2>2. b \in Seq(Int) /\ Len(b) = 8
        BY SMT
  <2>3. MIX_FILTER_BW = a \o b
        BY DEF MIX_FILTER_BW
  <2>. HIDE DEF a, b
  <2>4. a \o b \in Seq(Int) /\ Len(a \o b) = 8 + 8 /\ DOMAIN (a \o b) = 1..Len(a \o b)
        BY <2>1, <2>2, CatType
  <2>. DEFINE c == a \o b
  <2>5. c \in Seq(Int) /\ Len(c) = 16 /\ DOMAIN c = 1..16 /\ MIX_FILTER_BW = c
        BY <2>3, <2>4
  <2>. HIDE DEF c
  <2>6. \A i \in 1..16 : c[i] \in Int
        BY <2>5, Members
  <2>. QED
       BY <2>5, <2>6
<1>. QED
     BY <1>1, <1>2, <1>3

LEMMA FilterFields ==
    ASSUME NEW s, NEW n \in 0..15, NEW m \in 0..15, NEW c \in 0..31, Holds(s, W(FILT2, 16 * n, \hf0)),
           Holds(s, W(FILT2, m, \h0f)), Holds(s, W(FILT3, c, \h1f))
    PROVE  /\ ByteValue(s.chip[FILT2] \cap 4..7) \div 2^4 = n
           /\ ByteValue(s.chip[FILT2] \cap 0..3) \div 2^0 = m
           /\ ByteValue(s.chip[FILT3] \cap 0..4) \div 2^0 = c
<1>1. ByteValue(s.chip[FILT2] \cap 4..7) \div 2^4 = n
  <2>. DEFINE v == 16 * n
  <2>1. v \in Nat /\ v <= 255 /\ (16 * (v \div 16)) \div 16 = n
        OBVIOUS
  <2>2. Holds(s, W(FILT2, v, \hf0))
        OBVIOUS
  <2>. HIDE DEF v
  <2>3. s.chip[FILT2] \cap 4..7 = Byte(v) \cap 4..7
        BY <2>2, WShown, Masks
  <2>4. ByteValue(s.chip[FILT2] \cap 4..7) = PartSum(v, 4..7)
        BY <2>1, <2>3, PartSpells
  <2>5. PartSum(v, 4..7) = 16 * (v \div 16)
        BY <2>1, LowField
  <2>. QED
       BY <2>1, <2>4, <2>5, Shifts
<1>2. ByteValue(s.chip[FILT2] \cap 0..3) \div 2^0 = m
  <2>1. m \in Nat /\ m <= 15
        OBVIOUS
  <2>. QED
       BY <2>1, LowNibble
<1>3. ByteValue(s.chip[FILT3] \cap 0..4) \div 2^0 = c
  <2>1. c \in Nat /\ c <= 255 /\ (c % 32) \div 1 = c
        OBVIOUS
  <2>2. s.chip[FILT3] \cap 0..4 = Byte(c) \cap 0..4
        BY WShown, Masks
  <2>3. ByteValue(s.chip[FILT3] \cap 0..4) = PartSum(c, 0..4)
        BY <2>1, <2>2, PartSpells
  <2>4. PartSum(c, 0..4) = c % 32
        BY <2>1, LowField
  <2>. QED
       BY <2>1, <2>3, <2>4, Shifts
<1>. QED
     BY <1>1, <1>2, <1>3
LEMMA E4kBwIs == ASSUME IInv, drv.model = "E4000", NEW b \in asked.bw PROVE E4kBw(b)
<1>. DEFINE bw == b[1]
            n == Closest(MIX_FILTER_BW, bw)
            m == Closest(IFRC_FILTER_BW, bw)
            c == Closest(IFCH_FILTER_BW, bw)
<1>1. bw \in Int /\ InChip(drv, WidthMarks(drv.model, b))
  <2>1. ~IsFc001x(drv)
        BY DEF IsFc001x
  <2>. QED
       BY <2>1 DEF IInv, AskedOK, WidthOK, WidthShown
<1>2. WidthMarks(drv.model, b) = {MixFilter(bw), RcFilter(bw), ChanFilter(bw)}
      BY DEF WidthMarks
<1>3. Holds(drv, W(FILT2, 16 * n, \hf0)) /\ Holds(drv, W(FILT2, m, \h0f)) /\ Holds(drv, W(FILT3, c, \h1f))
      BY <1>1, <1>2 DEF InChip, MixFilter, RcFilter, ChanFilter
<1>. HIDE DEF bw
<1>4. NearestOf(MIX_FILTER_BW, 16, n, bw) /\ NearestOf(IFRC_FILTER_BW, 16, m, bw) /\ NearestOf(IFCH_FILTER_BW, 32, c, bw)
  <2>1. NearestOf(MIX_FILTER_BW, 16, n, bw)
    <3>. DEFINE table == MIX_FILTER_BW
    <3>1. /\ bw \in Int /\ 16 \in Nat /\ 16 >= 1
          /\ DOMAIN table = 1..16 /\ \A i \in 1..16 : table[i] \in Int
          BY <1>1, FilterTables
    <3>. HIDE DEF table
    <3>2. NearestOf(table, 16, Closest(table, bw), bw)
          BY <3>1, NearestIs
    <3>. QED
         BY <3>2 DEF table
  <2>2. NearestOf(IFRC_FILTER_BW, 16, m, bw)
    <3>. DEFINE table == IFRC_FILTER_BW
    <3>1. /\ bw \in Int /\ 16 \in Nat /\ 16 >= 1
          /\ DOMAIN table = 1..16 /\ \A i \in 1..16 : table[i] \in Int
          BY <1>1, FilterTables
    <3>. HIDE DEF table
    <3>2. NearestOf(table, 16, Closest(table, bw), bw)
          BY <3>1, NearestIs
    <3>. QED
         BY <3>2 DEF table
  <2>3. NearestOf(IFCH_FILTER_BW, 32, c, bw)
    <3>. DEFINE table == IFCH_FILTER_BW
    <3>1. /\ bw \in Int /\ 32 \in Nat /\ 32 >= 1
          /\ DOMAIN table = 1..32 /\ \A i \in 1..32 : table[i] \in Int
          BY <1>1, FilterTables
    <3>. HIDE DEF table
    <3>2. NearestOf(table, 32, Closest(table, bw), bw)
          BY <3>1, NearestIs
    <3>. QED
         BY <3>2 DEF table
  <2>. QED
       BY <2>1, <2>2, <2>3
<1>. HIDE DEF n, m, c
<1>5. n \in 0..15 /\ m \in 0..15 /\ c \in 0..31
      BY <1>4 DEF NearestOf
<1>6. Field(FILT2, 4, 7) = n /\ Field(FILT2, 0, 3) = m /\ Field(FILT3, 0, 4) = c
  <2>1. /\ ByteValue(drv.chip[FILT2] \cap 4..7) \div 2^4 = n
        /\ ByteValue(drv.chip[FILT2] \cap 0..3) \div 2^0 = m
        /\ ByteValue(drv.chip[FILT3] \cap 0..4) \div 2^0 = c
        BY <1>3, <1>5, FilterFields, ZenonT(60)
  <2>. QED
       BY <2>1, ZenonT(40) DEF Field
<1>7. NearestStep(MIX_FILTER_BW, n, bw) /\ NearestStep(IFRC_FILTER_BW, m, bw) /\ NearestStep(IFCH_FILTER_BW, c, bw)
      BY <1>4 DEF NearestOf, NearestStep
<1>. QED
     BY <1>6, <1>7 DEF E4kBw, bw

LEMMA FilterPuts ==
    ASSUME NEW mode, NEW xtal, NEW i \in 1..3
    PROVE  LET w == FilterWrites(mode, xtal)[i]
           IN  w.mask = 0..7 /\ w.val \in Bits /\ w.reg \in {\h36, \h37, \h39}
<1>. DEFINE n1 == IF mode = 1 THEN \h1c ELSE \h18
            n2 == Min({(FilterCoeff(mode) * xtal) \div 1000000, 255})
            n3 == IF mode \in {7, 8} THEN \h80 ELSE 0
            writes == <<Put(\h36, n1), Put(\h37, n2), Put(\h39, n3), Put(\h2e, 9)>>
<1>1. FilterWrites(mode, xtal) = writes
      BY DEF FilterWrites
<1>. HIDE DEF n1, n2, n3
<1>2. writes[1] = Put(\h36, n1) /\ writes[2] = Put(\h37, n2) /\ writes[3] = Put(\h39, n3)
      OBVIOUS
<1>. HIDE DEF writes
<1>3. i = 1 \/ i = 2 \/ i = 3
      OBVIOUS
<1>. QED
     BY <1>1, <1>2, <1>3, PutIs

LEMMA Fc2580BwIs == ASSUME IInv, drv.model = "FC2580", NEW b \in asked.bw PROVE Fc2580Bw(b)
<1>1. InChip(drv, WidthMarks(drv.model, b))
  <2>1. ~IsFc001x(drv)
        BY DEF IsFc001x
  <2>. QED
       BY <2>1 DEF IInv, AskedOK, WidthOK, WidthShown
<1>2. WidthMarks(drv.model, b) = FilterMarks(b[1], b[2])
      BY DEF WidthMarks, FilterMarks
<1>3. SUFFICES ASSUME NEW i \in 1..3
               PROVE drv.chip[FilterWrites(b[1], b[2])[i].reg] = FilterWrites(b[1], b[2])[i].val
      BY DEF Fc2580Bw
<1>. DEFINE w == FilterWrites(b[1], b[2])[i]
<1>4. Holds(drv, w)
      BY <1>1, <1>2 DEF InChip, FilterMarks
<1>5. w.mask = 0..7 /\ w.val \in Bits /\ w.reg \in RegsOf(drv.model)
      BY FilterPuts, Fc2580Model
<1>. HIDE DEF w
<1>6. drv \in Driver
      BY DEF IInv, DriverOK
<1>7. drv.chip[w.reg] \in Bits
      BY <1>5, <1>6, DriverType
<1>8. drv.chip[w.reg] = w.val
      BY <1>4, <1>5, <1>7 DEF Holds, Bits
<1>. QED
     BY <1>8 DEF w

---------------------------------------------------------------------------
(* Gains                                                                   *)
LEMMA GreatestIs ==
    ASSUME NEW S, S \subseteq Int, NEW m \in S, \A y \in S : y <= m
    PROVE  Max(S) = m
<1>1. ASSUME NEW x PROVE (x \in S /\ \A y \in S : x >= y) <=> x = m
  <2>1. CASE x \in S /\ \A y \in S : x >= y
    <3>1. x \in Int /\ m \in Int /\ x >= m /\ m >= x
          BY <2>1
    <3>. QED
         BY <2>1, <3>1
  <2>2. CASE x = m
    <3>1. \A y \in S : y \in Int
          OBVIOUS
    <3>. QED
         BY <2>2, <3>1
  <2>. QED
       BY <2>1, <2>2
<1>. QED
     BY <1>1 DEF Max

LEMMA LeastIs ==
    ASSUME NEW S, S \subseteq Int, NEW m \in S, \A y \in S : m <= y
    PROVE  Min(S) = m
<1>1. ASSUME NEW x PROVE (x \in S /\ \A y \in S : x <= y) <=> x = m
  <2>1. CASE x \in S /\ \A y \in S : x <= y
    <3>1. x \in Int /\ m \in Int /\ x <= m /\ m <= x
          BY <2>1
    <3>. QED
         BY <2>1, <3>1
  <2>2. CASE x = m
    <3>1. \A y \in S : y \in Int
          OBVIOUS
    <3>. QED
         BY <2>2, <3>1
  <2>. QED
       BY <2>1, <2>2
<1>. QED
     BY <1>1 DEF Min

LEMMA LnaSteps ==
    ASSUME NEW g \in Int
    PROVE  /\ g < -40 => FC0012_LNA(g) = 2
           /\ g >= -40 /\ g < 71 => FC0012_LNA(g) = 0
           /\ g >= 71 /\ g < 179 => FC0012_LNA(g) = 8
           /\ g >= 179 /\ g < 192 => FC0012_LNA(g) = \h17
           /\ g >= 192 => FC0012_LNA(g) = \h10
<1>. DEFINE A == g < -40
            B == g >= -40 /\ g < 71
            C == g >= 71 /\ g < 179
            D == g >= 179 /\ g < 192
<1>1. FC0012_LNA(g) = CASE A -> 2 [] B -> 0 [] C -> 8 [] D -> \h17 [] OTHER -> \h10
      BY DEF FC0012_LNA
<1>2. /\ A => ~B /\ ~C /\ ~D
      /\ B => ~C /\ ~D
      /\ C => ~D
      /\ g >= 192 => ~A /\ ~B /\ ~C /\ ~D
      OBVIOUS
<1>3. (A => FC0012_LNA(g) = 2) /\ (B => FC0012_LNA(g) = 0) /\ (C => FC0012_LNA(g) = 8)
      /\ (D => FC0012_LNA(g) = \h17) /\ (~A /\ ~B /\ ~C /\ ~D => FC0012_LNA(g) = \h10)
  <2>. HIDE DEF A, B, C, D
  <2>. QED
       BY <1>1, <1>2
<1>. QED
     BY <1>2, <1>3

LEMMA GainBelow ==
    ASSUME NEW g \in Int
    PROVE  LET S == {h \in FC0012_GAINS : h <= g} \cup {-99}
           IN  FC0012_LNA(Max(S)) = FC0012_LNA(g)
<1>. DEFINE S == {h \in FC0012_GAINS : h <= g} \cup {-99}
<1>1. S \subseteq Int /\ \A y : y \in S <=> (y = -99 \/ (y \in {-40, 71, 179, 192} /\ y <= g))
      BY DEF FC0012_GAINS
<1>. HIDE DEF S
<1>2. CASE g < -40
  <2>1. Max(S) = -99
        BY <1>1, <1>2, GreatestIs
  <2>. QED
       BY <1>2, <2>1, LnaSteps DEF S
<1>3. CASE g >= -40 /\ g < 71
  <2>1. Max(S) = -40
        BY <1>1, <1>3, GreatestIs
  <2>. QED
       BY <1>3, <2>1, LnaSteps DEF S
<1>4. CASE g >= 71 /\ g < 179
  <2>1. Max(S) = 71
        BY <1>1, <1>4, GreatestIs
  <2>. QED
       BY <1>4, <2>1, LnaSteps DEF S
<1>5. CASE g >= 179 /\ g < 192
  <2>1. Max(S) = 179
        BY <1>1, <1>5, GreatestIs
  <2>. QED
       BY <1>5, <2>1, LnaSteps DEF S
<1>6. CASE g >= 192
  <2>1. Max(S) = 192
        BY <1>1, <1>6, GreatestIs
  <2>. QED
       BY <1>6, <2>1, LnaSteps DEF S
<1>. QED
     BY <1>2, <1>3, <1>4, <1>5, <1>6

(* A five-bit field at the bottom of a register.                           *)
LEMMA LowFive ==
    ASSUME NEW s, NEW r, NEW v \in Nat, v <= 31, Holds(s, W(r, v, \h1f))
    PROVE  ByteValue(s.chip[r] \cap 0..4) \div 2^0 = v
<1>1. v <= 255 /\ (v % 32) \div 1 = v
      OBVIOUS
<1>2. s.chip[r] \cap 0..4 = Byte(v) \cap 0..4
      BY WShown, Masks
<1>3. ByteValue(s.chip[r] \cap 0..4) = PartSum(v, 0..4)
      BY <1>2, PartSpells
<1>4. PartSum(v, 0..4) = v % 32
      BY <1>1, LowField
<1>. QED
     BY <1>1, <1>3, <1>4, Shifts

LEMMA Fc0012GainIs == ASSUME IInv, drv.model = "FC0012", NEW g \in asked.gain PROVE Fc0012Gain(g)
<1>. DEFINE v == FC0012_LNA(g)
<1>1. g \in Int /\ InChip(drv, GainMarks(drv.model, g))
      BY DEF IInv, AskedOK, GainOK, GainShown
<1>2. Holds(drv, W(\h13, v, \h1f))
      BY <1>1 DEF InChip, GainMarks
<1>3. v \in {2, 0, 8, \h17, \h10}
      BY <1>1, LnaSteps
<1>4. v = FC0012_LNA(Max({h \in FC0012_GAINS : h <= g} \cup {-99}))
      BY <1>1, GainBelow
<1>. HIDE DEF v
<1>5. v \in Nat /\ v <= 31
      BY <1>3
<1>6. Field(\h13, 0, 4) = v
      BY <1>2, <1>5, LowFive DEF Field
<1>. QED
     BY <1>4, <1>6 DEF Fc0012Gain

---------------------------------------------------------------------------
(* The FC0013's table of gains is in order, and its fields are of 5 bits.  *)
Rising(T, n) ==
    /\ DOMAIN T = 1..n /\ \A i \in 1..n : T[i][1] \in Int /\ T[i][2] \in Nat /\ T[i][2] <= 31
    /\ \A i \in 1..n : \A j \in 1..n : i <= j => T[i][1] <= T[j][1]

LEMMA Fc0013Table == Rising(FC0013_LNA_GAINS, 24) /\ Len(FC0013_LNA_GAINS) = 24 /\ FC0013_LNA_GAINS[24][1] = 197
<1>. DEFINE T == FC0013_LNA_GAINS
<1>1. DOMAIN T = 1..24 /\ Len(T) = 24
      BY SMT DEF FC0013_LNA_GAINS
<1>2. /\ T[1] = <<-99, 2>> /\ T[2] = <<-73, 3>> /\ T[3] = <<-65, 5>> /\ T[4] = <<-63, 4>>
      BY SMT DEF FC0013_LNA_GAINS
<1>3. /\ T[5] = <<-63, 0>> /\ T[6] = <<-60, 7>> /\ T[7] = <<-58, 1>> /\ T[8] = <<-54, 6>>
      BY SMT DEF FC0013_LNA_GAINS
<1>4. /\ T[9] = <<58, 15>> /\ T[10] = <<61, 14>> /\ T[11] = <<63, 13>> /\ T[12] = <<65, 12>>
      BY SMT DEF FC0013_LNA_GAINS
<1>5. /\ T[13] = <<67, 11>> /\ T[14] = <<68, 10>> /\ T[15] = <<70, 9>> /\ T[16] = <<71, 8>>
      BY SMT DEF FC0013_LNA_GAINS
<1>6. /\ T[17] = <<179, 23>> /\ T[18] = <<181, 22>> /\ T[19] = <<182, 21>> /\ T[20] = <<184, 20>>
      BY SMT DEF FC0013_LNA_GAINS
<1>7. /\ T[21] = <<186, 19>> /\ T[22] = <<188, 18>> /\ T[23] = <<191, 17>> /\ T[24] = <<197, 16>>
      BY SMT DEF FC0013_LNA_GAINS
<1>. HIDE DEF T
<1>8. \A i \in 1..24 : T[i][1] \in Int /\ T[i][2] \in Nat /\ T[i][2] <= 31
      BY <1>1, <1>2, <1>3, <1>4, <1>5, <1>6, <1>7, SMTT(30)
<1>9. ASSUME NEW i \in 1..24, NEW j \in 1..24, i <= j PROVE T[i][1] <= T[j][1]
      BY <1>9, <1>1, <1>2, <1>3, <1>4, <1>5, <1>6, <1>7, SMTT(30)
<1>10. Rising(T, 24)
       BY <1>1, <1>8, <1>9 DEF Rising
<1>11. Len(T) = 24 /\ T[24][1] = 197
       BY <1>1, <1>7
<1>. QED
     BY <1>10, <1>11 DEF T

RowTaken(T, n, g) == Min({i \in 1..n : T[i][1] >= g} \cup {n})
LeastAbove(T, n, g) ==
    /\ RowTaken(T, n, g) \in 1..n
    /\ Min({h \in {T[i][1] : i \in 1..n} : h >= g} \cup {T[n][1]}) = T[RowTaken(T, n, g)][1]

LEMMA GainAbove ==
    ASSUME NEW T, NEW n \in Nat, n >= 1, Rising(T, n), NEW g \in Int
    PROVE  LeastAbove(T, n, g)
<1>. DEFINE I == {i \in 1..n : T[i][1] >= g} \cup {n}
            i0 == Min(I)
            offered == {T[i][1] : i \in 1..n}
            S == {h \in offered : h >= g} \cup {T[n][1]}
<1>1. /\ \A i \in 1..n : T[i][1] \in Int
      /\ \A i \in 1..n : \A j \in 1..n : i <= j => T[i][1] <= T[j][1]
      BY DEF Rising
<1>2. I \in SUBSET (0..n) /\ I # {} /\ I \subseteq 1..n
      OBVIOUS
<1>3. i0 \in I /\ \A y \in I : i0 <= y
  <2>. HIDE DEF I
  <2>. QED
       BY <1>2, MinOf
<1>4. i0 \in 1..n
      BY <1>2, <1>3
<1>. HIDE DEF i0
<1>5. T[i0][1] \in S
      BY <1>3, <1>4
<1>6. ASSUME NEW y \in S PROVE y \in Int /\ T[i0][1] <= y
  <2>1. CASE y = T[n][1]
        BY <1>1, <1>4, <2>1
  <2>2. CASE y \in {h \in offered : h >= g}
    <3>1. PICK j \in 1..n : y = T[j][1] /\ T[j][1] >= g
          BY <2>2
    <3>2. i0 <= j
          BY <1>3, <3>1
    <3>. QED
         BY <1>1, <1>4, <3>1, <3>2
  <2>. QED
       BY <2>1, <2>2
<1>7. Min(S) = T[i0][1]
  <2>. DEFINE m == T[i0][1]
  <2>. HIDE DEF S, m
  <2>1. S \subseteq Int /\ m \in S /\ \A y \in S : m <= y
        BY <1>5, <1>6 DEF m
  <2>2. Min(S) = m
        BY <2>1, LeastIs
  <2>. QED
       BY <2>2 DEF m
<1>. QED
     BY <1>4, <1>7 DEF i0, RowTaken, LeastAbove

LEMMA Fc0013GainIs == ASSUME IInv, drv.model = "FC0013", NEW g \in asked.gain PROVE Fc0013Gain(g)
<1>. DEFINE T == FC0013_LNA_GAINS
            i0 == RowTaken(T, 24, g)
            v == T[i0][2]
<1>1. g \in Int /\ InChip(drv, GainMarks(drv.model, g))
      BY DEF IInv, AskedOK, GainOK, GainShown
<1>2. Rising(T, 24) /\ Len(T) = 24 /\ T[24][1] = 197 /\ DOMAIN T = 1..24
      BY Fc0013Table DEF Rising
<1>3. FC0013_LNA(g) = v
  <2>. DEFINE A == {i \in DOMAIN T : T[i][1] >= g} \cup {Len(T)}
              B == {i \in 1..24 : T[i][1] >= g} \cup {24}
  <2>1. FC0013_LNA(g) = T[Min(A)][2]
        BY DEF FC0013_LNA
  <2>2. A = B
        BY <1>2
  <2>. HIDE DEF A, B
  <2>3. FC0013_LNA(g) = T[Min(B)][2]
        BY <2>1, <2>2
  <2>. QED
       BY <2>3, Zenon DEF B, RowTaken
<1>4. Holds(drv, W(\h14, v, \h1f))
      BY <1>1, <1>3 DEF InChip, GainMarks
<1>. HIDE DEF T
<1>5. i0 \in 1..24 /\ Min({h \in {T[i][1] : i \in 1..24} : h >= g} \cup {T[24][1]}) = T[i0][1]
  <2>1. 24 \in Nat /\ 24 >= 1 /\ Rising(T, 24) /\ g \in Int
        BY <1>1, <1>2
  <2>2. LeastAbove(T, 24, g)
        BY <2>1, GainAbove
  <2>. QED
       BY <2>2, Zenon DEF LeastAbove
<1>. HIDE DEF i0
<1>6. v \in Nat /\ v <= 31
      BY <1>2, <1>5 DEF Rising
<1>. HIDE DEF v
<1>7. Field(\h14, 0, 4) = v
      BY <1>4, <1>6, LowFive DEF Field
<1>8. Range(T) = {T[i] : i \in 1..24} /\ T[i0] \in Range(T)
      BY <1>2, <1>5 DEF Range
<1>9. Fc0013Gains = {T[i][1] : i \in 1..24}
      BY <1>8 DEF Fc0013Gains, T
<1>10. T[i0][1] \in Fc0013GainSet
       BY <1>7, <1>8 DEF Fc0013GainSet, T, v
<1>. QED
     BY <1>2, <1>5, <1>9, <1>10 DEF Fc0013Gain

---------------------------------------------------------------------------
(* The E4000's table of gains has each field once.                         *)
GainTable(T, n) ==
    /\ DOMAIN T = 1..n /\ \A i \in 1..n : T[i][1] \in Int /\ T[i][2] \in Nat /\ T[i][2] <= 15
    /\ \A i \in 1..n : \A j \in 1..n : T[i][2] = T[j][2] => i = j

OffersLna(T, n) == \A x \in {-50, -25, 0, 25, 50, 75, 100, 125, 150, 175, 200, 250, 300} : \E i \in 1..n : T[i][1] = x

LEMMA E4kTable == GainTable(E4K_LNA_GAIN, 13) /\ OffersLna(E4K_LNA_GAIN, 13)
<1>. DEFINE T == E4K_LNA_GAIN
<1>1. DOMAIN T = 1..13
      BY SMT DEF E4K_LNA_GAIN
<1>2. /\ T[1] = <<-50, 0>> /\ T[2] = <<-25, 1>> /\ T[3] = <<0, 4>> /\ T[4] = <<25, 5>>
      BY SMT DEF E4K_LNA_GAIN
<1>3. /\ T[5] = <<50, 6>> /\ T[6] = <<75, 7>> /\ T[7] = <<100, 8>> /\ T[8] = <<125, 9>>
      BY SMT DEF E4K_LNA_GAIN
<1>4. /\ T[9] = <<150, 10>> /\ T[10] = <<175, 11>> /\ T[11] = <<200, 12>> /\ T[12] = <<250, 13>>
      BY SMT DEF E4K_LNA_GAIN
<1>5. /\ T[13] = <<300, 14>>
      BY SMT DEF E4K_LNA_GAIN
<1>. HIDE DEF T
<1>6. \A i \in 1..13 : T[i][1] \in Int /\ T[i][2] \in Nat /\ T[i][2] <= 15
      BY <1>1, <1>2, <1>3, <1>4, <1>5
<1>7. ASSUME NEW i \in 1..13, NEW j \in 1..13, T[i][2] = T[j][2] PROVE i = j
      BY <1>7, <1>1, <1>2, <1>3, <1>4, <1>5
<1>8. OffersLna(T, 13)
      BY <1>1, <1>2, <1>3, <1>4, <1>5 DEF OffersLna
<1>. QED
     BY <1>1, <1>6, <1>7, <1>8 DEF GainTable, T

LEMMA ExactRow ==
    ASSUME NEW T, NEW n \in Nat, n >= 1, GainTable(T, n), NEW x \in Int, \E i \in 1..n : T[i][1] = x
    PROVE  LET c == Closest([i \in DOMAIN T |-> T[i][1]], x)
           IN  c + 1 \in 1..n /\ T[c + 1][1] = x
<1>. DEFINE table == [i \in DOMAIN T |-> T[i][1]]
            c == Closest(table, x)
<1>1. DOMAIN T = 1..n /\ \A i \in 1..n : T[i][1] \in Int
      BY DEF GainTable
<1>2. DOMAIN table = 1..n /\ \A i \in 1..n : table[i] = T[i][1] /\ table[i] \in Int
      BY <1>1
<1>. HIDE DEF table
<1>3. c + 1 \in 1..n /\ \A j \in 1..n : AbsDiff(table[c + 1], x) <= AbsDiff(table[j], x)
      BY <1>2, Nearest
<1>. HIDE DEF c
<1>4. PICK i \in 1..n : T[i][1] = x
      OBVIOUS
<1>5. AbsDiff(table[i], x) = 0
      BY <1>2, <1>4 DEF AbsDiff
<1>6. AbsDiff(table[c + 1], x) <= 0
      BY <1>3, <1>4, <1>5
<1>7. table[c + 1] = x
      BY <1>2, <1>3, <1>6 DEF AbsDiff
<1>. QED
     BY <1>2, <1>3, <1>7 DEF c, table

LEMMA E4kGainIs == ASSUME IInv, drv.model = "E4000", NEW g \in asked.gain PROVE E4kGain(g)
<1>. SUFFICES ASSUME g \in E4K_GAINS PROVE E4kGainSet = g
     BY DEF E4kGain
<1>. DEFINE T == E4K_LNA_GAIN
            x == Min({g - 10 * MixerGain(g), 300})
            c == Closest([i \in DOMAIN T |-> T[i][1]], x)
            n == T[c + 1][2]
            k == IF MixerGain(g) = 12 THEN 1 ELSE 0
<1>1. g \in Int /\ InChip(drv, GainMarks(drv.model, g))
      BY DEF IInv, AskedOK, GainOK, GainShown
<1>2. Holds(drv, W(GAIN1, n, \h0f)) /\ Holds(drv, W(GAIN2, k, 1))
      BY <1>1 DEF InChip, GainMarks
<1>3. GainTable(T, 13) /\ OffersLna(T, 13) /\ DOMAIN T = 1..13
      BY E4kTable DEF GainTable
<1>4. /\ MixerGain(g) \in {4, 12} /\ g - 10 * MixerGain(g) <= 300
      /\ g - 10 * MixerGain(g) \in {-50, -25, 0, 25, 50, 75, 100, 125, 150, 175, 200, 250, 300}
      BY DEF MixerGain, E4K_GAINS
<1>5. x = g - 10 * MixerGain(g)
      BY <1>1, <1>4, Least
<1>. HIDE DEF T, x
<1>6. x \in Int /\ \E i \in 1..13 : T[i][1] = x
      BY <1>1, <1>3, <1>4, <1>5, SMTT(30) DEF OffersLna
<1>7. c + 1 \in 1..13 /\ T[c + 1][1] = x
  <2>1. 13 \in Nat /\ 13 >= 1
        OBVIOUS
  <2>. QED
       BY <1>3, <1>6, <2>1, ExactRow
<1>. HIDE DEF c
<1>8. n \in Nat /\ n <= 15
      BY <1>3, <1>7 DEF GainTable
<1>9. Field(GAIN1, 0, 3) = n
  <2>. HIDE DEF n
  <2>. QED
       BY <1>2, <1>8, LowNibble DEF Field
<1>10. 0 \in drv.chip[GAIN2] <=> k = 1
  <2>1. drv.chip[GAIN2] \cap {0} = Byte(k) \cap {0}
        BY <1>2, WShown, Masks
  <2>2. 0 \in Byte(k) <=> k = 1
        BY Masks
  <2>. QED
       BY <2>1, <2>2
<1>11. (CHOOSE row \in Range(T) : row[2] = Field(GAIN1, 0, 3)) = T[c + 1]
  <2>1. Range(T) = {T[i] : i \in 1..13}
        BY <1>3 DEF Range
  <2>2. T[c + 1] \in Range(T) /\ T[c + 1][2] = n
        BY <1>7, <2>1
  <2>3. ASSUME NEW row \in Range(T), row[2] = n PROVE row = T[c + 1]
        BY <1>3, <1>7, <2>1, <2>3 DEF GainTable
  <2>. HIDE DEF n
  <2>. QED
       BY <1>9, <2>2, <2>3
<1>12. E4kGainSet = T[c + 1][1] + IF 0 \in drv.chip[GAIN2] THEN 120 ELSE 40
       BY <1>11, Zenon DEF E4kGainSet, T
<1>13. E4kGainSet = x + 10 * MixerGain(g)
       BY <1>4, <1>6, <1>7, <1>10, <1>12
<1>. QED
     BY <1>1, <1>4, <1>5, <1>13

---------------------------------------------------------------------------
(* Gain mode                                                               *)
LEMMA Nine == Byte(9) = {0, 3}
<1>1. \A b \in 0..7 : b \in Byte(9) <=> b \in {0, 3}
      BY ByteBits
<1>2. {0, 3} \subseteq 0..7
      OBVIOUS
<1>. QED
     BY <1>1, <1>2, MaskIs

LEMMA ModeIs == ASSUME IInv, NEW m \in asked.manual PROVE ModeSet(m)
<1>1. m \in BOOLEAN /\ InChip(drv, ModeMarks(drv.model, m)) /\ drv \in Driver
      BY DEF IInv, DriverOK, AskedOK, ModeOK, ModeShown
<1>2. CASE drv.model = "FC0012"
  <2>. DEFINE v == IF m THEN 2 ELSE 0
  <2>1. Holds(drv, Put(\h0d, v)) /\ \h0d \in RegsOf(drv.model)
        BY <1>1, <1>2, FcModels DEF InChip, ModeMarks, IsFc001x
  <2>2. Byte(v) = IF m THEN {1} ELSE {}
        BY <1>1, Masks
  <2>. HIDE DEF v
  <2>3. drv.chip[\h0d] = Byte(v)
        BY <1>1, <2>1, PutShown
  <2>. QED
       BY <1>2, <2>2, <2>3 DEF ModeSet
<1>3. CASE drv.model = "FC0013"
  <2>. DEFINE v == IF m THEN 8 ELSE 0
  <2>1. Holds(drv, W(\h0d, v, 8))
        BY <1>1, <1>3 DEF InChip, ModeMarks
  <2>2. 3 \in Byte(v) <=> m
        BY <1>1, Masks
  <2>. HIDE DEF v
  <2>3. drv.chip[\h0d] \cap {3} = Byte(v) \cap {3}
        BY <2>1, WShown, Masks
  <2>4. (3 \in drv.chip[\h0d]) = m
        BY <1>1, <2>2, <2>3
  <2>. QED
       BY <1>3, <2>4 DEF ModeSet
<1>4. CASE drv.model = "E4000"
  <2>. DEFINE v == IF m THEN 0 ELSE 9
              k == IF m THEN 0 ELSE 1
  <2>1. Holds(drv, W(AGC1, v, \h0f)) /\ Holds(drv, W(AGC7, k, 1))
        BY <1>1, <1>4 DEF InChip, ModeMarks
  <2>2. Byte(v) \cap 0..3 = (IF m THEN {} ELSE {0, 3}) /\ (0 \in Byte(k) <=> ~m)
        BY <1>1, Masks, Nine
  <2>. HIDE DEF v, k
  <2>3. drv.chip[AGC1] \cap 0..3 = Byte(v) \cap 0..3 /\ drv.chip[AGC7] \cap {0} = Byte(k) \cap {0}
        BY <2>1, WShown, Masks
  <2>4. drv.chip[AGC1] \cap 0..3 = (IF m THEN {} ELSE {0, 3})
        BY <2>2, <2>3
  <2>5. (0 \in drv.chip[AGC7]) # m
        BY <1>1, <2>2, <2>3
  <2>. QED
       BY <1>4, <2>4, <2>5 DEF ModeSet
<1>5. CASE drv.model = "FC2580"
      BY <1>5 DEF ModeSet
<1>. QED
     BY <1>1, <1>2, <1>3, <1>4, <1>5, ModelIs

LEMMA GainIs == ASSUME IInv, NEW g \in asked.gain PROVE GainSet(g)
<1>1. drv \in Driver
      BY DEF IInv, DriverOK
<1>2. CASE drv.model = "FC0012"
      BY <1>2, Fc0012GainIs DEF GainSet
<1>3. CASE drv.model = "FC0013"
      BY <1>3, Fc0013GainIs DEF GainSet
<1>4. CASE drv.model = "E4000"
      BY <1>4, E4kGainIs DEF GainSet
<1>5. CASE drv.model = "FC2580"
      BY <1>5 DEF GainSet
<1>. QED
     BY <1>1, <1>2, <1>3, <1>4, <1>5, ModelIs

LEMMA BwIs == ASSUME IInv, NEW b \in asked.bw PROVE BwSet(b)
<1>1. drv \in Driver
      BY DEF IInv, DriverOK
<1>2. CASE drv.model \in {"FC0012", "FC0013"}
  <2>1. IsFc001x(drv) /\ drv.model # "E4000" /\ drv.model # "FC2580"
        BY <1>2 DEF IsFc001x
  <2>2. FcBw(b)
        BY <2>1, FcBwIs
  <2>. QED
       BY <2>1, <2>2 DEF BwSet
<1>3. CASE drv.model = "E4000"
  <2>1. ~IsFc001x(drv) /\ drv.model # "FC2580"
        BY <1>3 DEF IsFc001x
  <2>2. E4kBw(b)
        BY <1>3, E4kBwIs
  <2>. QED
       BY <1>3, <2>1, <2>2 DEF BwSet
<1>4. CASE drv.model = "FC2580"
  <2>1. ~IsFc001x(drv) /\ drv.model # "E4000"
        BY <1>4 DEF IsFc001x
  <2>2. Fc2580Bw(b)
        BY <1>4, Fc2580BwIs
  <2>. QED
       BY <1>4, <2>1, <2>2 DEF BwSet
<1>. QED
     BY <1>1, <1>2, <1>3, <1>4, ModelIs

LEMMA TunesIs ==
    ASSUME IInv, NEW a \in asked.freq
    PROVE  CASE IsFc001x(drv) -> FcTuned(a[1], a[2])
             [] drv.model = "E4000" -> E4kTuned(a[1], a[2])
             [] drv.model = "FC2580" -> Fc2580Tuned(a[1], a[2])
<1>1. drv \in Driver
      BY DEF IInv, DriverOK
<1>2. CASE drv.model \in {"FC0012", "FC0013"}
  <2>1. IsFc001x(drv) /\ drv.model # "E4000" /\ drv.model # "FC2580"
        BY <1>2 DEF IsFc001x
  <2>2. FcTuned(a[1], a[2])
        BY <2>1, FcIsTuned
  <2>. QED
       BY <2>1, <2>2
<1>3. CASE drv.model = "E4000"
  <2>1. ~IsFc001x(drv) /\ drv.model # "FC2580"
        BY <1>3 DEF IsFc001x
  <2>2. E4kTuned(a[1], a[2])
        BY <1>3, E4kIsTuned
  <2>. QED
       BY <1>3, <2>1, <2>2
<1>4. CASE drv.model = "FC2580"
  <2>1. ~IsFc001x(drv) /\ drv.model # "E4000"
        BY <1>4 DEF IsFc001x
  <2>2. Fc2580Tuned(a[1], a[2])
        BY <1>4, Fc2580IsTuned
  <2>. QED
       BY <1>4, <2>1, <2>2
<1>. QED
     BY <1>1, <1>2, <1>3, <1>4, ModelIs

---------------------------------------------------------------------------
(* IF gains                                                                *)
StageSize(stage) == IF stage = 1 THEN 2 ELSE IF stage <= 4 THEN 4 ELSE 8

LEMMA StageTables ==
    ASSUME NEW i \in 1..6
    PROVE  /\ DOMAIN IF_STAGE_GAIN[i] = 1..StageSize(i)
           /\ IF_STAGE_FIELD[i][2] = CASE i \in {1, 5} -> 1 [] i = 2 -> 2 [] i \in {3, 6} -> 8 [] OTHER -> 32
<1>1. i = 1 \/ i = 2 \/ i = 3 \/ i = 4 \/ i = 5 \/ i = 6
      OBVIOUS
<1>2. DOMAIN IF_STAGE_GAIN[1] = 1..2 /\ DOMAIN IF_STAGE_GAIN[2] = 1..4 /\ DOMAIN IF_STAGE_GAIN[3] = 1..4
      BY SMT DEF IF_STAGE_GAIN
<1>3. DOMAIN IF_STAGE_GAIN[4] = 1..4 /\ DOMAIN IF_STAGE_GAIN[5] = 1..8 /\ DOMAIN IF_STAGE_GAIN[6] = 1..8
      BY SMT DEF IF_STAGE_GAIN
<1>4. /\ StageSize(1) = 2 /\ StageSize(2) = 4 /\ StageSize(3) = 4 /\ StageSize(4) = 4 /\ StageSize(5) = 8
      /\ StageSize(6) = 8
      BY DEF StageSize
<1>5. DOMAIN IF_STAGE_GAIN[i] = 1..StageSize(i)
      BY <1>1, <1>2, <1>3, <1>4
<1>6. /\ IF_STAGE_FIELD[1][2] = 1 /\ IF_STAGE_FIELD[2][2] = 2 /\ IF_STAGE_FIELD[3][2] = 8
      /\ IF_STAGE_FIELD[4][2] = 32 /\ IF_STAGE_FIELD[5][2] = 1 /\ IF_STAGE_FIELD[6][2] = 8
      BY SMT DEF IF_STAGE_FIELD
<1>. QED
     BY <1>1, <1>5, <1>6

(* The number that a stage's field spells, moved to the right.             *)
LEMMA FieldSpells ==
    /\ \A n \in 0..1 : PartSum(n * 1, {0}) \div 1 = n
    /\ \A n \in 0..3 : PartSum(n * 2, 1..2) \div 2 = n
    /\ \A n \in 0..3 : PartSum(n * 8, 3..4) \div 8 = n
    /\ \A n \in 0..3 : PartSum(n * 32, 5..6) \div 32 = n
    /\ \A n \in 0..7 : PartSum(n * 1, 0..2) \div 1 = n
    /\ \A n \in 0..7 : PartSum(n * 8, 3..5) \div 8 = n
<1>1. ASSUME NEW n \in 0..1 PROVE PartSum(n * 1, {0}) \div 1 = n
      BY <1>1 DEF PartSum
<1>2. ASSUME NEW n \in 0..3 PROVE PartSum(n * 2, 1..2) \div 2 = n
      BY <1>2 DEF PartSum
<1>3. ASSUME NEW n \in 0..3 PROVE PartSum(n * 8, 3..4) \div 8 = n
      BY <1>3 DEF PartSum
<1>4. ASSUME NEW n \in 0..3 PROVE PartSum(n * 32, 5..6) \div 32 = n
      BY <1>4 DEF PartSum
<1>5. ASSUME NEW n \in 0..7 PROVE PartSum(n * 1, 0..2) \div 1 = n
      BY <1>5 DEF PartSum
<1>6. ASSUME NEW n \in 0..7 PROVE PartSum(n * 8, 3..5) \div 8 = n
      BY <1>6 DEF PartSum
<1>. QED
     BY <1>1, <1>2, <1>3, <1>4, <1>5, <1>6

LEMMA StageSpells ==
    ASSUME NEW i \in 1..6, NEW n \in 0..(StageSize(i) - 1)
    PROVE  /\ n * IF_STAGE_FIELD[i][2] \in Int
           /\ PartSum(n * IF_STAGE_FIELD[i][2], Byte(IF_STAGE_FIELD[i][3])) \div IF_STAGE_FIELD[i][2] = n
<1>1. CASE i = 1
  <2>1. n \in 0..1 /\ IF_STAGE_FIELD[i][2] = 1 /\ Byte(IF_STAGE_FIELD[i][3]) = {0}
        BY <1>1, StageTables, StageFields DEF StageSize
  <2>. QED
       BY <2>1, FieldSpells
<1>2. CASE i = 2
  <2>1. n \in 0..3 /\ IF_STAGE_FIELD[i][2] = 2 /\ Byte(IF_STAGE_FIELD[i][3]) = 1..2
        BY <1>2, StageTables, StageFields DEF StageSize
  <2>. QED
       BY <2>1, FieldSpells
<1>3. CASE i = 3
  <2>1. n \in 0..3 /\ IF_STAGE_FIELD[i][2] = 8 /\ Byte(IF_STAGE_FIELD[i][3]) = 3..4
        BY <1>3, StageTables, StageFields DEF StageSize
  <2>. QED
       BY <2>1, FieldSpells
<1>4. CASE i = 4
  <2>1. n \in 0..3 /\ IF_STAGE_FIELD[i][2] = 32 /\ Byte(IF_STAGE_FIELD[i][3]) = 5..6
        BY <1>4, StageTables, StageFields DEF StageSize
  <2>. QED
       BY <2>1, FieldSpells
<1>5. CASE i = 5
  <2>1. n \in 0..7 /\ IF_STAGE_FIELD[i][2] = 1 /\ Byte(IF_STAGE_FIELD[i][3]) = 0..2
        BY <1>5, StageTables, StageFields DEF StageSize
  <2>. QED
       BY <2>1, FieldSpells
<1>6. CASE i = 6
  <2>1. n \in 0..7 /\ IF_STAGE_FIELD[i][2] = 8 /\ Byte(IF_STAGE_FIELD[i][3]) = 3..5
        BY <1>6, StageTables, StageFields DEF StageSize
  <2>. QED
       BY <2>1, FieldSpells
<1>. QED
     BY <1>1, <1>2, <1>3, <1>4, <1>5, <1>6

LEMMA ByteGain ==
    ASSUME NEW g \in Int, -1280 <= g, g <= 1279
    PROVE  AbsDiff(10 * GainByte(g), g) < 10
<1>. DEFINE whole == IF g >= 0 THEN g \div 10 ELSE -((-g) \div 10)
<1>1. whole \in Int /\ -128 <= whole /\ whole <= 127 /\ 10 * whole - g < 10 /\ g - 10 * whole < 10
  <2>1. CASE g >= 0
    <3>1. g \div 10 \in Int /\ 10 * (g \div 10) <= g /\ g < 10 * (g \div 10) + 10
          BY <2>1
    <3>. QED
         BY <2>1, <3>1
  <2>2. CASE g < 0
    <3>1. (-g) \div 10 \in Int /\ 10 * ((-g) \div 10) <= -g /\ -g < 10 * ((-g) \div 10) + 10
          BY <2>2
    <3>. QED
         BY <2>2, <3>1
  <2>. QED
       BY <2>1, <2>2
<1>2. GainByte(g) = ((whole + 128) % 256) - 128
      BY DEF GainByte
<1>. HIDE DEF whole
<1>3. GainByte(g) = whole
      BY <1>1, <1>2
<1>. QED
     BY <1>1, <1>3 DEF AbsDiff

LEMMA StageIs == ASSUME IInv, NEW g \in asked.stages PROVE StageSet(g)
<1>. DEFINE stage == StageByte(g[1])
            gain == GainByte(g[2])
            gains == IF_STAGE_GAIN[stage]
            field == IF_STAGE_FIELD[stage]
            row == Min({i \in DOMAIN gains : gains[i] = gain})
            n == row - 1
            v == n * field[2]
<1>1. g[2] \in Int /\ StageTaken(g) /\ Holds(drv, StageMark(g))
      BY DEF IInv, AskedOK, StagesOK, StageShown
<1>2. stage \in 1..6 /\ gain \in Range(gains)
      BY <1>1, StageFields DEF StageTaken
<1>3. Holds(drv, W(field[1], v, field[3]))
      BY <1>1 DEF StageMark, StageWrite
<1>. HIDE DEF stage
<1>4. StageSize(stage) \in {2, 4, 8} /\ DOMAIN gains = 1..StageSize(stage)
      BY <1>2, StageTables DEF StageSize
<1>5. row \in 1..StageSize(stage) /\ gains[row] = gain
  <2>. DEFINE S == {i \in DOMAIN gains : gains[i] = gain}
  <2>1. S \in SUBSET (0..8) /\ S # {}
        BY <1>2, <1>4 DEF Range
  <2>. HIDE DEF S
  <2>2. Min(S) \in S
        BY <2>1, MinOf
  <2>3. row \in S
        BY <2>2 DEF S
  <2>. QED
       BY <1>4, <2>3 DEF S
<1>. HIDE DEF row
<1>6. n \in 0..(StageSize(stage) - 1)
      BY <1>4, <1>5
<1>. HIDE DEF n
<1>7. v \in Int /\ PartSum(v, Byte(field[3])) \div field[2] = n
      BY <1>2, <1>6, StageSpells
<1>. HIDE DEF v
<1>8. drv.chip[field[1]] \cap Byte(field[3]) = Byte(v) \cap Byte(field[3])
      BY <1>3, WShown
<1>9. ByteValue(drv.chip[field[1]] \cap Byte(field[3])) = PartSum(v, Byte(field[3]))
      BY <1>7, <1>8, PartSpells
<1>10. ByteValue(drv.chip[field[1]] \cap Byte(field[3])) \div field[2] + 1 = row
       BY <1>5, <1>4, <1>7, <1>9 DEF n
<1>11. -1280 <= g[2] /\ g[2] <= 1279 => AbsDiff(10 * gain, g[2]) < 10
       BY <1>1, ByteGain
<1>12. stage \in DOMAIN IF_STAGE_GAIN /\ row \in DOMAIN gains
       BY <1>2, <1>4, <1>5, StageFields
<1>. DEFINE idx == ByteValue(drv.chip[field[1]] \cap Byte(field[3])) \div field[2] + 1
<1>13. idx \in DOMAIN gains /\ (-1280 <= g[2] /\ g[2] <= 1279 => AbsDiff(10 * gains[idx], g[2]) < 10)
  <2>1. idx = row
        BY <1>10
  <2>. HIDE DEF idx
  <2>. QED
       BY <2>1, <1>5, <1>11, <1>12
<1>. QED
     BY <1>12, <1>13, Zenon DEF StageSet, stage

(***************************************************************************)
(* After an Ok set_freq, and until the next call that tunes, the chip is   *)
(* programmed for the frequency, for every frequency and crystal of the    *)
(* assumption: whatever failed before it, and whatever was set after it,   *)
(* the registers spell the output divider and the quotient, the band, and  *)
(* the fraction that gives the frequency to within a step. The fraction of *)
(* an FC0012 or FC0013 is promised only for crystals up to 131.072 MHz,    *)
(* because above these their remainder no longer fits its 16 bits.         *)
(***************************************************************************)
THEOREM TunesHold == Spec => []TunesAsAsked
<1>1. IInv => TunesAsAsked
      BY TunesIs DEF TunesAsAsked
<1>. QED
     BY <1>1, Invariance, PTL

(***************************************************************************)
(* Filter, gain, gain mode and IF gains are in the chip as the last Ok     *)
(* calls set them, whatever other calls came since and whichever of these  *)
(* failed, though their fields share registers.                            *)
(***************************************************************************)
THEOREM SettingsHold == Spec => []SettingsAsAsked
<1>1. IInv => SettingsAsAsked
      BY BwIs, GainIs, ModeIs, StageIs DEF SettingsAsAsked
<1>. QED
     BY <1>1, Invariance, PTL
==============================================================================
