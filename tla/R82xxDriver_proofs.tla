------------------------ MODULE R82xxDriver_proofs ------------------------
(***************************************************************************)
(* What TLAPS proves of R82xxDriver, for any chips, frequencies,           *)
(* bandwidths, gains, fine tunes, calibration codes and numbers of faults: *)
(* that the inductive invariant IInv holds, and from it the six invariants *)
(* that TLC checks on a few of each.                                       *)
(*                                                                         *)
(* An operation is a tree of shadowed writes, any of which may fail or be  *)
(* skipped, so the lemmas go from one write to sequences of writes, to the *)
(* operations, to the calls, and say of every outcome: what it left alone  *)
(* (Untouched), that after an Ok call shadow and chip agree on what it     *)
(* touched (Follows), and that a failed call owes the chip no more than    *)
(* the same call would write again (Owed, Mends).                          *)
(***************************************************************************)
EXTENDS R82xxDriver, TunerRegisters_proofs, FiniteSetTheorems

(* States of the driver.                                                   *)
Registers == [Regs -> Bits]
Inputs == {0, HF, VHF, UHF, \h60}

Driver == [model : Chips, shadow : Registers, chip : Registers, upconv : BOOLEAN, intFreq : Nat,
           input : Inputs, faults : Nat, err : {"none", "usb", "tuner"}]

LEMMA ChipsKnown == Chips \subseteq {"R820T", "R828D", "BlogV4"}
BY DriverAssumption

LEMMA RegsInterval == Regs = 5..31
BY DEF Regs

(* A write of one register of the tuner.                                   *)
IsWrite(w) == w.reg \in Regs /\ w.val \in Bits /\ w.mask \in Bits

LEMMA MaskedType == ASSUME NEW old \in Bits, NEW w, IsWrite(w) PROVE Masked(old, w) \in Bits
BY DEF Masked, IsWrite, Bits

LEMMA MinInterval == ASSUME NEW a \in Int, NEW b \in Int, a <= b PROVE Min(a..b) = a
<1>1. a \in a..b /\ \A y \in a..b : a <= y
      OBVIOUS
<1>2. \A x \in a..b : (\A y \in a..b : x <= y) => x = a
      OBVIOUS
<1>. DEFINE x == Min(a..b)
<1>3. x \in a..b /\ \A y \in a..b : x <= y
      BY <1>1 DEF Min
<1>. QED
     BY <1>2, <1>3

LEMMA OverType ==
    ASSUME NEW old \in Registers, NEW regs \in SUBSET Regs, NEW vals,
           \A r \in regs : vals[r] \in Bits
    PROVE  Over(old, vals, regs) \in Registers
BY DEF Over, Registers

---------------------------------------------------------------------------
(* The three outcomes of a write of the bytes vals to the registers from a *)
(* to b: nothing, as the shadow has them; all of them written; and a fault *)
(* after which the chip has some of them and the shadow none.              *)
Skipped(s, vals, D, t) == t = s /\ \A r \in D : s.shadow[r] = vals[r]
Done(s, vals, D, t) ==
    t = [s EXCEPT !.chip = Over(s.chip, vals, D), !.shadow = Over(s.shadow, vals, D)]
Broken(s, vals, D, t) ==
    /\ ~\A r \in D : s.shadow[r] = vals[r]
    /\ s.faults > 0
    /\ \E c \in Registers :
          /\ \A r \in Regs : c[r] = s.chip[r] \/ (r \in D /\ c[r] = vals[r])
          /\ t = [s EXCEPT !.chip = c, !.faults = @ - 1, !.err = "usb"]

LEMMA WriteOutcome ==
    ASSUME NEW s \in Driver, NEW a \in Regs, NEW b \in Regs, a <= b,
           NEW vals \in [a..b -> Bits], NEW t \in Write(s, vals)
    PROVE  Skipped(s, vals, a..b, t) \/ Done(s, vals, a..b, t) \/ Broken(s, vals, a..b, t)
<1>. DEFINE D == a..b
            messages == (Cardinality(DOMAIN vals) + MaxData - 1) \div MaxData
            Having(n) == [s EXCEPT !.chip = Sent(s, vals, n)]
<1>1. a \in Int /\ b \in Int /\ D \subseteq Regs /\ DOMAIN vals = D
      BY RegsInterval
<1>2. Min(DOMAIN vals) = a
      BY <1>1, MinInterval
<1>3. Cardinality(D) = b - a + 1
      BY <1>1, FS_Interval
<1>4. messages \in Nat /\ a + messages * MaxData > b
      BY <1>1, <1>3 DEF MaxData
<1>. HIDE DEF messages
<1>5. ASSUME NEW n \in 0..messages
      PROVE  /\ Sent(s, vals, n) \in Registers
             /\ \A r \in Regs : Sent(s, vals, n)[r] = s.chip[r] \/ (r \in D /\ Sent(s, vals, n)[r] = vals[r])
  <2>. DEFINE regs == {r \in DOMAIN vals : r < a + n * MaxData}
  <2>1. Sent(s, vals, n) = Over(s.chip, vals, regs)
        BY <1>2 DEF Sent
  <2>2. regs \in SUBSET Regs /\ regs \subseteq D /\ s.chip \in Registers
        BY <1>1 DEF Driver
  <2>3. \A r \in regs : vals[r] \in Bits
        BY <1>1
  <2>. HIDE DEF regs
  <2>4. Sent(s, vals, n) \in Registers
        BY <2>1, <2>2, <2>3, OverType
  <2>. QED
       BY <2>1, <2>2, <2>4 DEF Over
<1>6. Sent(s, vals, messages) = Over(s.chip, vals, D)
  <2>. DEFINE regs == {r \in DOMAIN vals : r < a + messages * MaxData}
  <2>1. Sent(s, vals, messages) = Over(s.chip, vals, regs)
        BY <1>2 DEF Sent
  <2>2. regs = D
        BY <1>1, <1>4 DEF MaxData
  <2>. QED
       BY <2>1, <2>2
<1>7. CASE \A r \in DOMAIN vals : s.shadow[r] = vals[r]
  <2>1. t = s
        BY <1>7 DEF Write
  <2>. QED
       BY <2>1, <1>1, <1>7 DEF Skipped
<1>8. CASE ~\A r \in DOMAIN vals : s.shadow[r] = vals[r]
  <2>1. \/ t = [Having(messages) EXCEPT !.shadow = Stored(s, vals)]
        \/ t \in Faulty({Having(n) : n \in 0..messages})
        BY <1>8 DEF Write, messages
  <2>2. CASE t = [Having(messages) EXCEPT !.shadow = Stored(s, vals)]
    <3>1. Stored(s, vals) = Over(s.shadow, vals, D)
          BY <1>1 DEF Stored
    <3>2. t = [s EXCEPT !.chip = Over(s.chip, vals, D), !.shadow = Over(s.shadow, vals, D)]
          BY <2>2, <3>1, <1>6 DEF Driver
    <3>. QED
         BY <3>2 DEF Done
  <2>3. CASE t \in Faulty({Having(n) : n \in 0..messages})
    <3>1. PICK n \in 0..messages : Having(n).faults > 0 /\ t = [Having(n) EXCEPT !.faults = @ - 1, !.err = "usb"]
      <4>1. PICK u \in {Having(n) : n \in 0..messages} :
               u.faults > 0 /\ t = [u EXCEPT !.faults = @ - 1, !.err = "usb"]
            BY <2>3 DEF Faulty
      <4>2. PICK n \in 0..messages : u = Having(n)
            OBVIOUS
      <4>. QED
           BY <4>1, <4>2
    <3>. DEFINE c == Sent(s, vals, n)
    <3>2. c \in Registers /\ \A r \in Regs : c[r] = s.chip[r] \/ (r \in D /\ c[r] = vals[r])
          BY <1>5
    <3>. HIDE DEF c
    <3>3. s.faults > 0 /\ t = [s EXCEPT !.chip = c, !.faults = @ - 1, !.err = "usb"]
          BY <3>1 DEF Driver, c
    <3>. QED
         BY <1>1, <1>8, <3>2, <3>3 DEF Broken
  <2>. QED
       BY <2>1, <2>2, <2>3
<1>. QED
     BY <1>7, <1>8

---------------------------------------------------------------------------
(* One masked write. The register that it is of ...                        *)
New1(s, w) == Masked(s.shadow[w.reg], w)

(* ... and what it leaves: the shadow of it, and the chip wherever it was. *)
MaskSkipped(s, w, t) == t = s /\ s.shadow[w.reg] = New1(s, w)
MaskDone(s, w, t) ==
    t = [s EXCEPT !.chip = [@ EXCEPT ![w.reg] = New1(s, w)], !.shadow = [@ EXCEPT ![w.reg] = New1(s, w)]]
MaskBroken(s, w, t) ==
    /\ s.shadow[w.reg] # New1(s, w)
    /\ s.faults > 0
    /\ \E c \in Registers :
          /\ \A r \in Regs : r # w.reg => c[r] = s.chip[r]
          /\ t = [s EXCEPT !.chip = c, !.faults = @ - 1, !.err = "usb"]

LEMMA MaskOutcome ==
    ASSUME NEW s \in Driver, NEW w, IsWrite(w), NEW t \in WriteMask(s, w)
    PROVE  MaskSkipped(s, w, t) \/ MaskDone(s, w, t) \/ MaskBroken(s, w, t)
<1>. DEFINE reg == w.reg
            vals == [r \in {reg} |-> Masked(s.shadow[r], w)]
<1>1. reg \in Regs /\ reg \in Int
      BY RegsInterval DEF IsWrite
<1>2. s.shadow \in Registers /\ s.chip \in Registers
      BY DEF Driver
<1>3. New1(s, w) \in Bits
      BY <1>1, <1>2, MaskedType DEF New1, Registers
<1>4. reg..reg = {reg}
      BY <1>1
<1>5. vals \in [reg..reg -> Bits] /\ vals[reg] = New1(s, w)
      BY <1>3, <1>4 DEF New1
<1>6. t \in Write(s, vals)
      BY DEF WriteMask
<1>. HIDE DEF vals
<1>7. Skipped(s, vals, reg..reg, t) \/ Done(s, vals, reg..reg, t) \/ Broken(s, vals, reg..reg, t)
  <2>1. reg <= reg /\ vals \in [reg..reg -> Bits]
        BY <1>1, <1>5
  <2>. HIDE DEF reg
  <2>. QED
       BY <1>1, <1>6, <2>1, WriteOutcome
<1>8. ASSUME NEW old \in Registers PROVE Over(old, vals, {reg}) = [old EXCEPT ![reg] = New1(s, w)]
      BY <1>1, <1>5 DEF Over, Registers
<1>9. CASE Skipped(s, vals, reg..reg, t)
      BY <1>9, <1>4, <1>5 DEF Skipped, MaskSkipped
<1>10. CASE Done(s, vals, reg..reg, t)
  <2>1. t = [s EXCEPT !.chip = Over(s.chip, vals, {reg}), !.shadow = Over(s.shadow, vals, {reg})]
        BY <1>10, <1>4 DEF Done
  <2>. QED
       BY <2>1, <1>2, <1>8 DEF MaskDone
<1>11. CASE Broken(s, vals, reg..reg, t)
  <2>1. PICK c \in Registers :
           /\ \A r \in Regs : c[r] = s.chip[r] \/ (r \in reg..reg /\ c[r] = vals[r])
           /\ t = [s EXCEPT !.chip = c, !.faults = @ - 1, !.err = "usb"]
        BY <1>11 DEF Broken
  <2>2. \A r \in Regs : r # reg => c[r] = s.chip[r]
        BY <2>1, <1>4
  <2>3. s.faults > 0 /\ s.shadow[reg] # New1(s, w)
        BY <1>11, <1>4, <1>5 DEF Broken
  <2>. QED
       BY <2>1, <2>2, <2>3 DEF MaskBroken
<1>. QED
     BY <1>7, <1>9, <1>10, <1>11

---------------------------------------------------------------------------
(* A sequence of writes. The calls' sequences of outcomes exist, ...       *)
Runs(s, writes, n, at) ==
    at = [i \in 0..n |-> IF i = 0 THEN {s} ELSE Then(at[i - 1], LAMBDA t : WriteMask(t, writes[i]))]

LEMMA RunsExist == ASSUME NEW s, NEW writes, NEW n \in Nat PROVE \E at : Runs(s, writes, n, at)
<1>. DEFINE P == {m \in Nat : \E at : Runs(s, writes, m, at)}
<1>1. 0 \in P
  <2>. DEFINE at == [i \in 0..0 |-> {s}]
  <2>1. Runs(s, writes, 0, at)
        BY DEF Runs
  <2>. QED
       BY <2>1
<1>2. ASSUME NEW m \in Nat, m \in P PROVE m + 1 \in P
  <2>1. PICK at : Runs(s, writes, m, at)
        BY <1>2
  <2>. DEFINE Step(S, i) == Then(S, LAMBDA t : WriteMask(t, writes[i]))
              g == [i \in 0..(m + 1) |-> IF i = m + 1 THEN Step(at[m], m + 1) ELSE at[i]]
  <2>2. g = [i \in 0..(m + 1) |-> IF i = 0 THEN {s} ELSE Step(g[i - 1], i)]
    <3>1. ASSUME NEW i \in 0..(m + 1) PROVE g[i] = IF i = 0 THEN {s} ELSE Step(g[i - 1], i)
      <4>0. \A j \in 0..m : at[j] = IF j = 0 THEN {s} ELSE Step(at[j - 1], j)
            BY <2>1 DEF Runs
      <4>. HIDE DEF Step
      <4>1. CASE i = m + 1
            BY <4>1
      <4>2. CASE i # m + 1
        <5>1. i \in 0..m /\ (i # 0 => i - 1 \in 0..m /\ i - 1 # m + 1)
              BY <4>2
        <5>2. at[i] = IF i = 0 THEN {s} ELSE Step(at[i - 1], i)
              BY <4>0, <5>1
        <5>3. g[i] = at[i] /\ (i # 0 => g[i - 1] = at[i - 1])
              BY <4>2, <5>1
        <5>. QED
             BY <5>2, <5>3
      <4>. QED
           BY <4>1, <4>2
    <3>. QED
         BY <3>1
  <2>3. Runs(s, writes, m + 1, g)
        BY <2>2 DEF Runs
  <2>. QED
       BY <2>3
<1>3. Nat \subseteq P
      BY <1>1, <1>2, NatSetInduction
<1>. QED
     BY <1>3

(* ... so that what holds of the state before and is kept by each write    *)
(* holds of every outcome, after as many writes as it has done.            *)
LEMMA RunInduct ==
    ASSUME NEW s, NEW writes, Len(writes) \in Nat, NEW P, <<0, s>> \in P,
           \A i \in 1..Len(writes) : \A u, t :
              <<i - 1, u>> \in P /\ u.err = "none" /\ t \in WriteMask(u, writes[i]) => <<i, t>> \in P,
           NEW t \in Run(s, writes)
    PROVE  \E i \in 0..Len(writes) : <<i, t>> \in P /\ (i = Len(writes) \/ t.err # "none")
<1>. DEFINE n == Len(writes)
            at == CHOOSE f : Runs(s, writes, n, f)
            Ends(m, u) == \E i \in 0..m : <<i, u>> \in P /\ (i = m \/ u.err # "none")
<1>1. Runs(s, writes, n, at)
      BY RunsExist
<1>2. t \in at[n]
      BY DEF Run, Runs
<1>. HIDE DEF at
<1>. DEFINE Q == {m \in Nat : m <= n => \A u \in at[m] : Ends(m, u)}
<1>3. 0 \in Q
  <2>1. at[0] = {s}
        BY <1>1 DEF Runs
  <2>. QED
       BY <2>1
<1>4. ASSUME NEW m \in Nat, m \in Q PROVE m + 1 \in Q
  <2>1. SUFFICES ASSUME m + 1 <= n, NEW u \in at[m + 1] PROVE Ends(m + 1, u)
        OBVIOUS
  <2>. DEFINE Step(S, i) == Then(S, LAMBDA v : WriteMask(v, writes[i]))
  <2>0. \A j \in 0..n : at[j] = IF j = 0 THEN {s} ELSE Step(at[j - 1], j)
        BY <1>1 DEF Runs
  <2>2. at[m + 1] = Step(at[m], m + 1)
    <3>. HIDE DEF Step
    <3>1. m + 1 \in 0..n /\ m + 1 # 0 /\ (m + 1) - 1 = m
          BY <2>1
    <3>. QED
         BY <2>0, <3>1
  <2>3. \/ u \in at[m] /\ u.err # "none"
        \/ \E v \in at[m] : v.err = "none" /\ u \in WriteMask(v, writes[m + 1])
        BY <2>2 DEF Then, Succeeded
  <2>4. CASE u \in at[m] /\ u.err # "none"
        BY <2>4, <1>4, <2>1
  <2>5. CASE \E v \in at[m] : v.err = "none" /\ u \in WriteMask(v, writes[m + 1])
    <3>1. PICK v \in at[m] : v.err = "none" /\ u \in WriteMask(v, writes[m + 1])
          BY <2>5
    <3>2. <<m, v>> \in P
      <4>1. m <= n
            BY <2>1
      <4>2. Ends(m, v)
            BY <4>1, <3>1, <1>4
      <4>3. PICK i \in 0..m : <<i, v>> \in P /\ (i = m \/ v.err # "none")
            BY <4>2
      <4>. QED
           BY <3>1, <4>3
    <3>3. m + 1 \in 1..n /\ (m + 1) - 1 = m
          BY <2>1
    <3>4. <<m + 1, u>> \in P
          BY <3>1, <3>2, <3>3
    <3>. QED
         BY <3>4
  <2>. QED
       BY <2>3, <2>4, <2>5
<1>5. n \in Q
      BY <1>3, <1>4, NatSetInduction
<1>. QED
     BY <1>2, <1>5

---------------------------------------------------------------------------
(* What an operation of the driver leaves: the model and the antenna's     *)
(* fields are as before, ...                                               *)
Same(s, t) == t \in Driver /\ t.model = s.model /\ t.upconv = s.upconv /\ t.input = s.input

(* ... it went well, or it failed and used up a fault, ...                 *)
Went(s, t) == t.err = "none" /\ t.faults = s.faults
Broke(s, t) == t.err = "usb" /\ t.faults < s.faults

(* ... and when it went well every register that it touched is the same in *)
(* shadow and chip.                                                        *)
Follows(s, t) ==
    \A r \in Regs : \/ t.chip[r] = t.shadow[r]
                    \/ t.chip[r] = s.chip[r] /\ t.shadow[r] = s.shadow[r]

IsList(writes) == Len(writes) \in Nat /\ \A i \in 1..Len(writes) : IsWrite(writes[i])

LEMMA FollowsTrans ==
    ASSUME NEW s, NEW t, NEW u, Follows(s, t), Follows(t, u)
    PROVE  Follows(s, u)
BY DEF Follows

LEMMA FollowsSelf == ASSUME NEW s PROVE Follows(s, s)
BY DEF Follows

LEMMA MaskDoneShape ==
    ASSUME NEW s \in Driver, NEW w, IsWrite(w), NEW t, MaskDone(s, w, t)
    PROVE  /\ Same(s, t) /\ t.err = s.err /\ t.faults = s.faults
           /\ t.chip[w.reg] = New1(s, w) /\ t.shadow[w.reg] = New1(s, w)
           /\ \A r \in Regs : r # w.reg => t.chip[r] = s.chip[r] /\ t.shadow[r] = s.shadow[r]
<1>1. w.reg \in Regs /\ s.shadow \in Registers /\ s.chip \in Registers
      BY DEF IsWrite, Driver
<1>2. New1(s, w) \in Bits
      BY <1>1, MaskedType DEF New1, Registers
<1>. DEFINE c == [s.chip EXCEPT ![w.reg] = New1(s, w)]
            h == [s.shadow EXCEPT ![w.reg] = New1(s, w)]
<1>3. c \in Registers /\ h \in Registers
      BY <1>1, <1>2 DEF Registers
<1>4. /\ c[w.reg] = New1(s, w) /\ h[w.reg] = New1(s, w)
      /\ \A r \in Regs : r # w.reg => c[r] = s.chip[r] /\ h[r] = s.shadow[r]
      BY <1>1 DEF Registers
<1>5. t = [s EXCEPT !.chip = c, !.shadow = h]
      BY DEF MaskDone
<1>. HIDE DEF c, h
<1>6. t \in Driver /\ t.chip = c /\ t.shadow = h
      BY <1>3, <1>5 DEF Driver
<1>7. Same(s, t) /\ t.err = s.err /\ t.faults = s.faults
      BY <1>5, <1>6 DEF Driver, Same
<1>. QED
     BY <1>4, <1>6, <1>7

LEMMA MaskBrokenShape ==
    ASSUME NEW s \in Driver, NEW w, IsWrite(w), NEW t, MaskBroken(s, w, t)
    PROVE  /\ Same(s, t) /\ t.err = "usb" /\ t.faults < s.faults /\ t.shadow = s.shadow
           /\ \A r \in Regs : r # w.reg => t.chip[r] = s.chip[r]
<1>1. PICK c \in Registers :
           /\ \A r \in Regs : r # w.reg => c[r] = s.chip[r]
           /\ t = [s EXCEPT !.chip = c, !.faults = @ - 1, !.err = "usb"]
      BY DEF MaskBroken
<1>2. s.faults \in Nat /\ s.faults > 0
      BY DEF MaskBroken, Driver
<1>. DEFINE f == s.faults - 1
<1>f. f \in Nat /\ f < s.faults /\ t = [s EXCEPT !.chip = c, !.faults = f, !.err = "usb"]
      BY <1>1, <1>2
<1>. HIDE DEF f
<1>3. t \in Driver /\ t.chip = c /\ t.shadow = s.shadow
      BY <1>f DEF Driver
<1>4. Same(s, t) /\ t.err = "usb" /\ t.faults < s.faults
      BY <1>f, <1>3 DEF Driver, Same
<1>. QED
     BY <1>1, <1>3, <1>4

LEMMA MaskSame ==
    ASSUME NEW s \in Driver, s.err = "none", NEW w, IsWrite(w), NEW t \in WriteMask(s, w)
    PROVE  Same(s, t) /\ ((Went(s, t) /\ Follows(s, t)) \/ Broke(s, t))
<1>1. MaskSkipped(s, w, t) \/ MaskDone(s, w, t) \/ MaskBroken(s, w, t)
      BY MaskOutcome
<1>2. CASE MaskSkipped(s, w, t)
      BY <1>2, FollowsSelf DEF MaskSkipped, Same, Went
<1>3. CASE MaskDone(s, w, t)
      BY <1>3, MaskDoneShape DEF Follows, Went
<1>4. CASE MaskBroken(s, w, t)
      BY <1>4, MaskBrokenShape DEF Broke
<1>. QED
     BY <1>1, <1>2, <1>3, <1>4

LEMMA SameTrans == ASSUME NEW s, NEW t, NEW u, Same(s, t), Same(t, u) PROVE Same(s, u)
BY DEF Same

LEMMA RunSame ==
    ASSUME NEW s \in Driver, s.err = "none", NEW writes, IsList(writes), NEW t \in Run(s, writes)
    PROVE  Same(s, t) /\ ((Went(s, t) /\ Follows(s, t)) \/ Broke(s, t))
<1>. DEFINE R(u) == Same(s, u) /\ ((Went(s, u) /\ Follows(s, u)) \/ Broke(s, u))
            P == {x \in Nat \X Driver : R(x[2])}
<1>1. Len(writes) \in Nat
      BY DEF IsList
<1>2. <<0, s>> \in P
      BY FollowsSelf DEF Same, Went
<1>3. ASSUME NEW i \in 1..Len(writes), NEW u, NEW v,
             <<i - 1, u>> \in P, u.err = "none", v \in WriteMask(u, writes[i])
      PROVE  <<i, v>> \in P
  <2>1. u \in Driver /\ Same(s, u) /\ Went(s, u) /\ Follows(s, u)
        BY <1>3 DEF Broke, Went
  <2>2. Same(u, v) /\ ((Went(u, v) /\ Follows(u, v)) \/ Broke(u, v))
        BY <1>3, <2>1, MaskSame DEF IsList
  <2>3. Same(s, v)
        BY <2>1, <2>2, SameTrans
  <2>4. Went(u, v) /\ Follows(u, v) => Went(s, v) /\ Follows(s, v)
        BY <2>1, FollowsTrans DEF Went
  <2>5. Broke(u, v) => Broke(s, v)
        BY <2>1 DEF Went, Broke
  <2>. QED
       BY <2>2, <2>3, <2>4, <2>5, <1>1 DEF Same
<1>4. PICK i \in 0..Len(writes) : <<i, t>> \in P
  <2>. HIDE DEF P
  <2>. QED
       BY <1>1, <1>2, <1>3, RunInduct
<1>. QED
     BY <1>4

---------------------------------------------------------------------------
(* What the retry of a failed call relies on: where shadow and chip differ *)
(* one of the writes Due would change the shadow, so it is not skipped.    *)
Owed(s, Due) ==
    \A r \in Regs : \/ s.chip[r] = s.shadow[r]
                    \/ \E w \in Due : w.reg = r /\ s.shadow[r] # Masked(s.shadow[r], w)

Writes(list) == {list[i] : i \in 1..Len(list)}

LEMMA OwedNothing == ASSUME NEW s \in Driver PROVE Owed(s, {}) <=> s.shadow = s.chip
BY DEF Owed, Driver, Registers

LEMMA OwedFollows ==
    ASSUME NEW s, NEW t, NEW Due, Owed(s, Due), Follows(s, t)
    PROVE  Owed(t, Due)
BY DEF Owed, Follows

LEMMA MaskPays ==
    ASSUME NEW s \in Driver, s.err = "none", NEW w, IsWrite(w), NEW Due, Owed(s, Due \cup {w}),
           NEW t \in WriteMask(s, w), t.err = "none"
    PROVE  Owed(t, Due)
<1>1. MaskSkipped(s, w, t) \/ MaskDone(s, w, t) \/ MaskBroken(s, w, t)
      BY MaskOutcome
<1>2. CASE MaskSkipped(s, w, t)
      BY <1>2 DEF MaskSkipped, Owed, New1
<1>3. CASE MaskDone(s, w, t)
  <2>1. /\ t.chip[w.reg] = t.shadow[w.reg]
        /\ \A r \in Regs : r # w.reg => t.chip[r] = s.chip[r] /\ t.shadow[r] = s.shadow[r]
        BY <1>3, MaskDoneShape
  <2>. QED
       BY <2>1 DEF Owed
<1>4. CASE MaskBroken(s, w, t)
      BY <1>4, MaskBrokenShape
<1>. QED
     BY <1>1, <1>2, <1>3, <1>4

LEMMA MaskOwes ==
    ASSUME NEW s \in Driver, s.err = "none", Owed(s, {}), NEW w, IsWrite(w),
           NEW t \in WriteMask(s, w), t.err # "none"
    PROVE  Owed(t, {w})
<1>1. MaskSkipped(s, w, t) \/ MaskDone(s, w, t) \/ MaskBroken(s, w, t)
      BY MaskOutcome
<1>2. MaskBroken(s, w, t)
      BY <1>1, MaskDoneShape DEF MaskSkipped
<1>3. t.shadow = s.shadow /\ \A r \in Regs : r # w.reg => t.chip[r] = s.chip[r]
      BY <1>2, MaskBrokenShape
<1>4. s.shadow[w.reg] # Masked(s.shadow[w.reg], w)
      BY <1>2 DEF MaskBroken, New1
<1>. QED
     BY <1>3, <1>4 DEF Owed

LEMMA RunPays ==
    ASSUME NEW s \in Driver, s.err = "none", NEW writes, IsList(writes), NEW Due,
           Owed(s, Due \cup Writes(writes)), NEW t \in Run(s, writes), t.err = "none"
    PROVE  Owed(t, Due)
<1>. DEFINE Rest(i) == {writes[j] : j \in (i + 1)..Len(writes)}
            P == {x \in Nat \X Driver : x[2].err = "none" => Owed(x[2], Due \cup Rest(x[1]))}
<1>1. Len(writes) \in Nat
      BY DEF IsList
<1>2. <<0, s>> \in P
  <2>1. Rest(0) = Writes(writes)
        BY DEF Writes
  <2>. QED
       BY <2>1
<1>3. ASSUME NEW i \in 1..Len(writes), NEW u, NEW v,
             <<i - 1, u>> \in P, u.err = "none", v \in WriteMask(u, writes[i])
      PROVE  <<i, v>> \in P
  <2>1. u \in Driver /\ Owed(u, Due \cup Rest(i - 1)) /\ IsWrite(writes[i])
        BY <1>3 DEF IsList
  <2>2. Rest(i - 1) = Rest(i) \cup {writes[i]}
    <3>1. ((i - 1) + 1)..Len(writes) = ((i + 1)..Len(writes)) \cup {i}
          BY <1>1
    <3>. QED
         BY <3>1
  <2>. HIDE DEF Rest
  <2>3. Due \cup Rest(i - 1) = (Due \cup Rest(i)) \cup {writes[i]}
        BY <2>2
  <2>. DEFINE WW == Due \cup Rest(i)
  <2>4. v.err = "none" => Owed(v, WW)
    <3>. SUFFICES ASSUME v.err = "none" PROVE Owed(v, WW)
         OBVIOUS
    <3>1. Owed(u, WW \cup {writes[i]})
          BY <2>1, <2>3
    <3>. HIDE DEF WW
    <3>. QED
         BY <1>3, <2>1, <3>1, MaskPays
  <2>5. v \in Driver
        BY <1>3, <2>1, MaskSame DEF Same
  <2>6. i \in Nat
        BY <1>1
  <2>. QED
       BY <2>4, <2>5, <2>6
<1>4. PICK i \in 0..Len(writes) : <<i, t>> \in P /\ (i = Len(writes) \/ t.err # "none")
  <2>. HIDE DEF P
  <2>. QED
       BY <1>1, <1>2, <1>3, RunInduct
<1>5. i = Len(writes) /\ Owed(t, Due \cup Rest(i))
      BY <1>4
<1>6. Rest(Len(writes)) = {}
      BY <1>1
<1>. HIDE DEF Rest
<1>. QED
     BY <1>5, <1>6

LEMMA RunOwes ==
    ASSUME NEW s \in Driver, s.err = "none", s.shadow = s.chip, NEW writes, IsList(writes),
           NEW t \in Run(s, writes), t.err # "none"
    PROVE  Owed(t, Writes(writes))
<1>. DEFINE P == {x \in Nat \X Driver : /\ x[2].err = "none" => Owed(x[2], {})
                                        /\ x[2].err # "none" => Owed(x[2], Writes(writes))}
<1>1. Len(writes) \in Nat
      BY DEF IsList
<1>2. <<0, s>> \in P
      BY OwedNothing
<1>3. ASSUME NEW i \in 1..Len(writes), NEW u, NEW v,
             <<i - 1, u>> \in P, u.err = "none", v \in WriteMask(u, writes[i])
      PROVE  <<i, v>> \in P
  <2>1. u \in Driver /\ Owed(u, {}) /\ IsWrite(writes[i])
        BY <1>3 DEF IsList
  <2>2. v \in Driver /\ i \in Nat
        BY <1>1, <1>3, <2>1, MaskSame DEF Same
  <2>3. CASE v.err = "none"
    <3>1. {} \cup {writes[i]} = {writes[i]} /\ Owed(u, {} \cup {writes[i]})
          BY <2>1 DEF Owed
    <3>2. Owed(v, {})
          BY <1>3, <2>1, <2>3, <3>1, MaskPays
    <3>. QED
         BY <2>2, <2>3, <3>2
  <2>4. CASE v.err # "none"
    <3>1. Owed(v, {writes[i]})
          BY <1>3, <2>1, <2>4, MaskOwes
    <3>2. writes[i] \in Writes(writes)
          BY DEF Writes
    <3>3. Owed(v, Writes(writes))
          BY <3>1, <3>2 DEF Owed
    <3>. QED
         BY <2>2, <2>4, <3>3
  <2>. QED
       BY <2>3, <2>4
<1>4. PICK i \in 0..Len(writes) : <<i, t>> \in P
  <2>. HIDE DEF P
  <2>. QED
       BY <1>1, <1>2, <1>3, RunInduct
<1>. QED
     BY <1>4

---------------------------------------------------------------------------
(* Bits of the shadow. A bit that no write of a sequence touches keeps its *)
(* value, however the sequence ends, ...                                   *)
On(s, r, b) == b \in s.shadow[r]

LEMMA MaskKeeps ==
    ASSUME NEW s \in Driver, s.err = "none", NEW w, IsWrite(w), NEW t \in WriteMask(s, w),
           NEW r \in Regs, NEW b, ~Touches(w, r, b)
    PROVE  On(t, r, b) <=> On(s, r, b)
<1>1. MaskSkipped(s, w, t) \/ MaskDone(s, w, t) \/ MaskBroken(s, w, t)
      BY MaskOutcome
<1>2. CASE MaskSkipped(s, w, t)
      BY <1>2 DEF MaskSkipped, On
<1>3. CASE MaskDone(s, w, t)
  <2>1. /\ t.shadow[w.reg] = New1(s, w)
        /\ \A q \in Regs : q # w.reg => t.shadow[q] = s.shadow[q]
        BY <1>3, MaskDoneShape
  <2>. QED
       BY <2>1 DEF On, New1, Masked, Touches
<1>4. CASE MaskBroken(s, w, t)
      BY <1>4, MaskBrokenShape DEF On
<1>. QED
     BY <1>1, <1>2, <1>3, <1>4

(* ... and one that is touched has the value of the last write that did.   *)
LEMMA MaskSets ==
    ASSUME NEW s \in Driver, s.err = "none", NEW w, IsWrite(w), NEW t \in WriteMask(s, w),
           t.err = "none", NEW r \in Regs, NEW b, Touches(w, r, b)
    PROVE  On(t, r, b) <=> b \in w.val
<1>1. MaskSkipped(s, w, t) \/ MaskDone(s, w, t) \/ MaskBroken(s, w, t)
      BY MaskOutcome
<1>2. CASE MaskSkipped(s, w, t)
      BY <1>2 DEF MaskSkipped, On, New1, Masked, Touches
<1>3. CASE MaskDone(s, w, t)
      BY <1>3, MaskDoneShape DEF On, New1, Masked, Touches
<1>4. CASE MaskBroken(s, w, t)
      BY <1>4, MaskBrokenShape
<1>. QED
     BY <1>1, <1>2, <1>3, <1>4

LEMMA RunKeeps ==
    ASSUME NEW s \in Driver, s.err = "none", NEW writes, IsList(writes), NEW t \in Run(s, writes),
           NEW r \in Regs, NEW b, \A i \in 1..Len(writes) : ~Touches(writes[i], r, b)
    PROVE  On(t, r, b) <=> On(s, r, b)
<1>. DEFINE P == {x \in Nat \X Driver : On(x[2], r, b) <=> On(s, r, b)}
<1>1. Len(writes) \in Nat
      BY DEF IsList
<1>2. <<0, s>> \in P
      OBVIOUS
<1>3. ASSUME NEW i \in 1..Len(writes), NEW u, NEW v,
             <<i - 1, u>> \in P, u.err = "none", v \in WriteMask(u, writes[i])
      PROVE  <<i, v>> \in P
  <2>1. u \in Driver /\ (On(u, r, b) <=> On(s, r, b)) /\ IsWrite(writes[i])
        BY <1>3 DEF IsList
  <2>2. v \in Driver /\ i \in Nat
        BY <1>1, <1>3, <2>1, MaskSame DEF Same
  <2>3. On(v, r, b) <=> On(u, r, b)
        BY <1>3, <2>1, MaskKeeps
  <2>. QED
       BY <2>1, <2>2, <2>3
<1>4. PICK i \in 0..Len(writes) : <<i, t>> \in P
  <2>. HIDE DEF P
  <2>. QED
       BY <1>1, <1>2, <1>3, RunInduct
<1>. QED
     BY <1>4

LEMMA RunSets ==
    ASSUME NEW s \in Driver, s.err = "none", NEW writes, IsList(writes), NEW t \in Run(s, writes),
           t.err = "none", NEW r \in Regs, NEW b, NEW k \in 1..Len(writes), Touches(writes[k], r, b),
           \A i \in (k + 1)..Len(writes) : ~Touches(writes[i], r, b)
    PROVE  On(t, r, b) <=> b \in writes[k].val
<1>. DEFINE P == {x \in Nat \X Driver :
                     x[1] >= k /\ x[2].err = "none" => (On(x[2], r, b) <=> b \in writes[k].val)}
<1>1. Len(writes) \in Nat /\ k \in Nat /\ k > 0
      BY DEF IsList
<1>2. <<0, s>> \in P
      BY <1>1
<1>3. ASSUME NEW i \in 1..Len(writes), NEW u, NEW v,
             <<i - 1, u>> \in P, u.err = "none", v \in WriteMask(u, writes[i])
      PROVE  <<i, v>> \in P
  <2>1. u \in Driver /\ IsWrite(writes[i])
        BY <1>3 DEF IsList
  <2>2. v \in Driver /\ i \in Nat
        BY <1>1, <1>3, <2>1, MaskSame DEF Same
  <2>3. CASE i < k
        BY <1>1, <2>2, <2>3
  <2>4. CASE i = k
    <3>1. v.err = "none" => (On(v, r, b) <=> b \in writes[k].val)
          BY <1>3, <2>1, <2>4, MaskSets
    <3>. QED
         BY <2>2, <3>1
  <2>5. CASE i > k
    <3>1. i \in (k + 1)..Len(writes) /\ i - 1 >= k
          BY <1>1, <2>2, <2>5
    <3>2. On(u, r, b) <=> b \in writes[k].val
          BY <1>3, <3>1
    <3>3. On(v, r, b) <=> On(u, r, b)
          BY <1>3, <2>1, <3>1, MaskKeeps
    <3>. QED
         BY <2>2, <3>2, <3>3
  <2>. QED
       BY <1>1, <2>2, <2>3, <2>4, <2>5
<1>4. PICK i \in 0..Len(writes) : <<i, t>> \in P /\ (i = Len(writes) \/ t.err # "none")
  <2>. HIDE DEF P
  <2>. QED
       BY <1>1, <1>2, <1>3, RunInduct
<1>5. i = Len(writes) /\ i >= k
      BY <1>1, <1>4
<1>. QED
     BY <1>4, <1>5

---------------------------------------------------------------------------
(* Operations are put together from outcomes.                              *)
Outcome(s, t) ==
    /\ Same(s, t)
    /\ \/ t.err # "usb" /\ t.faults = s.faults /\ Follows(s, t)
       \/ Broke(s, t)

(* Bits outside of T, pairs of a register and a bit, are as they were.     *)
Untouched(s, t, T) ==
    \A r \in Regs, b \in 0..7 : <<r, b>> \notin T => (On(t, r, b) <=> On(s, r, b))

LEMMA OutcomeTrans ==
    ASSUME NEW s, NEW u, NEW t, Outcome(s, u), u.err = "none", Outcome(u, t)
    PROVE  Outcome(s, t)
<1>1. Same(s, t)
      BY SameTrans DEF Outcome
<1>2. u.faults = s.faults /\ Follows(s, u)
      BY DEF Outcome, Broke
<1>3. CASE t.err # "usb" /\ t.faults = u.faults /\ Follows(u, t)
      BY <1>1, <1>2, <1>3, FollowsTrans DEF Outcome
<1>4. CASE Broke(u, t)
      BY <1>1, <1>2, <1>4 DEF Outcome, Broke
<1>. QED
     BY <1>3, <1>4 DEF Outcome

LEMMA UntouchedTrans ==
    ASSUME NEW s, NEW u, NEW t, NEW T, Untouched(s, u, T), Untouched(u, t, T)
    PROVE  Untouched(s, t, T)
BY DEF Untouched

LEMMA RunOutcome ==
    ASSUME NEW s \in Driver, s.err = "none", NEW writes, IsList(writes), NEW t \in Run(s, writes)
    PROVE  Outcome(s, t) /\ t.err \in {"none", "usb"}
BY RunSame DEF Outcome, Went, Broke

LEMMA RunUntouched ==
    ASSUME NEW s \in Driver, s.err = "none", NEW writes, IsList(writes), NEW t \in Run(s, writes),
           NEW T, Covers(T, writes)
    PROVE  Untouched(s, t, T)
<1>1. SUFFICES ASSUME NEW r \in Regs, NEW b \in 0..7, <<r, b>> \notin T
               PROVE  On(t, r, b) <=> On(s, r, b)
      BY DEF Untouched
<1>2. \A i \in 1..Len(writes) : ~Touches(writes[i], r, b)
      BY <1>1 DEF Covers, Touches
<1>. QED
     BY <1>2, RunKeeps

LEMMA ReadOutcome ==
    ASSUME NEW s \in Driver, s.err = "none", NEW t \in Read(s)
    PROVE  /\ Outcome(s, t) /\ t.err \in {"none", "usb"} /\ t.shadow = s.shadow /\ t.chip = s.chip
           /\ t.err = "none" => t = s
<1>1. CASE t = s
      BY <1>1, FollowsSelf DEF Outcome, Same
<1>2. CASE t # s
  <2>1. s.faults > 0 /\ t = [s EXCEPT !.faults = @ - 1, !.err = "usb"]
        BY <1>2 DEF Read, Faulty
  <2>. DEFINE f == s.faults - 1
  <2>2. f \in Nat /\ f < s.faults /\ t = [s EXCEPT !.faults = f, !.err = "usb"]
        BY <2>1 DEF Driver
  <2>. HIDE DEF f
  <2>3. t \in Driver
        BY <2>2 DEF Driver
  <2>. QED
       BY <2>2, <2>3 DEF Driver, Outcome, Same, Broke
<1>. QED
     BY <1>1, <1>2

LEMMA RefuseOutcome ==
    ASSUME NEW s \in Driver, s.err = "none", NEW t \in Refuse(s)
    PROVE  Outcome(s, t) /\ t.err = "tuner" /\ t.shadow = s.shadow
<1>1. t = [s EXCEPT !.err = "tuner"]
      BY DEF Refuse
<1>2. t \in Driver
      BY <1>1 DEF Driver
<1>. QED
     BY <1>1, <1>2 DEF Driver, Outcome, Same, Follows

LEMMA WriteSame ==
    ASSUME NEW s \in Driver, s.err = "none", NEW a \in Regs, NEW b \in Regs, a <= b,
           NEW vals \in [a..b -> Bits], NEW t \in Write(s, vals)
    PROVE  /\ Outcome(s, t) /\ t.err \in {"none", "usb"}
           /\ \A r \in Regs : r \notin a..b => t.shadow[r] = s.shadow[r]
           /\ t.err = "none" => \A r \in a..b : t.shadow[r] = vals[r]
<1>. DEFINE D == a..b
<1>1. Skipped(s, vals, D, t) \/ Done(s, vals, D, t) \/ Broken(s, vals, D, t)
      BY WriteOutcome
<1>2. D \subseteq Regs /\ \A r \in D : vals[r] \in Bits
      BY RegsInterval
<1>. HIDE DEF D
<1>3. CASE Skipped(s, vals, D, t)
      BY <1>3, FollowsSelf DEF Skipped, Outcome, Same, D
<1>4. CASE Done(s, vals, D, t)
  <2>. DEFINE c == Over(s.chip, vals, D)
              h == Over(s.shadow, vals, D)
  <2>1. c \in Registers /\ h \in Registers
        BY <1>2, OverType DEF Driver
  <2>2. \A r \in Regs : IF r \in D THEN c[r] = vals[r] /\ h[r] = vals[r]
                                   ELSE c[r] = s.chip[r] /\ h[r] = s.shadow[r]
        BY DEF Over
  <2>3. t = [s EXCEPT !.chip = c, !.shadow = h]
        BY <1>4 DEF Done
  <2>. HIDE DEF c, h
  <2>4. t \in Driver /\ t.chip = c /\ t.shadow = h
        BY <2>1, <2>3 DEF Driver
  <2>5. Same(s, t) /\ t.err = "none" /\ t.faults = s.faults
        BY <2>3, <2>4 DEF Driver, Same
  <2>6. Follows(s, t)
        BY <2>2, <2>4 DEF Follows
  <2>. QED
       BY <1>2, <2>2, <2>4, <2>5, <2>6 DEF Outcome, D
<1>5. CASE Broken(s, vals, D, t)
  <2>1. PICK c \in Registers : t = [s EXCEPT !.chip = c, !.faults = @ - 1, !.err = "usb"]
        BY <1>5 DEF Broken
  <2>. DEFINE f == s.faults - 1
  <2>2. f \in Nat /\ f < s.faults /\ t = [s EXCEPT !.chip = c, !.faults = f, !.err = "usb"]
        BY <1>5, <2>1 DEF Driver, Broken
  <2>. HIDE DEF f
  <2>3. t \in Driver /\ t.shadow = s.shadow
        BY <2>2 DEF Driver
  <2>4. Same(s, t) /\ Broke(s, t)
        BY <2>2, <2>3 DEF Driver, Same, Broke
  <2>. QED
       BY <2>3, <2>4 DEF Outcome, Broke
<1>. QED
     BY <1>1, <1>3, <1>4, <1>5

---------------------------------------------------------------------------
LEMMA WType ==
    ASSUME NEW r, NEW v, NEW m
    PROVE  /\ W(r, v, m).reg = r /\ W(r, v, m).val = Byte(v) /\ W(r, v, m).mask = Byte(m)
           /\ r \in Regs => IsWrite(W(r, v, m))
BY ByteType DEF W, IsWrite

LEMMA UntouchedReg ==
    ASSUME NEW s \in Driver, NEW t \in Driver, NEW T, Untouched(s, t, T), NEW r \in Regs,
           \A b \in 0..7 : <<r, b>> \notin T
    PROVE  t.shadow[r] = s.shadow[r]
<1>1. s.shadow[r] \in Bits /\ t.shadow[r] \in Bits
      BY DEF Driver, Registers
<1>2. \A b \in 0..7 : b \in t.shadow[r] <=> b \in s.shadow[r]
      BY DEF Untouched, On
<1>. QED
     BY <1>1, <1>2 DEF Bits

LEMMA UntouchedMore ==
    ASSUME NEW s, NEW t, NEW T, NEW TT, T \subseteq TT, Untouched(s, t, T)
    PROVE  Untouched(s, t, TT)
BY DEF Untouched

LEMMA UntouchedSame == ASSUME NEW s, NEW t, NEW T, t.shadow = s.shadow PROVE Untouched(s, t, T)
BY DEF Untouched, On

(* A sequence of one write.                                                *)
LEMMA ListOne ==
    ASSUME NEW w, IsWrite(w)
    PROVE  IsList(<<w>>) /\ \A T : (\A b \in w.mask : <<w.reg, b>> \in T) => Covers(T, <<w>>)
BY DEF IsList, Covers

LEMMA RunOne ==
    ASSUME NEW s \in Driver, s.err = "none", NEW r \in Regs, NEW v, NEW m,
           NEW t \in Run(s, <<W(r, v, m)>>), NEW T, \A b \in Byte(m) : <<r, b>> \in T
    PROVE  /\ Outcome(s, t) /\ t.err \in {"none", "usb"} /\ Untouched(s, t, T)
           /\ t.err = "none" => \A b \in Byte(m) : On(t, r, b) <=> b \in Byte(v)
<1>. DEFINE w == W(r, v, m)
            list == <<w>>
<1>1. w.reg = r /\ w.val = Byte(v) /\ w.mask = Byte(m) /\ IsWrite(w)
      BY WType
<1>. HIDE DEF w
<1>2. IsList(list) /\ Covers(T, list)
      BY <1>1, ListOne
<1>3. Len(list) = 1 /\ list[1] = w
      OBVIOUS
<1>4. t \in Run(s, list)
      BY DEF w
<1>. HIDE DEF list
<1>5. Outcome(s, t) /\ t.err \in {"none", "usb"}
      BY <1>2, <1>4, RunOutcome
<1>6. Untouched(s, t, T)
      BY <1>2, <1>4, RunUntouched
<1>7. ASSUME t.err = "none", NEW b \in Byte(m) PROVE On(t, r, b) <=> b \in Byte(v)
  <2>1. Touches(list[1], r, b) /\ 1 \in 1..Len(list)
        BY <1>1, <1>3, <1>7 DEF Touches
  <2>2. \A i \in (1 + 1)..Len(list) : ~Touches(list[i], r, b)
        BY <1>3
  <2>3. On(t, r, b) <=> b \in list[1].val
        BY <1>2, <1>4, <1>7, <2>1, <2>2, RunSets
  <2>. QED
       BY <2>3, <1>1, <1>3
<1>. QED
     BY <1>5, <1>6, <1>7

---------------------------------------------------------------------------
(* The PLL.                                                                *)
LockTouched ==
    {x \in Regs \X (0..7) : (x[1] = \h12 /\ x[2] > 4) \/ (x[1] = \h1a /\ x[2] = 3)}
PllTouched ==
    {x \in Regs \X (0..7) : x[1] \in \h10..\h16 \/ (x[1] = \h1a /\ x[2] \in {2, 3})}

LEMMA LockMasks ==
    /\ \A b \in Byte(8) : b = 3
    /\ \A b \in Byte(\he0) : b \in 5..7
    /\ \A b \in Byte(\h0c) : b \in 2..3
<1>1. ASSUME NEW b \in Byte(8) PROVE b = 3
      BY ByteType, ByteBits
<1>2. ASSUME NEW b \in Byte(224) PROVE b \in 5..7
      BY ByteType, ByteBits
<1>3. ASSUME NEW b \in Byte(12) PROVE b \in 2..3
      BY ByteType, ByteBits
<1>. QED
     BY <1>1, <1>2, <1>3

LEMMA LockOutcome ==
    ASSUME NEW s \in Driver, s.err = "none", NEW t \in AwaitLock(s)
    PROVE  Outcome(s, t) /\ Untouched(s, t, LockTouched)
<1>. DEFINE Ends(u, v) == Outcome(u, v) /\ Untouched(u, v, LockTouched)
            Locked(u) == Run(u, <<W(\h1a, 8, 8)>>)
            More(u) == Run(u, <<W(\h12, \h60, \he0)>>)
            Again(u) == Then(Read(u), LAMBDA v : Locked(v) \cup Refuse(v))
            First(u) == Locked(u) \cup Then(More(u), Again)
<1>1. ASSUME NEW u, NEW v, NEW w, Ends(u, v), v.err = "none", Ends(v, w) PROVE Ends(u, w)
      BY <1>1, OutcomeTrans, UntouchedTrans
<1>2. \h1a \in Regs /\ \h12 \in Regs
      BY RegsInterval
<1>3. ASSUME NEW u \in Driver, u.err = "none", NEW v \in Locked(u) PROVE Ends(u, v)
  <2>1. \A b \in Byte(8) : <<\h1a, b>> \in LockTouched
        BY <1>2, LockMasks DEF LockTouched
  <2>. QED
       BY <1>2, <1>3, <2>1, RunOne
<1>4. ASSUME NEW u \in Driver, u.err = "none", NEW v \in More(u) PROVE Ends(u, v)
  <2>1. \A b \in Byte(\he0) : <<\h12, b>> \in LockTouched
        BY <1>2, LockMasks DEF LockTouched
  <2>. QED
       BY <1>2, <1>4, <2>1, RunOne
<1>5. ASSUME NEW u \in Driver, u.err = "none", NEW v \in Read(u) PROVE Ends(u, v) /\ v \in Driver
      BY <1>5, ReadOutcome, UntouchedSame DEF Outcome, Same
<1>6. ASSUME NEW u \in Driver, u.err = "none", NEW v \in Refuse(u) PROVE Ends(u, v)
      BY <1>6, RefuseOutcome, UntouchedSame
<1>7. ASSUME NEW u \in Driver, u.err = "none", NEW v \in Again(u) PROVE Ends(u, v)
  <2>1. \/ v \in Read(u)
        \/ \E w \in Read(u) : w.err = "none" /\ v \in Locked(w) \cup Refuse(w)
        BY <1>7 DEF Then, Succeeded
  <2>. HIDE DEF Locked, Ends
  <2>. QED
       BY <2>1, <1>1, <1>3, <1>5, <1>6, <1>7
<1>8. ASSUME NEW u \in Driver, u.err = "none", NEW v \in First(u) PROVE Ends(u, v)
  <2>1. \/ v \in Locked(u) \/ v \in More(u)
        \/ \E w \in More(u) : w.err = "none" /\ v \in Again(w)
        BY <1>8 DEF Then, Succeeded
  <2>2. \A w \in More(u) : w \in Driver
        BY <1>8, <1>4 DEF Outcome, Same
  <2>. HIDE DEF Locked, Again, More, Ends
  <2>. QED
       BY <2>1, <2>2, <1>1, <1>3, <1>4, <1>7, <1>8
<1>9. \/ t \in Read(s)
      \/ \E w \in Read(s) : w.err = "none" /\ t \in First(w)
      BY DEF AwaitLock, Then, Succeeded
<1>. HIDE DEF First, Ends
<1>10. Ends(s, t)
       BY <1>9, <1>1, <1>5, <1>8
<1>. QED
     BY <1>10 DEF Ends

(* What the divider registers spell after set_pll.                         *)
Spelt(t, div) ==
    /\ t.shadow[\h14] = Byte((div \div 65536 - 13) \div 4 + 64 * ((div \div 65536 - 13) % 4))
    /\ t.shadow[\h15] = Byte((div % 65536) % 256)
    /\ t.shadow[\h16] = Byte((div % 65536) \div 256)
    /\ On(t, \h12, 3) <=> div % 65536 = 0

LEMMA PllBytesSpell ==
    ASSUME NEW s \in Driver, NEW vco, NEW num
    PROVE  /\ PllBytes(s, vco, num) \in [\h10..\h16 -> Bits]
           /\ \A t : (\A r \in \h10..\h16 : t.shadow[r] = PllBytes(s, vco, num)[r])
                       => Spelt(t, VcoDiv(XTAL_128(s.model), vco))
<1>. DEFINE div == VcoDiv(XTAL_128(s.model), vco)
            n == div \div 65536 - 13
            sdm == div % 65536
            current == Masked(s.shadow[\h12], W(\h12, \h80, \he0))
            dither == W(\h12, IF sdm = 0 THEN 8 ELSE 0, 8)
            f(r) == CASE r = \h10 -> Masked(Masked(s.shadow[r], W(r, 0, \h10)), W(r, num * 32, \he0))
                      [] r = \h12 -> Masked(current, W(r, IF sdm = 0 THEN 8 ELSE 0, 8))
                      [] r = \h14 -> Byte(n \div 4 + 64 * (n % 4))
                      [] r = \h15 -> Byte(sdm % 256)
                      [] r = \h16 -> Byte(sdm \div 256)
                      [] OTHER    -> s.shadow[r]
<1>1. PllBytes(s, vco, num) = [r \in \h10..\h16 |-> f(r)]
      BY DEF PllBytes
<1>2. \A r \in \h10..\h16 : r \in Regs /\ s.shadow[r] \in Bits
      BY RegsInterval DEF Driver, Registers
<1>. HIDE DEF div
<1>3. \A r \in \h10..\h16 : f(r) \in Bits
  <2>1. f(\h10) \in Bits
        BY <1>2, MaskedType, WType
  <2>2. current \in Bits
        BY <1>2, MaskedType, WType
  <2>3. f(\h12) \in Bits
    <3>. HIDE DEF current
    <3>. QED
         BY <1>2, <2>2, MaskedType, WType
  <2>4. f(\h14) \in Bits /\ f(\h15) \in Bits /\ f(\h16) \in Bits
        BY ByteType
  <2>5. f(\h11) \in Bits /\ f(\h13) \in Bits
        BY <1>2
  <2>. HIDE DEF f
  <2>. QED
       BY <2>1, <2>3, <2>4, <2>5
<1>4. 3 \in f(\h12) <=> sdm = 0
  <2>1. 3 \in Byte(8) /\ 3 \notin Byte(0)
        BY ByteBits
  <2>2. dither.mask = Byte(8) /\ dither.val = Byte(IF sdm = 0 THEN 8 ELSE 0)
        BY WType
  <2>3. f(\h12) = Masked(current, dither)
        OBVIOUS
  <2>. HIDE DEF current, dither, f, sdm
  <2>. QED
       BY <2>1, <2>2, <2>3 DEF Masked
<1>5. ASSUME NEW t, \A r \in \h10..\h16 : t.shadow[r] = f(r)
      PROVE  Spelt(t, div)
  <2>1. /\ f(\h14) = Byte(n \div 4 + 64 * (n % 4)) /\ f(\h15) = Byte(sdm % 256)
        /\ f(\h16) = Byte(sdm \div 256)
        OBVIOUS
  <2>. HIDE DEF f
  <2>2. /\ t.shadow[\h12] = f(\h12) /\ t.shadow[\h14] = f(\h14)
        /\ t.shadow[\h15] = f(\h15) /\ t.shadow[\h16] = f(\h16)
        BY <1>5
  <2>. QED
       BY <2>1, <2>2, <1>4 DEF Spelt, On
<1>. HIDE DEF f
<1>6. PllBytes(s, vco, num) \in [\h10..\h16 -> Bits]
      BY <1>1, <1>3
<1>7. ASSUME NEW t, \A r \in \h10..\h16 : t.shadow[r] = PllBytes(s, vco, num)[r]
      PROVE  Spelt(t, div)
      BY <1>1, <1>5, <1>7
<1>. QED
     BY <1>6, <1>7 DEF div

LEMMA ProgramOutcome ==
    ASSUME NEW s \in Driver, s.err = "none", NEW vco, NEW num,
           NEW t \in Write(s, PllBytes(s, vco, num))
    PROVE  /\ Outcome(s, t) /\ Untouched(s, t, PllTouched) /\ t.err \in {"none", "usb"}
           /\ t.err = "none" => Spelt(t, VcoDiv(XTAL_128(s.model), vco))
<1>1. \h10 \in Regs /\ \h16 \in Regs /\ \h10 <= \h16
      BY RegsInterval
<1>2. PllBytes(s, vco, num) \in [\h10..\h16 -> Bits]
      BY PllBytesSpell
<1>3. /\ Outcome(s, t) /\ t.err \in {"none", "usb"}
      /\ \A r \in Regs : r \notin \h10..\h16 => t.shadow[r] = s.shadow[r]
      /\ t.err = "none" => \A r \in \h10..\h16 : t.shadow[r] = PllBytes(s, vco, num)[r]
      BY <1>1, <1>2, WriteSame
<1>4. Untouched(s, t, PllTouched)
  <2>1. SUFFICES ASSUME NEW r \in Regs, NEW b \in 0..7, <<r, b>> \notin PllTouched
                 PROVE  On(t, r, b) <=> On(s, r, b)
        BY DEF Untouched
  <2>2. r \notin \h10..\h16
        BY <2>1 DEF PllTouched
  <2>. QED
       BY <1>3, <2>2 DEF On
<1>. QED
     BY <1>3, <1>4, PllBytesSpell

LEMMA SpeltStays ==
    ASSUME NEW s \in Driver, NEW t \in Driver, NEW div, Spelt(s, div), NEW T, Untouched(s, t, T),
           \A b \in 0..7 : /\ <<\h14, b>> \notin T /\ <<\h15, b>> \notin T
                           /\ <<\h16, b>> \notin T,
           <<\h12, 3>> \notin T
    PROVE  Spelt(t, div)
<1>1. \h12 \in Regs /\ \h14 \in Regs /\ \h15 \in Regs /\ \h16 \in Regs /\ 3 \in 0..7
      BY RegsInterval
<1>2. t.shadow[\h14] = s.shadow[\h14]
      BY <1>1, UntouchedReg
<1>3. t.shadow[\h15] = s.shadow[\h15]
      BY <1>1, UntouchedReg
<1>4. t.shadow[\h16] = s.shadow[\h16]
      BY <1>1, UntouchedReg
<1>5. On(t, \h12, 3) <=> On(s, \h12, 3)
      BY <1>1, Zenon DEF Untouched
<1>. QED
     BY <1>2, <1>3, <1>4, <1>5 DEF Spelt

LEMMA PllOutcome ==
    ASSUME NEW s \in Driver, s.err = "none", NEW lo, NEW t \in set_pll(s, lo)
    PROVE  /\ Outcome(s, t) /\ Untouched(s, t, PllTouched)
           /\ t.err = "none" => \E d \in MixDivs(lo) : Spelt(t, VcoDiv(XTAL_128(s.model), lo * d))
<1>. DEFINE Ends(u, v) == Outcome(u, v) /\ Untouched(u, v, PllTouched)
            Good(v) == \E d \in MixDivs(lo) : Spelt(v, VcoDiv(XTAL_128(s.model), lo * d))
            Number(d, fine) == FineTuned(DivNum(d), fine, VcoPowerRef(s.model))
            Program(u, mix) == UNION {Write(u, PllBytes(u, lo * mix, Number(mix, fine))) : fine \in FineTunes}
            Programs(u) == UNION {Program(u, d) : d \in MixDivs(lo)}
            Middle(u) == Then(Read(u), Programs)
            Final(u) == IF MixDivs(lo) = {} THEN Refuse(u) ELSE Then(Middle(u), AwaitLock)
            First == Run(s, <<W(\h1a, 0, \h0c)>>)
<1>1. ASSUME NEW u, NEW v, NEW w, Ends(u, v), v.err = "none", Ends(v, w) PROVE Ends(u, w)
      BY <1>1, OutcomeTrans, UntouchedTrans
<1>2. ASSUME NEW u \in Driver, u.err = "none", u.model = s.model, NEW v \in Programs(u)
      PROVE  Ends(u, v) /\ v \in Driver /\ v.model = s.model /\ (v.err = "none" => Good(v))
  <2>1. PICK d \in MixDivs(lo) : v \in Program(u, d)
        BY <1>2
  <2>2. PICK fine \in FineTunes : v \in Write(u, PllBytes(u, lo * d, Number(d, fine)))
        BY <2>1
  <2>. HIDE DEF Number
  <2>3. /\ Outcome(u, v) /\ Untouched(u, v, PllTouched)
        /\ v.err = "none" => Spelt(v, VcoDiv(XTAL_128(u.model), lo * d))
        BY <1>2, <2>2, ProgramOutcome
  <2>4. v.err = "none" => Good(v)
        BY <1>2, <2>3
  <2>. QED
       BY <1>2, <2>3, <2>4 DEF Outcome, Same
<1>3. ASSUME NEW u \in Driver, u.err = "none", u.model = s.model, NEW v \in Middle(u)
      PROVE  Ends(u, v) /\ v \in Driver /\ v.model = s.model /\ (v.err = "none" => Good(v))
  <2>1. \/ v \in Read(u) /\ v.err # "none"
        \/ \E w \in Read(u) : w.err = "none" /\ v \in Programs(w)
        BY <1>3 DEF Then, Succeeded
  <2>2. \A w \in Read(u) : Ends(u, w) /\ w \in Driver /\ w.model = s.model /\ (w.err = "none" => w = u)
        BY <1>3, ReadOutcome, UntouchedSame DEF Outcome, Same
  <2>. HIDE DEF Programs, Ends, Good
  <2>. QED
       BY <2>1, <2>2, <1>1, <1>2, <1>3
<1>4. ASSUME NEW u \in Driver, u.err = "none", Good(u), NEW v \in AwaitLock(u)
      PROVE  Ends(u, v) /\ Good(v)
  <2>1. Outcome(u, v) /\ Untouched(u, v, LockTouched) /\ v \in Driver
        BY <1>4, LockOutcome DEF Outcome, Same
  <2>2. Untouched(u, v, PllTouched)
    <3>1. LockTouched \subseteq PllTouched
          BY DEF LockTouched, PllTouched
    <3>. QED
         BY <2>1, <3>1, UntouchedMore
  <2>3. Good(v)
    <3>1. /\ \A b \in 0..7 : /\ <<\h14, b>> \notin LockTouched /\ <<\h15, b>> \notin LockTouched
                             /\ <<\h16, b>> \notin LockTouched
          /\ <<\h12, 3>> \notin LockTouched
          BY DEF LockTouched
    <3>. QED
         BY <1>4, <2>1, <3>1, SpeltStays
  <2>. QED
       BY <2>1, <2>2, <2>3
<1>5. ASSUME NEW u \in Driver, u.err = "none", u.model = s.model, NEW v \in Final(u)
      PROVE  Ends(u, v) /\ (v.err = "none" => Good(v))
  <2>1. \/ v \in Refuse(u)
        \/ v \in Middle(u) /\ v.err # "none"
        \/ \E w \in Middle(u) : w.err = "none" /\ v \in AwaitLock(w)
        BY <1>5 DEF Then, Succeeded
  <2>2. v \in Refuse(u) => Ends(u, v) /\ v.err # "none"
        BY <1>5, RefuseOutcome, UntouchedSame
  <2>. HIDE DEF Middle, Ends, Good
  <2>. QED
       BY <2>1, <2>2, <1>1, <1>3, <1>4, <1>5
<1>6. ASSUME NEW u \in First PROVE Ends(s, u) /\ u \in Driver /\ u.model = s.model
  <2>1. \h1a \in Regs
        BY RegsInterval
  <2>2. \A b \in Byte(\h0c) : <<\h1a, b>> \in PllTouched
        BY <2>1, LockMasks DEF PllTouched
  <2>. QED
       BY <1>6, <2>1, <2>2, RunOne DEF Outcome, Same
<1>7. \/ t \in First /\ t.err # "none"
      \/ \E u \in First : u.err = "none" /\ t \in Final(u)
      BY DEF set_pll, Then, Succeeded
<1>. HIDE DEF First, Final, Ends, Good
<1>8. Ends(s, t) /\ (t.err = "none" => Good(t))
      BY <1>7, <1>1, <1>5, <1>6
<1>. QED
     BY <1>8 DEF Ends, Good

---------------------------------------------------------------------------
(* The sequences of writes.                                                *)
LEMMA ListsTyped ==
    /\ IsList(PassSetup) /\ IsList(PassTrigger)
    /\ IsList(SysfreqTops) /\ IsList(SysfreqRest)
<1>1. IsList(PassSetup)
      BY WType, RegsInterval DEF IsList, PassSetup
<1>2. IsList(PassTrigger)
      BY WType, RegsInterval DEF IsList, PassTrigger
<1>3. IsList(SysfreqTops)
      BY WType, RegsInterval DEF IsList, SysfreqTops
<1>4. IsList(SysfreqRest)
      BY WType, RegsInterval DEF IsList, SysfreqRest
<1>. QED
     BY <1>1, <1>2, <1>3, <1>4

LEMMA AfterCalTyped == ASSUME NEW code PROVE IsList(AfterCalibration(code))
BY WType, RegsInterval DEF IsList, AfterCalibration

(* The calibration: what it leaves alone, and the filter that it selects.  *)
TvTouched ==
    {x \in Regs \X (0..7) :
        \/ x[1] \notin {5, 6, 7}
        \/ x[1] = 5 /\ x[2] = 7
        \/ x[1] = 6 /\ x[2] \in {4, 5}
        \/ x[1] = 7 /\ x[2] = 7}

TvStart == <<W(\h0c, 0, \h0f), W(\h13, 49, \h3f), W(\h1d, 0, \h38)>>

LEMMA TvMasks ==
    /\ \A b \in Byte(\h80) : b = 7
    /\ \A b \in Byte(\h30) : b \in 4..5
<1>1. ASSUME NEW b \in Byte(\h80) PROVE b = 7
      BY ByteType, ByteBits
<1>2. ASSUME NEW b \in Byte(\h30) PROVE b \in 4..5
      BY ByteType, ByteBits
<1>. QED
     BY <1>1, <1>2

LEMMA CoversAway ==
    ASSUME NEW list, IsList(list), \A i \in 1..Len(list) : list[i].reg \notin {5, 6, 7}
    PROVE  Covers(TvTouched, list)
<1>1. SUFFICES ASSUME NEW i \in 1..Len(list), NEW b \in list[i].mask
               PROVE  <<list[i].reg, b>> \in TvTouched
      BY DEF Covers
<1>2. list[i].reg \in Regs /\ b \in 0..7
      BY DEF IsList, IsWrite, Bits
<1>. QED
     BY <1>2 DEF TvTouched

LEMMA TvCovers ==
    /\ IsList(TvStart) /\ Covers(TvTouched, TvStart)
    /\ Covers(TvTouched, PassSetup) /\ Covers(TvTouched, PassTrigger)
    /\ \A code : Covers(TvTouched, AfterCalibration(code))
<1>0. \A r \in Regs, b \in 0..7 : r \notin {5, 6, 7} => <<r, b>> \in TvTouched
      BY DEF TvTouched
<1>1. IsList(TvStart)
      BY WType, RegsInterval DEF IsList, TvStart
<1>2. Covers(TvTouched, TvStart)
  <2>. \A i \in 1..Len(TvStart) : TvStart[i].reg \notin {5, 6, 7}
       BY WType DEF TvStart
  <2>. QED
       BY ListsTyped, <1>1, CoversAway
<1>3. Covers(TvTouched, PassSetup)
  <2>. \A i \in 1..Len(PassSetup) : PassSetup[i].reg \notin {5, 6, 7}
       BY WType DEF PassSetup
  <2>. QED
       BY ListsTyped, <1>1, CoversAway
<1>4. Covers(TvTouched, PassTrigger)
  <2>. \A i \in 1..Len(PassTrigger) : PassTrigger[i].reg \notin {5, 6, 7}
       BY WType DEF PassTrigger
  <2>. QED
       BY ListsTyped, <1>1, CoversAway
<1>5. ASSUME NEW code PROVE Covers(TvTouched, AfterCalibration(code))
  <2>. DEFINE list == AfterCalibration(code)
  <2>1. Len(list) = 9
        BY DEF AfterCalibration
  <2>2. \A i \in 1..9 : i \in {1, 2, 5, 7, 8, 9} =>
           list[i].reg \in Regs /\ list[i].reg \notin {5, 6, 7} /\ \A b \in list[i].mask : b \in 0..7
        BY WType, ByteType, RegsInterval DEF AfterCalibration
  <2>3. list[3].reg = 7 /\ list[3].mask = Byte(\h80)
        BY WType DEF AfterCalibration
  <2>4. list[4].reg = 6 /\ list[4].mask = Byte(\h30)
        BY WType DEF AfterCalibration
  <2>5. list[6].reg = 5 /\ list[6].mask = Byte(\h80)
        BY WType DEF AfterCalibration
  <2>. HIDE DEF list
  <2>6. \A b \in list[3].mask : <<list[3].reg, b>> \in TvTouched
        BY <2>3, TvMasks, RegsInterval DEF TvTouched
  <2>7. \A b \in list[4].mask : <<list[4].reg, b>> \in TvTouched
        BY <2>4, TvMasks, RegsInterval DEF TvTouched
  <2>8. \A b \in list[6].mask : <<list[6].reg, b>> \in TvTouched
        BY <2>5, TvMasks, RegsInterval DEF TvTouched
  <2>9. Covers(TvTouched, list)
    <3>1. SUFFICES ASSUME NEW i \in 1..9 PROVE \A b \in list[i].mask : <<list[i].reg, b>> \in TvTouched
          BY <2>1 DEF Covers
    <3>2. i \in {1, 2, 5, 7, 8, 9} \/ i = 3 \/ i = 4 \/ i = 6
          OBVIOUS
    <3>. QED
         BY <3>2, <2>2, <2>6, <2>7, <2>8, <1>0
  <2>. QED
       BY <2>9 DEF list
<1>. QED
     BY <1>1, <1>2, <1>3, <1>4, <1>5

(* The filter of calibration: the last write to 0x0b is of all its bits    *)
(* but the trigger's.                                                      *)
LEMMA AfterCalSets ==
    ASSUME NEW s \in Driver, s.err = "none", NEW code, NEW t \in Run(s, AfterCalibration(code)),
           t.err = "none", NEW b \in Byte(\hef)
    PROVE  On(t, \h0b, b) <=> b \in Byte(\h6b)
<1>. DEFINE list == AfterCalibration(code)
<1>1. Len(list) = 9 /\ list[2] = W(\h0b, \h6b, \hef)
      BY DEF AfterCalibration
<1>2. \A i \in 3..9 : list[i].reg # \h0b
      BY WType DEF AfterCalibration
<1>3. IsList(list)
      BY AfterCalTyped
<1>4. t \in Run(s, list)
      OBVIOUS
<1>. HIDE DEF list
<1>5. Touches(list[2], \h0b, b) /\ list[2].val = Byte(\h6b)
      BY <1>1, WType DEF Touches
<1>6. \h0b \in Regs /\ 2 \in 1..Len(list)
      BY <1>1, RegsInterval
<1>7. \A i \in (2 + 1)..Len(list) : ~Touches(list[i], \h0b, b)
      BY <1>1, <1>2 DEF Touches
<1>8. On(t, \h0b, b) <=> b \in list[2].val
      BY <1>3, <1>4, <1>5, <1>6, <1>7, RunSets
<1>. QED
     BY <1>5, <1>8

TvStep(s, t) == Outcome(s, t) /\ Untouched(s, t, TvTouched)

LEMMA TvTrans ==
    ASSUME NEW s, NEW u, NEW t, TvStep(s, u), u.err = "none", TvStep(u, t)
    PROVE  TvStep(s, t)
BY OutcomeTrans, UntouchedTrans DEF TvStep

LEMMA TvRun ==
    ASSUME NEW s \in Driver, s.err = "none", NEW list, IsList(list), Covers(TvTouched, list),
           NEW t \in Run(s, list)
    PROVE  TvStep(s, t) /\ t \in Driver
BY RunOutcome, RunUntouched DEF TvStep, Outcome, Same

LEMMA PassOutcome ==
    ASSUME NEW s \in Driver, s.err = "none", NEW t \in PassCalibrate(s)
    PROVE  TvStep(s, t) /\ t \in Driver
<1>. DEFINE A(u) == Run(u, PassSetup)
            B(u) == Then(A(u), LAMBDA v : set_pll(v, 56000))
            C(u) == Then(B(u), LAMBDA v : Run(v, PassTrigger))
<1>1. ASSUME NEW u \in A(s) PROVE TvStep(s, u) /\ u \in Driver
      BY <1>1, TvRun, ListsTyped, TvCovers
<1>2. ASSUME NEW u \in Driver, u.err = "none", NEW v \in set_pll(u, 56000) PROVE TvStep(u, v) /\ v \in Driver
  <2>1. PllTouched \subseteq TvTouched
        BY DEF PllTouched, TvTouched
  <2>2. Outcome(u, v) /\ Untouched(u, v, PllTouched)
        BY <1>2, PllOutcome
  <2>. QED
       BY <2>1, <2>2, UntouchedMore DEF TvStep, Outcome, Same
<1>3. ASSUME NEW v \in B(s) PROVE TvStep(s, v) /\ v \in Driver
  <2>1. \/ v \in A(s)
        \/ \E u \in A(s) : u.err = "none" /\ v \in set_pll(u, 56000)
        BY <1>3 DEF Then, Succeeded
  <2>. HIDE DEF A
  <2>. QED
       BY <2>1, <1>1, <1>2, TvTrans
<1>4. ASSUME NEW u \in Driver, u.err = "none", NEW v \in Run(u, PassTrigger) PROVE TvStep(u, v) /\ v \in Driver
      BY <1>4, TvRun, ListsTyped, TvCovers
<1>5. ASSUME NEW v \in C(s) PROVE TvStep(s, v) /\ v \in Driver
  <2>1. \/ v \in B(s)
        \/ \E u \in B(s) : u.err = "none" /\ v \in Run(u, PassTrigger)
        BY <1>5 DEF Then, Succeeded
  <2>. HIDE DEF B
  <2>. QED
       BY <2>1, <1>3, <1>4, TvTrans
<1>6. ASSUME NEW u \in Driver, u.err = "none", NEW v \in Read(u) PROVE TvStep(u, v) /\ v \in Driver
      BY <1>6, ReadOutcome, UntouchedSame DEF TvStep, Outcome, Same
<1>7. \/ t \in C(s)
      \/ \E u \in C(s) : u.err = "none" /\ t \in Read(u)
      BY DEF PassCalibrate, Then, Succeeded
<1>. HIDE DEF C
<1>. QED
     BY <1>5, <1>6, <1>7, TvTrans

Calibrated(t) == \A b \in Byte(\hef) : On(t, \h0b, b) <=> b \in Byte(\h6b)

LEMMA TvOutcome ==
    ASSUME NEW s \in Driver, s.err = "none", s.shadow = InitBytes, NEW t \in set_tv_standard(s)
    PROVE  Outcome(s, t) /\ Untouched(s, t, TvTouched) /\ (t.err = "none" => Calibrated(t))
<1>. DEFINE first == Run(s, TvStart)
            Offset(u) == [u EXCEPT !.intFreq = 3570]
            start == Then(first, LAMBDA u : {Offset(u)})
            once == Then(start, PassCalibrate)
            twice == Then(once, PassCalibrate)
            Final(u, codes) == UNION {Run(u, AfterCalibration(c)) : c \in codes}
            Finish(S, codes) == Then(S, LAMBDA u : Final(u, codes))
            Good(S) == \A u \in S : TvStep(s, u) /\ u \in Driver
<1>1. t \in Finish(once, CalCodes \ {0, 15}) \/ t \in Finish(twice, CalCodes)
  <2>1. [s EXCEPT !.shadow = InitBytes] = s
        BY DEF Driver
  <2>. QED
       BY <2>1 DEF set_tv_standard, TvStart
<1>2. Good(first)
      BY TvRun, TvCovers
<1>3. ASSUME NEW u \in Driver, u.err = "none" PROVE TvStep(u, Offset(u)) /\ Offset(u) \in Driver
  <2>. DEFINE v == Offset(u)
  <2>1. v \in Driver /\ v.shadow = u.shadow /\ v.chip = u.chip /\ v.model = u.model
        /\ v.upconv = u.upconv /\ v.input = u.input /\ v.err = u.err /\ v.faults = u.faults
        BY <1>3 DEF Driver
  <2>. HIDE DEF v
  <2>2. TvStep(u, v)
        BY <1>3, <2>1, UntouchedSame DEF TvStep, Outcome, Same, Follows
  <2>. QED
       BY <2>1, <2>2 DEF v
<1>4. Good(start)
  <2>1. SUFFICES ASSUME NEW v \in start PROVE TvStep(s, v) /\ v \in Driver
        OBVIOUS
  <2>2. \/ v \in first
        \/ \E u \in first : u.err = "none" /\ v = Offset(u)
        BY <2>1 DEF Then, Succeeded
  <2>. HIDE DEF first, Offset
  <2>. QED
       BY <2>2, <1>2, <1>3, TvTrans
<1>. HIDE DEF start
<1>5. Good(once)
  <2>1. SUFFICES ASSUME NEW v \in once PROVE TvStep(s, v) /\ v \in Driver
        OBVIOUS
  <2>2. \/ v \in start
        \/ \E u \in start : u.err = "none" /\ v \in PassCalibrate(u)
        BY <2>1 DEF Then, Succeeded
  <2>. QED
       BY <2>2, <1>4, PassOutcome, TvTrans
<1>. HIDE DEF once
<1>6. Good(twice)
  <2>1. SUFFICES ASSUME NEW v \in twice PROVE TvStep(s, v) /\ v \in Driver
        OBVIOUS
  <2>2. \/ v \in once
        \/ \E u \in once : u.err = "none" /\ v \in PassCalibrate(u)
        BY <2>1 DEF Then, Succeeded
  <2>. QED
       BY <2>2, <1>5, PassOutcome, TvTrans
<1>. HIDE DEF twice
<1>7. ASSUME NEW S, Good(S), NEW codes, NEW v \in Finish(S, codes)
      PROVE  TvStep(s, v) /\ (v.err = "none" => Calibrated(v))
  <2>1. \/ v \in S /\ v.err # "none"
        \/ \E u \in S : u.err = "none" /\ v \in Final(u, codes)
        BY <1>7 DEF Then, Succeeded
  <2>2. ASSUME NEW u \in S, u.err = "none", v \in Final(u, codes)
        PROVE  TvStep(s, v) /\ (v.err = "none" => Calibrated(v))
    <3>1. PICK c \in codes : v \in Run(u, AfterCalibration(c))
          BY <2>2
    <3>2. u \in Driver /\ TvStep(s, u)
          BY <1>7
    <3>3. TvStep(u, v)
          BY <2>2, <3>1, <3>2, TvRun, TvCovers, AfterCalTyped
    <3>4. v.err = "none" => Calibrated(v)
          BY <2>2, <3>1, <3>2, AfterCalSets DEF Calibrated
    <3>. QED
         BY <2>2, <3>2, <3>3, <3>4, TvTrans
  <2>. QED
       BY <2>1, <2>2, <1>7
<1>. HIDE DEF Finish, Good
<1>8. TvStep(s, t) /\ (t.err = "none" => Calibrated(t))
      BY <1>1, <1>5, <1>6, <1>7
<1>. QED
     BY <1>8 DEF TvStep

---------------------------------------------------------------------------
(* Initialisation.                                                         *)
LEMMA SysMasks ==
    /\ 5 \in Byte(\h60) /\ 6 \in Byte(\h60) /\ 4 \notin Byte(\h60)
    /\ 3 \in Byte(8) /\ 3 \notin Byte(\h40)
    /\ \A b \in 0..7 : b \notin Byte(0)
<1>1. ASSUME NEW b \in 0..7 PROVE b \notin Byte(0)
      BY ByteBits
<1>2. 5 \in Byte(\h60) /\ 6 \in Byte(\h60) /\ 4 \notin Byte(\h60)
      BY ByteBits
<1>3. 3 \in Byte(8) /\ 3 \notin Byte(\h40)
      BY ByteBits
<1>. QED
     BY <1>1, <1>2, <1>3

LEMMA SysRestShape ==
    /\ Len(SysfreqRest) = 13
    /\ SysfreqRest[1] = W(\h05, 0, \h60) /\ SysfreqRest[2] = W(\h06, 0, 8)
    /\ SysfreqRest[8] = W(\h06, 0, \h40)
    /\ \A i \in 1..13 : i \notin {1, 2, 8} => SysfreqRest[i].reg \notin {5, 6, 7, \h0b}
BY WType DEF SysfreqRest

(* What sysfreq_sel turns off, ...                                         *)
LEMMA SysRestOff ==
    ASSUME NEW s \in Driver, s.err = "none", NEW t \in Run(s, SysfreqRest), t.err = "none"
    PROVE  ~On(t, 5, 5) /\ ~On(t, 5, 6) /\ ~On(t, 6, 3)
<1>. DEFINE list == SysfreqRest
<1>1. Len(list) = 13 /\ IsList(list) /\ t \in Run(s, list)
      BY SysRestShape, ListsTyped
<1>2. \A i \in 2..13 : list[i].reg # 5
      BY SysRestShape, WType
<1>3. \A i \in 3..13 : ~Touches(list[i], 6, 3)
  <2>1. ASSUME NEW i \in 3..13 PROVE ~Touches(list[i], 6, 3)
    <3>1. CASE i = 8
          BY <3>1, SysRestShape, WType, SysMasks DEF Touches
    <3>2. CASE i # 8
          BY <3>2, SysRestShape DEF Touches
    <3>. QED
         BY <3>1, <3>2
  <2>. QED
       BY <2>1
<1>4. /\ Touches(list[1], 5, 5) /\ Touches(list[1], 5, 6) /\ Touches(list[2], 6, 3)
      /\ list[1].val = Byte(0) /\ list[2].val = Byte(0)
      BY SysRestShape, WType, SysMasks DEF Touches
<1>. HIDE DEF list
<1>5. 5 \in Regs /\ 6 \in Regs /\ 1 \in 1..Len(list) /\ 2 \in 1..Len(list)
      BY <1>1, RegsInterval
<1>6. \A b : \A i \in (1 + 1)..Len(list) : ~Touches(list[i], 5, b)
      BY <1>1, <1>2 DEF Touches
<1>7. \A i \in (2 + 1)..Len(list) : ~Touches(list[i], 6, 3)
      BY <1>1, <1>3
<1>8. On(t, 5, 5) <=> 5 \in list[1].val
      BY <1>1, <1>4, <1>5, <1>6, RunSets
<1>9. On(t, 5, 6) <=> 6 \in list[1].val
      BY <1>1, <1>4, <1>5, <1>6, RunSets
<1>10. On(t, 6, 3) <=> 3 \in list[2].val
       BY <1>1, <1>4, <1>5, <1>7, RunSets
<1>. QED
     BY <1>4, <1>8, <1>9, <1>10, SysMasks

(* ... and what it leaves alone.                                           *)
SysKept(s, t) ==
    /\ On(t, 5, 4) <=> On(s, 5, 4)
    /\ On(t, 7, 4) <=> On(s, 7, 4)
    /\ \A b \in 0..7 : On(t, \h0b, b) <=> On(s, \h0b, b)

LEMMA SysTopsKept ==
    ASSUME NEW s \in Driver, s.err = "none", NEW t \in Run(s, SysfreqTops)
    PROVE  SysKept(s, t)
<1>1. \A i \in 1..Len(SysfreqTops) : SysfreqTops[i].reg \notin {5, 7, \h0b}
      BY WType DEF SysfreqTops
<1>2. \A r \in {5, 7, \h0b} : r \in Regs /\ \A b : \A i \in 1..Len(SysfreqTops) : ~Touches(SysfreqTops[i], r, b)
      BY <1>1, RegsInterval DEF Touches
<1>3. \A r \in {5, 7, \h0b} : \A b : On(t, r, b) <=> On(s, r, b)
      BY <1>2, ListsTyped, RunKeeps
<1>. QED
     BY <1>3 DEF SysKept

LEMMA SysRestKept ==
    ASSUME NEW s \in Driver, s.err = "none", NEW t \in Run(s, SysfreqRest)
    PROVE  SysKept(s, t)
<1>1. \A i \in 1..Len(SysfreqRest) : SysfreqRest[i].reg \notin {7, \h0b}
      BY SysRestShape, WType
<1>2. \A r \in {7, \h0b} : r \in Regs /\ \A b : \A i \in 1..Len(SysfreqRest) : ~Touches(SysfreqRest[i], r, b)
      BY <1>1, RegsInterval DEF Touches
<1>3. \A r \in {7, \h0b} : \A b : On(t, r, b) <=> On(s, r, b)
      BY <1>2, ListsTyped, RunKeeps
<1>4. \A i \in 1..Len(SysfreqRest) : ~Touches(SysfreqRest[i], 5, 4)
  <2>1. ASSUME NEW i \in 1..13 PROVE ~Touches(SysfreqRest[i], 5, 4)
    <3>1. CASE i = 1
          BY <3>1, SysRestShape, WType, SysMasks DEF Touches
    <3>2. CASE i # 1
      <4>1. SysfreqRest[i].reg # 5
            BY <3>2, SysRestShape, WType
      <4>. QED
           BY <4>1 DEF Touches
    <3>. QED
         BY <3>1, <3>2
  <2>. QED
       BY <2>1, SysRestShape
<1>5. On(t, 5, 4) <=> On(s, 5, 4)
      BY <1>4, ListsTyped, RunKeeps, RegsInterval
<1>. QED
     BY <1>3, <1>5 DEF SysKept

(* A step of initialisation, which may change the antenna's fields.        *)
Moved(s, t) ==
    /\ t \in Driver /\ t.model = s.model
    /\ \/ t.err # "usb" /\ t.faults = s.faults /\ Follows(s, t)
       \/ Broke(s, t)

LEMMA MovedTrans ==
    ASSUME NEW s, NEW u, NEW t, Moved(s, u), u.err = "none", Moved(u, t)
    PROVE  Moved(s, t)
<1>1. u.faults = s.faults /\ Follows(s, u)
      BY DEF Moved, Broke
<1>2. CASE t.err # "usb" /\ t.faults = u.faults /\ Follows(u, t)
      BY <1>1, <1>2, FollowsTrans DEF Moved
<1>3. CASE Broke(u, t)
      BY <1>1, <1>3 DEF Moved, Broke
<1>. QED
     BY <1>2, <1>3 DEF Moved

LEMMA SysOutcome ==
    ASSUME NEW s \in Driver, s.err = "none", NEW t \in sysfreq_sel(s)
    PROVE  /\ Moved(s, t) /\ t.upconv = s.upconv
           /\ t.err = "none" => /\ t.input = 0 /\ SysKept(s, t)
                                /\ ~On(t, 5, 5) /\ ~On(t, 5, 6) /\ ~On(t, 6, 3)
<1>. DEFINE Forgot(u) == [u EXCEPT !.input = 0]
            First == Run(s, SysfreqTops)
<1>1. \/ t \in First
      \/ \E u \in First : u.err = "none" /\ t \in Run(Forgot(u), SysfreqRest)
      BY DEF sysfreq_sel, Then, Succeeded
<1>2. ASSUME NEW u \in First
      PROVE  /\ u \in Driver /\ Moved(s, u) /\ u.upconv = s.upconv /\ u.input = s.input
             /\ SysKept(s, u)
      BY <1>2, RunOutcome, ListsTyped, SysTopsKept DEF Outcome, Moved, Same
<1>3. ASSUME NEW u \in Driver, u.err = "none"
      PROVE  /\ Forgot(u) \in Driver /\ Forgot(u).err = "none" /\ Forgot(u).input = 0
             /\ Moved(u, Forgot(u)) /\ Forgot(u).upconv = u.upconv
             /\ Forgot(u).shadow = u.shadow
  <2>1. /\ Forgot(u) \in Driver /\ Forgot(u).err = "none" /\ Forgot(u).input = 0
        /\ Forgot(u).upconv = u.upconv /\ Forgot(u).shadow = u.shadow /\ Forgot(u).chip = u.chip
        /\ Forgot(u).model = u.model /\ Forgot(u).faults = u.faults
        BY <1>3 DEF Driver, Inputs
  <2>. HIDE DEF Forgot
  <2>. QED
       BY <2>1 DEF Moved, Follows
<1>4. ASSUME NEW u \in First, u.err = "none", t \in Run(Forgot(u), SysfreqRest)
      PROVE  /\ Moved(s, t) /\ t.upconv = s.upconv
             /\ t.err = "none" => /\ t.input = 0 /\ SysKept(s, t)
                                  /\ ~On(t, 5, 5) /\ ~On(t, 5, 6) /\ ~On(t, 6, 3)
  <2>. DEFINE v == Forgot(u)
  <2>1. /\ v \in Driver /\ v.err = "none" /\ v.input = 0 /\ Moved(u, v)
        /\ v.upconv = u.upconv /\ v.shadow = u.shadow
        BY <1>2, <1>3, <1>4
  <2>2. t \in Run(v, SysfreqRest)
        BY <1>4
  <2>. HIDE DEF v
  <2>3. Outcome(v, t)
        BY <2>1, <2>2, RunOutcome, ListsTyped
  <2>4. Moved(v, t) /\ t.upconv = v.upconv /\ t.input = 0
        BY <2>1, <2>3 DEF Outcome, Moved, Same
  <2>5. Moved(s, t)
        BY <1>2, <1>4, <2>1, <2>4, MovedTrans
  <2>6. SysKept(v, t)
        BY <2>1, <2>2, SysRestKept
  <2>7. SysKept(s, t)
        BY <1>2, <2>1, <2>6 DEF SysKept, On
  <2>8. t.err = "none" => ~On(t, 5, 5) /\ ~On(t, 5, 6) /\ ~On(t, 6, 3)
        BY <2>1, <2>2, SysRestOff
  <2>. QED
       BY <1>2, <2>1, <2>4, <2>5, <2>7, <2>8
<1>. HIDE DEF First, Forgot
<1>5. CASE t \in First /\ t.err # "none"
      BY <1>5, <1>2
<1>6. t \in First => t.err # "none" \/ \E u \in First : u.err = "none" /\ t \in Run(Forgot(u), SysfreqRest)
      BY DEF sysfreq_sel, Then, Succeeded, First, Forgot
<1>. QED
     BY <1>1, <1>4, <1>5, <1>6

LEMMA InitBytesShape ==
    /\ InitBytes \in Registers /\ Zeros \in Registers
    /\ 0 \in InitBytes[5] /\ 4 \notin InitBytes[5] /\ 5 \notin InitBytes[5] /\ 6 \notin InitBytes[5]
    /\ 4 \in InitBytes[7]
<1>1. InitBytes[5] = Byte(\h83) /\ InitBytes[7] = Byte(\h75)
      BY RegsInterval DEF InitBytes, INIT_ARRAY
<1>2. 0 \in Byte(\h83) /\ 4 \notin Byte(\h83) /\ 5 \notin Byte(\h83) /\ 6 \notin Byte(\h83)
      BY ByteBits
<1>3. 4 \in Byte(\h75)
      BY ByteBits
<1>4. InitBytes \in Registers
      BY ByteType DEF InitBytes, Registers
<1>5. Zeros \in Registers
      BY DEF Zeros, Registers, Bits
<1>. QED
     BY <1>1, <1>2, <1>3, <1>4, <1>5

(* The driver after init: nothing is owed, no input is remembered, no gain *)
(* is set by hand.                                                         *)
Fresh(t) ==
    /\ t.shadow = t.chip /\ t.input = 0
    /\ ~On(t, 5, 4) /\ On(t, 7, 4) /\ ~On(t, 5, 5) /\ ~On(t, 5, 6) /\ ~On(t, 6, 3)
    /\ Calibrated(t)

LEMMA FirstWrite ==
    ASSUME NEW s \in Driver, s.err = "none", NEW t \in Write([s EXCEPT !.shadow = Zeros], InitBytes)
    PROVE  /\ t \in Driver /\ t.model = s.model /\ t.upconv = s.upconv /\ t.input = s.input
           /\ \/ t.err = "none" /\ t.faults = s.faults /\ t.shadow = InitBytes /\ t.chip = InitBytes
              \/ Broke(s, t)
<1>. DEFINE z == [s EXCEPT !.shadow = Zeros]
<1>1. /\ z \in Driver /\ z.shadow = Zeros /\ z.model = s.model /\ z.upconv = s.upconv
      /\ z.faults = s.faults /\ z.err = "none" /\ z.input = s.input
      BY InitBytesShape DEF Driver
<1>2. t \in Write(z, InitBytes)
      OBVIOUS
<1>. HIDE DEF z
<1>3. 5 \in Regs /\ 31 \in Regs /\ 5 <= 31 /\ 5..31 = Regs
      BY RegsInterval
<1>4. InitBytes \in [5..31 -> Bits]
      BY <1>3, InitBytesShape DEF Registers
<1>5. Skipped(z, InitBytes, 5..31, t) \/ Done(z, InitBytes, 5..31, t) \/ Broken(z, InitBytes, 5..31, t)
      BY <1>1, <1>2, <1>3, <1>4, WriteOutcome
<1>6. Outcome(z, t)
      BY <1>1, <1>2, <1>3, <1>4, WriteSame
<1>7. t \in Driver /\ t.model = s.model /\ t.upconv = s.upconv /\ t.input = s.input
      BY <1>1, <1>6 DEF Outcome, Same
<1>8. ~Skipped(z, InitBytes, 5..31, t)
  <2>1. z.shadow[5] = {}
        BY <1>1, <1>3 DEF Zeros
  <2>2. InitBytes[5] # {} /\ 5 \in 5..31
        BY InitBytesShape
  <2>. QED
       BY <2>1, <2>2 DEF Skipped
<1>9. CASE Done(z, InitBytes, 5..31, t)
  <2>1. \A old \in Registers : Over(old, InitBytes, 5..31) = InitBytes
        BY <1>3, InitBytesShape DEF Over, Registers
  <2>2. t = [z EXCEPT !.chip = InitBytes, !.shadow = InitBytes]
        BY <1>1, <1>9, <2>1, InitBytesShape DEF Done, Driver
  <2>. QED
       BY <1>1, <1>7, <2>2 DEF Driver
<1>10. CASE Broken(z, InitBytes, 5..31, t)
  <2>1. t.err = "usb"
        BY <1>1, <1>10 DEF Broken, Driver
  <2>2. Broke(s, t)
        BY <1>1, <1>6, <2>1 DEF Outcome, Broke
  <2>. QED
       BY <1>7, <2>2
<1>. QED
     BY <1>5, <1>8, <1>9, <1>10

InitDone(s, t) ==
    /\ t \in Driver /\ t.model = s.model /\ t.upconv = s.upconv
    /\ \/ t.err # "usb" /\ t.faults = s.faults
       \/ Broke(s, t)
    /\ t.err = "none" => Fresh(t)

LEMMA InitOutcome ==
    ASSUME NEW s \in Driver, s.err = "none", NEW t \in init(s)
    PROVE  InitDone(s, t)
<1>. DEFINE First == Write([s EXCEPT !.shadow = Zeros], InitBytes)
            Second == Then(First, set_tv_standard)
            FirstDone(u) == u.err = "none" /\ u.faults = s.faults /\ u.shadow = InitBytes /\ u.chip = InitBytes
            Kind(u) == u \in Driver /\ u.model = s.model /\ u.upconv = s.upconv
<1>1. ASSUME NEW u \in First PROVE Kind(u) /\ (FirstDone(u) \/ Broke(s, u))
      BY <1>1, FirstWrite
<1>2. ASSUME NEW u, Kind(u), FirstDone(u), NEW v \in set_tv_standard(u)
      PROVE  /\ Kind(v) /\ ((v.err # "usb" /\ v.faults = s.faults) \/ Broke(s, v))
             /\ v.err = "none" => /\ v.shadow = v.chip /\ Calibrated(v)
                                  /\ ~On(v, 5, 4) /\ On(v, 7, 4)
  <2>1. Outcome(u, v) /\ Untouched(u, v, TvTouched) /\ (v.err = "none" => Calibrated(v))
        BY <1>2, TvOutcome
  <2>2. Kind(v) /\ ((v.err # "usb" /\ v.faults = s.faults) \/ Broke(s, v))
        BY <1>2, <2>1 DEF Outcome, Same, Broke
  <2>3. v.err = "none" => v.shadow = v.chip
    <3>1. v.err = "none" => Follows(u, v)
          BY <2>1 DEF Outcome, Broke
    <3>2. v.err = "none" => Owed(v, {})
          BY <1>2, <3>1 DEF Owed, Follows
    <3>. QED
         BY <3>2, <2>2, OwedNothing
  <2>4. ~On(v, 5, 4) /\ On(v, 7, 4)
    <3>1. ~On(u, 5, 4) /\ On(u, 7, 4)
          BY <1>2, InitBytesShape DEF On
    <3>2. 5 \in Regs /\ 7 \in Regs /\ 4 \in 0..7
          BY RegsInterval
    <3>3. <<5, 4>> \notin TvTouched /\ <<7, 4>> \notin TvTouched
          BY DEF TvTouched
    <3>. QED
         BY <2>1, <3>1, <3>2, <3>3, Zenon DEF Untouched
  <2>. QED
       BY <2>1, <2>2, <2>3, <2>4
<1>3. ASSUME NEW v \in Second
      PROVE  /\ Kind(v) /\ ((v.err # "usb" /\ v.faults = s.faults) \/ Broke(s, v))
             /\ v.err = "none" => /\ v.shadow = v.chip /\ Calibrated(v)
                                  /\ ~On(v, 5, 4) /\ On(v, 7, 4)
  <2>1. \/ v \in First /\ v.err # "none"
        \/ \E u \in First : u.err = "none" /\ v \in set_tv_standard(u)
        BY <1>3 DEF Then, Succeeded
  <2>2. CASE v \in First /\ v.err # "none"
        BY <1>1, <2>2
  <2>3. CASE \E u \in First : u.err = "none" /\ v \in set_tv_standard(u)
    <3>1. PICK u \in First : u.err = "none" /\ v \in set_tv_standard(u)
          BY <2>3
    <3>2. Kind(u) /\ FirstDone(u)
          BY <1>1, <3>1 DEF Broke
    <3>. HIDE DEF Kind, FirstDone
    <3>. QED
         BY <3>1, <3>2, <1>2
  <2>. QED
       BY <2>1, <2>2, <2>3
<1>4. \/ t \in Second /\ t.err # "none"
      \/ \E u \in Second : u.err = "none" /\ t \in sysfreq_sel(u)
      BY DEF init, Then, Succeeded
<1>. HIDE DEF Second
<1>5. CASE t \in Second /\ t.err # "none"
      BY <1>3, <1>5 DEF InitDone
<1>6. CASE \E u \in Second : u.err = "none" /\ t \in sysfreq_sel(u)
  <2>1. PICK u \in Second : u.err = "none" /\ t \in sysfreq_sel(u)
        BY <1>6
  <2>2. /\ Kind(u) /\ u.faults = s.faults /\ u.shadow = u.chip /\ Calibrated(u)
        /\ ~On(u, 5, 4) /\ On(u, 7, 4)
        BY <1>3, <2>1 DEF Broke
  <2>3. /\ Moved(u, t) /\ t.upconv = u.upconv
        /\ t.err = "none" => /\ t.input = 0 /\ SysKept(u, t)
                             /\ ~On(t, 5, 5) /\ ~On(t, 5, 6) /\ ~On(t, 6, 3)
        BY <2>1, <2>2, SysOutcome
  <2>4. t.err = "none" => t.shadow = t.chip
    <3>1. t.err = "none" => Follows(u, t)
          BY <2>3 DEF Moved, Broke
    <3>2. t.err = "none" => Owed(t, {})
          BY <2>2, <3>1 DEF Owed, Follows
    <3>. QED
         BY <3>2, <2>3, OwedNothing DEF Moved
  <2>5. t.err = "none" => Calibrated(t)
        BY <2>2, <2>3, ByteType DEF SysKept, Calibrated
  <2>6. t.err = "none" => Fresh(t)
        BY <2>2, <2>3, <2>4, <2>5 DEF Fresh, SysKept
  <2>. QED
       BY <2>2, <2>3, <2>6 DEF InitDone, Moved, Broke
<1>. QED
     BY <1>4, <1>5, <1>6

---------------------------------------------------------------------------
(* Tuning. The range of the tracking filter is one of the table's.         *)
MuxList(range) ==
    <<W(\h17, range[2], 8), W(\h1a, range[3], \hc3), W(\h1b, range[4], \hff),
      W(\h10, 0, \h0b), W(\h08, 0, \h3f), W(\h09, 0, \h3f)>>

MuxTouched ==
    {x \in Regs \X (0..7) :
        \/ x[1] \in {\h08, \h09, \h10, \h1b}
        \/ x[1] = \h17 /\ x[2] = 3
        \/ x[1] = \h1a /\ x[2] \in {0, 1, 6, 7}}

(* What the mux and the tracking filter are set to.                        *)
Muxed(t, range) ==
    /\ \A b \in 0..7 : On(t, \h1b, b) <=> b \in Byte(range[4])
    /\ \A b \in {0, 1, 6, 7} : On(t, \h1a, b) <=> b \in Byte(range[3])

LEMMA MuxMasks ==
    /\ \A b \in Byte(\hc3) : b \in {0, 1, 6, 7}
    /\ \A b \in {0, 1, 6, 7} : b \in Byte(\hc3)
    /\ \A b \in 0..7 : b \in Byte(\hff)
<1>1. ASSUME NEW b \in Byte(\hc3) PROVE b \in {0, 1, 6, 7}
      BY ByteType, ByteBits
<1>2. ASSUME NEW b \in {0, 1, 6, 7} PROVE b \in Byte(\hc3)
      BY ByteBits
<1>3. ASSUME NEW b \in 0..7 PROVE b \in Byte(\hff)
      BY ByteBits
<1>. QED
     BY <1>1, <1>2, <1>3

LEMMA MuxOutcome ==
    ASSUME NEW s \in Driver, s.err = "none", NEW range, NEW t \in Run(s, MuxList(range))
    PROVE  /\ Outcome(s, t) /\ Untouched(s, t, MuxTouched) /\ t.err \in {"none", "usb"}
           /\ t.err = "none" => Muxed(t, range)
<1>. DEFINE list == MuxList(range)
<1>1. /\ Len(list) = 6 /\ list[1] = W(\h17, range[2], 8) /\ list[2] = W(\h1a, range[3], \hc3)
      /\ list[3] = W(\h1b, range[4], \hff)
      BY DEF MuxList
<1>2. \A i \in 4..6 : list[i].reg \in {\h08, \h09, \h10} /\ \A b \in list[i].mask : b \in 0..7
      BY WType, ByteType DEF MuxList
<1>3. IsList(list)
      BY WType, RegsInterval DEF IsList, MuxList
<1>. HIDE DEF list
<1>4. Covers(MuxTouched, list)
  <2>1. SUFFICES ASSUME NEW i \in 1..6, NEW b \in list[i].mask PROVE <<list[i].reg, b>> \in MuxTouched
        BY <1>1 DEF Covers
  <2>2. CASE i = 1
        BY <1>1, <2>1, <2>2, WType, LockMasks, RegsInterval DEF MuxTouched
  <2>3. CASE i = 2
        BY <1>1, <2>1, <2>3, WType, MuxMasks, RegsInterval DEF MuxTouched
  <2>4. CASE i = 3
        BY <1>1, <2>1, <2>4, WType, ByteType, RegsInterval DEF MuxTouched
  <2>5. CASE i \in 4..6
        BY <1>2, <2>1, <2>5, RegsInterval DEF MuxTouched
  <2>. QED
       BY <2>2, <2>3, <2>4, <2>5
<1>5. Outcome(s, t) /\ t.err \in {"none", "usb"}
      BY <1>3, RunOutcome DEF list
<1>6. Untouched(s, t, MuxTouched)
      BY <1>3, <1>4, RunUntouched DEF list
<1>7. t.err = "none" => Muxed(t, range)
  <2>. SUFFICES ASSUME t.err = "none" PROVE Muxed(t, range)
       OBVIOUS
  <2>0. t \in Run(s, list)
        BY DEF list
  <2>1. list[2].reg = \h1a /\ list[3].reg = \h1b /\ list[2].val = Byte(range[3]) /\ list[3].val = Byte(range[4])
        /\ list[2].mask = Byte(\hc3) /\ list[3].mask = Byte(\hff)
        BY <1>1, WType
  <2>2. \h1a \in Regs /\ \h1b \in Regs /\ 2 \in 1..Len(list) /\ 3 \in 1..Len(list)
        BY <1>1, RegsInterval
  <2>3. ASSUME NEW b \in 0..7 PROVE On(t, \h1b, b) <=> b \in Byte(range[4])
    <3>1. Touches(list[3], \h1b, b)
          BY <2>1, MuxMasks DEF Touches
    <3>2. \A i \in (3 + 1)..Len(list) : ~Touches(list[i], \h1b, b)
          BY <1>1, <1>2 DEF Touches
    <3>3. On(t, \h1b, b) <=> b \in list[3].val
          BY <1>3, <2>0, <2>2, <3>1, <3>2, RunSets
    <3>. QED
         BY <2>1, <3>3
  <2>4. ASSUME NEW b \in {0, 1, 6, 7} PROVE On(t, \h1a, b) <=> b \in Byte(range[3])
    <3>1. Touches(list[2], \h1a, b)
          BY <2>1, MuxMasks DEF Touches
    <3>2. \A i \in (2 + 1)..Len(list) : i = 3 \/ i \in 4..6
          BY <1>1
    <3>3. \A i \in (2 + 1)..Len(list) : ~Touches(list[i], \h1a, b)
          BY <1>2, <2>1, <3>2 DEF Touches
    <3>4. On(t, \h1a, b) <=> b \in list[2].val
          BY <1>3, <2>0, <2>2, <3>1, <3>3, RunSets
    <3>. QED
         BY <2>1, <3>4
  <2>. QED
       BY <2>3, <2>4 DEF Muxed
<1>. QED
     BY <1>5, <1>6, <1>7

---------------------------------------------------------------------------
(* The antenna's input.                                                    *)
AntennaTouched ==
    {x \in Regs \X (0..7) :
        \/ x[1] = 5 /\ x[2] \in {5, 6}
        \/ x[1] = 6 /\ x[2] = 3
        \/ x[1] = \h17 /\ x[2] = 3}

(* The registers show the input that the driver remembers; a Blog V4 whose *)
(* input was forgotten shows nothing, and switches the next time.          *)
InputShown(t) ==
    /\ t.model = "R820T" => ~On(t, 5, 5) /\ ~On(t, 5, 6)
    /\ t.model = "R828D" => /\ t.input \in {0, \h60}
                            /\ On(t, 5, 5) <=> t.input = \h60
                            /\ On(t, 5, 6) <=> t.input = \h60
    /\ t.model = "BlogV4" /\ t.input # 0 =>
          /\ t.upconv = TRUE <=> t.input = HF
          /\ t.upconv = FALSE <=> t.input # HF
          /\ On(t, 6, 3) <=> t.input = HF
          /\ On(t, 5, 6) <=> t.input = VHF
          /\ On(t, 5, 5) <=> t.input # UHF

InputFor(model, f) == IF model = "R828D" THEN AirCable1(f) ELSE Band(f)

LEMMA AntennaMasks ==
    /\ \A b \in Byte(8) : b = 3
    /\ \A b \in Byte(\h40) : b = 6
    /\ \A b \in Byte(\h20) : b = 5
    /\ \A b \in Byte(\h60) : b \in {5, 6}
    /\ 3 \in Byte(8) /\ 6 \in Byte(\h40) /\ 5 \in Byte(\h20) /\ 5 \in Byte(\h60) /\ 6 \in Byte(\h60)
<1>1. ASSUME NEW b \in Byte(8) PROVE b = 3
      BY ByteType, ByteBits
<1>2. ASSUME NEW b \in Byte(\h40) PROVE b = 6
      BY ByteType, ByteBits
<1>3. ASSUME NEW b \in Byte(\h20) PROVE b = 5
      BY ByteType, ByteBits
<1>4. ASSUME NEW b \in Byte(\h60) PROVE b \in {5, 6}
      BY ByteType, ByteBits
<1>5. 3 \in Byte(8) /\ 6 \in Byte(\h40) /\ 5 \in Byte(\h20)
      BY ByteBits
<1>6. 5 \in Byte(\h60) /\ 6 \in Byte(\h60)
      BY ByteBits
<1>. QED
     BY <1>1, <1>2, <1>3, <1>4, <1>5, <1>6

LEMMA UpconverterOutcome ==
    ASSUME NEW s \in Driver, s.err = "none", NEW on \in BOOLEAN, NEW t \in SetUpconverter(s, on)
    PROVE  /\ Moved(s, t) /\ t.shadow = s.shadow /\ t.err \in {"none", "usb"}
           /\ t.err = "none" => t.upconv = on /\ t.input = s.input
<1>. DEFINE u == [s EXCEPT !.upconv = on]
<1>1. /\ u \in Driver /\ u.err = "none" /\ u.upconv = on /\ u.input = s.input /\ u.shadow = s.shadow
      /\ u.chip = s.chip /\ u.faults = s.faults /\ u.model = s.model
      BY DEF Driver
<1>2. t = u \/ \E v \in {s, u} : v.faults > 0 /\ t = [v EXCEPT !.faults = @ - 1, !.err = "usb"]
      BY DEF SetUpconverter, Faulty
<1>. HIDE DEF u
<1>3. CASE t = u
      BY <1>1, <1>3 DEF Moved, Follows
<1>4. ASSUME NEW v \in {s, u}, v.faults > 0, t = [v EXCEPT !.faults = @ - 1, !.err = "usb"]
      PROVE  Moved(s, t) /\ t.shadow = s.shadow /\ t.err = "usb"
  <2>. DEFINE f == v.faults - 1
  <2>1. v \in Driver /\ v.faults = s.faults /\ v.model = s.model /\ v.shadow = s.shadow
        BY <1>1
  <2>2. f \in Nat /\ f < s.faults /\ t = [v EXCEPT !.faults = f, !.err = "usb"]
        BY <1>4, <2>1 DEF Driver
  <2>. HIDE DEF f
  <2>3. t \in Driver /\ t.model = v.model /\ t.shadow = v.shadow /\ t.err = "usb" /\ t.faults = f
        BY <2>1, <2>2 DEF Driver
  <2>. QED
       BY <2>1, <2>2, <2>3 DEF Moved, Broke
<1>. QED
     BY <1>2, <1>3, <1>4

LEMMA RunTwo ==
    ASSUME NEW s \in Driver, s.err = "none", NEW q \in Regs, NEW v, NEW m, NEW r \in Regs, NEW w, NEW n,
           NEW t \in Run(s, <<W(q, v, m), W(r, w, n)>>),
           NEW T, \A b \in Byte(m) : <<q, b>> \in T, \A b \in Byte(n) : <<r, b>> \in T
    PROVE  /\ Outcome(s, t) /\ t.err \in {"none", "usb"} /\ Untouched(s, t, T)
           /\ t.err = "none" => \A b \in Byte(m) : q # r \/ b \notin Byte(n) => (On(t, q, b) <=> b \in Byte(v))
           /\ t.err = "none" => \A b \in Byte(n) : On(t, r, b) <=> b \in Byte(w)
<1>. DEFINE list == <<W(q, v, m), W(r, w, n)>>
<1>1. Len(list) = 2 /\ list[1] = W(q, v, m) /\ list[2] = W(r, w, n)
      OBVIOUS
<1>2. t \in Run(s, list)
      OBVIOUS
<1>. HIDE DEF list
<1>3. /\ list[1].reg = q /\ list[1].val = Byte(v) /\ list[1].mask = Byte(m) /\ IsWrite(list[1])
      /\ list[2].reg = r /\ list[2].val = Byte(w) /\ list[2].mask = Byte(n) /\ IsWrite(list[2])
      BY <1>1, WType
<1>4. IsList(list) /\ Covers(T, list)
  <2>1. \A i \in 1..Len(list) : i = 1 \/ i = 2
        BY <1>1
  <2>. QED
       BY <1>1, <1>3, <2>1 DEF IsList, Covers
<1>5. Outcome(s, t) /\ t.err \in {"none", "usb"} /\ Untouched(s, t, T)
      BY <1>2, <1>4, RunOutcome, RunUntouched
<1>6. 1 \in 1..Len(list) /\ 2 \in 1..Len(list)
      BY <1>1
<1>7. ASSUME t.err = "none", NEW b \in Byte(m), q # r \/ b \notin Byte(n)
      PROVE  On(t, q, b) <=> b \in Byte(v)
  <2>1. Touches(list[1], q, b)
        BY <1>3, <1>7 DEF Touches
  <2>2. \A i \in (1 + 1)..Len(list) : i = 2
        BY <1>1
  <2>3. \A i \in (1 + 1)..Len(list) : ~Touches(list[i], q, b)
        BY <1>3, <1>7, <2>2 DEF Touches
  <2>4. On(t, q, b) <=> b \in list[1].val
        BY <1>2, <1>4, <1>6, <1>7, <2>1, <2>3, RunSets
  <2>. QED
       BY <1>3, <2>4
<1>8. ASSUME t.err = "none", NEW b \in Byte(n)
      PROVE  On(t, r, b) <=> b \in Byte(w)
  <2>1. Touches(list[2], r, b)
        BY <1>3, <1>8 DEF Touches
  <2>2. \A i \in (2 + 1)..Len(list) : ~Touches(list[i], r, b)
        BY <1>1
  <2>3. On(t, r, b) <=> b \in list[2].val
        BY <1>2, <1>4, <1>6, <1>8, <2>1, <2>2, RunSets
  <2>. QED
       BY <1>3, <2>3
<1>. QED
     BY <1>5, <1>7, <1>8

AntennaStep(s, t) == Moved(s, t) /\ Untouched(s, t, AntennaTouched) /\ t.err \in {"none", "usb"}

LEMMA AntennaTrans ==
    ASSUME NEW s, NEW u, NEW t, AntennaStep(s, u), u.err = "none", AntennaStep(u, t)
    PROVE  AntennaStep(s, t)
BY MovedTrans, UntouchedTrans DEF AntennaStep

LEMMA AntennaPairs ==
    /\ <<5, 5>> \in AntennaTouched /\ <<5, 6>> \in AntennaTouched
    /\ <<6, 3>> \in AntennaTouched /\ <<\h17, 3>> \in AntennaTouched
    /\ 5 \in Regs /\ 6 \in Regs /\ \h17 \in Regs
BY RegsInterval DEF AntennaTouched

LEMMA SwitchOutcome ==
    ASSUME NEW s \in Driver, s.err = "none", s.model = "BlogV4", NEW band \in {HF, VHF, UHF},
           NEW t \in SwitchBand(s, band)
    PROVE  AntennaStep(s, t) /\ (t.err = "none" => t.input = band /\ InputShown(t))
<1>. DEFINE v == [s EXCEPT !.input = band]
            up == band = HF
            First == Run(v, <<W(\h06, IF band = HF THEN 8 ELSE 0, 8)>>)
            Second == Then(First, LAMBDA u : SetUpconverter(u, band = HF))
            Final(u) == Run(u, <<W(\h05, IF band = VHF THEN \h40 ELSE 0, \h40),
                                W(\h05, IF band = UHF THEN 0 ELSE \h20, \h20)>>)
<1>0. HF = 1 /\ VHF = 2 /\ UHF = 3
      BY DEF HF, VHF, UHF
<1>1. /\ v \in Driver /\ v.err = "none" /\ v.input = band /\ v.shadow = s.shadow /\ v.chip = s.chip
      /\ v.faults = s.faults /\ v.model = s.model
      BY DEF Driver, Inputs
<1>. HIDE DEF v
<1>2. AntennaStep(s, v)
      BY <1>1, UntouchedSame DEF AntennaStep, Moved, Follows
<1>3. ASSUME NEW u \in First
      PROVE  /\ AntennaStep(s, u) /\ u \in Driver /\ u.model = "BlogV4" /\ u.input = band
             /\ u.err = "none" => (On(u, 6, 3) <=> band = HF)
  <2>. DEFINE x == IF band = HF THEN 8 ELSE 0
  <2>1. \A b \in Byte(8) : <<6, b>> \in AntennaTouched
        BY AntennaMasks, AntennaPairs
  <2>2. u \in Run(v, <<W(6, x, 8)>>)
        BY <1>3
  <2>3. 3 \in Byte(x) <=> band = HF
        BY AntennaMasks, SysMasks
  <2>. HIDE DEF x
  <2>4. /\ Outcome(v, u) /\ u.err \in {"none", "usb"} /\ Untouched(v, u, AntennaTouched)
        /\ u.err = "none" => \A b \in Byte(8) : On(u, 6, b) <=> b \in Byte(x)
    <3>1. 6 \in Regs
          BY AntennaPairs
    <3>. QED
         BY <1>1, <2>1, <2>2, <3>1, RunOne
  <2>5. AntennaStep(v, u) /\ u \in Driver /\ u.model = "BlogV4" /\ u.input = band
        BY <1>1, <2>4 DEF AntennaStep, Outcome, Same, Moved
  <2>6. u.err = "none" => (On(u, 6, 3) <=> band = HF)
        BY <2>3, <2>4, AntennaMasks
  <2>. QED
       BY <1>1, <1>2, <2>5, <2>6, AntennaTrans
<1>4. ASSUME NEW u \in Second
      PROVE  /\ AntennaStep(s, u) /\ u \in Driver /\ u.model = "BlogV4"
             /\ u.err = "none" => u.input = band /\ u.upconv = up /\ (On(u, 6, 3) <=> band = HF)
  <2>1. \/ u \in First /\ u.err # "none"
        \/ \E w \in First : w.err = "none" /\ u \in SetUpconverter(w, up)
        BY <1>4 DEF Then, Succeeded
  <2>2. CASE u \in First /\ u.err # "none"
        BY <1>3, <2>2
  <2>3. CASE \E w \in First : w.err = "none" /\ u \in SetUpconverter(w, up)
    <3>1. PICK w \in First : w.err = "none" /\ u \in SetUpconverter(w, up)
          BY <2>3
    <3>2. /\ AntennaStep(s, w) /\ w \in Driver /\ w.model = "BlogV4" /\ w.input = band
          /\ On(w, 6, 3) <=> band = HF
          BY <1>3, <3>1
    <3>3. up \in BOOLEAN
          OBVIOUS
    <3>. HIDE DEF up, First
    <3>4. /\ Moved(w, u) /\ u.shadow = w.shadow /\ u.err \in {"none", "usb"}
          /\ u.err = "none" => u.upconv = up /\ u.input = w.input
          BY <3>1, <3>2, <3>3, UpconverterOutcome
    <3>5. AntennaStep(w, u)
          BY <3>4, UntouchedSame DEF AntennaStep
    <3>6. AntennaStep(s, u)
          BY <3>1, <3>2, <3>5, AntennaTrans
    <3>7. u \in Driver /\ u.model = "BlogV4" /\ (On(u, 6, 3) <=> On(w, 6, 3))
          BY <3>2, <3>4 DEF Moved, On
    <3>. QED
         BY <3>2, <3>4, <3>6, <3>7
  <2>. QED
       BY <2>1, <2>2, <2>3
<1>5. ASSUME NEW u \in Driver, u.err = "none", u.model = "BlogV4", u.input = band, u.upconv = up,
             On(u, 6, 3) <=> band = HF, NEW w \in Final(u)
      PROVE  AntennaStep(u, w) /\ (w.err = "none" => w.input = band /\ InputShown(w))
  <2>. DEFINE x == IF band = VHF THEN \h40 ELSE 0
              y == IF band = UHF THEN 0 ELSE \h20
  <2>1. (\A b \in Byte(\h40) : <<5, b>> \in AntennaTouched) /\ (\A b \in Byte(\h20) : <<5, b>> \in AntennaTouched)
        BY AntennaMasks, AntennaPairs
  <2>2. w \in Run(u, <<W(5, x, \h40), W(5, y, \h20)>>)
        BY <1>5
  <2>3. (6 \in Byte(x) <=> band = VHF) /\ (5 \in Byte(y) <=> band # UHF)
        BY AntennaMasks, SysMasks
  <2>. HIDE DEF x, y
  <2>4. /\ Outcome(u, w) /\ w.err \in {"none", "usb"} /\ Untouched(u, w, AntennaTouched)
        /\ w.err = "none" => \A b \in Byte(\h40) : 5 # 5 \/ b \notin Byte(\h20) => (On(w, 5, b) <=> b \in Byte(x))
        /\ w.err = "none" => \A b \in Byte(\h20) : On(w, 5, b) <=> b \in Byte(y)
    <3>1. 5 \in Regs
          BY AntennaPairs
    <3>. QED
         BY <1>5, <2>1, <2>2, <3>1, RunTwo
  <2>5. AntennaStep(u, w) /\ w.model = "BlogV4" /\ w.input = band /\ w.upconv = up
        BY <1>5, <2>4 DEF AntennaStep, Outcome, Same, Moved
  <2>6. w.err = "none" => (On(w, 5, 6) <=> band = VHF) /\ (On(w, 5, 5) <=> band # UHF)
    <3>1. 6 \notin Byte(\h20)
          BY AntennaMasks
    <3>. QED
         BY <2>3, <2>4, <3>1, AntennaMasks
  <2>7. On(w, 6, 3) <=> band = HF
    <3>1. \A b \in Byte(\h40) \cup Byte(\h20) : <<5, b>> \in {<<5, 5>>, <<5, 6>>}
          BY AntennaMasks
    <3>2. Untouched(u, w, {<<5, 5>>, <<5, 6>>})
      <4>. DEFINE T == {<<5, 5>>, <<5, 6>>}
      <4>1. (\A b \in Byte(\h40) : <<5, b>> \in T) /\ (\A b \in Byte(\h20) : <<5, b>> \in T)
            BY <3>1
      <4>. HIDE DEF T
      <4>2. Untouched(u, w, T)
            BY <1>5, <2>2, <4>1, AntennaPairs, RunTwo
      <4>. QED
           BY <4>2 DEF T
    <3>3. <<6, 3>> \notin {<<5, 5>>, <<5, 6>>} /\ 3 \in 0..7 /\ 6 \in Regs
          BY AntennaPairs
    <3>4. On(w, 6, 3) <=> On(u, 6, 3)
          BY <3>2, <3>3, Zenon DEF Untouched
    <3>. QED
         BY <1>5, <3>4
  <2>8. w.err = "none" => InputShown(w)
        BY <1>0, <2>5, <2>6, <2>7 DEF InputShown
  <2>. QED
       BY <2>5, <2>8
<1>6. \/ t \in Second /\ t.err # "none"
      \/ \E u \in Second : u.err = "none" /\ t \in Final(u)
      BY DEF SwitchBand, Then, Succeeded, v
<1>. HIDE DEF Second, Final, up
<1>7. CASE t \in Second /\ t.err # "none"
      BY <1>4, <1>7
<1>8. CASE \E u \in Second : u.err = "none" /\ t \in Final(u)
  <2>1. PICK u \in Second : u.err = "none" /\ t \in Final(u)
        BY <1>8
  <2>. QED
       BY <2>1, <1>4, <1>5, AntennaTrans
<1>. QED
     BY <1>6, <1>7, <1>8

(* Operations that leave the antenna's registers and fields alone keep it  *)
(* shown.                                                                  *)
LEMMA InputStays ==
    ASSUME NEW s, NEW t, NEW T, Same(s, t), Untouched(s, t, T),
           <<5, 5>> \notin T, <<5, 6>> \notin T, <<6, 3>> \notin T, InputShown(s)
    PROVE  InputShown(t)
<1>1. 5 \in Regs /\ 6 \in Regs /\ 3 \in 0..7 /\ 5 \in 0..7 /\ 6 \in 0..7
      BY RegsInterval
<1>2. On(t, 5, 5) <=> On(s, 5, 5)
      BY <1>1, Zenon DEF Untouched
<1>3. On(t, 5, 6) <=> On(s, 5, 6)
      BY <1>1, Zenon DEF Untouched
<1>4. On(t, 6, 3) <=> On(s, 6, 3)
      BY <1>1, Zenon DEF Untouched
<1>. QED
     BY <1>2, <1>3, <1>4 DEF InputShown, Same

LEMMA CableOutcome ==
    ASSUME NEW s \in Driver, s.err = "none", s.model = "R828D", NEW a \in {0, \h60},
           NEW t \in Run([s EXCEPT !.input = a], <<W(\h05, a, \h60)>>)
    PROVE  AntennaStep(s, t) /\ (t.err = "none" => t.input = a /\ InputShown(t))
<1>. DEFINE v == [s EXCEPT !.input = a]
<1>1. /\ v \in Driver /\ v.err = "none" /\ v.input = a /\ v.shadow = s.shadow /\ v.chip = s.chip
      /\ v.faults = s.faults /\ v.model = s.model
      BY DEF Driver, Inputs
<1>2. t \in Run(v, <<W(5, a, \h60)>>)
      OBVIOUS
<1>. HIDE DEF v
<1>3. AntennaStep(s, v)
      BY <1>1, UntouchedSame DEF AntennaStep, Moved, Follows
<1>4. 5 \in Regs /\ \A b \in Byte(\h60) : <<5, b>> \in AntennaTouched
      BY AntennaMasks, AntennaPairs
<1>5. /\ Outcome(v, t) /\ t.err \in {"none", "usb"} /\ Untouched(v, t, AntennaTouched)
      /\ t.err = "none" => \A b \in Byte(\h60) : On(t, 5, b) <=> b \in Byte(a)
      BY <1>1, <1>2, <1>4, RunOne
<1>6. AntennaStep(v, t) /\ t.input = a /\ t.model = "R828D"
      BY <1>1, <1>5 DEF AntennaStep, Outcome, Same, Moved
<1>7. (5 \in Byte(a) <=> a = \h60) /\ (6 \in Byte(a) <=> a = \h60)
      BY AntennaMasks, SysMasks
<1>8. t.err = "none" => (On(t, 5, 5) <=> a = \h60) /\ (On(t, 5, 6) <=> a = \h60)
      BY <1>5, <1>7, AntennaMasks
<1>9. t.err = "none" => InputShown(t)
      BY <1>6, <1>8 DEF InputShown
<1>. QED
     BY <1>1, <1>3, <1>6, <1>9, AntennaTrans

NotchTouched == {<<\h17, 3>>}

LEMMA AntennaOutcome ==
    ASSUME NEW s \in Driver, s.err = "none", NEW f \in Nat \ {0}, NEW t \in Antenna(s, f)
    PROVE  /\ AntennaStep(s, t)
           /\ InputShown(s) /\ t.err = "none" =>
                InputShown(t) /\ (t.model # "R820T" => t.input = InputFor(t.model, f))
<1>1. s.model \in {"R820T", "R828D", "BlogV4"}
  <2>1. s.model \in Chips
        BY DEF Driver
  <2>. QED
       BY <2>1, ChipsKnown
<1>2. AntennaStep(s, s)
      BY UntouchedSame, FollowsSelf DEF AntennaStep, Moved
<1>3. CASE s.model = "R820T"
  <2>1. t = s
        BY <1>3 DEF Antenna
  <2>. QED
       BY <1>2, <1>3, <2>1
<1>4. CASE s.model = "R828D" /\ AirCable1(f) = s.input
  <2>1. t = s
        BY <1>4 DEF Antenna
  <2>. QED
       BY <1>2, <1>4, <2>1 DEF InputFor
<1>5. CASE s.model = "R828D" /\ AirCable1(f) # s.input
  <2>. DEFINE a == AirCable1(f)
  <2>1. t \in Run([s EXCEPT !.input = a], <<W(\h05, a, \h60)>>)
        BY <1>5 DEF Antenna
  <2>2. a \in {0, \h60}
        BY DEF AirCable1
  <2>. HIDE DEF a
  <2>3. AntennaStep(s, t) /\ (t.err = "none" => t.input = a /\ InputShown(t))
        BY <1>5, <2>1, <2>2, CableOutcome
  <2>4. t.model = s.model
        BY <2>3 DEF AntennaStep, Moved
  <2>. QED
       BY <1>5, <2>3, <2>4 DEF InputFor, a
<1>6. CASE s.model = "BlogV4"
  <2>. DEFINE notch == IF Notched(f) THEN 0 ELSE 8
              First == Run(s, <<W(\h17, notch, 8)>>)
              band == Band(f)
              Final(u) == IF band = u.input THEN {u} ELSE SwitchBand(u, band)
  <2>1. \/ t \in First /\ t.err # "none"
        \/ \E u \in First : u.err = "none" /\ t \in Final(u)
        BY <1>6 DEF Antenna, Then, Succeeded
  <2>2. band \in {HF, VHF, UHF}
        BY DEF Band
  <2>. HIDE DEF notch, band
  <2>3. ASSUME NEW u \in First
        PROVE  /\ AntennaStep(s, u) /\ u \in Driver /\ u.model = "BlogV4"
               /\ InputShown(s) => InputShown(u)
    <3>1. \h17 \in Regs /\ \A b \in Byte(8) : <<\h17, b>> \in NotchTouched
          BY AntennaMasks, AntennaPairs DEF NotchTouched
    <3>2. u \in Run(s, <<W(\h17, notch, 8)>>)
          BY <2>3
    <3>3. Outcome(s, u) /\ u.err \in {"none", "usb"} /\ Untouched(s, u, NotchTouched)
          BY <3>1, <3>2, RunOne
    <3>4. NotchTouched \subseteq AntennaTouched
          BY AntennaPairs DEF NotchTouched
    <3>5. Untouched(s, u, AntennaTouched)
          BY <3>3, <3>4, UntouchedMore
    <3>6. <<5, 5>> \notin NotchTouched /\ <<5, 6>> \notin NotchTouched /\ <<6, 3>> \notin NotchTouched
          BY DEF NotchTouched
    <3>7. InputShown(s) => InputShown(u)
          BY <3>3, <3>6, InputStays DEF Outcome
    <3>. QED
         BY <1>6, <3>3, <3>5, <3>7 DEF AntennaStep, Outcome, Same, Moved
  <2>. HIDE DEF First
  <2>4. CASE t \in First /\ t.err # "none"
        BY <2>3, <2>4
  <2>5. ASSUME NEW u \in First, u.err = "none", t \in Final(u)
        PROVE  /\ AntennaStep(s, t)
               /\ InputShown(s) /\ t.err = "none" => InputShown(t) /\ t.input = band
    <3>1. AntennaStep(s, u) /\ u \in Driver /\ u.model = "BlogV4" /\ (InputShown(s) => InputShown(u))
          BY <2>3, <2>5
    <3>2. CASE band = u.input
          BY <3>1, <3>2, <2>5
    <3>3. CASE band # u.input
      <4>1. t \in SwitchBand(u, band)
            BY <2>5, <3>3
      <4>. HIDE DEF Final
      <4>2. AntennaStep(u, t) /\ (t.err = "none" => t.input = band /\ InputShown(t))
            BY <2>2, <2>5, <3>1, <4>1, SwitchOutcome
      <4>. QED
           BY <2>5, <3>1, <4>2, AntennaTrans
    <3>. QED
         BY <3>2, <3>3
  <2>6. AntennaStep(s, t) => t.model = "BlogV4"
        BY <1>6 DEF AntennaStep, Moved
  <2>7. InputFor("BlogV4", f) = band
        BY DEF InputFor, band
  <2>. QED
       BY <2>1, <2>4, <2>5, <2>6, <2>7
<1>. QED
     BY <1>1, <1>3, <1>4, <1>5, <1>6

---------------------------------------------------------------------------
(* A call of set_freq that went through.                                   *)
TunedTo(t, model, lo) ==
    /\ Muxed(t, FREQ_RANGES[FreqRange(lo \div 1000)])
    /\ \E d \in MixDivs(lo) : Spelt(t, VcoDiv(XTAL_128(model), lo * d))

TuneTouched == MuxTouched \cup PllTouched \cup AntennaTouched

LEMMA MuxedStays ==
    ASSUME NEW s, NEW t, NEW range, Muxed(s, range), NEW T, Untouched(s, t, T),
           \A b \in 0..7 : <<\h1b, b>> \notin T,
           \A b \in {0, 1, 6, 7} : <<\h1a, b>> \notin T
    PROVE  Muxed(t, range)
<1>1. \h1b \in Regs /\ \h1a \in Regs /\ \A b \in {0, 1, 6, 7} : b \in 0..7
      BY RegsInterval
<1>2. \A b \in 0..7 : On(t, \h1b, b) <=> On(s, \h1b, b)
      BY <1>1, Zenon DEF Untouched
<1>3. \A b \in {0, 1, 6, 7} : On(t, \h1a, b) <=> On(s, \h1a, b)
      BY <1>1, Zenon DEF Untouched
<1>. QED
     BY <1>2, <1>3 DEF Muxed


LEMMA TunePairs ==
    /\ \A b \in 0..7 : <<\h1b, b>> \notin PllTouched /\ <<\h1b, b>> \notin AntennaTouched
    /\ \A b \in {0, 1, 6, 7} : <<\h1a, b>> \notin PllTouched /\ <<\h1a, b>> \notin AntennaTouched
    /\ \A b \in 0..7 : /\ <<\h14, b>> \notin AntennaTouched /\ <<\h15, b>> \notin AntennaTouched
                       /\ <<\h16, b>> \notin AntennaTouched
    /\ <<\h12, 3>> \notin AntennaTouched
    /\ <<5, 5>> \notin MuxTouched /\ <<5, 6>> \notin MuxTouched /\ <<6, 3>> \notin MuxTouched
    /\ <<5, 5>> \notin PllTouched /\ <<5, 6>> \notin PllTouched /\ <<6, 3>> \notin PllTouched
<1>1. \A b \in 0..7 : <<\h1b, b>> \notin PllTouched /\ <<\h1b, b>> \notin AntennaTouched
      BY DEF PllTouched, AntennaTouched
<1>2. \A b \in {0, 1, 6, 7} : <<\h1a, b>> \notin PllTouched /\ <<\h1a, b>> \notin AntennaTouched
      BY DEF PllTouched, AntennaTouched
<1>3. \A b \in 0..7 : /\ <<\h14, b>> \notin AntennaTouched /\ <<\h15, b>> \notin AntennaTouched
                       /\ <<\h16, b>> \notin AntennaTouched
      BY DEF AntennaTouched
<1>4. <<\h12, 3>> \notin AntennaTouched
      BY DEF AntennaTouched
<1>5. <<5, 5>> \notin MuxTouched /\ <<5, 6>> \notin MuxTouched /\ <<6, 3>> \notin MuxTouched
      BY DEF MuxTouched
<1>6. <<5, 5>> \notin PllTouched /\ <<5, 6>> \notin PllTouched /\ <<6, 3>> \notin PllTouched
      BY DEF PllTouched
<1>. QED
     BY <1>1, <1>2, <1>3, <1>4, <1>5, <1>6

TuneStep(s, t) == Moved(s, t) /\ Untouched(s, t, TuneTouched)

LEMMA TuneTrans ==
    ASSUME NEW s, NEW u, NEW t, TuneStep(s, u), u.err = "none", TuneStep(u, t)
    PROVE  TuneStep(s, t)
BY MovedTrans, UntouchedTrans DEF TuneStep

LEMMA SetFreqOutcome ==
    ASSUME NEW s \in Driver, s.err = "none", NEW f \in Nat \ {0}, NEW t \in set_freq(s, f)
    PROVE  /\ TuneStep(s, t)
           /\ t.err # "usb" /\ InputShown(s) => InputShown(t)
           /\ t.err = "none" => TunedTo(t, s.model, LoFreq(s, f))
           /\ t.err = "none" /\ InputShown(s) /\ t.model # "R820T" => t.input = InputFor(t.model, f)
<1>. DEFINE lo == LoFreq(s, f)
            range == FREQ_RANGES[FreqRange(lo \div 1000)]
            First == Run(s, MuxList(range))
            Second == Then(First, LAMBDA u : set_pll(u, lo))
            Good(u) == \E d \in MixDivs(lo) : Spelt(u, VcoDiv(XTAL_128(s.model), lo * d))
            Kept(u) == InputShown(s) => InputShown(u)
<1>1. set_mux(s, lo) = First
      BY DEF set_mux, MuxList
<1>2. \/ t \in Second /\ t.err # "none"
      \/ \E u \in Second : u.err = "none" /\ t \in Antenna(u, f)
      BY <1>1 DEF set_freq, Then, Succeeded
<1>. HIDE DEF lo, range
<1>3. ASSUME NEW u \in First
      PROVE  /\ TuneStep(s, u) /\ Outcome(s, u) /\ u \in Driver /\ u.model = s.model /\ Kept(u)
             /\ u.err \in {"none", "usb"} /\ (u.err = "none" => Muxed(u, range))
  <2>1. /\ Outcome(s, u) /\ Untouched(s, u, MuxTouched) /\ u.err \in {"none", "usb"}
        /\ u.err = "none" => Muxed(u, range)
        BY <1>3, MuxOutcome
  <2>2. Untouched(s, u, TuneTouched)
        BY <2>1, UntouchedMore DEF TuneTouched
  <2>3. Same(s, u)
        BY <2>1 DEF Outcome
  <2>4. Kept(u)
        BY <2>1, <2>3, TunePairs, InputStays
  <2>. QED
       BY <2>1, <2>2, <2>3, <2>4 DEF TuneStep, Outcome, Same, Moved
<1>4. ASSUME NEW u \in Driver, u.err = "none", NEW v \in set_pll(u, lo)
      PROVE  /\ TuneStep(u, v) /\ v \in Driver /\ v.model = u.model
             /\ InputShown(u) => InputShown(v)
             /\ Muxed(u, range) => Muxed(v, range)
             /\ u.model = s.model /\ v.err = "none" => Good(v)
  <2>1. /\ Outcome(u, v) /\ Untouched(u, v, PllTouched)
        /\ v.err = "none" => \E d \in MixDivs(lo) : Spelt(v, VcoDiv(XTAL_128(u.model), lo * d))
        BY <1>4, PllOutcome
  <2>2. Untouched(u, v, TuneTouched)
        BY <2>1, UntouchedMore DEF TuneTouched
  <2>3. Same(u, v)
        BY <2>1 DEF Outcome
  <2>4. InputShown(u) => InputShown(v)
        BY <2>1, <2>3, TunePairs, InputStays
  <2>5. Muxed(u, range) => Muxed(v, range)
        BY <2>1, TunePairs, MuxedStays
  <2>6. u.model = s.model /\ v.err = "none" => Good(v)
        BY <2>1
  <2>. HIDE DEF Good
  <2>. QED
       BY <2>1, <2>2, <2>3, <2>4, <2>5, <2>6 DEF TuneStep, Outcome, Same, Moved
<1>. HIDE DEF First, Good, Kept
<1>5. ASSUME NEW v \in Second
      PROVE  /\ TuneStep(s, v) /\ v \in Driver /\ v.model = s.model /\ Kept(v)
             /\ v.err = "none" => Muxed(v, range) /\ Good(v)
  <2>1. \/ v \in First /\ v.err # "none"
        \/ \E u \in First : u.err = "none" /\ v \in set_pll(u, lo)
        BY <1>5 DEF Then, Succeeded
  <2>2. CASE v \in First /\ v.err # "none"
        BY <1>3, <2>2
  <2>3. CASE \E u \in First : u.err = "none" /\ v \in set_pll(u, lo)
    <3>1. PICK u \in First : u.err = "none" /\ v \in set_pll(u, lo)
          BY <2>3
    <3>2. TuneStep(s, u) /\ u \in Driver /\ u.model = s.model /\ Kept(u) /\ Muxed(u, range)
          BY <1>3, <3>1
    <3>3. /\ TuneStep(u, v) /\ v \in Driver /\ v.model = u.model
          /\ InputShown(u) => InputShown(v)
          /\ Muxed(u, range) => Muxed(v, range)
          /\ u.model = s.model /\ v.err = "none" => Good(v)
          BY <1>4, <3>1, <3>2
    <3>4. TuneStep(s, v)
          BY <3>1, <3>2, <3>3, TuneTrans
    <3>. QED
         BY <3>2, <3>3, <3>4 DEF Kept
  <2>. QED
       BY <2>1, <2>2, <2>3
<1>. HIDE DEF Second
<1>6. CASE t \in Second /\ t.err # "none"
      BY <1>5, <1>6 DEF Kept
<1>7. CASE \E u \in Second : u.err = "none" /\ t \in Antenna(u, f)
  <2>1. PICK u \in Second : u.err = "none" /\ t \in Antenna(u, f)
        BY <1>7
  <2>2. TuneStep(s, u) /\ u \in Driver /\ u.model = s.model /\ Kept(u) /\ Muxed(u, range) /\ Good(u)
        BY <1>5, <2>1
  <2>3. /\ AntennaStep(u, t)
        /\ InputShown(u) /\ t.err = "none" =>
             InputShown(t) /\ (t.model # "R820T" => t.input = InputFor(t.model, f))
        BY <2>1, <2>2, AntennaOutcome
  <2>4. TuneStep(u, t) /\ t \in Driver /\ Untouched(u, t, AntennaTouched) /\ t.err \in {"none", "usb"}
        BY <2>3, UntouchedMore DEF AntennaStep, TuneStep, TuneTouched, Moved
  <2>5. TuneStep(s, t)
        BY <2>1, <2>2, <2>4, TuneTrans
  <2>6. Muxed(t, range)
        BY <2>2, <2>4, TunePairs, MuxedStays
  <2>7. Good(t)
    <3>1. PICK d \in MixDivs(lo) : Spelt(u, VcoDiv(XTAL_128(s.model), lo * d))
          BY <2>2 DEF Good
    <3>2. Spelt(t, VcoDiv(XTAL_128(s.model), lo * d))
          BY <2>2, <2>4, <3>1, TunePairs, SpeltStays
    <3>. QED
         BY <3>2 DEF Good
  <2>8. TunedTo(t, s.model, lo)
        BY <2>6, <2>7 DEF TunedTo, Good, range
  <2>. QED
       BY <2>2, <2>3, <2>4, <2>5, <2>8 DEF Kept, lo
<1>. QED
     BY <1>2, <1>6, <1>7

---------------------------------------------------------------------------
(* The calls that a retry puts right. An Ok call of them pays what is owed *)
(* by the same call, and one that fails owes no more than its own writes.  *)
Mends(s, t, R) ==
    /\ t.err = "none" /\ Owed(s, R) => Owed(t, {})
    /\ t.err # "none" /\ s.shadow = s.chip => Owed(t, R)

LEMMA OwedMore ==
    ASSUME NEW s, NEW Due, NEW More, Due \subseteq More, Owed(s, Due)
    PROVE  Owed(s, More)
BY DEF Owed

LEMMA RunMends ==
    ASSUME NEW s \in Driver, s.err = "none", NEW list, IsList(list), NEW t \in Run(s, list)
    PROVE  Mends(s, t, Writes(list))
<1>. DEFINE R == Writes(list)
<1>1. {} \cup R = R
      OBVIOUS
<1>2. ASSUME t.err = "none", Owed(s, R) PROVE Owed(t, {})
  <2>1. Owed(s, {} \cup R)
        BY <1>1, <1>2
  <2>. QED
       BY <1>2, <2>1, RunPays
<1>3. ASSUME t.err # "none", s.shadow = s.chip PROVE Owed(t, R)
      BY <1>3, RunOwes
<1>. HIDE DEF R
<1>. QED
     BY <1>2, <1>3 DEF Mends, R

(* The bandwidth.                                                          *)
BwList(bw) == <<W(\h0a, Setting(bw).reg0a, \h10), W(\h0b, Setting(bw).reg0b, \hef)>>
BwTouched == {x \in Regs \X (0..7) : (x[1] = \h0a /\ x[2] = 4) \/ x[1] = \h0b}

LEMMA BwPairs ==
    /\ \h0a \in Regs /\ \h0b \in Regs
    /\ \A b \in Byte(\h10) : <<\h0a, b>> \in BwTouched
    /\ \A b \in Byte(\hef) : <<\h0b, b>> \in BwTouched
<1>1. \h0a \in Regs /\ \h0b \in Regs
      BY RegsInterval
<1>2. ASSUME NEW b \in Byte(\h10) PROVE b = 4
      BY ByteType, ByteBits
<1>. QED
     BY <1>1, <1>2, ByteType DEF BwTouched

LEMMA TableRange ==
    \A i \in 1..10 : /\ IF_LOW_PASS_BW_TABLE[i] \in Int
                     /\ IF_LOW_PASS_BW_TABLE[i] >= 350000 /\ IF_LOW_PASS_BW_TABLE[i] <= 1700000
BY SMT DEF IF_LOW_PASS_BW_TABLE

LEMMA IdxRange == ASSUME NEW bw PROVE FindIfLpfIdx(bw) \in 1..10
<1>. DEFINE W0 == {i \in 1..10 : IF_LOW_PASS_BW_TABLE[i] >= bw}
            k == Cardinality(W0)
            m == IF k = 0 THEN 1 ELSE k
<1>1. IsFiniteSet(1..10) /\ Cardinality(1..10) = 10
  <2>1. 1 \in Int /\ 10 \in Int
        OBVIOUS
  <2>2. /\ IsFiniteSet(1..10)
        /\ Cardinality(1..10) = IF 1 > 10 THEN 0 ELSE 10 - 1 + 1
        BY <2>1, FS_Interval
  <2>. QED
       BY <2>2
<1>2. W0 \subseteq 1..10
      OBVIOUS
<1>3. k \in Nat /\ k <= 10
  <2>. HIDE DEF W0
  <2>1. Cardinality(W0) <= Cardinality(1..10) /\ IsFiniteSet(W0)
        BY <1>1, <1>2, FS_Subset
  <2>2. Cardinality(W0) \in Nat
        BY <2>1, FS_CardinalityType
  <2>. QED
       BY <1>1, <2>1, <2>2
<1>. HIDE DEF k
<1>4. m \in {1, k} /\ (\A y \in {1, k} : m >= y) /\ m \in 1..10
      BY <1>3
<1>5. \A x \in {1, k} : (\A y \in {1, k} : x >= y) => x = m
      BY <1>3
<1>. HIDE DEF m
<1>6. Max({1, k}) = m
      BY <1>4, <1>5 DEF Max
<1>. QED
     BY <1>4, <1>6 DEF FindIfLpfIdx, k

(* int_freq is never negative: half a passband is less than 2.3 MHz.       *)
LEMMA IntFreqNat == ASSUME NEW bw \in Nat PROVE Setting(bw).intFreq \div 1000 \in Nat
<1>1. WideSetting(bw).intFreq \in Nat
      BY DEF WideSetting
<1>2. NarrowSetting(bw).intFreq \in Nat
  <2>. DEFINE low == IF_LOW_PASS_BW_TABLE[FindIfLpfIdx(Residual(bw))]
  <2>1. low \in Int /\ low >= 350000 /\ low <= 1700000
        BY TableRange, IdxRange
  <2>2. HighPass(bw) \in Int /\ HighPass(bw) >= 0 /\ HighPass(bw) <= 730000
        BY DEF HighPass, FILT_HP_BW1, FILT_HP_BW2
  <2>. HIDE DEF low
  <2>3. RealBw(bw) = HighPass(bw) + low
        BY DEF RealBw, low
  <2>4. 2300000 + HighPass(bw) - RealBw(bw) \div 2 \in Nat
        BY <2>1, <2>2, <2>3
  <2>. QED
       BY <2>4 DEF NarrowSetting
<1>3. Setting(bw).intFreq \in Nat
      BY <1>1, <1>2 DEF Setting
<1>. QED
     BY <1>3

LEMMA BwOutcome ==
    ASSUME NEW s \in Driver, s.err = "none", NEW bw \in Nat, NEW t \in set_bw(s, bw)
    PROVE  /\ Outcome(s, t) /\ t.err \in {"none", "usb"} /\ Untouched(s, t, BwTouched)
           /\ Mends(s, t, Writes(BwList(bw)))
           /\ t.err = "none" => \A b \in Byte(\hef) : On(t, \h0b, b) <=> b \in Byte(Setting(bw).reg0b)
<1>. DEFINE k == Setting(bw).intFreq \div 1000
            v == [s EXCEPT !.intFreq = k]
            ra == Setting(bw).reg0a
            rb == Setting(bw).reg0b
<1>1. k \in Nat
      BY IntFreqNat
<1>2. t \in Run(v, BwList(bw)) /\ BwList(bw) = <<W(\h0a, ra, \h10), W(\h0b, rb, \hef)>>
      BY DEF set_bw, BwList
<1>. HIDE DEF k
<1>3. /\ v \in Driver /\ v.err = "none" /\ v.shadow = s.shadow /\ v.chip = s.chip
      /\ v.faults = s.faults /\ v.model = s.model /\ v.upconv = s.upconv /\ v.input = s.input
      BY <1>1 DEF Driver
<1>. HIDE DEF v, ra, rb
<1>4. /\ Outcome(v, t) /\ t.err \in {"none", "usb"} /\ Untouched(v, t, BwTouched)
      /\ t.err = "none" => \A b \in Byte(\hef) : On(t, \h0b, b) <=> b \in Byte(rb)
      BY <1>2, <1>3, BwPairs, RunTwo
<1>5. IsList(BwList(bw))
      BY <1>2, WType, BwPairs DEF IsList
<1>6. Mends(v, t, Writes(BwList(bw)))
      BY <1>2, <1>3, <1>5, RunMends
<1>7. Outcome(s, t)
      BY <1>3, <1>4 DEF Outcome, Same, Follows, Broke
<1>8. Untouched(s, t, BwTouched)
      BY <1>3, <1>4 DEF Untouched, On
<1>9. Mends(s, t, Writes(BwList(bw)))
      BY <1>3, <1>6 DEF Mends, Owed
<1>. QED
     BY <1>4, <1>7, <1>8, <1>9 DEF rb

(* The gain mode.                                                          *)
ModeList(manual) ==
    IF manual THEN <<W(5, \h10, \h10), W(7, 0, \h10), W(\h0c, 8, \h9f)>>
    ELSE <<W(5, 0, \h10), W(7, \h10, \h10), W(\h0c, 11, \h9f)>>
ModeTouched == {x \in Regs \X (0..7) : (x[1] \in {5, 7} /\ x[2] = 4) \/ x[1] = \h0c}

LEMMA GainMasks ==
    /\ 4 \in Byte(\h10) /\ \A b \in Byte(\h10) : b = 4
    /\ 4 \notin Byte(0)
    /\ \A b \in 0..3 : b \in Byte(15)
    /\ \A b \in Byte(15) : b \in 0..3
<1>1. 4 \in Byte(\h10) /\ 4 \notin Byte(0)
      BY ByteBits
<1>2. ASSUME NEW b \in Byte(\h10) PROVE b = 4
      BY ByteType, ByteBits
<1>3. ASSUME NEW b \in 0..3 PROVE b \in Byte(15)
      BY ByteBits
<1>4. ASSUME NEW b \in Byte(15) PROVE b \in 0..3
      BY ByteType, ByteBits
<1>. QED
     BY <1>1, <1>2, <1>3, <1>4

LEMMA ModeOutcome ==
    ASSUME NEW s \in Driver, s.err = "none", NEW manual \in BOOLEAN, NEW t \in set_gain_mode(s, manual)
    PROVE  /\ Outcome(s, t) /\ t.err \in {"none", "usb"} /\ Untouched(s, t, ModeTouched)
           /\ Mends(s, t, Writes(ModeList(manual)))
           /\ t.err = "none" => (On(t, 5, 4) <=> manual) /\ (On(t, 7, 4) <=> ~manual)
<1>. DEFINE a == IF manual THEN \h10 ELSE 0
            b == IF manual THEN 0 ELSE \h10
            c == IF manual THEN 8 ELSE 11
            list == <<W(5, a, \h10), W(7, b, \h10), W(\h0c, c, \h9f)>>
<1>1. t \in Run(s, list) /\ list = ModeList(manual)
      BY DEF set_gain_mode, ModeList
<1>2. (4 \in Byte(a) <=> manual) /\ (4 \in Byte(b) <=> ~manual)
      BY GainMasks
<1>. HIDE DEF a, b, c
<1>3. 5 \in Regs /\ 7 \in Regs /\ \h0c \in Regs
      BY RegsInterval
<1>4. /\ Len(list) = 3 /\ list[1] = W(5, a, \h10) /\ list[2] = W(7, b, \h10)
      /\ list[3] = W(\h0c, c, \h9f)
      OBVIOUS
<1>. HIDE DEF list
<1>5. IsList(list)
  <2>1. ASSUME NEW i \in 1..3 PROVE IsWrite(list[i])
    <3>1. CASE i = 1
          BY <1>3, <1>4, <3>1, WType
    <3>2. CASE i = 2
          BY <1>3, <1>4, <3>2, WType
    <3>3. CASE i = 3
          BY <1>3, <1>4, <3>3, WType
    <3>. QED
         BY <3>1, <3>2, <3>3
  <2>. QED
       BY <1>4, <2>1 DEF IsList
<1>6. Covers(ModeTouched, list)
  <2>1. SUFFICES ASSUME NEW i \in 1..3, NEW x \in list[i].mask PROVE <<list[i].reg, x>> \in ModeTouched
        BY <1>4 DEF Covers
  <2>2. CASE i = 1
        BY <1>3, <1>4, <2>1, <2>2, WType, GainMasks DEF ModeTouched
  <2>3. CASE i = 2
        BY <1>3, <1>4, <2>1, <2>3, WType, GainMasks DEF ModeTouched
  <2>4. CASE i = 3
        BY <1>3, <1>4, <2>1, <2>4, WType, ByteType DEF ModeTouched
  <2>. QED
       BY <2>2, <2>3, <2>4
<1>7. Outcome(s, t) /\ t.err \in {"none", "usb"} /\ Untouched(s, t, ModeTouched)
      BY <1>1, <1>5, <1>6, RunOutcome, RunUntouched
<1>8. Mends(s, t, Writes(ModeList(manual)))
      BY <1>1, <1>5, RunMends
<1>9. ASSUME t.err = "none" PROVE (On(t, 5, 4) <=> manual) /\ (On(t, 7, 4) <=> ~manual)
  <2>1. 1 \in 1..Len(list) /\ 2 \in 1..Len(list) /\ 1 + 1 = 2 /\ 2 + 1 = 3
        BY <1>4
  <2>2. Touches(list[1], 5, 4) /\ Touches(list[2], 7, 4)
        BY <1>4, WType, GainMasks DEF Touches
  <2>3. \A i \in (1 + 1)..Len(list) : ~Touches(list[i], 5, 4)
        BY <1>4, WType DEF Touches
  <2>4. \A i \in (2 + 1)..Len(list) : ~Touches(list[i], 7, 4)
        BY <1>4, WType DEF Touches
  <2>5. On(t, 5, 4) <=> 4 \in list[1].val
        BY <1>1, <1>3, <1>5, <1>9, <2>1, <2>2, <2>3, RunSets
  <2>6. On(t, 7, 4) <=> 4 \in list[2].val
        BY <1>1, <1>3, <1>5, <1>9, <2>1, <2>2, <2>4, RunSets
  <2>. QED
       BY <1>2, <1>4, <2>5, <2>6, WType
<1>. QED
     BY <1>7, <1>8, <1>9

(* Standby: a list of writes.                                              *)
LEMMA ExitOutcome ==
    ASSUME NEW s \in Driver, s.err = "none", NEW t \in exit(s)
    PROVE  Outcome(s, t) /\ t.err \in {"none", "usb"}
<1>. DEFINE list ==
        <<W(\h06, \hb1, \hff), W(\h05, \ha0, \hff), W(\h07, \h3a, \hff), W(\h08, \h40, \hff),
          W(\h09, \hc0, \hff), W(\h0a, \h36, \hff), W(\h0c, \h35, \hff), W(\h0f, \h68, \hff),
          W(\h11, \h03, \hff), W(\h17, \hf4, \hff), W(\h19, \h0c, \hff)>>
<1>1. t \in Run(s, list)
      BY DEF exit
<1>2. IsList(list)
      BY WType, RegsInterval DEF IsList
<1>. HIDE DEF list
<1>. QED
     BY <1>1, <1>2, RunOutcome

(* The gain.                                                               *)
GainFirst == <<W(5, \h10, \h10), W(7, 0, \h10)>>
GainLast(n) == <<W(\h0c, 8, \h9f), W(5, LnaSteps(n), 15), W(7, MixerSteps(n), 15)>>
GainWrites(n) == Writes(GainFirst) \cup Writes(GainLast(n))
GainTouched == {x \in Regs \X (0..7) : (x[1] \in {5, 7} /\ x[2] \in 0..4) \/ x[1] = \h0c}

ByHand(t) == On(t, 5, 4) /\ ~On(t, 7, 4)
GainShown(t, n) ==
    \A b \in 0..3 : /\ On(t, 5, b) <=> b \in Byte(LnaSteps(n))
                    /\ On(t, 7, b) <=> b \in Byte(MixerSteps(n))

LEMMA GainFirstOutcome ==
    ASSUME NEW s \in Driver, s.err = "none", NEW t \in Run(s, GainFirst)
    PROVE  /\ Outcome(s, t) /\ t.err \in {"none", "usb"} /\ Untouched(s, t, GainTouched)
           /\ t.err = "none" => ByHand(t)
<1>. DEFINE q == 5
            r == 7
            v == \h10
            w == 0
<1>1. t \in Run(s, <<W(q, v, \h10), W(r, w, \h10)>>) /\ q \in Regs /\ r \in Regs /\ q # r
      BY RegsInterval DEF GainFirst
<1>2. (\A b \in Byte(\h10) : <<q, b>> \in GainTouched) /\ (\A b \in Byte(\h10) : <<r, b>> \in GainTouched)
      BY <1>1, GainMasks DEF GainTouched
<1>. HIDE DEF q, r, v, w
<1>3. /\ Outcome(s, t) /\ t.err \in {"none", "usb"} /\ Untouched(s, t, GainTouched)
      /\ t.err = "none" => \A b \in Byte(\h10) : On(t, q, b) <=> b \in Byte(v)
      /\ t.err = "none" => \A b \in Byte(\h10) : On(t, r, b) <=> b \in Byte(w)
      BY <1>1, <1>2, RunTwo
<1>4. 4 \in Byte(\h10) /\ 4 \notin Byte(0)
      BY GainMasks
<1>. QED
     BY <1>3, <1>4 DEF ByHand, q, r, v, w

LEMMA GainLastOutcome ==
    ASSUME NEW s \in Driver, s.err = "none", NEW n, NEW t \in Run(s, GainLast(n))
    PROVE  /\ Outcome(s, t) /\ t.err \in {"none", "usb"} /\ Untouched(s, t, GainTouched)
           /\ IsList(GainLast(n))
           /\ ByHand(s) => ByHand(t)
           /\ t.err = "none" => GainShown(t, n)
<1>. DEFINE list == GainLast(n)
            lna == LnaSteps(n)
            mix == MixerSteps(n)
<1>1. /\ Len(list) = 3 /\ list[1] = W(\h0c, 8, \h9f) /\ list[2] = W(5, lna, 15)
      /\ list[3] = W(7, mix, 15)
      BY DEF GainLast
<1>. HIDE DEF list, lna, mix
<1>2. 5 \in Regs /\ 7 \in Regs /\ \h0c \in Regs
      BY RegsInterval
<1>3. IsList(list)
  <2>1. ASSUME NEW i \in 1..3 PROVE IsWrite(list[i])
    <3>1. CASE i = 1
          BY <1>1, <1>2, <3>1, WType
    <3>2. CASE i = 2
          BY <1>1, <1>2, <3>2, WType
    <3>3. CASE i = 3
          BY <1>1, <1>2, <3>3, WType
    <3>. QED
         BY <3>1, <3>2, <3>3
  <2>. QED
       BY <1>1, <2>1 DEF IsList
<1>4. Covers(GainTouched, list)
  <2>1. SUFFICES ASSUME NEW i \in 1..3, NEW x \in list[i].mask PROVE <<list[i].reg, x>> \in GainTouched
        BY <1>1 DEF Covers
  <2>2. CASE i = 1
        BY <1>1, <1>2, <2>1, <2>2, WType, ByteType DEF GainTouched
  <2>3. CASE i = 2
        BY <1>1, <1>2, <2>1, <2>3, WType, GainMasks DEF GainTouched
  <2>4. CASE i = 3
        BY <1>1, <1>2, <2>1, <2>4, WType, GainMasks DEF GainTouched
  <2>. QED
       BY <2>2, <2>3, <2>4
<1>5. t \in Run(s, list)
      BY DEF list
<1>6. Outcome(s, t) /\ t.err \in {"none", "usb"} /\ Untouched(s, t, GainTouched)
      BY <1>3, <1>4, <1>5, RunOutcome, RunUntouched
<1>7. ByHand(s) => ByHand(t)
  <2>1. 4 \notin Byte(15)
        BY GainMasks
  <2>2. \A i \in 1..Len(list) : ~Touches(list[i], 5, 4) /\ ~Touches(list[i], 7, 4)
        BY <1>1, <2>1, WType DEF Touches
  <2>3. On(t, 5, 4) <=> On(s, 5, 4)
        BY <1>2, <1>3, <1>5, <2>2, RunKeeps
  <2>4. On(t, 7, 4) <=> On(s, 7, 4)
        BY <1>2, <1>3, <1>5, <2>2, RunKeeps
  <2>. QED
       BY <2>3, <2>4 DEF ByHand
<1>8. ASSUME t.err = "none", NEW b \in 0..3
      PROVE  (On(t, 5, b) <=> b \in Byte(lna)) /\ (On(t, 7, b) <=> b \in Byte(mix))
  <2>1. 2 \in 1..Len(list) /\ 3 \in 1..Len(list) /\ 2 + 1 = 3 /\ 3 + 1 = 4
        BY <1>1
  <2>2. Touches(list[2], 5, b) /\ Touches(list[3], 7, b)
        BY <1>1, WType, GainMasks DEF Touches
  <2>3. \A i \in (2 + 1)..Len(list) : ~Touches(list[i], 5, b)
        BY <1>1, WType DEF Touches
  <2>4. \A i \in (3 + 1)..Len(list) : ~Touches(list[i], 7, b)
        BY <1>1
  <2>5. On(t, 5, b) <=> b \in list[2].val
        BY <1>2, <1>3, <1>5, <1>8, <2>1, <2>2, <2>3, RunSets
  <2>6. On(t, 7, b) <=> b \in list[3].val
        BY <1>2, <1>3, <1>5, <1>8, <2>1, <2>2, <2>4, RunSets
  <2>. QED
       BY <1>1, <2>5, <2>6, WType
<1>. QED
     BY <1>3, <1>6, <1>7, <1>8 DEF GainShown, list, lna, mix

LEMMA GainFirstList == IsList(GainFirst)
<1>1. 5 \in Regs /\ 7 \in Regs
      BY RegsInterval
<1>. QED
     BY <1>1, WType DEF IsList, GainFirst

LEMMA GainOutcome ==
    ASSUME NEW s \in Driver, s.err = "none", NEW gain, NEW t \in set_gain(s, gain)
    PROVE  /\ Outcome(s, t) /\ t.err \in {"none", "usb"} /\ Untouched(s, t, GainTouched)
           /\ Mends(s, t, GainWrites(GainSteps(gain)))
           /\ t.err = "none" => ByHand(t) /\ GainShown(t, GainSteps(gain))
<1>. DEFINE n == GainSteps(gain)
            First == Run(s, GainFirst)
            Second == Then(First, Read)
            R1 == Writes(GainFirst)
            R2 == Writes(GainLast(n))
            Step(u, v) == Outcome(u, v) /\ v.err \in {"none", "usb"} /\ Untouched(u, v, GainTouched)
<1>1. \/ t \in Second /\ t.err # "none"
      \/ \E u \in Second : u.err = "none" /\ t \in Run(u, GainLast(n))
      BY DEF set_gain, Then, Succeeded, GainFirst, GainLast
<1>2. GainWrites(n) = R1 \cup R2
      BY DEF GainWrites
<1>. HIDE DEF n
<1>3. ASSUME NEW u \in First
      PROVE  /\ Step(s, u) /\ u \in Driver /\ (u.err = "none" => ByHand(u))
             /\ u.err = "none" /\ Owed(s, R1 \cup R2) => Owed(u, R2)
             /\ u.err # "none" /\ s.shadow = s.chip => Owed(u, R1 \cup R2)
  <2>1. Step(s, u) /\ (u.err = "none" => ByHand(u))
        BY <1>3, GainFirstOutcome
  <2>2. u \in Driver
        BY <2>1 DEF Outcome, Same
  <2>3. ASSUME u.err = "none", Owed(s, R1 \cup R2) PROVE Owed(u, R2)
    <3>1. R1 \cup R2 = R2 \cup R1
          OBVIOUS
    <3>2. Owed(s, R2 \cup R1)
          BY <2>3, <3>1
    <3>. HIDE DEF R2
    <3>. QED
         BY <1>3, <2>3, <3>2, GainFirstList, RunPays
  <2>4. ASSUME u.err # "none", s.shadow = s.chip PROVE Owed(u, R1 \cup R2)
    <3>1. Owed(u, R1)
          BY <1>3, <2>4, GainFirstList, RunOwes
    <3>. HIDE DEF R1, R2
    <3>. QED
         BY <3>1, OwedMore
  <2>. QED
       BY <2>1, <2>2, <2>3, <2>4
<1>. HIDE DEF First, R1, R2
<1>4. ASSUME NEW v \in Second
      PROVE  /\ Step(s, v) /\ v \in Driver /\ (v.err = "none" => ByHand(v))
             /\ v.err = "none" /\ Owed(s, R1 \cup R2) => Owed(v, R2)
             /\ s.shadow = s.chip => Owed(v, R1 \cup R2)
             /\ s.shadow = s.chip /\ v.err = "none" => v.shadow = v.chip
  <2>1. \/ v \in First /\ v.err # "none"
        \/ \E u \in First : u.err = "none" /\ v \in Read(u)
        BY <1>4 DEF Then, Succeeded
  <2>2. CASE v \in First /\ v.err # "none"
        BY <1>3, <2>2
  <2>3. ASSUME NEW u \in First, u.err = "none", v \in Read(u)
        PROVE  /\ Step(s, v) /\ v \in Driver /\ (v.err = "none" => ByHand(v))
               /\ v.err = "none" /\ Owed(s, R1 \cup R2) => Owed(v, R2)
               /\ s.shadow = s.chip => Owed(v, R1 \cup R2)
               /\ s.shadow = s.chip /\ v.err = "none" => v.shadow = v.chip
    <3>1. Step(s, u) /\ u \in Driver /\ ByHand(u) /\ (Owed(s, R1 \cup R2) => Owed(u, R2))
          BY <1>3, <2>3
    <3>2. /\ Outcome(u, v) /\ v.err \in {"none", "usb"} /\ v.shadow = u.shadow /\ v.chip = u.chip
          /\ v.err = "none" => v = u
          BY <2>3, <3>1, ReadOutcome
    <3>3. Outcome(s, v)
          BY <2>3, <3>1, <3>2, OutcomeTrans
    <3>4. Untouched(u, v, GainTouched)
          BY <3>2, UntouchedSame
    <3>5. Untouched(s, v, GainTouched)
          BY <3>1, <3>4, UntouchedTrans
    <3>6. v \in Driver
          BY <3>3 DEF Outcome, Same
    <3>7. ASSUME s.shadow = s.chip PROVE v.shadow = v.chip /\ Owed(v, R1 \cup R2)
      <4>1. Follows(s, u)
            BY <2>3, <3>1 DEF Outcome, Broke
      <4>2. Owed(s, {})
            BY <3>7, OwedNothing
      <4>3. Owed(u, {})
            BY <4>1, <4>2, OwedFollows
      <4>4. Owed(v, {})
            BY <3>2, <4>3 DEF Owed
      <4>5. Owed(v, R1 \cup R2)
            BY <4>4, OwedMore
      <4>. QED
           BY <3>6, <4>4, <4>5, OwedNothing
    <3>8. Owed(s, R1 \cup R2) => Owed(v, R2)
          BY <3>1, <3>2 DEF Owed
    <3>9. v.err = "none" => ByHand(v)
          BY <3>1, <3>2
    <3>. QED
         BY <3>2, <3>3, <3>5, <3>6, <3>7, <3>8, <3>9
  <2>. QED
       BY <2>1, <2>2, <2>3
<1>. HIDE DEF Second
<1>5. CASE t \in Second /\ t.err # "none"
      BY <1>2, <1>4, <1>5 DEF Mends, n
<1>6. ASSUME NEW u \in Second, u.err = "none", t \in Run(u, GainLast(n))
      PROVE  /\ Step(s, t) /\ Mends(s, t, R1 \cup R2)
             /\ t.err = "none" => ByHand(t) /\ GainShown(t, n)
  <2>1. /\ Step(s, u) /\ u \in Driver /\ ByHand(u)
        /\ Owed(s, R1 \cup R2) => Owed(u, R2)
        /\ s.shadow = s.chip => u.shadow = u.chip
        BY <1>4, <1>6
  <2>2. Step(u, t) /\ IsList(GainLast(n)) /\ ByHand(t) /\ (t.err = "none" => GainShown(t, n))
        BY <1>6, <2>1, GainLastOutcome
  <2>3. Step(s, t)
        BY <1>6, <2>1, <2>2, OutcomeTrans, UntouchedTrans
  <2>4. Mends(u, t, R2)
        BY <1>6, <2>1, <2>2, RunMends DEF R2
  <2>5. Mends(s, t, R1 \cup R2)
    <3>1. R2 \subseteq R1 \cup R2
          OBVIOUS
    <3>2. Owed(t, R2) => Owed(t, R1 \cup R2)
          BY <3>1, OwedMore
    <3>. QED
         BY <2>1, <2>4, <3>2 DEF Mends
  <2>. QED
       BY <2>2, <2>3, <2>5
<1>. QED
     BY <1>1, <1>2, <1>5, <1>6 DEF n

---------------------------------------------------------------------------
(* The inductive invariant                                                 *)

(* The writes that a retry of the doubtful call begins with.               *)
Rewrites(call) ==
    CASE call[1] = "set_bw"        -> Writes(BwList(call[2]))
      [] call[1] = "set_gain"      -> GainWrites(GainSteps(call[2]))
      [] call[1] = "set_gain_mode" -> Writes(ModeList(call[2] = 1))
      [] OTHER                     -> {}

Settings == [freq : Nat, ifreq : Nat, bw : Nat \cup {-1}, manual : BOOLEAN, gain : Int, gained : BOOLEAN]

TypeInv ==
    /\ drv \in Driver /\ drv.err = "none" /\ drv.faults <= MaxFaults[drv.model]
    /\ asked \in Settings /\ asked.freq \in Freqs[drv.model] \cup {0}
    /\ asleep \in BOOLEAN /\ doubt[1] # "set_freq"

(* Where chip and shadow differ, the call that failed will write again.    *)
RepairInv == doubt[1] # "all" => Owed(drv, Rewrites(doubt))

Awake == doubt[1] # "all" /\ ~asleep

(* The rest is about the shadow and the driver's fields. It holds while a  *)
(* call of other registers is in doubt.                                    *)
InputInv ==
    Awake => /\ InputShown(drv)
             /\ asked.freq > 0 /\ drv.model # "R820T" => drv.input = InputFor(drv.model, asked.freq)

AskedLo ==
    asked.freq + asked.ifreq
    + (IF drv.model = "BlogV4" /\ asked.freq < 28800 THEN Upconverter ELSE 0)
TuneInv == Awake /\ asked.freq > 0 => TunedTo(drv, drv.model, AskedLo)

FilterIs(s, bw) ==
    \A b \in Byte(\hef) : On(s, \h0b, b) <=> b \in Byte(IF bw < 0 THEN \h6b ELSE Setting(bw).reg0b)
FilterInv == Awake /\ doubt[1] # "set_bw" => FilterIs(drv, asked.bw)

ModeIs(s, manual) == (On(s, 5, 4) <=> manual = TRUE) /\ (On(s, 7, 4) <=> manual = FALSE)
ModeInv == Awake /\ doubt[1] \notin {"set_gain", "set_gain_mode"} => ModeIs(drv, asked.manual)

GainInv ==
    Awake /\ asked.gained = TRUE /\ doubt[1] # "set_gain" => GainShown(drv, GainSteps(asked.gain))

IInv == TypeInv /\ RepairInv /\ InputInv /\ TuneInv /\ FilterInv /\ ModeInv /\ GainInv

(* None of it looks at the error with which a call returns.                *)
Alike(s, t) ==
    /\ s.shadow = t.shadow /\ s.chip = t.chip /\ s.model = t.model
    /\ s.upconv = t.upconv /\ s.input = t.input

LEMMA AlikeIs ==
    ASSUME NEW s, NEW t, Alike(s, t)
    PROVE  /\ \A Due : Owed(s, Due) <=> Owed(t, Due)
           /\ InputShown(s) <=> InputShown(t)
           /\ \A model, lo : TunedTo(s, model, lo) <=> TunedTo(t, model, lo)
           /\ \A bw : FilterIs(s, bw) <=> FilterIs(t, bw)
           /\ \A manual : ModeIs(s, manual) <=> ModeIs(t, manual)
           /\ \A n : GainShown(s, n) <=> GainShown(t, n)
<1>0. \A r, b : On(s, r, b) <=> On(t, r, b)
      BY DEF Alike, On
<1>1. \A Due : Owed(s, Due) <=> Owed(t, Due)
      BY DEF Alike, Owed
<1>2. InputShown(s) <=> InputShown(t)
      BY <1>0 DEF Alike, InputShown
<1>3. ASSUME NEW model, NEW lo PROVE TunedTo(s, model, lo) <=> TunedTo(t, model, lo)
  <2>1. \A range : Muxed(s, range) <=> Muxed(t, range)
        BY <1>0 DEF Muxed
  <2>2. \A div : Spelt(s, div) <=> Spelt(t, div)
        BY <1>0 DEF Spelt, Alike
  <2>. QED
       BY <2>1, <2>2 DEF TunedTo
<1>4. \A bw : FilterIs(s, bw) <=> FilterIs(t, bw)
      BY <1>0 DEF FilterIs
<1>5. \A manual : ModeIs(s, manual) <=> ModeIs(t, manual)
      BY <1>0 DEF ModeIs
<1>6. \A n : GainShown(s, n) <=> GainShown(t, n)
      BY <1>0 DEF GainShown
<1>. QED
     BY <1>1, <1>2, <1>3, <1>4, <1>5, <1>6

LEMMA ClearedIs ==
    ASSUME NEW t \in Driver
    PROVE  /\ [t EXCEPT !.err = "none"] \in Driver
           /\ [t EXCEPT !.err = "none"].err = "none"
           /\ [t EXCEPT !.err = "none"].faults = t.faults
           /\ Alike([t EXCEPT !.err = "none"], t)
BY DEF Driver, Alike

(* Registers left alone keep what they show.                               *)
LEMMA FilterStays ==
    ASSUME NEW s, NEW t, NEW T, Untouched(s, t, T), \A b \in 0..7 : <<\h0b, b>> \notin T,
           NEW bw, FilterIs(s, bw)
    PROVE  FilterIs(t, bw)
<1>1. \h0b \in Regs /\ \A b \in Byte(\hef) : b \in 0..7
      BY RegsInterval, ByteType
<1>2. \A b \in Byte(\hef) : On(t, \h0b, b) <=> On(s, \h0b, b)
      BY <1>1, Zenon DEF Untouched
<1>. QED
     BY <1>2 DEF FilterIs

LEMMA ModeStays ==
    ASSUME NEW s, NEW t, NEW T, Untouched(s, t, T), <<5, 4>> \notin T, <<7, 4>> \notin T,
           NEW manual, ModeIs(s, manual)
    PROVE  ModeIs(t, manual)
<1>1. 5 \in Regs /\ 7 \in Regs /\ 4 \in 0..7
      BY RegsInterval
<1>2. (On(t, 5, 4) <=> On(s, 5, 4)) /\ (On(t, 7, 4) <=> On(s, 7, 4))
      BY <1>1, Zenon DEF Untouched
<1>. QED
     BY <1>2 DEF ModeIs

LEMMA GainStays ==
    ASSUME NEW s, NEW t, NEW T, Untouched(s, t, T),
           \A b \in 0..3 : <<5, b>> \notin T /\ <<7, b>> \notin T,
           NEW n, GainShown(s, n)
    PROVE  GainShown(t, n)
<1>1. 5 \in Regs /\ 7 \in Regs /\ \A b \in 0..3 : b \in 0..7
      BY RegsInterval
<1>2. \A b \in 0..3 : (On(t, 5, b) <=> On(s, 5, b)) /\ (On(t, 7, b) <=> On(s, 7, b))
      BY <1>1, Zenon DEF Untouched
<1>. QED
     BY <1>2 DEF GainShown

LEMMA TunedStays ==
    ASSUME NEW s \in Driver, NEW t \in Driver, NEW T, Untouched(s, t, T),
           \A x \in T : x[1] \in {5, 7, \h0a, \h0b, \h0c},
           NEW model, NEW lo, TunedTo(s, model, lo)
    PROVE  TunedTo(t, model, lo)
<1>. DEFINE range == FREQ_RANGES[FreqRange(lo \div 1000)]
<1>1. Muxed(s, range) /\ \E d \in MixDivs(lo) : Spelt(s, VcoDiv(XTAL_128(model), lo * d))
      BY DEF TunedTo
<1>2. \A b \in 0..7 : <<\h1b, b>> \notin T /\ <<\h14, b>> \notin T /\ <<\h15, b>> \notin T
                       /\ <<\h16, b>> \notin T
      OBVIOUS
<1>3. \A b \in {0, 1, 6, 7} : <<\h1a, b>> \notin T
      OBVIOUS
<1>4. <<\h12, 3>> \notin T
      OBVIOUS
<1>. HIDE DEF range
<1>5. Muxed(t, range)
      BY <1>1, <1>2, <1>3, MuxedStays
<1>6. PICK d \in MixDivs(lo) : Spelt(s, VcoDiv(XTAL_128(model), lo * d))
      BY <1>1
<1>7. Spelt(t, VcoDiv(XTAL_128(model), lo * d))
      BY <1>2, <1>4, <1>6, SpeltStays
<1>. QED
     BY <1>5, <1>7 DEF TunedTo, range

---------------------------------------------------------------------------
(* Init and the actions                                                    *)

LEMMA FreshInv ==
    ASSUME NEW t \in Driver, Fresh(t)
    PROVE  /\ Owed(t, {}) /\ InputShown(t) /\ FilterIs(t, -1) /\ ModeIs(t, FALSE)
<1>1. Owed(t, {})
      BY OwedNothing DEF Fresh
<1>2. InputShown(t)
      BY DEF Fresh, InputShown
<1>3. FilterIs(t, -1)
      BY DEF Fresh, Calibrated, FilterIs
<1>4. ModeIs(t, FALSE)
      BY DEF Fresh, ModeIs
<1>. QED
     BY <1>1, <1>2, <1>3, <1>4

LEMMA NotAskedType ==
    NotAsked \in Settings /\ NotAsked.freq = 0 /\ NotAsked.bw = -1
    /\ NotAsked.manual = FALSE /\ NotAsked.gained = FALSE
BY DEF NotAsked, Settings

LEMMA NoDoubtIs == NoDoubt[1] = "none" /\ Rewrites(NoDoubt) = {}
BY DEF NoDoubt, Rewrites

LEMMA InitInv == Init => IInv
<1>. SUFFICES ASSUME Init PROVE IInv
     OBVIOUS
<1>1. PICK c \in Chips : drv \in init(New(c)) /\ drv.err = "none" /\ drv.faults = MaxFaults[drv.model]
      BY DEF Init
<1>2. New(c) \in Driver /\ New(c).err = "none"
  <2>1. MaxFaults[c] \in Nat
        BY DriverAssumption
  <2>. QED
       BY <2>1, InitBytesShape DEF New, Driver, Inputs
<1>3. drv \in Driver /\ Fresh(drv)
      BY <1>1, <1>2, InitOutcome DEF InitDone
<1>4. asked = NotAsked /\ doubt = NoDoubt /\ asleep = FALSE
      BY DEF Init
<1>5. drv.faults <= MaxFaults[drv.model]
      BY <1>1, <1>3 DEF Driver
<1>6. TypeInv
      BY <1>1, <1>3, <1>4, <1>5, NotAskedType, NoDoubtIs DEF TypeInv
<1>7. /\ Owed(drv, {}) /\ InputShown(drv) /\ FilterIs(drv, -1) /\ ModeIs(drv, FALSE)
      BY <1>3, FreshInv
<1>8. /\ asked.freq = 0 /\ asked.bw = -1 /\ asked.manual = FALSE /\ asked.gained = FALSE
      /\ Rewrites(doubt) = {}
      BY <1>4, NotAskedType, NoDoubtIs
<1>9. RepairInv /\ FilterInv /\ ModeInv
      BY <1>7, <1>8 DEF RepairInv, FilterInv, ModeInv
<1>10. InputInv /\ TuneInv /\ GainInv
       BY <1>7, <1>8 DEF InputInv, TuneInv, GainInv
<1>. QED
     BY <1>6, <1>9, <1>10 DEF IInv

(* A call ends well, is refused, or fails.                                 *)
LEMMA CallCases ==
    ASSUME TypeInv, NEW call, NEW outcomes, NEW wish, Call(call, outcomes, wish),
           \A t \in outcomes : Moved(drv, t)
    PROVE  \E t \in outcomes :
              /\ Moved(drv, t) /\ Alike(drv', t) /\ drv' \in Driver /\ drv'.err = "none"
              /\ drv'.faults <= MaxFaults[drv'.model] /\ drv'.model = drv.model
              /\ asleep' = asleep
              /\ \/ /\ t.err = "none" /\ Follows(drv, t)
                    /\ doubt' = IF doubt = call THEN NoDoubt ELSE doubt
                    /\ asked' = IF asleep THEN NotAsked ELSE wish
                 \/ /\ t.err = "tuner" /\ Follows(drv, t)
                    /\ doubt' = doubt
                    /\ asked' = IF asleep THEN NotAsked
                                ELSE IF call[1] = "set_freq" THEN [asked EXCEPT !.freq = 0] ELSE asked
                 \/ /\ t.err = "usb"
                    /\ doubt' = IF doubt = NoDoubt /\ call[1] # "set_freq" THEN call ELSE <<"all", 0>>
                    /\ asked' = IF asleep THEN NotAsked
                                ELSE IF call[1] = "set_freq" THEN [asked EXCEPT !.freq = 0] ELSE asked
<1>1. PICK t \in outcomes :
        /\ drv' = [t EXCEPT !.err = "none"]
        /\ doubt' = IF t.faults < drv.faults
                    THEN IF doubt = NoDoubt /\ call[1] # "set_freq" THEN call ELSE <<"all", 0>>
                    ELSE IF t.err = "none" /\ doubt = call THEN NoDoubt ELSE doubt
        /\ asked' = IF asleep THEN NotAsked
                    ELSE IF t.err = "none" THEN wish
                    ELSE IF call[1] = "set_freq" THEN [asked EXCEPT !.freq = 0] ELSE asked
        /\ UNCHANGED asleep
      BY DEF Call
<1>2. /\ Moved(drv, t) /\ t \in Driver /\ t.model = drv.model
      /\ \/ t.err # "usb" /\ t.faults = drv.faults /\ Follows(drv, t)
         \/ t.err = "usb" /\ t.faults < drv.faults
      BY <1>1 DEF Moved, Broke
<1>3. /\ drv' \in Driver /\ drv'.err = "none" /\ drv'.faults = t.faults /\ Alike(drv', t)
      BY <1>1, <1>2, ClearedIs
<1>4. drv'.model = drv.model
      BY <1>2, <1>3 DEF Alike
<1>5. drv'.faults <= MaxFaults[drv'.model]
  <2>1. MaxFaults[drv.model] \in Nat /\ drv.faults \in Nat /\ t.faults \in Nat
        BY <1>2, DriverAssumption DEF TypeInv, Driver
  <2>. QED
       BY <1>2, <1>3, <1>4, <2>1 DEF TypeInv
<1>6. t.err \in {"none", "usb", "tuner"}
      BY <1>2 DEF Driver
<1>7. CASE t.err = "none"
  <2>1. ~(t.faults < drv.faults) /\ Follows(drv, t)
        BY <1>2, <1>7 DEF TypeInv, Driver
  <2>. QED
       BY <1>1, <1>2, <1>3, <1>4, <1>5, <1>7, <2>1
<1>8. CASE t.err = "tuner"
  <2>1. ~(t.faults < drv.faults) /\ Follows(drv, t)
        BY <1>2, <1>8 DEF TypeInv, Driver
  <2>. QED
       BY <1>1, <1>2, <1>3, <1>4, <1>5, <1>8, <2>1
<1>9. CASE t.err = "usb"
  <2>1. t.faults < drv.faults
        BY <1>2, <1>9
  <2>. QED
       BY <1>1, <1>2, <1>3, <1>4, <1>5, <1>9, <2>1
<1>. QED
     BY <1>6, <1>7, <1>8, <1>9

LEMMA OutcomeIsStep == ASSUME NEW s, NEW t, Outcome(s, t) PROVE Moved(s, t)
BY DEF Outcome, Same, Moved

(* The calls that change settings: they leave the antenna and the tuning   *)
(* alone, and mend what they broke.                                        *)
LEMMA SettingCall ==
    ASSUME IInv, NEW call, NEW outcomes, NEW wish, Call(call, outcomes, wish),
           call[1] \in {"set_bw", "set_gain", "set_gain_mode"},
           wish \in Settings, wish.freq = asked.freq, wish.ifreq = asked.ifreq,
           NEW T, \A x \in T : x[1] \in {5, 7, \h0a, \h0b, \h0c} /\ (x[1] = 5 => x[2] \in 0..4),
           \A t \in outcomes : /\ Outcome(drv, t) /\ t.err \in {"none", "usb"} /\ Untouched(drv, t, T)
                               /\ Mends(drv, t, Rewrites(call))
    PROVE  /\ TypeInv' /\ RepairInv' /\ InputInv' /\ TuneInv' /\ (Awake' => Awake)
           /\ \E t \in outcomes :
                 /\ Alike(drv', t) /\ Untouched(drv, t, T)
                 /\ \/ /\ t.err = "none" /\ (doubt' = doubt \/ (doubt = call /\ doubt' = NoDoubt))
                       /\ Awake' => asked' = wish
                    \/ /\ t.err = "usb" /\ doubt'[1] \in {"all", call[1]}
                       /\ doubt'[1] = call[1] => doubt = NoDoubt
                       /\ Awake' => asked' = asked
<1>1. TypeInv /\ RepairInv /\ InputInv /\ TuneInv
      BY DEF IInv
<1>2. \A t \in outcomes : Moved(drv, t)
      BY OutcomeIsStep
<1>3. PICK t \in outcomes :
              /\ Moved(drv, t) /\ Alike(drv', t) /\ drv' \in Driver /\ drv'.err = "none"
              /\ drv'.faults <= MaxFaults[drv'.model] /\ drv'.model = drv.model
              /\ asleep' = asleep
              /\ \/ /\ t.err = "none" /\ Follows(drv, t)
                    /\ doubt' = IF doubt = call THEN NoDoubt ELSE doubt
                    /\ asked' = IF asleep THEN NotAsked ELSE wish
                 \/ /\ t.err = "tuner"
                 \/ /\ t.err = "usb"
                    /\ doubt' = IF doubt = NoDoubt /\ call[1] # "set_freq" THEN call ELSE <<"all", 0>>
                    /\ asked' = IF asleep THEN NotAsked
                                ELSE IF call[1] = "set_freq" THEN [asked EXCEPT !.freq = 0] ELSE asked
      BY <1>1, <1>2, CallCases
<1>4. /\ Outcome(drv, t) /\ t.err \in {"none", "usb"} /\ Untouched(drv, t, T)
      /\ Mends(drv, t, Rewrites(call))
      OBVIOUS
<1>5. asked' \in {asked, wish, NotAsked} /\ (~asleep => asked' \in {asked, wish})
      BY <1>3, <1>4
<1>6. doubt'[1] # "set_freq" /\ (Awake' => Awake)
      BY <1>1, <1>3, <1>4, NoDoubtIs DEF TypeInv, Awake
<1>7. TypeInv'
      BY <1>1, <1>3, <1>5, <1>6, NotAskedType DEF TypeInv
<1>8. RepairInv'
  <2>1. SUFFICES ASSUME doubt'[1] # "all" PROVE Owed(t, Rewrites(doubt'))
        BY <1>3, AlikeIs DEF RepairInv
  <2>2. CASE t.err = "none" /\ doubt = call
    <3>1. doubt' = NoDoubt /\ doubt[1] # "all"
          BY <1>3, <2>2
    <3>2. Owed(drv, Rewrites(call))
          BY <1>1, <2>2, <3>1 DEF RepairInv
    <3>3. Owed(t, {})
          BY <1>4, <2>2, <3>2 DEF Mends
    <3>. QED
         BY <3>1, <3>3, NoDoubtIs
  <2>3. CASE t.err = "none" /\ doubt # call
    <3>1. doubt' = doubt /\ Follows(drv, t)
          BY <1>3, <2>3
    <3>2. Owed(drv, Rewrites(doubt))
          BY <1>1, <2>1, <3>1 DEF RepairInv
    <3>. QED
         BY <3>1, <3>2, OwedFollows
  <2>4. CASE t.err = "usb"
    <3>1. doubt' = call /\ doubt = NoDoubt
          BY <1>3, <2>1, <2>4
    <3>2. Owed(drv, {})
          BY <1>1, <3>1, NoDoubtIs DEF RepairInv
    <3>3. drv.shadow = drv.chip
          BY <1>1, <3>2, OwedNothing DEF TypeInv
    <3>4. Owed(t, Rewrites(call))
          BY <1>4, <2>4, <3>3 DEF Mends
    <3>. QED
         BY <3>1, <3>4
  <2>. QED
       BY <1>4, <2>2, <2>3, <2>4
<1>9. ASSUME Awake' PROVE asked'.freq = asked.freq /\ asked'.ifreq = asked.ifreq /\ Awake
      BY <1>3, <1>5, <1>6, <1>9 DEF Awake
<1>10. Same(drv, t)
       BY <1>4 DEF Outcome
<1>11. InputInv'
  <2>1. SUFFICES ASSUME Awake'
                 PROVE  /\ InputShown(drv')
                        /\ asked'.freq > 0 /\ drv'.model # "R820T" => drv'.input = InputFor(drv'.model, asked'.freq)
        BY DEF InputInv
  <2>2. InputShown(drv) /\ (asked.freq > 0 /\ drv.model # "R820T" => drv.input = InputFor(drv.model, asked.freq))
        BY <1>1, <1>9, <2>1 DEF InputInv
  <2>3. <<5, 5>> \notin T /\ <<5, 6>> \notin T /\ <<6, 3>> \notin T
        OBVIOUS
  <2>4. InputShown(t)
        BY <1>4, <1>10, <2>2, <2>3, InputStays
  <2>5. InputShown(drv')
        BY <1>3, <2>4, AlikeIs
  <2>6. drv'.input = drv.input
        BY <1>3, <1>10 DEF Alike, Same
  <2>. QED
       BY <1>3, <1>9, <2>1, <2>2, <2>5, <2>6
<1>12. TuneInv'
  <2>1. SUFFICES ASSUME Awake', asked'.freq > 0 PROVE TunedTo(drv', drv'.model, AskedLo')
        BY DEF TuneInv
  <2>2. AskedLo' = AskedLo
        BY <1>3, <1>9, <2>1 DEF AskedLo
  <2>. DEFINE lo == AskedLo
  <2>3. TunedTo(drv, drv.model, lo)
        BY <1>1, <1>9, <2>1 DEF TuneInv
  <2>4. drv \in Driver /\ t \in Driver
        BY <1>1, <1>10 DEF TypeInv, Same
  <2>. HIDE DEF lo
  <2>5. TunedTo(t, drv.model, lo)
        BY <1>4, <2>3, <2>4, TunedStays
  <2>6. TunedTo(drv', drv.model, lo)
        BY <1>3, <2>5, AlikeIs
  <2>. QED
       BY <1>3, <2>2, <2>6 DEF lo
<1>13. t.err = "none" => /\ (doubt' = doubt \/ (doubt = call /\ doubt' = NoDoubt))
                         /\ Awake' => asked' = wish
       BY <1>3 DEF Awake
<1>14. t.err = "usb" => /\ doubt'[1] \in {"all", call[1]}
                        /\ doubt'[1] = call[1] => doubt = NoDoubt
                        /\ Awake' => asked' = asked
       BY <1>3 DEF Awake
<1>. QED
     BY <1>3, <1>4, <1>6, <1>7, <1>8, <1>11, <1>12, <1>13, <1>14

LEMMA SetBwInv == ASSUME IInv, SetBw PROVE IInv'
<1>1. PICK bw \in Bandwidths : Call(<<"set_bw", bw>>, set_bw(drv, bw), [asked EXCEPT !.bw = bw])
      BY DEF SetBw
<1>. DEFINE call == <<"set_bw", bw>>
            wish == [asked EXCEPT !.bw = bw]
            outcomes == set_bw(drv, bw)
            T == BwTouched
<1>2. bw \in Nat /\ drv \in Driver /\ drv.err = "none" /\ asked \in Settings
      BY DriverAssumption DEF IInv, TypeInv
<1>3. /\ call[1] = "set_bw" /\ Rewrites(call) = Writes(BwList(bw))
      BY DEF Rewrites
<1>4. /\ wish \in Settings /\ wish.freq = asked.freq /\ wish.ifreq = asked.ifreq /\ wish.bw = bw
      /\ wish.manual = asked.manual /\ wish.gain = asked.gain /\ wish.gained = asked.gained
      BY <1>2 DEF Settings
<1>5. \A x \in T : x[1] \in {5, 7, \h0a, \h0b, \h0c} /\ (x[1] = 5 => x[2] \in 0..4)
      BY DEF BwTouched
<1>6. ASSUME NEW t \in outcomes
      PROVE  /\ Outcome(drv, t) /\ t.err \in {"none", "usb"} /\ Untouched(drv, t, T)
             /\ Mends(drv, t, Rewrites(call))
             /\ t.err = "none" => \A b \in Byte(\hef) : On(t, \h0b, b) <=> b \in Byte(Setting(bw).reg0b)
      BY <1>2, <1>3, <1>6, BwOutcome
<1>7. Call(call, outcomes, wish)
      BY <1>1
<1>8. <<5, 4>> \notin T /\ <<7, 4>> \notin T /\ \A b \in 0..3 : <<5, b>> \notin T /\ <<7, b>> \notin T
      BY DEF BwTouched
<1>. HIDE DEF call, wish, outcomes, T
<1>9. /\ TypeInv' /\ RepairInv' /\ InputInv' /\ TuneInv' /\ (Awake' => Awake)
      /\ \E t \in outcomes :
                 /\ Alike(drv', t) /\ Untouched(drv, t, T)
                 /\ \/ /\ t.err = "none" /\ (doubt' = doubt \/ (doubt = call /\ doubt' = NoDoubt))
                       /\ Awake' => asked' = wish
                    \/ /\ t.err = "usb" /\ doubt'[1] \in {"all", call[1]}
                       /\ doubt'[1] = call[1] => doubt = NoDoubt
                       /\ Awake' => asked' = asked
      BY <1>3, <1>4, <1>5, <1>6, <1>7, SettingCall
<1>10. PICK t \in outcomes :
                 /\ Alike(drv', t) /\ Untouched(drv, t, T)
                 /\ \/ /\ t.err = "none" /\ (doubt' = doubt \/ (doubt = call /\ doubt' = NoDoubt))
                       /\ Awake' => asked' = wish
                    \/ /\ t.err = "usb" /\ doubt'[1] \in {"all", call[1]}
                       /\ doubt'[1] = call[1] => doubt = NoDoubt
                       /\ Awake' => asked' = asked
       BY <1>9
<1>11. ASSUME Awake' PROVE /\ asked'.manual = asked.manual /\ asked'.gain = asked.gain
                           /\ asked'.gained = asked.gained
       BY <1>4, <1>10, <1>11
<1>12. FilterInv'
  <2>1. SUFFICES ASSUME Awake', doubt'[1] # "set_bw" PROVE FilterIs(t, asked'.bw)
        BY <1>10, AlikeIs DEF FilterInv
  <2>2. t.err = "none" /\ asked'.bw = bw
        BY <1>3, <1>4, <1>10, <2>1 DEF Awake
  <2>3. ~(bw < 0)
        BY <1>2
  <2>. QED
       BY <1>6, <2>2, <2>3 DEF FilterIs
<1>13. ModeInv'
  <2>1. SUFFICES ASSUME Awake', doubt'[1] \notin {"set_gain", "set_gain_mode"} PROVE ModeIs(t, asked'.manual)
        BY <1>10, AlikeIs DEF ModeInv
  <2>2. Awake /\ doubt[1] \notin {"set_gain", "set_gain_mode"}
        BY <1>3, <1>9, <1>10, <2>1, NoDoubtIs DEF Awake
  <2>3. ModeIs(drv, asked.manual)
        BY <2>2 DEF IInv, ModeInv
  <2>. QED
       BY <1>8, <1>10, <1>11, <2>1, <2>3, ModeStays
<1>14. GainInv'
  <2>1. SUFFICES ASSUME Awake', asked'.gained = TRUE, doubt'[1] # "set_gain"
                 PROVE  GainShown(t, GainSteps(asked'.gain))
        BY <1>10, AlikeIs DEF GainInv
  <2>2. Awake /\ doubt[1] # "set_gain" /\ asked.gained = TRUE
        BY <1>3, <1>9, <1>10, <1>11, <2>1, NoDoubtIs DEF Awake
  <2>3. GainShown(drv, GainSteps(asked.gain))
        BY <2>2 DEF IInv, GainInv
  <2>. QED
       BY <1>8, <1>10, <1>11, <2>1, <2>3, GainStays
<1>. QED
     BY <1>9, <1>12, <1>13, <1>14 DEF IInv

LEMMA SetGainInv == ASSUME IInv, SetGain PROVE IInv'
<1>1. PICK gain \in Gains[drv.model] :
         Call(<<"set_gain", gain>>, set_gain(drv, gain),
              [asked EXCEPT !.manual = TRUE, !.gain = gain, !.gained = TRUE])
      BY DEF SetGain
<1>. DEFINE call == <<"set_gain", gain>>
            wish == [asked EXCEPT !.manual = TRUE, !.gain = gain, !.gained = TRUE]
            outcomes == set_gain(drv, gain)
            T == GainTouched
<1>2. gain \in Int /\ drv \in Driver /\ drv.err = "none" /\ asked \in Settings
  <2>1. drv \in Driver /\ drv.err = "none" /\ asked \in Settings
        BY DEF IInv, TypeInv
  <2>2. Gains[drv.model] \subseteq Int
        BY <2>1, DriverAssumption DEF Driver
  <2>. QED
       BY <2>1, <2>2
<1>3. /\ call[1] = "set_gain" /\ Rewrites(call) = GainWrites(GainSteps(gain))
      BY DEF Rewrites
<1>4. /\ wish \in Settings /\ wish.freq = asked.freq /\ wish.ifreq = asked.ifreq /\ wish.bw = asked.bw
      /\ wish.manual = TRUE /\ wish.gain = gain
      BY <1>2 DEF Settings
<1>5. \A x \in T : x[1] \in {5, 7, \h0a, \h0b, \h0c} /\ (x[1] = 5 => x[2] \in 0..4)
      BY DEF GainTouched
<1>6. ASSUME NEW t \in outcomes
      PROVE  /\ Outcome(drv, t) /\ t.err \in {"none", "usb"} /\ Untouched(drv, t, T)
             /\ Mends(drv, t, Rewrites(call))
             /\ t.err = "none" => ByHand(t) /\ GainShown(t, GainSteps(gain))
      BY <1>2, <1>3, <1>6, GainOutcome
<1>7. Call(call, outcomes, wish)
      BY <1>1
<1>8. \A b \in 0..7 : <<\h0b, b>> \notin T
      BY DEF GainTouched
<1>. HIDE DEF call, wish, outcomes, T
<1>9. /\ TypeInv' /\ RepairInv' /\ InputInv' /\ TuneInv' /\ (Awake' => Awake)
      /\ \E t \in outcomes :
                 /\ Alike(drv', t) /\ Untouched(drv, t, T)
                 /\ \/ /\ t.err = "none" /\ (doubt' = doubt \/ (doubt = call /\ doubt' = NoDoubt))
                       /\ Awake' => asked' = wish
                    \/ /\ t.err = "usb" /\ doubt'[1] \in {"all", call[1]}
                       /\ doubt'[1] = call[1] => doubt = NoDoubt
                       /\ Awake' => asked' = asked
      BY <1>3, <1>4, <1>5, <1>6, <1>7, SettingCall
<1>10. PICK t \in outcomes :
                 /\ Alike(drv', t) /\ Untouched(drv, t, T)
                 /\ \/ /\ t.err = "none" /\ (doubt' = doubt \/ (doubt = call /\ doubt' = NoDoubt))
                       /\ Awake' => asked' = wish
                    \/ /\ t.err = "usb" /\ doubt'[1] \in {"all", call[1]}
                       /\ doubt'[1] = call[1] => doubt = NoDoubt
                       /\ Awake' => asked' = asked
       BY <1>9
<1>11. ASSUME Awake' PROVE asked'.bw = asked.bw
       BY <1>4, <1>10, <1>11
<1>12. FilterInv'
  <2>1. SUFFICES ASSUME Awake', doubt'[1] # "set_bw" PROVE FilterIs(t, asked'.bw)
        BY <1>10, AlikeIs DEF FilterInv
  <2>2. Awake /\ doubt[1] # "set_bw"
        BY <1>3, <1>9, <1>10, <2>1, NoDoubtIs DEF Awake
  <2>3. FilterIs(drv, asked.bw)
        BY <2>2 DEF IInv, FilterInv
  <2>. QED
       BY <1>8, <1>10, <1>11, <2>1, <2>3, FilterStays
<1>13. ModeInv'
  <2>1. SUFFICES ASSUME Awake', doubt'[1] \notin {"set_gain", "set_gain_mode"} PROVE ModeIs(t, asked'.manual)
        BY <1>10, AlikeIs DEF ModeInv
  <2>2. t.err = "none" /\ asked'.manual = TRUE
        BY <1>3, <1>4, <1>10, <2>1 DEF Awake
  <2>. QED
       BY <1>6, <2>2 DEF ModeIs, ByHand
<1>14. GainInv'
  <2>1. SUFFICES ASSUME Awake', asked'.gained = TRUE, doubt'[1] # "set_gain"
                 PROVE  GainShown(t, GainSteps(asked'.gain))
        BY <1>10, AlikeIs DEF GainInv
  <2>2. t.err = "none" /\ asked'.gain = gain
        BY <1>3, <1>4, <1>10, <2>1 DEF Awake
  <2>. QED
       BY <1>6, <2>2
<1>. QED
     BY <1>9, <1>12, <1>13, <1>14 DEF IInv

LEMMA SetGainModeInv == ASSUME IInv, SetGainMode PROVE IInv'
<1>1. PICK m \in BOOLEAN :
         Call(<<"set_gain_mode", IF m THEN 1 ELSE 0>>, set_gain_mode(drv, m), [asked EXCEPT !.manual = m])
      BY DEF SetGainMode
<1>. DEFINE call == <<"set_gain_mode", IF m THEN 1 ELSE 0>>
            wish == [asked EXCEPT !.manual = m]
            outcomes == set_gain_mode(drv, m)
            T == ModeTouched
<1>2. drv \in Driver /\ drv.err = "none" /\ asked \in Settings
      BY DEF IInv, TypeInv
<1>3. /\ call[1] = "set_gain_mode" /\ Rewrites(call) = Writes(ModeList(m))
  <2>1. call[1] = "set_gain_mode" /\ call[2] = IF m THEN 1 ELSE 0
        OBVIOUS
  <2>2. ModeList(call[2] = 1) = ModeList(m)
        BY <2>1 DEF ModeList
  <2>. QED
       BY <2>1, <2>2 DEF Rewrites
<1>4. /\ wish \in Settings /\ wish.freq = asked.freq /\ wish.ifreq = asked.ifreq /\ wish.bw = asked.bw
      /\ wish.manual = m /\ wish.gain = asked.gain /\ wish.gained = asked.gained
      BY <1>2 DEF Settings
<1>5. \A x \in T : x[1] \in {5, 7, \h0a, \h0b, \h0c} /\ (x[1] = 5 => x[2] \in 0..4)
      BY DEF ModeTouched
<1>6. ASSUME NEW t \in outcomes
      PROVE  /\ Outcome(drv, t) /\ t.err \in {"none", "usb"} /\ Untouched(drv, t, T)
             /\ Mends(drv, t, Rewrites(call))
             /\ t.err = "none" => (On(t, 5, 4) <=> m) /\ (On(t, 7, 4) <=> ~m)
      BY <1>2, <1>3, <1>6, ModeOutcome
<1>7. Call(call, outcomes, wish)
      BY <1>1
<1>8. /\ \A b \in 0..7 : <<\h0b, b>> \notin T
      /\ \A b \in 0..3 : <<5, b>> \notin T /\ <<7, b>> \notin T
      BY DEF ModeTouched
<1>. HIDE DEF call, wish, outcomes, T
<1>9. /\ TypeInv' /\ RepairInv' /\ InputInv' /\ TuneInv' /\ (Awake' => Awake)
      /\ \E t \in outcomes :
                 /\ Alike(drv', t) /\ Untouched(drv, t, T)
                 /\ \/ /\ t.err = "none" /\ (doubt' = doubt \/ (doubt = call /\ doubt' = NoDoubt))
                       /\ Awake' => asked' = wish
                    \/ /\ t.err = "usb" /\ doubt'[1] \in {"all", call[1]}
                       /\ doubt'[1] = call[1] => doubt = NoDoubt
                       /\ Awake' => asked' = asked
      BY <1>3, <1>4, <1>5, <1>6, <1>7, SettingCall
<1>10. PICK t \in outcomes :
                 /\ Alike(drv', t) /\ Untouched(drv, t, T)
                 /\ \/ /\ t.err = "none" /\ (doubt' = doubt \/ (doubt = call /\ doubt' = NoDoubt))
                       /\ Awake' => asked' = wish
                    \/ /\ t.err = "usb" /\ doubt'[1] \in {"all", call[1]}
                       /\ doubt'[1] = call[1] => doubt = NoDoubt
                       /\ Awake' => asked' = asked
       BY <1>9
<1>11. ASSUME Awake' PROVE /\ asked'.bw = asked.bw /\ asked'.gain = asked.gain
                           /\ asked'.gained = asked.gained
       BY <1>4, <1>10, <1>11
<1>12. FilterInv'
  <2>1. SUFFICES ASSUME Awake', doubt'[1] # "set_bw" PROVE FilterIs(t, asked'.bw)
        BY <1>10, AlikeIs DEF FilterInv
  <2>2. Awake /\ doubt[1] # "set_bw"
        BY <1>3, <1>9, <1>10, <2>1, NoDoubtIs DEF Awake
  <2>3. FilterIs(drv, asked.bw)
        BY <2>2 DEF IInv, FilterInv
  <2>. QED
       BY <1>8, <1>10, <1>11, <2>1, <2>3, FilterStays
<1>13. ModeInv'
  <2>1. SUFFICES ASSUME Awake', doubt'[1] \notin {"set_gain", "set_gain_mode"} PROVE ModeIs(t, asked'.manual)
        BY <1>10, AlikeIs DEF ModeInv
  <2>2. t.err = "none" /\ asked'.manual = m
        BY <1>3, <1>4, <1>10, <2>1 DEF Awake
  <2>. QED
       BY <1>6, <2>2 DEF ModeIs
<1>14. GainInv'
  <2>1. SUFFICES ASSUME Awake', asked'.gained = TRUE, doubt'[1] # "set_gain"
                 PROVE  GainShown(t, GainSteps(asked'.gain))
        BY <1>10, AlikeIs DEF GainInv
  <2>2. Awake /\ doubt[1] # "set_gain" /\ asked.gained = TRUE
        BY <1>3, <1>9, <1>10, <1>11, <2>1, NoDoubtIs DEF Awake
  <2>3. GainShown(drv, GainSteps(asked.gain))
        BY <2>2 DEF IInv, GainInv
  <2>. QED
       BY <1>8, <1>10, <1>11, <2>1, <2>3, GainStays
<1>. QED
     BY <1>9, <1>12, <1>13, <1>14 DEF IInv

LEMMA TuneAway ==
    /\ \A b \in 0..7 : <<\h0b, b>> \notin TuneTouched
    /\ <<5, 4>> \notin TuneTouched /\ <<7, 4>> \notin TuneTouched
    /\ \A b \in 0..3 : <<5, b>> \notin TuneTouched /\ <<7, b>> \notin TuneTouched
BY DEF TuneTouched, MuxTouched, PllTouched, AntennaTouched

LEMMA SetFreqInv == ASSUME IInv, SetFreq PROVE IInv'
<1>1. PICK f \in Freqs[drv.model] :
         Call(<<"set_freq", f>>, set_freq(drv, f), [asked EXCEPT !.freq = f, !.ifreq = drv.intFreq])
      BY DEF SetFreq
<1>. DEFINE call == <<"set_freq", f>>
            wish == [asked EXCEPT !.freq = f, !.ifreq = drv.intFreq]
            outcomes == set_freq(drv, f)
            none == [asked EXCEPT !.freq = 0]
<1>2. /\ TypeInv /\ RepairInv /\ drv \in Driver /\ drv.err = "none" /\ asked \in Settings
      /\ doubt[1] # "set_freq"
      BY DEF IInv, TypeInv
<1>3. f \in Nat \ {0}
  <2>1. Freqs[drv.model] \subseteq Nat \ {0}
        BY <1>2, DriverAssumption DEF Driver
  <2>. QED
       BY <2>1
<1>4. /\ wish \in Settings /\ wish.freq = f /\ wish.ifreq = drv.intFreq /\ wish.bw = asked.bw
      /\ wish.manual = asked.manual /\ wish.gain = asked.gain /\ wish.gained = asked.gained
      BY <1>2, <1>3 DEF Settings, Driver
<1>5. /\ none \in Settings /\ none.freq = 0 /\ none.bw = asked.bw
      /\ none.manual = asked.manual /\ none.gain = asked.gain /\ none.gained = asked.gained
      BY <1>2 DEF Settings
<1>6. ASSUME NEW t \in outcomes
      PROVE  /\ TuneStep(drv, t)
             /\ t.err # "usb" /\ InputShown(drv) => InputShown(t)
             /\ t.err = "none" => TunedTo(t, drv.model, LoFreq(drv, f))
             /\ t.err = "none" /\ InputShown(drv) /\ t.model # "R820T" => t.input = InputFor(t.model, f)
      BY <1>2, <1>3, <1>6, SetFreqOutcome
<1>7. Call(call, outcomes, wish) /\ call[1] = "set_freq" /\ doubt # call
      BY <1>1, <1>2
<1>. HIDE DEF call, wish, outcomes, none
<1>8. \A t \in outcomes : Moved(drv, t)
      BY <1>6 DEF TuneStep
<1>9. PICK t \in outcomes :
         /\ Alike(drv', t) /\ drv' \in Driver /\ drv'.err = "none"
         /\ drv'.faults <= MaxFaults[drv'.model] /\ drv'.model = drv.model
         /\ asleep' = asleep
         /\ \/ /\ t.err = "none" /\ Follows(drv, t) /\ doubt' = doubt
               /\ asked' = IF asleep THEN NotAsked ELSE wish
            \/ /\ t.err = "tuner" /\ Follows(drv, t) /\ doubt' = doubt
               /\ asked' = IF asleep THEN NotAsked ELSE none
            \/ /\ t.err = "usb" /\ doubt' = <<"all", 0>>
               /\ asked' = IF asleep THEN NotAsked ELSE none
      BY <1>2, <1>7, <1>8, CallCases DEF none
<1>10. asked' \in {wish, NotAsked, none} /\ (asleep = FALSE => asked' \in {wish, none})
       BY <1>2, <1>9 DEF TypeInv
<1>11. TypeInv'
  <2>1. asked' \in Settings /\ asked'.freq \in Freqs[drv'.model] \cup {0}
        BY <1>4, <1>5, <1>9, <1>10, NotAskedType
  <2>2. doubt'[1] # "set_freq"
        BY <1>2, <1>9
  <2>. QED
       BY <1>2, <1>9, <2>1, <2>2 DEF TypeInv
<1>12. CASE doubt'[1] = "all"
       BY <1>11, <1>12 DEF IInv, RepairInv, InputInv, TuneInv, FilterInv, ModeInv, GainInv, Awake
<1>13. CASE doubt'[1] # "all"
  <2>1. doubt' = doubt /\ Follows(drv, t) /\ t.err # "usb"
        BY <1>9, <1>13
  <2>2. RepairInv'
    <3>1. Owed(drv, Rewrites(doubt))
          BY <1>2, <1>13, <2>1 DEF RepairInv
    <3>2. Owed(t, Rewrites(doubt))
          BY <2>1, <3>1, OwedFollows
    <3>3. Owed(drv', Rewrites(doubt))
          BY <1>9, <3>2, AlikeIs
    <3>. QED
         BY <2>1, <3>3 DEF RepairInv
  <2>3. CASE asleep = TRUE
        BY <1>9, <1>11, <2>2, <2>3 DEF IInv, InputInv, TuneInv, FilterInv, ModeInv, GainInv, Awake
  <2>4. CASE asleep = FALSE
    <3>1. Awake
          BY <1>13, <2>1, <2>4 DEF Awake
    <3>2. Untouched(drv, t, TuneTouched)
          BY <1>6 DEF TuneStep
    <3>3. /\ asked'.bw = asked.bw /\ asked'.manual = asked.manual
          /\ asked'.gain = asked.gain /\ asked'.gained = asked.gained
          BY <1>4, <1>5, <1>10, <2>4
    <3>4. InputShown(drv)
          BY <3>1 DEF IInv, InputInv
    <3>5. drv'.model = drv.model /\ t.model = drv.model /\ drv'.input = t.input
          BY <1>9 DEF Alike
    <3>6. asked'.freq > 0 => t.err = "none" /\ asked' = wish
          BY <1>4, <1>5, <1>9, <2>1, <2>4
    <3>7. InputInv'
      <4>1. InputShown(drv')
            BY <1>6, <1>9, <2>1, <3>4, AlikeIs
      <4>2. asked'.freq > 0 /\ drv'.model # "R820T" => drv'.input = InputFor(drv'.model, asked'.freq)
            BY <1>4, <1>6, <3>4, <3>5, <3>6
      <4>. QED
           BY <4>1, <4>2 DEF InputInv
    <3>8. TuneInv'
      <4>1. SUFFICES ASSUME asked'.freq > 0 PROVE TunedTo(drv', drv'.model, AskedLo')
            BY DEF TuneInv
      <4>2. AskedLo' = LoFreq(drv, f)
            BY <1>4, <3>5, <3>6, <4>1 DEF AskedLo, LoFreq
      <4>3. TunedTo(t, drv.model, LoFreq(drv, f))
            BY <1>6, <3>6, <4>1
      <4>4. TunedTo(drv', drv.model, LoFreq(drv, f))
            BY <1>9, <4>3, AlikeIs
      <4>. QED
           BY <3>5, <4>2, <4>4
    <3>9. FilterInv'
      <4>1. SUFFICES ASSUME doubt[1] # "set_bw" PROVE FilterIs(t, asked.bw)
            BY <1>9, <2>1, <3>3, AlikeIs DEF FilterInv
      <4>2. FilterIs(drv, asked.bw)
            BY <3>1, <4>1 DEF IInv, FilterInv
      <4>. QED
           BY <3>2, <4>2, TuneAway, FilterStays
    <3>10. ModeInv'
      <4>1. SUFFICES ASSUME doubt[1] \notin {"set_gain", "set_gain_mode"} PROVE ModeIs(t, asked.manual)
            BY <1>9, <2>1, <3>3, AlikeIs DEF ModeInv
      <4>2. ModeIs(drv, asked.manual)
            BY <3>1, <4>1 DEF IInv, ModeInv
      <4>. QED
           BY <3>2, <4>2, TuneAway, ModeStays
    <3>11. GainInv'
      <4>1. SUFFICES ASSUME asked.gained = TRUE, doubt[1] # "set_gain"
                     PROVE  GainShown(t, GainSteps(asked.gain))
            BY <1>9, <2>1, <3>3, AlikeIs DEF GainInv
      <4>2. GainShown(drv, GainSteps(asked.gain))
            BY <3>1, <4>1 DEF IInv, GainInv
      <4>. QED
           BY <3>2, <4>2, TuneAway, GainStays
    <3>. QED
         BY <1>11, <2>2, <3>7, <3>8, <3>9, <3>10, <3>11 DEF IInv
  <2>. QED
       BY <1>2, <2>3, <2>4 DEF TypeInv
<1>. QED
     BY <1>12, <1>13

(* Standby.                                                                *)
LEMMA ExitInv == ASSUME IInv, Exit PROVE IInv'
<1>1. PICK t \in exit(drv) :
        /\ drv' = [t EXCEPT !.err = "none"]
        /\ asleep' = TRUE
        /\ doubt' = IF t.err = "none" THEN doubt ELSE <<"all", 0>>
        /\ asked' = NotAsked
      BY DEF Exit
<1>2. TypeInv /\ RepairInv /\ drv \in Driver /\ drv.err = "none"
      BY DEF IInv, TypeInv
<1>3. Outcome(drv, t) /\ t.err \in {"none", "usb"}
      BY <1>2, ExitOutcome
<1>4. t \in Driver /\ t.model = drv.model /\ t.faults <= drv.faults /\ (t.err = "none" => Follows(drv, t))
      BY <1>2, <1>3 DEF Outcome, Same, Broke, Driver
<1>5. /\ drv' \in Driver /\ drv'.err = "none" /\ drv'.faults = t.faults /\ Alike(drv', t)
      BY <1>1, <1>4, ClearedIs
<1>6. drv'.model = drv.model
      BY <1>4, <1>5 DEF Alike
<1>7. TypeInv'
  <2>1. MaxFaults[drv.model] \in Nat /\ drv.faults \in Nat /\ t.faults \in Nat
        BY <1>2, <1>4, DriverAssumption DEF Driver
  <2>2. doubt'[1] # "set_freq"
        BY <1>1, <1>2 DEF TypeInv
  <2>. QED
       BY <1>1, <1>2, <1>4, <1>5, <1>6, <2>1, <2>2, NotAskedType DEF TypeInv
<1>8. RepairInv'
  <2>1. SUFFICES ASSUME doubt'[1] # "all" PROVE Owed(t, Rewrites(doubt'))
        BY <1>5, AlikeIs DEF RepairInv
  <2>2. doubt' = doubt /\ t.err = "none"
        BY <1>1, <2>1
  <2>3. Owed(drv, Rewrites(doubt))
        BY <1>2, <2>1, <2>2 DEF RepairInv
  <2>. QED
       BY <1>4, <2>2, <2>3, OwedFollows
<1>. QED
     BY <1>1, <1>7, <1>8 DEF IInv, InputInv, TuneInv, FilterInv, ModeInv, GainInv, Awake

(* Initialisation.                                                         *)
LEMMA InitAgainInv == ASSUME IInv, InitAgain PROVE IInv'
<1>1. PICK t \in init(drv) :
        /\ drv' = [t EXCEPT !.err = "none"]
        /\ asked' = NotAsked
        /\ asleep' = (asleep /\ t.err # "none")
        /\ doubt' = IF t.err = "none" THEN NoDoubt ELSE <<"all", 0>>
      BY DEF InitAgain
<1>2. TypeInv /\ drv \in Driver /\ drv.err = "none" /\ asleep \in BOOLEAN
      BY DEF IInv, TypeInv
<1>3. InitDone(drv, t)
      BY <1>2, InitOutcome
<1>4. t \in Driver /\ t.model = drv.model /\ t.faults <= drv.faults /\ (t.err = "none" => Fresh(t))
      BY <1>2, <1>3 DEF InitDone, Broke, Driver
<1>5. /\ drv' \in Driver /\ drv'.err = "none" /\ drv'.faults = t.faults /\ Alike(drv', t)
      BY <1>1, <1>4, ClearedIs
<1>6. drv'.model = drv.model
      BY <1>4, <1>5 DEF Alike
<1>7. TypeInv'
  <2>1. MaxFaults[drv.model] \in Nat /\ drv.faults \in Nat /\ t.faults \in Nat
        BY <1>2, <1>4, DriverAssumption DEF Driver
  <2>2. doubt'[1] # "set_freq"
        BY <1>1, NoDoubtIs
  <2>3. asleep' \in BOOLEAN
        BY <1>1
  <2>. QED
       BY <1>1, <1>2, <1>4, <1>5, <1>6, <2>1, <2>2, <2>3, NotAskedType DEF TypeInv
<1>8. CASE t.err # "none"
  <2>1. doubt'[1] = "all"
        BY <1>1, <1>8
  <2>. QED
       BY <1>7, <2>1 DEF IInv, RepairInv, InputInv, TuneInv, FilterInv, ModeInv, GainInv, Awake
<1>9. CASE t.err = "none"
  <2>1. /\ asked'.freq = 0 /\ asked'.bw = -1 /\ asked'.manual = FALSE /\ asked'.gained = FALSE
        /\ Rewrites(doubt') = {}
        BY <1>1, <1>9, NotAskedType, NoDoubtIs
  <2>2. Owed(t, {}) /\ InputShown(t) /\ FilterIs(t, -1) /\ ModeIs(t, FALSE)
        BY <1>4, <1>9, FreshInv
  <2>3. Owed(drv', {}) /\ InputShown(drv') /\ FilterIs(drv', -1) /\ ModeIs(drv', FALSE)
        BY <1>5, <2>2, AlikeIs
  <2>4. RepairInv' /\ FilterInv' /\ ModeInv'
        BY <2>1, <2>3 DEF RepairInv, FilterInv, ModeInv
  <2>5. InputInv' /\ TuneInv' /\ GainInv'
        BY <2>1, <2>3 DEF InputInv, TuneInv, GainInv
  <2>. QED
       BY <1>7, <2>4, <2>5 DEF IInv
<1>. QED
     BY <1>8, <1>9

LEMMA NextInv == IInv /\ [Next]_vars => IInv'
<1>. SUFFICES ASSUME IInv, [Next]_vars PROVE IInv'
     OBVIOUS
<1>1. CASE UNCHANGED vars
      BY <1>1 DEF vars, IInv, TypeInv, RepairInv, InputInv, TuneInv, FilterInv, ModeInv, GainInv,
                  Awake, AskedLo
<1>2. CASE Next
      BY <1>2, SetFreqInv, SetBwInv, SetGainInv, SetGainModeInv, ExitInv, InitAgainInv DEF Next
<1>. QED
     BY <1>1, <1>2

(* The inductive invariant holds in every state.                           *)
THEOREM IInvHolds == Spec => []IInv
<1>. QED
     BY InitInv, NextInv, PTL DEF Spec

---------------------------------------------------------------------------
(* The properties                                                          *)

(* A state of the driver stays one, and no call leaves its error behind.   *)
THEOREM TypeCorrect == Spec => []TypeOK
<1>1. IInv => TypeOK
      BY DEF IInv, TypeInv, TypeOK, Driver, Registers, Bits, Inputs
<1>. QED
     BY <1>1, IInvHolds, PTL

LEMMA ShadowTrue == IInv => ShadowIsChip
<1>. SUFFICES ASSUME IInv, doubt = NoDoubt PROVE drv.shadow = drv.chip
     BY DEF ShadowIsChip
<1>1. Owed(drv, {})
      BY NoDoubtIs DEF IInv, RepairInv
<1>. QED
     BY <1>1, OwedNothing DEF IInv, TypeInv

(* The shadow registers are the chip's, unless a failed call is in doubt:  *)
(* the writes that the driver skips because the shadow has them already,   *)
(* and the read-modify-writes that it makes of the shadow, are right. What *)
(* it rests on is that write() stores in the shadow only what it has sent, *)
(* so that the same call again, gone through, repairs the rest.            *)
THEOREM ShadowHolds == Spec => []ShadowIsChip
BY ShadowTrue, IInvHolds, PTL

(* In a trusted state the chip shows what the invariant says of the shadow.*)
LEMMA TrustedChip ==
    ASSUME IInv, Trusted
    PROVE  /\ Awake /\ drv.shadow = drv.chip /\ drv \in Driver
           /\ \A r, b : On(drv, r, b) <=> b \in drv.chip[r]
           /\ doubt[1] = "none"
<1>1. doubt = NoDoubt /\ asleep = FALSE /\ doubt[1] = "none"
      BY NoDoubtIs DEF Trusted, IInv, TypeInv
<1>2. drv.shadow = drv.chip
      BY <1>1, ShadowTrue DEF ShadowIsChip
<1>. QED
     BY <1>1, <1>2 DEF Awake, On, IInv, TypeInv

LEMMA AntennaTrue == IInv => AntennaFollowsFreq
<1>0. ~Tuned => AntennaFollowsFreq
      BY DEF AntennaFollowsFreq
<1>. SUFFICES ASSUME IInv, Tuned PROVE AntennaFollowsFreq
     BY <1>0
<1>. DEFINE f == asked.freq
            c5 == drv.chip[\h05]
<1>1. /\ Awake /\ drv \in Driver /\ f > 0
      /\ On(drv, 5, 5) <=> 5 \in c5
      /\ On(drv, 5, 6) <=> 6 \in c5
      /\ On(drv, 6, 3) <=> 3 \in drv.chip[6]
      BY TrustedChip DEF Tuned
<1>2. f \in Nat
      BY DEF IInv, TypeInv, Settings
<1>3. InputShown(drv) /\ (drv.model # "R820T" => drv.input = InputFor(drv.model, f))
      BY <1>1 DEF IInv, InputInv
<1>4. drv.model \in {"R820T", "R828D", "BlogV4"}
      BY <1>1, ChipsKnown DEF Driver
<1>. HIDE DEF f, c5
<1>5. CASE drv.model = "R820T"
  <2>1. 5 \notin c5 /\ 6 \notin c5
        BY <1>1, <1>3, <1>5 DEF InputShown
  <2>2. c5 \cap {5, 6} = {}
        BY <2>1
  <2>. QED
       BY <1>5, <2>2 DEF c5, AntennaFollowsFreq
<1>6. CASE drv.model = "R828D"
  <2>1. drv.input = AirCable1(f)
        BY <1>3, <1>6 DEF InputFor
  <2>2. drv.input = \h60 <=> f <= 345000
        BY <1>2, <2>1 DEF AirCable1
  <2>3. (5 \in c5 <=> f <= 345000) /\ (6 \in c5 <=> f <= 345000)
        BY <1>1, <1>3, <1>6, <2>2 DEF InputShown
  <2>4. c5 \cap {5, 6} = IF f <= 345000 THEN {5, 6} ELSE {}
        BY <2>3
  <2>. QED
       BY <1>6, <2>4 DEF c5, f, AntennaFollowsFreq
<1>7. CASE drv.model = "BlogV4"
  <2>1. drv.input = Band(f)
        BY <1>3, <1>7 DEF InputFor
  <2>2. Band(f) \in {HF, VHF, UHF} /\ (Band(f) = HF <=> f <= 28800)
        BY <1>2 DEF Band, HF, VHF, UHF
  <2>3. HF # 0 /\ VHF # 0 /\ UHF # 0 /\ HF # VHF /\ HF # UHF /\ VHF # UHF
        BY DEF HF, VHF, UHF
  <2>4. /\ drv.upconv = TRUE <=> Band(f) = HF
        /\ 3 \in drv.chip[6] <=> Band(f) = HF
        /\ 6 \in c5 <=> Band(f) = VHF
        /\ 5 \in c5 <=> Band(f) # UHF
        BY <1>1, <1>3, <1>7, <2>1, <2>2, <2>3 DEF InputShown
  <2>5. drv.upconv = TRUE <=> f <= 28800
        BY <2>2, <2>4
  <2>6. 3 \in drv.chip[6] <=> f <= 28800
        BY <2>2, <2>4
  <2>. QED
       BY <1>7, <2>4, <2>5, <2>6 DEF c5, f, AntennaFollowsFreq
<1>. QED
     BY <1>4, <1>5, <1>6, <1>7

(* The antenna input in the chip, and the upconverter switch of a Blog V4, *)
(* are those for the frequency of the last Ok set_freq, though the driver  *)
(* switches only when the input that it remembers differs, and forgets it  *)
(* in sysfreq_sel; no other call disturbs the bits.                        *)
THEOREM AntennaHolds == Spec => []AntennaFollowsFreq
BY AntennaTrue, IInvHolds, PTL

(* The largest of finitely many numbers.                                   *)
(* The table of the tracking filter.                                       *)
LEMMA RangesTyped ==
    /\ Len(FREQ_RANGES) = 21 /\ DOMAIN FREQ_RANGES = 1..21 /\ FREQ_RANGES[1][1] = 0
    /\ \A i \in 1..21 : FREQ_RANGES[i][1] \in Nat /\ FREQ_RANGES[i][3] \in {2, \h41, \h40}
BY DEF FREQ_RANGES

LEMMA RangeFound ==
    ASSUME NEW mhz \in Nat
    PROVE  /\ FreqRange(mhz) \in DOMAIN FREQ_RANGES
           /\ FREQ_RANGES[FreqRange(mhz)][1] <= mhz
           /\ FreqRange(mhz) < Len(FREQ_RANGES) => mhz < FREQ_RANGES[FreqRange(mhz) + 1][1]
<1>. DEFINE From(i) == FREQ_RANGES[i][1]
            S == {1} \cup {i \in 1..21 : From(i) <= mhz}
            k == Max(S)
<1>1. FreqRange(mhz) = k
      BY RangesTyped DEF FreqRange
<1>2. From(1) = 0 /\ \A i \in 1..21 : From(i) \in Nat
      BY RangesTyped
<1>. HIDE DEF From
<1>3. S \in SUBSET (0..21) /\ S # {} /\ 21 \in Nat
      OBVIOUS
<1>4. \A i \in S : i \in 1..21 /\ From(i) <= mhz
      BY <1>2
<1>5. \A i \in 1..21 : i \notin S => mhz < From(i)
      BY <1>2
<1>. HIDE DEF S
<1>6. k \in S /\ \A y \in S : k >= y
      BY <1>3, MaxOf
<1>. HIDE DEF k
<1>7. k \in 1..21 /\ From(k) <= mhz
      BY <1>4, <1>6
<1>8. ASSUME k < 21 PROVE mhz < From(k + 1)
  <2>1. k + 1 \in 1..21 /\ ~(k >= k + 1)
        BY <1>7, <1>8
  <2>2. k + 1 \notin S
        BY <1>6, <2>1
  <2>. QED
       BY <1>5, <2>1, <2>2
<1>. QED
     BY <1>1, <1>7, <1>8, RangesTyped DEF From

LEMMA RangeBits == ASSUME NEW m \in {2, \h41, \h40} PROVE \A b \in 2..5 : b \notin Byte(m)
<1>1. ASSUME NEW b \in 2..5 PROVE b \notin Byte(2) /\ b \notin Byte(\h41) /\ b \notin Byte(\h40)
      BY ByteBits
<1>. QED
     BY <1>1

(* The LO wanted is the LO asked for.                                      *)
LEMMA LoWanted == ASSUME IInv, LoTuned PROVE WantedLo = AskedLo /\ WantedLo \in Nat
<1>1. /\ asked.freq \in Nat /\ asked.ifreq \in Nat /\ drv.upconv \in BOOLEAN
      BY DEF IInv, TypeInv, Settings, Driver
<1>2. Tuned /\ ~(drv.model = "BlogV4" /\ asked.freq = 28800)
      BY DEF LoTuned, Upconverter
<1>3. drv.model = "BlogV4" => (drv.upconv = TRUE <=> asked.freq <= 28800)
      BY <1>2, AntennaTrue DEF AntennaFollowsFreq
<1>4. (drv.upconv = TRUE /\ drv.model = "BlogV4") <=> (drv.model = "BlogV4" /\ asked.freq < 28800)
      BY <1>1, <1>2, <1>3
<1>5. WantedLo = AskedLo
      BY <1>1, <1>4 DEF WantedLo, AskedLo
<1>. QED
     BY <1>1, <1>5 DEF AskedLo, Upconverter

LEMMA TracksTrue == IInv => TracksLo
<1>0. ~LoTuned => TracksLo
      BY DEF TracksLo
<1>. SUFFICES ASSUME IInv, LoTuned PROVE TracksLo
     BY <1>0
<1>. DEFINE mhz == WantedLo \div 1000
            i == FreqRange(mhz)
            range == FREQ_RANGES[i]
            c == drv.chip
<1>1. WantedLo = AskedLo /\ mhz \in Nat
      BY LoWanted
<1>2. Tuned /\ Trusted /\ asked.freq > 0
      BY DEF LoTuned, Tuned
<1>3. /\ Awake /\ drv \in Driver /\ \A r, b : On(drv, r, b) <=> b \in c[r]
      BY <1>2, TrustedChip
<1>4. Muxed(drv, range)
      BY <1>1, <1>2, <1>3 DEF IInv, TuneInv, TunedTo
<1>5. c \in Registers /\ \h1a \in Regs /\ \h1b \in Regs
      BY <1>3, RegsInterval DEF Driver
<1>6. c[\h1a] \in SUBSET (0..7) /\ c[\h1b] \in SUBSET (0..7)
      BY <1>5 DEF Registers, Bits
<1>. HIDE DEF c, range, i, mhz
<1>7. c[\h1b] = Byte(range[4])
  <2>1. \A b \in 0..7 : b \in c[\h1b] <=> b \in Byte(range[4])
        BY <1>3, <1>4 DEF Muxed
  <2>. QED
       BY <1>6, <2>1, ByteType DEF Bits
<1>8. /\ i \in DOMAIN FREQ_RANGES /\ range[1] <= mhz
      /\ i < Len(FREQ_RANGES) => mhz < FREQ_RANGES[i + 1][1]
      BY <1>1, RangeFound DEF i, range
<1>9. c[\h1a] \ (2..5) = Byte(range[3])
  <2>1. \A b \in {0, 1, 6, 7} : b \in c[\h1a] <=> b \in Byte(range[3])
        BY <1>3, <1>4 DEF Muxed
  <2>2. \A b \in 2..5 : b \notin Byte(range[3])
        BY <1>8, RangesTyped, RangeBits DEF range
  <2>3. \A b \in 0..7 : b \in {0, 1, 6, 7} \/ b \in 2..5
        OBVIOUS
  <2>4. \A b \in {0, 1, 6, 7} : b \notin 2..5 /\ b \in 0..7
        OBVIOUS
  <2>5. \A b \in 0..7 : b \in c[\h1a] \ (2..5) <=> b \in Byte(range[3])
        BY <2>1, <2>2, <2>3, <2>4
  <2>. QED
       BY <1>6, <2>5, ByteType DEF Bits
<1>. QED
     BY <1>7, <1>8, <1>9 DEF TracksLo, c, range, mhz

(* The mux and the tracking filter stay those of the range of the LO that  *)
(* the last Ok set_freq had to tune, whatever calls came since.            *)
THEOREM TracksHolds == Spec => []TracksLo
BY TracksTrue, IInvHolds, PTL
(* The divider of a VCO in its octave fits the registers, and is rounded.  *)
DividerOk(xtal, v) ==
    /\ VcoDiv(xtal, v) \in Nat
    /\ VcoDiv(xtal, v) \div 65536 - 13 \in Nat /\ VcoDiv(xtal, v) \div 65536 - 13 <= 255
    /\ 2 * xtal * VcoDiv(xtal, v) - 512 * v \in -xtal..xtal

LEMMA DividerFits ==
    ASSUME NEW xtal \in {125, 225}, NEW v \in Int, v >= VCO_MIN, v < 2 * VCO_MIN
    PROVE  DividerOk(xtal, v)
<1>0. v >= 1770000 /\ v < 3540000
      BY DEF VCO_MIN
<1>1. CASE xtal = 125
  <2>1. VcoDiv(xtal, v) = (125 + 512 * v) \div 250
        BY <1>1 DEF VcoDiv
  <2>. DEFINE div == (125 + 512 * v) \div 250
  <2>2. div \in Int /\ 250 * div <= 125 + 512 * v /\ 125 + 512 * v < 250 * div + 250
        OBVIOUS
  <2>. HIDE DEF div
  <2>3. div >= 3624000 /\ div < 7251000
        BY <1>0, <2>2
  <2>4. div \div 65536 - 13 \in Nat /\ div \div 65536 - 13 <= 255
        BY <2>2, <2>3
  <2>5. 2 * xtal * div - 512 * v \in -xtal..xtal
        BY <1>1, <2>2
  <2>. QED
       BY <2>1, <2>2, <2>3, <2>4, <2>5 DEF div, DividerOk
<1>2. CASE xtal = 225
  <2>1. VcoDiv(xtal, v) = (225 + 512 * v) \div 450
        BY <1>2 DEF VcoDiv
  <2>. DEFINE div == (225 + 512 * v) \div 450
  <2>2. div \in Int /\ 450 * div <= 225 + 512 * v /\ 225 + 512 * v < 450 * div + 450
        OBVIOUS
  <2>. HIDE DEF div
  <2>3. div >= 2013000 /\ div < 4029000
        BY <1>0, <2>2
  <2>4. div \div 65536 - 13 \in Nat /\ div \div 65536 - 13 <= 255
        BY <2>2, <2>3
  <2>5. 2 * xtal * div - 512 * v \in -xtal..xtal
        BY <1>2, <2>2
  <2>. QED
       BY <2>1, <2>2, <2>3, <2>4, <2>5 DEF div, DividerOk
<1>. QED
     BY <1>1, <1>2


(* The registers of the integer and of the fractional divider.             *)
Octet == {n \in Nat : n <= 255}
Sixteen == {n \in Nat : n <= 65535}
IntegerByte(n) == Byte(n \div 4 + 64 * (n % 4))

LEMMA ByteBack ==
    /\ \A n \in Octet : ByteValue(Byte(n)) = n
    /\ \A n \in Octet : ByteValue(Byte(n) \cap 0..5) = n - 64 * (n \div 64)
    /\ \A n \in Octet : ByteValue(Byte(n) \ (0..5)) = 64 * (n \div 64)
BY ByteSpells DEF Octet

LEMMA IntegerBack == \A n \in Octet : IntegerPart(IntegerByte(n)) = n
<1>. SUFFICES ASSUME NEW n \in Octet PROVE IntegerPart(IntegerByte(n)) = n
     OBVIOUS
<1>1. \A a \in 0..63, c \in 0..3 : a + 64 * c \in Nat /\ a + 64 * c <= 255 /\ (a + 64 * c) \div 64 = c
      OBVIOUS
<1>2. n \div 4 \in 0..63 /\ n % 4 \in 0..3 /\ n % 4 = n - 4 * (n \div 4)
      BY DEF Octet
<1>3. \A c \in 0..3 : (64 * c) \div 64 = c
      OBVIOUS
<1>. DEFINE a == n \div 4
            c == n % 4
            k == a + 64 * c
            low == ByteValue(Byte(k) \cap 0..5)
            high == ByteValue(Byte(k) \ (0..5))
<1>4. a \in 0..63 /\ c \in 0..3 /\ 4 * a + c = n
  <2>1. a \in 0..63 /\ c \in 0..3 /\ c = n - 4 * a /\ n \in Int
        BY <1>2 DEF Octet
  <2>. HIDE DEF a, c
  <2>. QED
       BY <2>1
<1>5. IntegerPart(IntegerByte(n)) = 4 * low + high \div 64
      BY DEF IntegerPart, IntegerByte
<1>. HIDE DEF a, c
<1>6. k \in Octet /\ k \div 64 = c /\ k - 64 * c = a
      BY <1>1, <1>4 DEF Octet
<1>7. (64 * c) \div 64 = c
      BY <1>3, <1>4
<1>. HIDE DEF k
<1>8. low = k - 64 * (k \div 64)
      BY <1>6, ByteBack, Zenon
<1>9. high = 64 * (k \div 64)
      BY <1>6, ByteBack, Zenon
<1>. HIDE DEF low, high
<1>10. low = a /\ high \div 64 = c
       BY <1>6, <1>7, <1>8, <1>9
<1>. QED
     BY <1>4, <1>5, <1>10

LEMMA FractionSplit ==
    ASSUME NEW sdm \in Nat, sdm <= 65535
    PROVE  /\ sdm % 256 \in Nat /\ sdm % 256 <= 255 /\ sdm \div 256 \in Nat /\ sdm \div 256 <= 255
           /\ sdm % 256 = sdm - 256 * (sdm \div 256)
OBVIOUS

LEMMA FractionBack ==
    \A sdm \in Sixteen : FractionPart(Byte(sdm % 256), Byte(sdm \div 256)) = sdm
<1>. SUFFICES ASSUME NEW sdm \in Sixteen
              PROVE  FractionPart(Byte(sdm % 256), Byte(sdm \div 256)) = sdm
     OBVIOUS
<1>. DEFINE lo == sdm % 256
            hi == sdm \div 256
            x == ByteValue(Byte(lo))
            y == ByteValue(Byte(hi))
<1>1. lo \in Nat /\ lo <= 255 /\ hi \in Nat /\ hi <= 255 /\ lo = sdm - 256 * hi
  <2>1. sdm \in Nat /\ sdm <= 65535
        BY DEF Sixteen
  <2>. QED
       BY <2>1, FractionSplit
<1>2. FractionPart(Byte(sdm % 256), Byte(sdm \div 256)) = x + 256 * y
      BY DEF FractionPart
<1>3. sdm \in Int
      BY DEF Sixteen
<1>. HIDE DEF lo, hi
<1>4. lo \in Octet /\ hi \in Octet
      BY <1>1 DEF Octet
<1>5. x = lo
      BY <1>4, ByteBack, Zenon
<1>6. y = hi
      BY <1>4, ByteBack, Zenon
<1>. HIDE DEF x, y
<1>7. x + 256 * y = sdm
      BY <1>1, <1>3, <1>5, <1>6
<1>. QED
     BY <1>2, <1>7

LEMMA DividerSplit ==
    ASSUME NEW div \in Nat
    PROVE  /\ div % 65536 \in Nat /\ div % 65536 <= 65535 /\ div % 65536 = div - 65536 * (div \div 65536) /\ div \div 65536 \in Int
OBVIOUS

(* The registers spell the divider that they were set for.                 *)
LEMMA SpeltBack ==
    ASSUME NEW t, NEW div \in Nat, div \div 65536 - 13 \in Nat, div \div 65536 - 13 <= 255, Spelt(t, div)
    PROVE  /\ (IntegerPart(t.shadow[\h14]) + 13) * 65536
                 + FractionPart(t.shadow[\h15], t.shadow[\h16]) = div
           /\ On(t, \h12, 3) <=> FractionPart(t.shadow[\h15], t.shadow[\h16]) = 0
<1>. DEFINE d == div \div 65536
            n == d - 13
            sdm == div % 65536
            ni == IntegerPart(t.shadow[\h14])
            frac == FractionPart(t.shadow[\h15], t.shadow[\h16])
<1>1. sdm \in Nat /\ sdm <= 65535 /\ sdm = div - 65536 * d /\ d \in Int
      BY DividerSplit
<1>2. n \in Nat /\ n <= 255 /\ n = d - 13
      OBVIOUS
<1>3. /\ t.shadow[\h14] = IntegerByte(n)
      /\ t.shadow[\h15] = Byte(sdm % 256)
      /\ t.shadow[\h16] = Byte(sdm \div 256)
      /\ On(t, \h12, 3) <=> sdm = 0
      BY DEF Spelt, IntegerByte
<1>. HIDE DEF n, sdm, d
<1>4. n \in Octet /\ sdm \in Sixteen
      BY <1>1, <1>2 DEF Octet, Sixteen
<1>5. ni = n /\ frac = sdm
  <2>1. n \in Octet
        BY <1>4
  <2>2. sdm \in Sixteen
        BY <1>4
  <2>3. t.shadow[\h14] = IntegerByte(n)
        BY <1>3
  <2>4. t.shadow[\h15] = Byte(sdm % 256) /\ t.shadow[\h16] = Byte(sdm \div 256)
        BY <1>3
  <2>5. IntegerPart(t.shadow[\h14]) = n
    <3>1. IntegerPart(IntegerByte(n)) = n
          BY <2>1, IntegerBack
    <3>. QED
         BY <2>3, <3>1
  <2>6. FractionPart(t.shadow[\h15], t.shadow[\h16]) = sdm
    <3>1. FractionPart(Byte(sdm % 256), Byte(sdm \div 256)) = sdm
          BY <2>2, FractionBack
    <3>. QED
         BY <2>4, <3>1
  <2>. QED
       BY <2>5, <2>6 DEF ni, frac
<1>. HIDE DEF ni, frac
<1>6. (n + 13) * 65536 + sdm = div
  <2>1. n + 13 = d
        BY <1>1, <1>2
  <2>. QED
       BY <1>1, <2>1
<1>7. (ni + 13) * 65536 + frac = div
      BY <1>5, <1>6
<1>. QED
     BY <1>3, <1>5, <1>7 DEF ni, frac

LEMMA InOctave ==
    ASSUME NEW lo \in Nat, NEW d \in MixDivs(lo)
    PROVE  /\ lo * d \in Int /\ lo * d >= VCO_MIN /\ lo * d < 2 * VCO_MIN
           /\ 512 * d * lo = 512 * (lo * d)
<1>1. d \in {2, 4, 8, 16, 32, 64} /\ lo * d >= VCO_MIN /\ lo * d < 2 * VCO_MIN
      BY DEF MixDivs
<1>2. lo * d \in Int /\ 512 * d * lo = 512 * (lo * d)
      BY <1>1
<1>. QED
     BY <1>1, <1>2

LEMMA CrystalKnown == \A model : XTAL_128(model) \in {125, 225}
BY DEF XTAL_128

LEMMA SynthesisesTrue == IInv => SynthesisesLo
<1>0. ~LoTuned => SynthesisesLo
      BY DEF SynthesisesLo
<1>. SUFFICES ASSUME IInv, LoTuned PROVE SynthesisesLo
     BY <1>0
<1>. DEFINE xtal == XTAL_128(drv.model)
            lo == WantedLo
            c == drv.chip
            n == IntegerPart(c[\h14])
            sdm == FractionPart(c[\h15], c[\h16])
<1>1. lo = AskedLo /\ lo \in Nat
      BY LoWanted
<1>2. Tuned /\ Trusted /\ asked.freq > 0
      BY DEF LoTuned, Tuned
<1>3. Awake /\ drv.shadow = c /\ \A r, b : On(drv, r, b) <=> b \in c[r]
      BY <1>2, TrustedChip
<1>4. TunedTo(drv, drv.model, lo)
      BY <1>1, <1>2, <1>3 DEF IInv, TuneInv
<1>5. PICK d \in MixDivs(lo) : Spelt(drv, VcoDiv(xtal, lo * d))
      BY <1>4 DEF TunedTo
<1>6. xtal \in {125, 225}
      BY CrystalKnown
<1>. DEFINE v == lo * d
            div == VcoDiv(xtal, v)
<1>. HIDE DEF xtal, lo, c
<1>7. v \in Int /\ v >= VCO_MIN /\ v < 2 * VCO_MIN /\ 512 * d * lo = 512 * v
      BY <1>1, InOctave
<1>. HIDE DEF v
<1>8. /\ div \in Nat /\ div \div 65536 - 13 \in Nat /\ div \div 65536 - 13 <= 255
      /\ 2 * xtal * div - 512 * v \in -xtal..xtal
  <2>1. v \in Int /\ v >= VCO_MIN /\ v < 2 * VCO_MIN
        BY <1>7
  <2>2. DividerOk(xtal, v)
        BY <1>6, <2>1, DividerFits, Zenon
  <2>. QED
       BY <2>2 DEF DividerOk
<1>9. Spelt(drv, div)
      BY <1>5 DEF v
<1>. HIDE DEF div
<1>10. /\ (IntegerPart(drv.shadow[\h14]) + 13) * 65536
            + FractionPart(drv.shadow[\h15], drv.shadow[\h16]) = div
       /\ On(drv, \h12, 3) <=> FractionPart(drv.shadow[\h15], drv.shadow[\h16]) = 0
       BY <1>8, <1>9, SpeltBack
<1>11. (n + 13) * 65536 + sdm = div /\ (3 \in c[\h12] <=> sdm = 0)
       BY <1>3, <1>10
<1>. HIDE DEF n, sdm
<1>12. 2 * xtal * ((n + 13) * 65536 + sdm) - 512 * d * lo \in -xtal..xtal
  <2>. DEFINE x == (n + 13) * 65536 + sdm
              y == 512 * d * lo
              z == 512 * v
  <2>1. x = div /\ y = z
        BY <1>7, <1>11
  <2>2. 2 * xtal * div - z \in -xtal..xtal
        BY <1>8
  <2>. HIDE DEF x, y, z
  <2>3. 2 * xtal * x - y \in -xtal..xtal
        BY <2>1, <2>2, SMT
  <2>. QED
       BY <2>3, SMT DEF x, y
<1>13. SpeltFor(d)
  <2>1. 3 \in drv.chip[\h12] <=> FractionPart(drv.chip[\h15], drv.chip[\h16]) = 0
        BY <1>11, SMT DEF c, sdm
  <2>2. 2 * XTAL_128(drv.model)
          * ((IntegerPart(drv.chip[\h14]) + 13) * 65536 + FractionPart(drv.chip[\h15], drv.chip[\h16]))
          - 512 * d * WantedLo \in -XTAL_128(drv.model)..XTAL_128(drv.model)
        BY <1>12, SMT DEF xtal, lo, c, n, sdm
  <2>. QED
       BY <2>1, <2>2, SMT DEF SpeltFor
<1>14. d \in MixDivs(WantedLo)
       BY DEF lo
<1>. QED
     BY <1>13, <1>14 DEF SynthesisesLo

(* The PLL's divider registers stay spelling, to half a step, the VCO      *)
(* frequency of that LO: for every frequency that set_pll can tune, the    *)
(* rounded divider fits nint's bits and the 16 bits of sdm.                *)
THEOREM SynthesisesHolds == Spec => []SynthesisesLo
BY SynthesisesTrue, IInvHolds, PTL

---------------------------------------------------------------------------
(* Filter, gain mode and gain                                              *)

LEMMA AllButFour == \A b \in 0..7 : b \in Byte(\hef) <=> b # 4
<1>. SUFFICES ASSUME NEW b \in 0..7 PROVE b \in Byte(\hef) <=> b # 4
     OBVIOUS
<1>1. CASE b \in {0, 1, 2, 3}
      BY <1>1, ByteBits
<1>2. CASE b \in {4, 5, 6, 7}
      BY <1>2, ByteBits
<1>. QED
     BY <1>1, <1>2

LEMMA FilterTrue == ASSUME IInv, Trusted PROVE FilterAsAsked
<1>. DEFINE c == drv.chip[\h0b]
            B == Byte(IF asked.bw < 0 THEN \h6b ELSE Setting(asked.bw).reg0b)
<1>1. Awake /\ drv \in Driver /\ doubt[1] = "none" /\ \A r, b : On(drv, r, b) <=> b \in drv.chip[r]
      BY TrustedChip
<1>2. FilterIs(drv, asked.bw)
      BY <1>1 DEF IInv, FilterInv
<1>3. \A b \in Byte(\hef) : b \in c <=> b \in B
      BY <1>1, <1>2 DEF FilterIs
<1>4. c \in SUBSET (0..7)
      BY <1>1, RegsInterval DEF Driver, Registers, Bits
<1>5. B \in SUBSET (0..7)
      BY ByteType DEF Bits
<1>6. FilterAsAsked <=> (Trusted => c \ {4} = B \ {4})
      BY DEF FilterAsAsked
<1>. HIDE DEF c, B
<1>7. c \ {4} = B \ {4}
      BY <1>3, <1>4, <1>5, AllButFour
<1>. QED
     BY <1>6, <1>7

LEMMA ModeTrue == ASSUME IInv, Trusted PROVE GainModeAsAsked
<1>1. Awake /\ doubt[1] = "none" /\ \A r, b : On(drv, r, b) <=> b \in drv.chip[r]
      BY TrustedChip
<1>2. ModeIs(drv, asked.manual)
      BY <1>1 DEF IInv, ModeInv
<1>3. asked.manual \in BOOLEAN
      BY DEF IInv, TypeInv, Settings
<1>4. /\ 4 \in drv.chip[5] <=> asked.manual = TRUE
      /\ 4 \in drv.chip[7] <=> asked.manual = FALSE
      BY <1>1, <1>2, Zenon DEF ModeIs
<1>. QED
     BY <1>3, <1>4 DEF GainModeAsAsked

(* The sum of the first n steps, given the table of such sums.             *)
SumOf(steps, n, f) == f = [i \in 0..n |-> IF i = 0 THEN 0 ELSE f[i - 1] + steps[i]]

LEMMA TotalIs ==
    ASSUME NEW steps, NEW T, T[0] = 0, \A i \in 1..15 : T[i] = T[i - 1] + steps[i],
           NEW n \in Nat, n <= 15
    PROVE  Total(steps, n) = T[n]
<1>. DEFINE h == [i \in 0..n |-> T[i]]
            f == CHOOSE g : SumOf(steps, n, g)
<1>1. SumOf(steps, n, h)
  <2>1. ASSUME NEW i \in 0..n PROVE h[i] = IF i = 0 THEN 0 ELSE h[i - 1] + steps[i]
    <3>1. CASE i = 0
          BY <3>1
    <3>2. CASE i # 0
      <4>1. i \in 1..15 /\ i - 1 \in 0..n
            BY <3>2
      <4>2. h[i] = T[i] /\ h[i - 1] = T[i - 1]
            BY <4>1
      <4>3. T[i] = T[i - 1] + steps[i]
            BY <4>1
      <4>. HIDE DEF h
      <4>. QED
           BY <3>2, <4>2, <4>3
    <3>. QED
         BY <3>1, <3>2
  <2>. QED
       BY <2>1 DEF SumOf
<1>2. SumOf(steps, n, f)
      BY <1>1
<1>3. Total(steps, n) = f[n]
      BY DEF Total, SumOf
<1>. HIDE DEF h, f
<1>. DEFINE P == {m \in Nat : m <= n => f[m] = T[m]}
<1>4. 0 \in P
      BY <1>2 DEF SumOf
<1>5. ASSUME NEW m \in Nat, m \in P PROVE m + 1 \in P
  <2>1. CASE m + 1 <= n
    <3>1. m + 1 \in 0..n /\ m + 1 # 0 /\ m + 1 - 1 = m /\ m + 1 \in 1..15 /\ m <= n
          BY <2>1
    <3>2. f[m + 1] = f[m] + steps[m + 1]
          BY <1>2, <3>1 DEF SumOf
    <3>3. T[m + 1] = T[m] + steps[m + 1]
          BY <3>1
    <3>4. f[m] = T[m]
          BY <1>5, <3>1
    <3>. QED
         BY <3>2, <3>3, <3>4
  <2>. QED
       BY <2>1
<1>6. n \in P
      BY <1>4, <1>5, NatSetInduction
<1>. QED
     BY <1>3, <1>6

\* the sums of the first i steps of the LNA, and of the mixer
LnaTotals ==
    [i \in 0..15 |-> IF i = 0 THEN 0 ELSE
        <<9, 22, 62, 100, 113, 144, 166, 192, 223, 249, 263, 282, 287, 322, 335>>[i]]

LEMMA LnaTotalsIs ==
    /\ LnaTotals[0] = 0
    /\ LnaTotals[1] = 9
    /\ LnaTotals[2] = 22
    /\ LnaTotals[3] = 62
    /\ LnaTotals[4] = 100
    /\ LnaTotals[5] = 113
    /\ LnaTotals[6] = 144
    /\ LnaTotals[7] = 166
    /\ LnaTotals[8] = 192
    /\ LnaTotals[9] = 223
    /\ LnaTotals[10] = 249
    /\ LnaTotals[11] = 263
    /\ LnaTotals[12] = 282
    /\ LnaTotals[13] = 287
    /\ LnaTotals[14] = 322
    /\ LnaTotals[15] = 335
BY DEF LnaTotals

LEMMA LnaTotal == \A n \in Nat : n <= 15 => Total(LNA_GAIN_STEPS, n) = LnaTotals[n]
<1>. DEFINE steps == LNA_GAIN_STEPS
            T == LnaTotals
<1>1. ASSUME NEW i \in 1..15 PROVE T[i] = T[i - 1] + steps[i]
  <2>1. CASE i \in {1, 2, 3, 4, 5}
        BY <2>1, LnaTotalsIs DEF LNA_GAIN_STEPS
  <2>2. CASE i \in {6, 7, 8, 9, 10}
        BY <2>2, LnaTotalsIs DEF LNA_GAIN_STEPS
  <2>3. CASE i \in {11, 12, 13, 14, 15}
        BY <2>3, LnaTotalsIs DEF LNA_GAIN_STEPS
  <2>. QED
       BY <2>1, <2>2, <2>3
<1>2. T[0] = 0
      BY LnaTotalsIs
<1>. HIDE DEF steps, T
<1>3. \A n \in Nat : n <= 15 => Total(steps, n) = T[n]
      BY <1>1, <1>2, TotalIs
<1>. QED
     BY <1>3 DEF steps, T

MixerTotals ==
    [i \in 0..15 |-> IF i = 0 THEN 0 ELSE
        <<5, 15, 25, 44, 53, 63, 88, 105, 115, 123, 139, 152, 158, 161, 153>>[i]]

LEMMA MixerTotalsIs ==
    /\ MixerTotals[0] = 0
    /\ MixerTotals[1] = 5
    /\ MixerTotals[2] = 15
    /\ MixerTotals[3] = 25
    /\ MixerTotals[4] = 44
    /\ MixerTotals[5] = 53
    /\ MixerTotals[6] = 63
    /\ MixerTotals[7] = 88
    /\ MixerTotals[8] = 105
    /\ MixerTotals[9] = 115
    /\ MixerTotals[10] = 123
    /\ MixerTotals[11] = 139
    /\ MixerTotals[12] = 152
    /\ MixerTotals[13] = 158
    /\ MixerTotals[14] = 161
    /\ MixerTotals[15] = 153
BY DEF MixerTotals

LEMMA MixerTotal == \A n \in Nat : n <= 15 => Total(MIXER_GAIN_STEPS, n) = MixerTotals[n]
<1>. DEFINE steps == MIXER_GAIN_STEPS
            T == MixerTotals
<1>1. ASSUME NEW i \in 1..15 PROVE T[i] = T[i - 1] + steps[i]
  <2>1. CASE i \in {1, 2, 3, 4, 5}
        BY <2>1, MixerTotalsIs DEF MIXER_GAIN_STEPS
  <2>2. CASE i \in {6, 7, 8, 9, 10}
        BY <2>2, MixerTotalsIs DEF MIXER_GAIN_STEPS
  <2>3. CASE i \in {11, 12, 13, 14, 15}
        BY <2>3, MixerTotalsIs DEF MIXER_GAIN_STEPS
  <2>. QED
       BY <2>1, <2>2, <2>3
<1>2. T[0] = 0
      BY MixerTotalsIs
<1>. HIDE DEF steps, T
<1>3. \A n \in Nat : n <= 15 => Total(steps, n) = T[n]
      BY <1>1, <1>2, TotalIs
<1>. QED
     BY <1>3 DEF steps, T

(* The gain after n of the steps that set_gain takes in turn.              *)
GainAt(n) == GainOf(LnaSteps(n), MixerSteps(n))

LEMMA GainTable ==
    /\ GainAt(0) = 0
    /\ GainAt(1) = 9
    /\ GainAt(2) = 14
    /\ GainAt(3) = 27
    /\ GainAt(4) = 37
    /\ GainAt(5) = 77
    /\ GainAt(6) = 87
    /\ GainAt(7) = 125
    /\ GainAt(8) = 144
    /\ GainAt(9) = 157
    /\ GainAt(10) = 166
    /\ GainAt(11) = 197
    /\ GainAt(12) = 207
    /\ GainAt(13) = 229
    /\ GainAt(14) = 254
    /\ GainAt(15) = 280
    /\ GainAt(16) = 297
    /\ GainAt(17) = 328
    /\ GainAt(18) = 338
    /\ GainAt(19) = 364
    /\ GainAt(20) = 372
    /\ GainAt(21) = 386
    /\ GainAt(22) = 402
    /\ GainAt(23) = 421
    /\ GainAt(24) = 434
    /\ GainAt(25) = 439
    /\ GainAt(26) = 445
    /\ GainAt(27) = 480
    /\ GainAt(28) = 483
    /\ GainAt(29) = 496
<1>1. \A n \in Nat : n <= 29 => GainAt(n) = LnaTotals[(n + 1) \div 2] + MixerTotals[n \div 2]
  <2>1. ASSUME NEW n \in Nat, n <= 29
        PROVE  GainAt(n) = LnaTotals[(n + 1) \div 2] + MixerTotals[n \div 2]
    <3>. DEFINE a == (n + 1) \div 2
                b == n \div 2
    <3>1. a \in Nat /\ a <= 15 /\ b \in Nat /\ b <= 15
          BY <2>1
    <3>2. GainAt(n) = Total(LNA_GAIN_STEPS, a) + Total(MIXER_GAIN_STEPS, b)
          BY DEF GainAt, GainOf, LnaSteps, MixerSteps
    <3>. HIDE DEF a, b
    <3>3. Total(LNA_GAIN_STEPS, a) = LnaTotals[a]
          BY <3>1, LnaTotal
    <3>4. Total(MIXER_GAIN_STEPS, b) = MixerTotals[b]
          BY <3>1, MixerTotal
    <3>5. GainAt(n) = LnaTotals[a] + MixerTotals[b]
          BY <3>2, <3>3, <3>4
    <3>. QED
         BY <3>5 DEF a, b
  <2>. QED
       BY <2>1
<1>2. /\ GainAt(0) = 0
      /\ GainAt(1) = 9
      /\ GainAt(2) = 14
      /\ GainAt(3) = 27
      /\ GainAt(4) = 37
      /\ GainAt(5) = 77
      BY <1>1, LnaTotalsIs, MixerTotalsIs
<1>3. /\ GainAt(6) = 87
      /\ GainAt(7) = 125
      /\ GainAt(8) = 144
      /\ GainAt(9) = 157
      /\ GainAt(10) = 166
      /\ GainAt(11) = 197
      BY <1>1, LnaTotalsIs, MixerTotalsIs
<1>4. /\ GainAt(12) = 207
      /\ GainAt(13) = 229
      /\ GainAt(14) = 254
      /\ GainAt(15) = 280
      /\ GainAt(16) = 297
      /\ GainAt(17) = 328
      BY <1>1, LnaTotalsIs, MixerTotalsIs
<1>5. /\ GainAt(18) = 338
      /\ GainAt(19) = 364
      /\ GainAt(20) = 372
      /\ GainAt(21) = 386
      /\ GainAt(22) = 402
      /\ GainAt(23) = 421
      BY <1>1, LnaTotalsIs, MixerTotalsIs
<1>6. /\ GainAt(24) = 434
      /\ GainAt(25) = 439
      /\ GainAt(26) = 445
      /\ GainAt(27) = 480
      /\ GainAt(28) = 483
      /\ GainAt(29) = 496
      BY <1>1, LnaTotalsIs, MixerTotalsIs
<1>. QED
     BY <1>2, <1>3, <1>4, <1>5, <1>6

LEMMA GainRises ==
    /\ \A n \in 0..29 : GainAt(n) \in Int
    /\ \A i, j \in 0..29 : i < j => GainAt(i) < GainAt(j)
<1>1. \A n \in 0..29 : GainAt(n) \in Int
  <2>1. \A n \in 0..9 : GainAt(n) \in Int
        BY GainTable
  <2>2. \A n \in 10..19 : GainAt(n) \in Int
        BY GainTable
  <2>3. \A n \in 20..29 : GainAt(n) \in Int
        BY GainTable
  <2>. QED
       BY <2>1, <2>2, <2>3
<1>2. \A n \in 0..28 : GainAt(n) < GainAt(n + 1)
  <2>1. \A n \in 0..9 : GainAt(n) < GainAt(n + 1)
        BY GainTable
  <2>2. \A n \in 10..19 : GainAt(n) < GainAt(n + 1)
        BY GainTable
  <2>3. \A n \in 20..28 : GainAt(n) < GainAt(n + 1)
        BY GainTable
  <2>. QED
       BY <2>1, <2>2, <2>3
<1>. DEFINE P == {j \in Nat : \A i \in 0..29 : i < j /\ j <= 29 => GainAt(i) < GainAt(j)}
<1>3. 0 \in P
      OBVIOUS
<1>4. ASSUME NEW j \in Nat, j \in P PROVE j + 1 \in P
  <2>1. ASSUME NEW i \in 0..29, i < j + 1, j + 1 <= 29 PROVE GainAt(i) < GainAt(j + 1)
    <3>1. j \in 0..28 /\ j \in 0..29 /\ j + 1 \in 0..29
          BY <2>1
    <3>2. GainAt(j) < GainAt(j + 1)
          BY <1>2, <3>1
    <3>3. CASE i = j
          BY <3>2, <3>3
    <3>4. CASE i < j
      <4>1. GainAt(i) < GainAt(j)
            BY <1>4, <3>1, <3>4
      <4>2. GainAt(i) \in Int /\ GainAt(j) \in Int /\ GainAt(j + 1) \in Int
            BY <1>1, <3>1
      <4>. QED
           BY <3>2, <4>1, <4>2
    <3>. QED
         BY <2>1, <3>3, <3>4
  <2>. QED
       BY <2>1
<1>5. \A j \in Nat : j \in P
      BY <1>3, <1>4, NatSetInduction
<1>. QED
     BY <1>1, <1>5

(* set_gain stops at the first step that reaches the gain, or at the last. *)
LEMMA GainStepsAre ==
    ASSUME NEW gain \in Int
    PROVE  /\ GainSteps(gain) \in 0..29
           /\ GainSteps(gain) # 29 => GainAt(GainSteps(gain)) >= gain
           /\ \A m \in 0..28 : m < GainSteps(gain) => GainAt(m) < gain
<1>. DEFINE S == {n \in 0..28 : GainAt(n) >= gain} \cup {29}
            k == Min(S)
<1>1. GainSteps(gain) = k
      BY DEF GainSteps, GainAt
<1>2. S \in SUBSET (0..29) /\ S # {}
  <2>1. \A n \in 0..28 : n \in 0..29
        OBVIOUS
  <2>2. 29 \in 0..29 /\ 29 \in S
        OBVIOUS
  <2>. QED
       BY <2>1, <2>2
<1>3. \A n \in S : n = 29 \/ (n \in 0..28 /\ GainAt(n) >= gain)
      OBVIOUS
<1>4. \A n \in 0..28 : GainAt(n) >= gain => n \in S
  <2>1. ASSUME NEW n \in 0..28, GainAt(n) >= gain PROVE n \in {m \in 0..28 : GainAt(m) >= gain}
        BY <2>1
  <2>. QED
       BY <2>1
<1>. HIDE DEF S
<1>5. k \in S /\ \A y \in S : k <= y
      BY <1>2, MinOf
<1>. HIDE DEF k
<1>6. k \in 0..29 /\ (k # 29 => GainAt(k) >= gain)
      BY <1>2, <1>3, <1>5
<1>7. ASSUME NEW m \in 0..28, m < k PROVE GainAt(m) < gain
  <2>1. m \notin S
        BY <1>5, <1>6, <1>7
  <2>2. GainAt(m) \in Int
        BY GainRises
  <2>. QED
       BY <1>4, <2>1, <2>2
<1>. QED
     BY <1>1, <1>6, <1>7

(* The gains on offer are those after the steps but the last but one.      *)
LEMMA GainsOffered ==
    \A g \in R82XX_GAINS : g \in Int /\ \E n \in 0..29 : n # 28 /\ g = GainAt(n)
<1>1. \A g \in {0, 9, 14, 27, 37, 77, 87, 125, 144, 157} : \E n \in 0..9 : g = GainAt(n)
      BY GainTable
<1>2. \A g \in {166, 197, 207, 229, 254, 280, 297, 328, 338, 364} : \E n \in 10..19 : g = GainAt(n)
      BY GainTable
<1>3. \A g \in {372, 386, 402, 421, 434, 439, 445, 480} : \E n \in 20..27 : g = GainAt(n)
      BY GainTable
<1>4. 496 = GainAt(29)
      BY GainTable
<1>. QED
     BY <1>1, <1>2, <1>3, <1>4 DEF R82XX_GAINS

LEMMA NibbleBits == \A m \in Nat : m <= 15 => \A b \in Byte(m) : b \in 0..3
<1>1. ASSUME NEW m \in Nat, m <= 15, NEW b \in 4..7 PROVE b \notin Byte(m)
  <2>1. m \div 16 = 0 /\ m \div 32 = 0 /\ m \div 64 = 0 /\ m \div 128 = 0
        BY <1>1
  <2>. QED
       BY <2>1, ByteBits
<1>2. \A m : \A b \in Byte(m) : b \in 0..7
      BY ByteType
<1>. QED
     BY <1>1, <1>2

(* A nibble that shows the bits of a number has its value.                 *)
LEMMA NibbleShows ==
    ASSUME NEW c \in SUBSET (0..7), NEW m \in Nat, m <= 15,
           \A b \in 0..3 : b \in c <=> b \in Byte(m)
    PROVE  ByteValue(c \cap 0..3) = m
<1>1. c \cap 0..3 = Byte(m)
      BY NibbleBits
<1>2. m \in Octet
      BY DEF Octet
<1>3. ByteValue(Byte(m)) = m
      BY <1>2, ByteBack
<1>. QED
     BY <1>1, <1>3

LEMMA GainTrue == ASSUME IInv, Trusted PROVE GainAsAsked
<1>0. asked.gained # TRUE => GainAsAsked
  <2>1. asked.gained \in BOOLEAN
        BY DEF IInv, TypeInv, Settings
  <2>. QED
       BY <2>1 DEF GainAsAsked
<1>. SUFFICES ASSUME asked.gained = TRUE PROVE GainAsAsked
     BY <1>0
<1>. DEFINE gain == asked.gain
            n == GainSteps(gain)
            set == GainOf(ByteValue(drv.chip[\h05] \cap 0..3), ByteValue(drv.chip[\h07] \cap 0..3))
<1>1. Awake /\ drv \in Driver /\ doubt[1] = "none" /\ \A r, b : On(drv, r, b) <=> b \in drv.chip[r]
      BY TrustedChip
<1>2. gain \in Int
      BY DEF IInv, TypeInv, Settings
<1>3. GainShown(drv, n)
      BY <1>1 DEF IInv, GainInv
<1>4. n \in 0..29 /\ (n # 29 => GainAt(n) >= gain) /\ \A m \in 0..28 : m < n => GainAt(m) < gain
      BY <1>2, GainStepsAre
<1>. HIDE DEF gain, n
<1>5. set = GainAt(n)
  <2>1. /\ LnaSteps(n) \in Nat /\ LnaSteps(n) <= 15
        /\ MixerSteps(n) \in Nat /\ MixerSteps(n) <= 15
        BY <1>4 DEF LnaSteps, MixerSteps
  <2>2. drv.chip[5] \in SUBSET (0..7) /\ drv.chip[7] \in SUBSET (0..7)
        BY <1>1, RegsInterval DEF Driver, Registers, Bits
  <2>3. \A b \in 0..3 : /\ b \in drv.chip[5] <=> b \in Byte(LnaSteps(n))
                        /\ b \in drv.chip[7] <=> b \in Byte(MixerSteps(n))
        BY <1>1, <1>3 DEF GainShown
  <2>. DEFINE lna == LnaSteps(n)
              mix == MixerSteps(n)
              c == drv.chip[5]
              e == drv.chip[7]
  <2>4. set = GainOf(ByteValue(c \cap 0..3), ByteValue(e \cap 0..3)) /\ GainAt(n) = GainOf(lna, mix)
        BY DEF GainAt
  <2>. HIDE DEF lna, mix, c, e
  <2>5. ByteValue(c \cap 0..3) = lna
    <3>1. c \in SUBSET (0..7) /\ lna \in Nat /\ lna <= 15 /\ \A b \in 0..3 : b \in c <=> b \in Byte(lna)
          BY <2>1, <2>2, <2>3 DEF c, lna
    <3>. QED
         BY <3>1, NibbleShows
  <2>6. ByteValue(e \cap 0..3) = mix
    <3>1. e \in SUBSET (0..7) /\ mix \in Nat /\ mix <= 15 /\ \A b \in 0..3 : b \in e <=> b \in Byte(mix)
          BY <2>1, <2>2, <2>3 DEF e, mix
    <3>. QED
         BY <3>1, NibbleShows
  <2>. QED
       BY <2>4, <2>5, <2>6
<1>. HIDE DEF set
<1>6. GainAt(29) = 496
      BY GainTable
<1>7. \A i \in 0..29 : GainAt(i) \in Int
      BY GainRises
<1>8. \A i, j \in 0..29 : i < j => GainAt(i) < GainAt(j)
      BY GainRises
<1>9. ASSUME NEW g \in R82XX_GAINS, gain <= g PROVE set <= g
  <2>1. PICK k \in 0..29 : k # 28 /\ g = GainAt(k)
        BY GainsOffered
  <2>2. n <= k
    <3>1. CASE k = 29
          BY <1>4, <3>1
    <3>2. CASE k # 29
      <4>1. k \in 0..28 /\ ~(GainAt(k) < gain)
            BY <1>2, <1>7, <1>9, <2>1, <3>2
      <4>. QED
           BY <1>4, <4>1
    <3>. QED
         BY <3>1, <3>2
  <2>3. GainAt(n) <= GainAt(k)
        BY <1>4, <1>7, <1>8, <2>2
  <2>. QED
       BY <1>5, <2>1, <2>3
<1>10. gain <= 496 => gain <= set
       BY <1>2, <1>4, <1>5, <1>6
<1>11. gain \in R82XX_GAINS => set = gain
  <2>1. SUFFICES ASSUME gain \in R82XX_GAINS PROVE set = gain
        OBVIOUS
  <2>2. set <= gain
        BY <1>2, <1>9, <2>1
  <2>3. gain <= 496
    <3>1. PICK k \in 0..29 : gain = GainAt(k)
          BY <2>1, GainsOffered
    <3>. QED
         BY <1>6, <1>7, <1>8, <3>1
  <2>4. set \in Int
        BY <1>4, <1>5, <1>7
  <2>. QED
       BY <1>2, <1>10, <2>2, <2>3, <2>4
<1>12. ~\E g \in R82XX_GAINS : gain <= g /\ g < set
  <2>1. ASSUME NEW g \in R82XX_GAINS, gain <= g, g < set PROVE FALSE
    <3>1. set <= g /\ set \in Int /\ g \in Int
          BY <1>4, <1>5, <1>7, <1>9, <2>1, GainsOffered
    <3>. QED
         BY <2>1, <3>1
  <2>. QED
       BY <2>1
<1>13. GainAsAsked <=> (Trusted /\ asked.gained =>
           /\ gain \in R82XX_GAINS => set = gain
           /\ gain <= 496 => gain <= set
           /\ ~\E g \in R82XX_GAINS : gain <= g /\ g < set)
       BY DEF GainAsAsked, gain, set
<1>. QED
     BY <1>10, <1>11, <1>12, <1>13

LEMMA SettingsTrue == IInv => SettingsAsAsked
<1>1. ~Trusted => SettingsAsAsked
      BY DEF SettingsAsAsked, FilterAsAsked, GainModeAsAsked, GainAsAsked
<1>2. ASSUME IInv, Trusted PROVE SettingsAsAsked
  <2>1. FilterAsAsked
        BY <1>2, FilterTrue
  <2>2. GainModeAsAsked
        BY <1>2, ModeTrue
  <2>3. GainAsAsked
        BY <1>2, GainTrue
  <2>. QED
       BY <2>1, <2>2, <2>3 DEF SettingsAsAsked
<1>. QED
     BY <1>1, <1>2

(* The IF filter, the gain mode and the gain of the last Ok calls stay in  *)
(* the chip through all calls that share their registers, and a gain that  *)
(* the device offers is the sum of exactly the steps that set_gain takes.  *)
THEOREM SettingsHold == Spec => []SettingsAsAsked
BY SettingsTrue, IInvHolds, PTL
===========================================================================
