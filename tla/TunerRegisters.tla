--------------------------- MODULE TunerRegisters ---------------------------
(***************************************************************************)
(* What the tuner drivers share: registers as sets of bits, and calls as   *)
(* sets of outcomes. A state s of a driver is a record with, at least, the *)
(* fields chip (the registers of the tuner), faults (how many more         *)
(* transfers may fail) and err (the error with which the call returns).    *)
(* Op(s, ...) is the set of states in which a call can leave the driver.   *)
(***************************************************************************)
EXTENDS Integers, SequencesExt

\* A byte is the set of its one bits.
Byte(n) == {b \in 0..7 : (n \div 2^b) % 2 = 1}
ByteValue(byte) ==
    LET Bit(b) == IF b \in byte THEN 2^b ELSE 0
    IN  Bit(0) + Bit(1) + Bit(2) + Bit(3) + Bit(4) + Bit(5) + Bit(6) + Bit(7)

Succeeded(S) == {s \in S : s.err = "none"}

(* F(s)? : an error returns.                                               *)
Then(S, F(_)) == (S \ Succeeded(S)) \cup UNION {F(s) : s \in Succeeded(S)}

Faulty(S) == {[s EXCEPT !.faults = @ - 1, !.err = "usb"] : s \in {t \in S : t.faults > 0}}
Refuse(s) == {[s EXCEPT !.err = "tuner"]}

(* A read whose result is the chip's own: all that it does to the state is *)
(* that it may fail.                                                       *)
Read(s) == {s} \cup Faulty({s})

(* A masked write of one register, and what it makes of the old value.     *)
W(reg, val, mask) == [reg |-> reg, val |-> Byte(val), mask |-> Byte(mask)]
Masked(old, w) == (old \ w.mask) \cup (w.val \cap w.mask)

(* The writes of a driver without a shadow: of a whole byte, ...           *)
Put(reg, val) == W(reg, val, \hff)

(* ... and the registers after the first n of a sequence of writes.        *)
After(s, writes, n) ==
    LET at[i \in 0..n] ==
            IF i = 0 THEN s.chip
            ELSE [at[i - 1] EXCEPT ![writes[i].reg] = Masked(@, writes[i])]
    IN  [s EXCEPT !.chip = at[n]]

(* Writes, and read-modify-writes, of one register each, every transfer    *)
(* followed by ? . The one that fails may have reached the chip.           *)
Apply(s, writes) ==
    {After(s, writes, Len(writes))}
    \cup IF s.faults = 0 THEN {} ELSE Faulty({After(s, writes, n) : n \in 0..Len(writes)})

(* (rem * 2^n) \div den and its remainder for rem < den, as a long         *)
(* division: the product exceeds the integers of the model checker.        *)
Shifted(rem, den, n) ==
    LET at[i \in 0..n] ==
            IF i = 0 THEN <<0, rem>>
            ELSE LET prev == at[i - 1]
                     over == IF 2 * prev[2] >= den THEN 1 ELSE 0
                 IN  <<2 * prev[1] + over, 2 * prev[2] - over * den>>
    IN  at[n]
===========================================================================
