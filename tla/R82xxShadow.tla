---------------------------- MODULE R82xxShadow ----------------------------
(***************************************************************************)
(* The register access of the R82xx driver: a write goes to the chip in    *)
(* I2C messages unless the shadow copy already has the values, the shadow  *)
(* follows when every message was acknowledged, and a masked write takes   *)
(* the other bits from the shadow. The driver's state also has the field   *)
(* shadow.                                                                 *)
(***************************************************************************)
EXTENDS TunerRegisters

\* 0x05 to 0x1f. The shadow also has 0x20 to 0x22, which no call writes.
Regs == \h05..\h1f

MaxData == 7        \* data bytes of a message: max_i2c_msg_len - 1

(* The registers old with the bytes vals of the registers regs over them.  *)
Over(old, vals, regs) == [r \in Regs |-> IF r \in regs THEN vals[r] ELSE old[r]]

(* The chip after the first n messages of a write, and the shadow after it.*)
Sent(s, vals, n) ==
    LET end == Min(DOMAIN vals) + n * MaxData
    IN  Over(s.chip, vals, {r \in DOMAIN vals : r < end})
Stored(s, vals) == Over(s.shadow, vals, DOMAIN vals)

(* Mutant: the shadow is stored before the messages are sent, as in C.     *)
WriteStoresFirst(s, vals) ==
    LET messages == (Cardinality(DOMAIN vals) + MaxData - 1) \div MaxData
        stored == [s EXCEPT !.shadow = Stored(s, vals)]
    IN  IF \A r \in DOMAIN vals : s.shadow[r] = vals[r] THEN {s}
        ELSE {[stored EXCEPT !.chip = Sent(s, vals, messages)]}
             \cup Faulty({[stored EXCEPT !.chip = Sent(s, vals, n)] : n \in 0..messages})

(* write, of the bytes vals (a function of consecutive registers). When a  *)
(* message fails the ones before it, and maybe it too, are in the chip.    *)
Write(s, vals) ==
    LET messages == (Cardinality(DOMAIN vals) + MaxData - 1) \div MaxData
        Having(n) == [s EXCEPT !.chip = Sent(s, vals, n)]
    IN  IF \A r \in DOMAIN vals : s.shadow[r] = vals[r] THEN {s}
        ELSE {[Having(messages) EXCEPT !.shadow = Stored(s, vals)]}
             \cup IF s.faults = 0 THEN {} ELSE Faulty({Having(n) : n \in 0..messages})

(* write_reg_mask                                                          *)
WriteMask(s, w) == Write(s, [r \in {w.reg} |-> Masked(s.shadow[r], w)])

(* A sequence of masked writes, each followed by ? .                       *)
Run(s, writes) ==
    LET after[i \in 0..Len(writes)] ==
            IF i = 0 THEN {s}
            ELSE Then(after[i - 1], LAMBDA t : WriteMask(t, writes[i]))
    IN  after[Len(writes)]
===========================================================================
