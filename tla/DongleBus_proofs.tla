------------------------- MODULE DongleBus_proofs --------------------------
(***************************************************************************)
(* What TLAPS proves of DongleBus, for any dongles, EEPROM contents, pins, *)
(* images and numbers of faults: that the inductive invariant IInv holds,  *)
(* and from it the three invariants that TLC checks on a small bus.        *)
(*                                                                         *)
(* First the lemmas about what a call does to a board (one for each call,  *)
(* of an arbitrary outcome of an arbitrary board), then what a change of   *)
(* the bus does to an index, then one lemma for each action.               *)
(***************************************************************************)
EXTENDS DongleBus, TunerRegisters_proofs, SequenceTheorems

---------------------------------------------------------------------------
(* Boards                                                                  *)

Registers == {GPO, GPOE, GPD, SDR_MODE}
Chip == [Registers -> SUBSET (0..7)]
Rom == [0..(Size - 1) -> 0..255]
Board == [chip : Chip, rom : Rom, faults : Nat, err : {"none", "usb", "invalid"}]

(* The four registers are different ones.                                  *)
LEMMA RegisterNumbers == GPO = 1 /\ GPOE = 3 /\ GPD = 4 /\ SDR_MODE = 25
BY DEF GPO, GPOE, GPD, SDR_MODE

(* What pin p of board b drives.                                           *)
Drives(b, p, on) == (on = TRUE => p \in b.chip[GPO]) /\ (on = FALSE => p \notin b.chip[GPO])

(* What pin q drives, and that it drives, is left as it was.               *)
Kept(s, t, q) ==
    /\ q \in t.chip[GPO] <=> q \in s.chip[GPO]
    /\ q \in s.chip[GPOE] => q \in t.chip[GPOE]
    /\ q \in t.chip[GPD] => q \in s.chip[GPD]

(* What every outcome t of a call on s has in common.                      *)
Outcome(s, t) ==
    /\ t \in Board /\ t.faults <= s.faults
    /\ t.err = "usb" => t.faults < s.faults

(* Clearing a bit of a register, or setting it, leaves its other bits and  *)
(* the other registers alone.                                              *)
LEMMA PinOff ==
    ASSUME NEW chip \in Chip, NEW reg \in {GPO, GPOE, GPD}, NEW g \in 0..7
    PROVE  LET new == Wrote(chip, Pin(reg, g, FALSE))
           IN  /\ new \in Chip /\ \A r \in Registers : r # reg => new[r] = chip[r]
               /\ \A p : p # g => (p \in new[reg] <=> p \in chip[reg])
               /\ g \notin new[reg]
<1>. DEFINE m == Masked(chip[reg], Pin(reg, g, FALSE))
<1>1. Wrote(chip, Pin(reg, g, FALSE)) = [chip EXCEPT ![reg] = m] /\ reg \in Registers
      BY DEF Wrote, Pin, Registers
<1>2. m \in SUBSET (0..7) /\ g \notin m /\ \A p : p # g => (p \in m <=> p \in chip[reg])
      BY DEF Masked, Pin, Chip, Registers
<1>. HIDE DEF m
<1>. QED
     BY <1>1, <1>2 DEF Chip

LEMMA PinOn ==
    ASSUME NEW chip \in Chip, NEW reg \in {GPO, GPOE, GPD}, NEW g \in 0..7
    PROVE  LET new == Wrote(chip, Pin(reg, g, TRUE))
           IN  /\ new \in Chip /\ \A r \in Registers : r # reg => new[r] = chip[r]
               /\ \A p : p # g => (p \in new[reg] <=> p \in chip[reg])
               /\ g \in new[reg]
<1>. DEFINE m == Masked(chip[reg], Pin(reg, g, TRUE))
<1>1. Wrote(chip, Pin(reg, g, TRUE)) = [chip EXCEPT ![reg] = m] /\ reg \in Registers
      BY DEF Wrote, Pin, Registers
<1>2. m \in SUBSET (0..7) /\ g \in m /\ \A p : p # g => (p \in m <=> p \in chip[reg])
      BY DEF Masked, Pin, Chip, Registers
<1>. HIDE DEF m
<1>. QED
     BY <1>1, <1>2 DEF Chip

---------------------------------------------------------------------------

(* A board with other registers is a board.                                *)
LEMMA BoardChip ==
    ASSUME NEW s \in Board, NEW c \in Chip
    PROVE  LET t == [s EXCEPT !.chip = c]
           IN  t \in Board /\ t.chip = c /\ t.rom = s.rom /\ t.faults = s.faults /\ t.err = s.err
BY DEF Board

(* ... and so is one on which a transfer failed: it has a fault less to    *)
(* come.                                                                   *)
LEMMA BoardFailed ==
    ASSUME NEW s \in Board, NEW c \in Chip, s.faults > 0
    PROVE  LET t == Failed(s, c)
           IN  t \in Board /\ t.chip = c /\ t.rom = s.rom /\ t.faults < s.faults /\ t.err = "usb"
<1>1. s.faults \in Nat /\ s.faults - 1 \in Nat /\ s.faults - 1 < s.faults
      BY DEF Board
<1>. QED
     BY <1>1 DEF Board, Failed

(* set_gpio_output may fail between its writes. Whatever it does, it makes *)
(* no pin an input, and disables no driver.                                *)
LEMMA SetGpioOutput ==
    ASSUME NEW s \in Board, s.err = "none", NEW g \in 0..7, NEW t \in set_gpio_output(s, g)
    PROVE  /\ Outcome(s, t) /\ t.rom = s.rom
           /\ t.chip[GPO] = s.chip[GPO] /\ t.chip[SDR_MODE] = s.chip[SDR_MODE]
           /\ s.chip[GPOE] \subseteq t.chip[GPOE] /\ t.chip[GPD] \subseteq s.chip[GPD]
           /\ t.err = "none" => g \in t.chip[GPOE] /\ g \notin t.chip[GPD]
<1>. DEFINE first == Pin(GPD, g, FALSE)
            second == Pin(GPOE, g, TRUE)
            S == {c \in Chip : /\ c[GPO] = s.chip[GPO] /\ c[SDR_MODE] = s.chip[SDR_MODE]
                               /\ s.chip[GPOE] \subseteq c[GPOE] /\ c[GPD] \subseteq s.chip[GPD]}
<1>1. s.chip \in S /\ {"chip", "faults", "err"} \subseteq DOMAIN s
      BY DEF Board
<1>2. ASSUME NEW c \in Chip
      PROVE  /\ Wrote(c, first) \in Chip /\ \A r \in {GPO, GPOE, SDR_MODE} : Wrote(c, first)[r] = c[r]
             /\ \A p : p # g => (p \in Wrote(c, first)[GPD] <=> p \in c[GPD])
             /\ g \notin Wrote(c, first)[GPD]
  <2>. DEFINE new == Wrote(c, Pin(GPD, g, FALSE))
  <2>1. /\ new \in Chip /\ \A r \in Registers : r # GPD => new[r] = c[r]
        /\ \A p : p # g => (p \in new[GPD] <=> p \in c[GPD])
        /\ g \notin new[GPD]
        BY PinOff
  <2>. HIDE DEF new
  <2>2. Wrote(c, first) = new /\ {GPO, GPOE, SDR_MODE} \subseteq Registers \ {GPD}
        BY RegisterNumbers DEF new, Registers
  <2>. QED
       BY <2>1, <2>2
<1>3. ASSUME NEW c \in Chip
      PROVE  /\ Wrote(c, second) \in Chip /\ \A r \in {GPO, GPD, SDR_MODE} : Wrote(c, second)[r] = c[r]
             /\ \A p : p # g => (p \in Wrote(c, second)[GPOE] <=> p \in c[GPOE])
             /\ g \in Wrote(c, second)[GPOE]
  <2>. DEFINE new == Wrote(c, Pin(GPOE, g, TRUE))
  <2>1. /\ new \in Chip /\ \A r \in Registers : r # GPOE => new[r] = c[r]
        /\ \A p : p # g => (p \in new[GPOE] <=> p \in c[GPOE])
        /\ g \in new[GPOE]
        BY PinOn
  <2>. HIDE DEF new
  <2>2. Wrote(c, second) = new /\ {GPO, GPD, SDR_MODE} \subseteq Registers \ {GPOE}
        BY RegisterNumbers DEF new, Registers
  <2>. QED
       BY <2>1, <2>2
<1>4. t \in Apply(s, <<first, second>>)
      BY DEF set_gpio_output
<1>. HIDE DEF first, second
<1>5. \A c \in S : Wrote(c, first) \in S
      BY <1>2
<1>6. \A c \in S : Wrote(c, second) \in S
      BY <1>3
<1>7. LET d == Wrote(Wrote(s.chip, first), second)
      IN  d \in S /\ g \in d[GPOE] /\ g \notin d[GPD]
      BY <1>1, <1>2, <1>3, <1>5, <1>6
<1>. HIDE DEF S
<1>8. \/ t = [s EXCEPT !.chip = Wrote(Wrote(s.chip, first), second)]
      \/ s.faults > 0 /\ \E c \in S : t = Failed(s, c)
      BY <1>1, <1>4, <1>5, <1>6, ApplyTwo
<1>9. CASE t = [s EXCEPT !.chip = Wrote(Wrote(s.chip, first), second)]
  <2>. DEFINE d == Wrote(Wrote(s.chip, first), second)
  <2>1. d \in S /\ g \in d[GPOE] /\ g \notin d[GPD]
        BY <1>7
  <2>. HIDE DEF d
  <2>2. t \in Board /\ t.chip = d /\ t.rom = s.rom /\ t.faults = s.faults /\ t.err = s.err
        BY <1>9, <2>1, BoardChip DEF S, d
  <2>. QED
       BY <2>1, <2>2 DEF S, Outcome, Board
<1>10. CASE s.faults > 0 /\ \E c \in S : t = Failed(s, c)
  <2>1. PICK c \in S : t = Failed(s, c)
        BY <1>10
  <2>2. t \in Board /\ t.chip = c /\ t.rom = s.rom /\ t.faults < s.faults /\ t.err = "usb"
        BY <1>10, <2>1, BoardFailed DEF S
  <2>. QED
       BY <2>1, <2>2 DEF S, Outcome, Board
<1>. QED
     BY <1>8, <1>9, <1>10

(* set_gpio_bit changes one pin's level only.                              *)
LEMMA SetGpioBit ==
    ASSUME NEW s \in Board, s.err = "none", NEW g \in 0..7, NEW val \in BOOLEAN,
           NEW t \in set_gpio_bit(s, g, val)
    PROVE  /\ Outcome(s, t) /\ t.rom = s.rom
           /\ t.chip[GPOE] = s.chip[GPOE] /\ t.chip[GPD] = s.chip[GPD]
           /\ t.chip[SDR_MODE] = s.chip[SDR_MODE]
           /\ \A p : p # g => (p \in t.chip[GPO] <=> p \in s.chip[GPO])
           /\ t.err = "none" => Drives(t, g, val)
<1>. DEFINE w == Pin(GPO, g, val)
            S == {c \in Chip : /\ c[GPOE] = s.chip[GPOE] /\ c[GPD] = s.chip[GPD]
                               /\ c[SDR_MODE] = s.chip[SDR_MODE]
                               /\ \A p : p # g => (p \in c[GPO] <=> p \in s.chip[GPO])}
<1>1. s.chip \in S /\ {"chip", "faults", "err"} \subseteq DOMAIN s
      BY DEF Board
<1>2. ASSUME NEW c \in Chip
      PROVE  /\ Wrote(c, w) \in Chip /\ \A r \in {GPOE, GPD, SDR_MODE} : Wrote(c, w)[r] = c[r]
             /\ \A p : p # g => (p \in Wrote(c, w)[GPO] <=> p \in c[GPO])
             /\ val = TRUE => g \in Wrote(c, w)[GPO]
             /\ val = FALSE => g \notin Wrote(c, w)[GPO]
  <2>1. CASE val = TRUE
    <3>. DEFINE new == Wrote(c, Pin(GPO, g, TRUE))
    <3>1. /\ new \in Chip /\ \A r \in Registers : r # GPO => new[r] = c[r]
          /\ \A p : p # g => (p \in new[GPO] <=> p \in c[GPO])
          /\ g \in new[GPO]
          BY PinOn
    <3>. HIDE DEF new
    <3>2. Wrote(c, w) = new /\ {GPOE, GPD, SDR_MODE} \subseteq Registers \ {GPO}
          BY <2>1, RegisterNumbers DEF new, Registers
    <3>. QED
         BY <2>1, <3>1, <3>2
  <2>2. CASE val = FALSE
    <3>. DEFINE new == Wrote(c, Pin(GPO, g, FALSE))
    <3>1. /\ new \in Chip /\ \A r \in Registers : r # GPO => new[r] = c[r]
          /\ \A p : p # g => (p \in new[GPO] <=> p \in c[GPO])
          /\ g \notin new[GPO]
          BY PinOff
    <3>. HIDE DEF new
    <3>2. {GPOE, GPD, SDR_MODE} \subseteq Registers \ {GPO}
          BY RegisterNumbers DEF Registers
    <3>3. Wrote(c, w) = new
          BY <2>2, Zenon DEF new
    <3>. QED
         BY <2>2, <3>1, <3>2, <3>3
  <2>. QED
       BY <2>1, <2>2
<1>4. t \in Apply(s, <<w>>)
      BY DEF set_gpio_bit
<1>. HIDE DEF w
<1>5. \A c \in S : Wrote(c, w) \in S
      BY <1>2
<1>7. LET d == Wrote(s.chip, w)
      IN  d \in S /\ (val = TRUE => g \in d[GPO]) /\ (val = FALSE => g \notin d[GPO])
      BY <1>1, <1>2, <1>5
<1>. HIDE DEF S
<1>8. \/ t = [s EXCEPT !.chip = Wrote(s.chip, w)]
      \/ s.faults > 0 /\ \E c \in S : t = Failed(s, c)
      BY <1>1, <1>4, <1>5, ApplyOne
<1>9. CASE t = [s EXCEPT !.chip = Wrote(s.chip, w)]
  <2>. DEFINE d == Wrote(s.chip, w)
  <2>1. d \in S /\ (val = TRUE => g \in d[GPO]) /\ (val = FALSE => g \notin d[GPO])
        BY <1>7
  <2>. HIDE DEF d
  <2>2. t \in Board /\ t.chip = d /\ t.rom = s.rom /\ t.faults = s.faults /\ t.err = s.err
        BY <1>9, <2>1, BoardChip DEF S, d
  <2>3. Drives(t, g, val)
        BY <2>1, <2>2 DEF Drives
  <2>. QED
       BY <2>1, <2>2, <2>3 DEF S, Outcome, Board
<1>10. CASE s.faults > 0 /\ \E c \in S : t = Failed(s, c)
  <2>1. PICK c \in S : t = Failed(s, c)
        BY <1>10
  <2>2. t \in Board /\ t.chip = c /\ t.rom = s.rom /\ t.faults < s.faults /\ t.err = "usb"
        BY <1>10, <2>1, BoardFailed DEF S
  <2>. QED
       BY <2>1, <2>2 DEF S, Outcome, Board
<1>. QED
     BY <1>8, <1>9, <1>10

(* init_baseband, set_agc_mode and set_testmode write one register.        *)
LEMMA SetMode ==
    ASSUME NEW s \in Board, s.err = "none", NEW val, NEW t \in Apply(s, <<Put(SDR_MODE, val)>>)
    PROVE  /\ Outcome(s, t) /\ t.rom = s.rom
           /\ t.chip[GPO] = s.chip[GPO] /\ t.chip[GPOE] = s.chip[GPOE] /\ t.chip[GPD] = s.chip[GPD]
           /\ t.err = "none" => t.chip[SDR_MODE] = Byte(val)
<1>. DEFINE w == Put(SDR_MODE, val)
            S == {c \in Chip : c[GPO] = s.chip[GPO] /\ c[GPOE] = s.chip[GPOE] /\ c[GPD] = s.chip[GPD]}
<1>1. s.chip \in S /\ {"chip", "faults", "err"} \subseteq DOMAIN s
      BY DEF Board
<1>2. ASSUME NEW c \in Chip
      PROVE  /\ Wrote(c, w) \in Chip /\ \A r \in {GPO, GPOE, GPD} : Wrote(c, w)[r] = c[r]
             /\ Wrote(c, w)[SDR_MODE] = Byte(val)
  <2>1. w.reg = SDR_MODE /\ c[SDR_MODE] \in SUBSET (0..7)
        BY DEF Put, W, Chip, Registers
  <2>2. Masked(c[SDR_MODE], w) = Byte(val) /\ Byte(val) \in SUBSET (0..7)
        BY <2>1, WholeByte
  <2>. HIDE DEF w
  <2>3. Wrote(c, w) = [c EXCEPT ![SDR_MODE] = Byte(val)]
        BY <2>1, <2>2 DEF Wrote
  <2>. QED
       BY <2>2, <2>3, RegisterNumbers DEF Chip, Registers
<1>. HIDE DEF w
<1>4. t \in Apply(s, <<w>>)
      BY DEF w
<1>5. \A c \in S : Wrote(c, w) \in S
      BY <1>2
<1>7. LET d == Wrote(s.chip, w)
      IN  d \in S /\ d[SDR_MODE] = Byte(val)
      BY <1>1, <1>2, <1>5
<1>. HIDE DEF S
<1>8. \/ t = [s EXCEPT !.chip = Wrote(s.chip, w)]
      \/ s.faults > 0 /\ \E c \in S : t = Failed(s, c)
      BY <1>1, <1>4, <1>5, ApplyOne
<1>9. CASE t = [s EXCEPT !.chip = Wrote(s.chip, w)]
  <2>. DEFINE d == Wrote(s.chip, w)
  <2>1. d \in S /\ d[SDR_MODE] = Byte(val)
        BY <1>7
  <2>. HIDE DEF d
  <2>2. t \in Board /\ t.chip = d /\ t.rom = s.rom /\ t.faults = s.faults /\ t.err = s.err
        BY <1>9, <2>1, BoardChip DEF S, d
  <2>. QED
       BY <2>1, <2>2 DEF S, Outcome, Board
<1>10. CASE s.faults > 0 /\ \E c \in S : t = Failed(s, c)
  <2>1. PICK c \in S : t = Failed(s, c)
        BY <1>10
  <2>2. t \in Board /\ t.chip = c /\ t.rom = s.rom /\ t.faults < s.faults /\ t.err = "usb"
        BY <1>10, <2>1, BoardFailed DEF S
  <2>. QED
       BY <2>1, <2>2 DEF S, Outcome, Board
<1>. QED
     BY <1>8, <1>9, <1>10

(* set_bias_tee_gpio, wherever it fails, touches no other pin.             *)
LEMMA SetBiasTee_ ==
    ASSUME NEW s \in Board, s.err = "none", NEW g \in 0..7, NEW on \in BOOLEAN,
           NEW t \in set_bias_tee_gpio(s, g, on)
    PROVE  /\ Outcome(s, t) /\ t.rom = s.rom /\ t.chip[SDR_MODE] = s.chip[SDR_MODE]
           /\ \A q : q # g => Kept(s, t, q)
           /\ t.err = "none" => Drives(t, g, on) /\ g \in t.chip[GPOE] /\ g \notin t.chip[GPD]
<1>1. CASE t \in set_gpio_output(s, g) /\ t.err # "none"
      BY <1>1, SetGpioOutput DEF Kept
<1>2. ASSUME NEW u \in set_gpio_output(s, g), u.err = "none", t \in set_gpio_bit(u, g, on)
      PROVE  /\ Outcome(s, t) /\ t.rom = s.rom /\ t.chip[SDR_MODE] = s.chip[SDR_MODE]
             /\ \A q : q # g => Kept(s, t, q)
             /\ t.err = "none" => Drives(t, g, on) /\ g \in t.chip[GPOE] /\ g \notin t.chip[GPD]
  <2>1. /\ Outcome(s, u) /\ u.rom = s.rom
        /\ u.chip[GPO] = s.chip[GPO] /\ u.chip[SDR_MODE] = s.chip[SDR_MODE]
        /\ s.chip[GPOE] \subseteq u.chip[GPOE] /\ u.chip[GPD] \subseteq s.chip[GPD]
        /\ g \in u.chip[GPOE] /\ g \notin u.chip[GPD]
        BY <1>2, SetGpioOutput
  <2>2. u \in Board
        BY <2>1 DEF Outcome
  <2>3. /\ Outcome(u, t) /\ t.rom = u.rom
        /\ t.chip[GPOE] = u.chip[GPOE] /\ t.chip[GPD] = u.chip[GPD]
        /\ t.chip[SDR_MODE] = u.chip[SDR_MODE]
        /\ \A p : p # g => (p \in t.chip[GPO] <=> p \in u.chip[GPO])
        /\ t.err = "none" => Drives(t, g, on)
        BY <1>2, <2>2, SetGpioBit
  <2>4. Outcome(s, t)
    <3>1. s.faults \in Nat /\ u.faults \in Nat /\ t.faults \in Nat
          BY <2>1, <2>3 DEF Outcome, Board
    <3>. QED
         BY <2>1, <2>3, <3>1 DEF Outcome
  <2>5. t.rom = s.rom /\ t.chip[SDR_MODE] = s.chip[SDR_MODE] /\ \A q : q # g => Kept(s, t, q)
        BY <2>1, <2>3 DEF Kept
  <2>6. t.err = "none" => Drives(t, g, on) /\ g \in t.chip[GPOE] /\ g \notin t.chip[GPD]
        BY <2>1, <2>3, ZenonT(30)
  <2>. QED
       BY <2>4, <2>5, <2>6, ZenonT(30)
<1>3. \/ t \in set_gpio_output(s, g) /\ t.err # "none"
      \/ \E u \in set_gpio_output(s, g) : u.err = "none" /\ t \in set_gpio_bit(u, g, on)
      BY ZenonT(30) DEF set_bias_tee_gpio, Then, Succeeded
<1>. QED
     BY <1>1, <1>2, <1>3, ZenonT(30)

---------------------------------------------------------------------------
(* The probe                                                               *)

(* What the probe leaves alone: every pin but the one that resets tuners.  *)
Probing(s, t) ==
    /\ t \in Board /\ t.err = "none" /\ t.faults <= s.faults
    /\ t.rom = s.rom /\ t.chip[SDR_MODE] = s.chip[SDR_MODE]
    /\ \A q : q # 4 => Kept(s, t, q)

(* Probing is reflexive and transitive.                                    *)
LEMMA ProbingStays == ASSUME NEW s \in Board, s.err = "none" PROVE Probing(s, s)
BY DEF Probing, Kept, Board

LEMMA ProbingOn == ASSUME NEW s \in Board, NEW t, NEW u, Probing(s, t), Probing(t, u) PROVE Probing(s, u)
<1>1. s.faults \in Nat /\ t.faults \in Nat /\ u.faults \in Nat
      BY DEF Probing, Board
<1>. QED
     BY <1>1 DEF Probing, Kept

(* An outcome whose error is dropped.                                      *)
LEMMA Ignored ==
    ASSUME NEW S, NEW t \in Ignore(S)
    PROVE  \E u \in S : t = [u EXCEPT !.err = "none"]
BY DEF Ignore

LEMMA ErrorReset ==
    ASSUME NEW s \in Board
    PROVE  LET t == [s EXCEPT !.err = "none"]
           IN  t \in Board /\ t.err = "none" /\ t.faults = s.faults /\ t.rom = s.rom /\ t.chip = s.chip
BY DEF Board

(* The calls that the reset of a tuner is made of disturb pin 4 alone.     *)
LEMMA OutputProbing ==
    ASSUME NEW s \in Board, s.err = "none", NEW g \in 0..7, NEW t \in Ignore(set_gpio_output(s, g))
    PROVE  Probing(s, t)
<1>1. PICK u \in set_gpio_output(s, g) : t = [u EXCEPT !.err = "none"]
      BY Ignored
<1>2. /\ Outcome(s, u) /\ u.rom = s.rom
      /\ u.chip[GPO] = s.chip[GPO] /\ u.chip[SDR_MODE] = s.chip[SDR_MODE]
      /\ s.chip[GPOE] \subseteq u.chip[GPOE] /\ u.chip[GPD] \subseteq s.chip[GPD]
      BY SetGpioOutput
<1>3. t \in Board /\ t.err = "none" /\ t.faults = u.faults /\ t.rom = u.rom /\ t.chip = u.chip
      BY <1>1, <1>2, ErrorReset DEF Outcome
<1>. QED
     BY <1>2, <1>3 DEF Probing, Kept, Outcome

LEMMA BitProbing ==
    ASSUME NEW s \in Board, s.err = "none", NEW val \in BOOLEAN, NEW t \in Ignore(set_gpio_bit(s, 4, val))
    PROVE  Probing(s, t)
<1>1. PICK u \in set_gpio_bit(s, 4, val) : t = [u EXCEPT !.err = "none"]
      BY Ignored, ZenonT(30)
<1>2. /\ Outcome(s, u) /\ u.rom = s.rom
      /\ u.chip[GPOE] = s.chip[GPOE] /\ u.chip[GPD] = s.chip[GPD]
      /\ u.chip[SDR_MODE] = s.chip[SDR_MODE]
      /\ \A p : p # 4 => (p \in u.chip[GPO] <=> p \in s.chip[GPO])
  <2>1. PICK g \in 0..7 : g = 4
        OBVIOUS
  <2>2. u \in set_gpio_bit(s, g, val)
        BY <2>1
  <2>3. /\ Outcome(s, u) /\ u.rom = s.rom
        /\ u.chip[GPOE] = s.chip[GPOE] /\ u.chip[GPD] = s.chip[GPD]
        /\ u.chip[SDR_MODE] = s.chip[SDR_MODE]
        /\ \A p : p # g => (p \in u.chip[GPO] <=> p \in s.chip[GPO])
        BY <2>2, SetGpioBit
  <2>. QED
       BY <2>1, <2>3
<1>3. t \in Board /\ t.err = "none" /\ t.faults = u.faults /\ t.rom = u.rom /\ t.chip = u.chip
      BY <1>1, <1>2, ErrorReset DEF Outcome
<1>. QED
     BY <1>2, <1>3 DEF Probing, Kept, Outcome

(* So does the reset, ...                                                  *)
LEMMA ResetProbing ==
    ASSUME NEW s \in Board, s.err = "none", NEW v \in ResetTuner(s)
    PROVE  Probing(s, v)
<1>1. PICK t \in Ignore(set_gpio_output(s, 4)) : v \in UNION {Ignore(set_gpio_bit(u, 4, FALSE)) : u \in Ignore(set_gpio_bit(t, 4, TRUE))}
      BY DEF ResetTuner
<1>2. PICK u \in Ignore(set_gpio_bit(t, 4, TRUE)) : v \in Ignore(set_gpio_bit(u, 4, FALSE))
      BY <1>1
<1>3. Probing(s, t)
      BY OutputProbing
<1>4. Probing(t, u)
      BY <1>3, BitProbing, ZenonT(30) DEF Probing
<1>5. Probing(u, v)
      BY <1>2, <1>4, BitProbing, ZenonT(30) DEF Probing
<1>. QED
     BY <1>3, <1>4, <1>5, ProbingOn DEF Probing

(* A lost answer costs a transfer.                                         *)
LEMMA LostProbing ==
    ASSUME NEW s \in Board, NEW S, \A b \in S : Probing(s, b),
           NEW r \in {[b EXCEPT !.err = "none"] : b \in Faulty(S)}
    PROVE  Probing(s, r) /\ r.faults < s.faults
<1>1. PICK b \in S : b.faults > 0 /\ r = [[b EXCEPT !.faults = @ - 1, !.err = "usb"] EXCEPT !.err = "none"]
      BY DEF Faulty
<1>2. Probing(s, b) /\ b.faults \in Nat /\ b.faults - 1 \in Nat /\ s.faults \in Nat
      BY <1>1 DEF Probing, Board
<1>3. r \in Board /\ r.err = "none" /\ r.faults = b.faults - 1 /\ r.rom = b.rom /\ r.chip = b.chip
      BY <1>1, <1>2 DEF Probing, Board
<1>. QED
     BY <1>2, <1>3 DEF Probing, Kept

(* ... and the whole of probe_tuner, which takes a tuner for another one   *)
(* only where a transfer was lost.                                         *)
LEMMA ProbeTuner ==
    ASSUME NEW s \in Board, s.err = "none", NEW type, NEW found \in probe_tuner(s, type)
    PROVE  Probing(s, found.board) /\ (found.tuner # type => found.board.faults < s.faults)
<1>. DEFINE lost(S) == {[b EXCEPT !.err = "none"] : b \in Faulty(S)}
            with6 == UNION {Ignore(set_gpio_output(r, 6)) : r \in ResetTuner(s)}
<1>1. \A b \in ResetTuner(s) : Probing(s, b)
      BY ResetProbing
<1>2. \A b \in with6 : Probing(s, b)
  <2>. SUFFICES ASSUME NEW r \in ResetTuner(s), NEW b \in Ignore(set_gpio_output(r, 6))
                PROVE  Probing(s, b)
       OBVIOUS
  <2>1. Probing(s, r)
        BY <1>1
  <2>2. Probing(r, b)
        BY <2>1, OutputProbing DEF Probing
  <2>. QED
       BY <2>1, <2>2, ProbingOn
<1>3. \A b \in lost(ResetTuner(s)) : Probing(s, b) /\ b.faults < s.faults
      BY <1>1, LostProbing
<1>4. \A b \in lost({s}) : Probing(s, b) /\ b.faults < s.faults
      BY ProbingStays, LostProbing
<1>5. \A b \in UNION {ResetTuner(r) : r \in lost({s})} : Probing(s, b) /\ b.faults < s.faults
  <2>. SUFFICES ASSUME NEW r \in lost({s}), NEW b \in ResetTuner(r)
                PROVE  Probing(s, b) /\ b.faults < s.faults
       OBVIOUS
  <2>1. Probing(s, r) /\ r.faults < s.faults
        BY <1>4
  <2>. HIDE DEF lost
  <2>2. Probing(r, b)
        BY <2>1, ResetProbing DEF Probing
  <2>3. b.faults \in Nat /\ r.faults \in Nat /\ s.faults \in Nat /\ b.faults <= r.faults
        BY <2>1, <2>2 DEF Probing, Board
  <2>. QED
       BY <2>1, <2>2, <2>3, ProbingOn
<1>6. Probing(s, s)
      BY ProbingStays
<1>7. PICK b : /\ found = [board |-> b, tuner |-> found.tuner]
               /\ \/ b \in ResetTuner(s) /\ found.tuner = type
                  \/ b \in with6 /\ found.tuner = type
                  \/ b \in lost(ResetTuner(s))
                  \/ b = s /\ found.tuner = type
                  \/ b \in lost({s})
                  \/ b \in UNION {ResetTuner(r) : r \in lost({s})}
  <2>1. CASE type \in {"FC2580", "FC0012"}
        BY <2>1 DEF probe_tuner
  <2>2. CASE type \notin {"FC2580", "FC0012"}
    <3>1. CASE found = [board |-> s, tuner |-> type]
          BY <3>1
    <3>2. CASE type = "BlogV4" /\ found \in {[board |-> b, tuner |-> "R828D"] : b \in lost({s})}
          BY <3>2
    <3>3. CASE found \in {[board |-> b, tuner |-> "Unknown"] : b \in UNION {ResetTuner(r) : r \in lost({s})}}
      <4>1. PICK b \in UNION {ResetTuner(r) : r \in lost({s})} : found = [board |-> b, tuner |-> "Unknown"]
            BY <3>3
      <4>. QED
           BY <4>1
    <3>4. \/ found = [board |-> s, tuner |-> type]
          \/ type = "BlogV4" /\ found \in {[board |-> b, tuner |-> "R828D"] : b \in lost({s})}
          \/ found \in {[board |-> b, tuner |-> "Unknown"] : b \in UNION {ResetTuner(r) : r \in lost({s})}}
          BY <2>2 DEF probe_tuner
    <3>. QED
         BY <3>1, <3>2, <3>3, <3>4
  <2>. QED
       BY <2>1, <2>2
<1>. HIDE DEF lost, with6
<1>8. found.board = b
      BY <1>7
<1>. QED
     BY <1>1, <1>2, <1>3, <1>4, <1>5, <1>6, <1>7, <1>8

---------------------------------------------------------------------------
(* The EEPROM                                                              *)

LEMMA WrittenRom ==
    ASSUME NEW rom \in Rom, NEW data \in Seq(0..255), NEW offset \in 0..(Size - 1), NEW n \in 0..Len(data)
    PROVE  /\ Written(rom, data, offset, n) \in Rom
           /\ \A a \in 0..(Size - 1) : a \notin Region(data, offset) => Written(rom, data, offset, n)[a] = rom[a]
           /\ \A a \in Region(data, offset), r \in Rom :
                 a \in 0..(Size - 1) => Written(rom, data, offset, Len(data))[a] = Written(r, data, offset, Len(data))[a]
<1>1. Size \in Nat /\ Len(data) \in Nat /\ offset \in Nat
      BY BoardAssumption
<1>2. \A i \in 1..Len(data) : data[i] \in 0..255
      BY ElementOfSeq
<1>3. Written(rom, data, offset, n) \in Rom
  <2>. SUFFICES ASSUME NEW a \in 0..(Size - 1)
                PROVE (IF a \in offset..(offset + n - 1) THEN data[a - offset + 1] ELSE rom[a]) \in 0..255
       BY DEF Written, Rom
  <2>1. CASE a \in offset..(offset + n - 1)
    <3>1. a - offset + 1 \in 1..Len(data)
          BY <1>1, <2>1
    <3>. QED
         BY <1>2, <2>1, <3>1
  <2>2. CASE a \notin offset..(offset + n - 1)
        BY <2>2 DEF Rom
  <2>. QED
       BY <2>1, <2>2
<1>4. \A a \in 0..(Size - 1) : a \notin Region(data, offset) => Written(rom, data, offset, n)[a] = rom[a]
      BY <1>1 DEF Written, Rom, Region
<1>5. ASSUME NEW a \in Region(data, offset), NEW r \in Rom, a \in 0..(Size - 1)
      PROVE  Written(rom, data, offset, Len(data))[a] = Written(r, data, offset, Len(data))[a]
      BY <1>1, <1>5 DEF Written, Rom, Region
<1>. QED
     BY <1>3, <1>4, <1>5

(* write_eeprom, wherever it fails, changes no byte outside its region.    *)
LEMMA WriteEeprom_ ==
    ASSUME NEW s \in Board, s.err = "none", NEW data \in Seq(0..255), NEW offset \in 0..(Size - 1),
           NEW t \in write_eeprom(s, data, offset)
    PROVE  /\ Outcome(s, t) /\ t.chip = s.chip
           /\ t.err = "none" => t.rom = Written(s.rom, data, offset, Len(data))
           /\ t.err = "usb" => \A a \in 0..(Size - 1) : a \notin Region(data, offset) => t.rom[a] = s.rom[a]
           /\ t.err = "invalid" => t.rom = s.rom
<1>. DEFINE partly(n) == [s EXCEPT !.rom = Written(s.rom, data, offset, n)]
<1>1. Len(data) \in Nat /\ s.faults \in Nat /\ s.rom \in Rom
      BY DEF Board
<1>2. ASSUME NEW n \in 0..Len(data)
      PROVE  /\ partly(n) \in Board /\ partly(n).chip = s.chip /\ partly(n).err = "none"
             /\ partly(n).faults = s.faults /\ partly(n).rom = Written(s.rom, data, offset, n)
      BY <1>1, WrittenRom DEF Board
<1>3. CASE t = [s EXCEPT !.err = "invalid"]
      BY <1>1, <1>3 DEF Outcome, Board
<1>4. CASE t = partly(Len(data))
  <2>. HIDE DEF partly
  <2>1. /\ t \in Board /\ t.chip = s.chip /\ t.err = "none"
        /\ t.faults = s.faults /\ t.rom = Written(s.rom, data, offset, Len(data))
        BY <1>1, <1>2, <1>4
  <2>. QED
       BY <1>1, <2>1 DEF Outcome
<1>5. CASE t \in Faulty({partly(n) : n \in 0..Len(data)})
  <2>1. PICK n \in 0..Len(data) : partly(n).faults > 0 /\ t = [partly(n) EXCEPT !.faults = @ - 1, !.err = "usb"]
    <3>. DEFINE P == {partly(n) : n \in 0..Len(data)}
    <3>1. t \in Faulty(P)
          BY <1>5
    <3>. HIDE DEF partly, P
    <3>2. PICK u \in P : u.faults > 0 /\ t = [u EXCEPT !.faults = @ - 1, !.err = "usb"]
          BY <3>1 DEF Faulty
    <3>. QED
         BY <3>2 DEF P
  <2>. HIDE DEF partly
  <2>2. t \in Board /\ t.faults < s.faults /\ t.err = "usb" /\ t.chip = s.chip /\ t.rom = Written(s.rom, data, offset, n)
    <3>. DEFINE u == partly(n)
    <3>1. /\ u \in Board /\ u.chip = s.chip /\ u.err = "none"
          /\ u.faults = s.faults /\ u.rom = Written(s.rom, data, offset, n)
          BY <1>2
    <3>2. t = [u EXCEPT !.faults = @ - 1, !.err = "usb"] /\ u.faults - 1 \in Nat /\ u.faults - 1 < u.faults
          BY <1>1, <2>1, <3>1
    <3>. HIDE DEF u
    <3>. QED
         BY <1>1, <3>1, <3>2 DEF Board
  <2>. QED
       BY <1>1, <2>2, WrittenRom DEF Outcome, Board
<1>6. t = [s EXCEPT !.err = "invalid"] \/ t = partly(Len(data)) \/ t \in Faulty({partly(n) : n \in 0..Len(data)})
      BY DEF write_eeprom
<1>. QED
     BY <1>3, <1>4, <1>5, <1>6

---------------------------------------------------------------------------
(* What was asked of a board is true of it                                 *)

Asked == [pin : [Pins -> SUBSET BOOLEAN], mode : SUBSET Nat, rom : Rom, torn : SUBSET Int]

PinsTrue(b, a) ==
    \A p \in Pins : \A on \in a.pin[p] :
        Drives(b, p, on) /\ p \in b.chip[GPOE] /\ p \notin b.chip[GPD]
ModeTrue(b, a) == \A m \in a.mode : b.chip[SDR_MODE] = Byte(m)
RomTrue(b, a) == \A n \in 0..(Size - 1) : n \notin a.torn => b.rom[n] = a.rom[n]

AllTrue(b, a) == PinsTrue(b, a) /\ ModeTrue(b, a) /\ RomTrue(b, a)

(* Pins are bits of a byte.                                                *)
LEMMA PinTypes == Pins \subseteq 0..7 /\ \A p \in Pins : p \in 0..7
BY BusAssumption

(* Pins that are kept, and others of which nothing is asked any more.      *)
LEMMA PinsStayTrue ==
    ASSUME NEW s, NEW t, NEW a, NEW c, PinsTrue(s, a),
           \A p \in Pins : c.pin[p] = {} \/ (c.pin[p] = a.pin[p] /\ Kept(s, t, p))
    PROVE  PinsTrue(t, c)
<1>. SUFFICES ASSUME NEW p \in Pins, NEW on \in c.pin[p]
              PROVE  Drives(t, p, on) /\ p \in t.chip[GPOE] /\ p \notin t.chip[GPD]
     BY DEF PinsTrue
<1>1. on \in a.pin[p] /\ Kept(s, t, p)
      OBVIOUS
<1>2. Drives(s, p, on) /\ p \in s.chip[GPOE] /\ p \notin s.chip[GPD]
      BY <1>1, ZenonT(30) DEF PinsTrue
<1>3. Drives(t, p, on) /\ p \in t.chip[GPOE] /\ p \notin t.chip[GPD]
      BY <1>1, <1>2, ZenonT(30) DEF Kept, Drives
<1>. QED
     BY <1>2, <1>3, ZenonT(30)

(* The error of a call is gone when the next one starts.                   *)
LEMMA TrueWithoutError ==
    ASSUME NEW t \in Board, NEW a, AllTrue(t, a)
    PROVE  LET b == [t EXCEPT !.err = "none"]
           IN  b \in Board /\ b.err = "none" /\ b.faults = t.faults /\ AllTrue(b, a)
<1>. DEFINE b == [t EXCEPT !.err = "none"]
<1>1. b \in Board /\ b.err = "none" /\ b.faults = t.faults /\ b.rom = t.rom /\ b.chip = t.chip
      BY ErrorReset
<1>. HIDE DEF b
<1>2. AllTrue(b, a)
      BY <1>1, ZenonT(30) DEF AllTrue, PinsTrue, Drives, ModeTrue, RomTrue
<1>. QED
     BY <1>1, <1>2 DEF b

(* What was asked of a board stays true over a bias tee call, ...          *)
LEMMA BiasTeeTrue ==
    ASSUME NEW s \in Board, s.err = "none", NEW a \in Asked, AllTrue(s, a),
           NEW g \in Pins, NEW on \in BOOLEAN, NEW t \in set_bias_tee_gpio(s, g, on)
    PROVE  LET c == [a EXCEPT !.pin[g] = IF t.err = "none" THEN {on} ELSE {}]
           IN  Outcome(s, t) /\ c \in Asked /\ AllTrue(t, c)
<1>. DEFINE new == IF t.err = "none" THEN {on} ELSE {}
            c == [a EXCEPT !.pin[g] = new]
<1>1. /\ Outcome(s, t) /\ t.rom = s.rom /\ t.chip[SDR_MODE] = s.chip[SDR_MODE]
      /\ \A q : q # g => Kept(s, t, q)
      /\ t.err = "none" => Drives(t, g, on) /\ g \in t.chip[GPOE] /\ g \notin t.chip[GPD]
  <2>1. g \in 0..7
        BY PinTypes
  <2>. QED
       BY <2>1, SetBiasTee_
<1>2. new \in SUBSET BOOLEAN
      BY ZenonT(30)
<1>3. \A x \in new : (t.err = "none") /\ x = on
      BY ZenonT(30)
<1>. HIDE DEF new
<1>4. /\ c \in Asked /\ c.mode = a.mode /\ c.rom = a.rom /\ c.torn = a.torn
      /\ c.pin[g] = new /\ \A p \in Pins : p # g => c.pin[p] = a.pin[p]
      BY <1>2 DEF Asked
<1>. HIDE DEF c
<1>5. PinsTrue(t, c)
  <2>. SUFFICES ASSUME NEW p \in Pins, NEW x \in c.pin[p]
                PROVE  Drives(t, p, x) /\ p \in t.chip[GPOE] /\ p \notin t.chip[GPD]
       BY DEF PinsTrue
  <2>1. CASE p = g
        BY <1>1, <1>3, <1>4, <2>1, ZenonT(30) DEF Drives
  <2>2. CASE p # g
    <3>1. x \in a.pin[p] /\ Kept(s, t, p)
          BY <1>1, <1>4, <2>2
    <3>2. Drives(s, p, x) /\ p \in s.chip[GPOE] /\ p \notin s.chip[GPD]
          BY <3>1, ZenonT(30) DEF PinsTrue, AllTrue
    <3>3. Drives(t, p, x) /\ p \in t.chip[GPOE] /\ p \notin t.chip[GPD]
          BY <3>1, <3>2, ZenonT(30) DEF Kept, Drives
    <3>. QED
         BY <3>2, <3>3, ZenonT(30)
  <2>. QED
       BY <2>1, <2>2
<1>6. ModeTrue(t, c) /\ RomTrue(t, c)
      BY <1>1, <1>4 DEF AllTrue, ModeTrue, RomTrue
<1>. QED
     BY <1>1, <1>4, <1>5, <1>6 DEF AllTrue, c, new

(* ... a change of band of a Blog V4, which takes pin 5 whether a bias tee *)
(* was asked of it or not, ...                                             *)
SwitchAsked(a, hf, err) ==
    [a EXCEPT !.pin = [p \in Pins |-> IF p # 5 THEN a.pin[p] ELSE IF err = "none" THEN {~hf} ELSE {}]]

LEMMA SwitchTrue ==
    ASSUME NEW s \in Board, s.err = "none", NEW a \in Asked, AllTrue(s, a),
           NEW hf \in BOOLEAN, NEW t \in switch_upconverter(s, hf)
    PROVE  LET c == SwitchAsked(a, hf, t.err)
           IN  Outcome(s, t) /\ c \in Asked /\ AllTrue(t, c)
<1>. DEFINE on == ~hf
            new == IF t.err = "none" THEN {on} ELSE {}
            c == SwitchAsked(a, hf, t.err)
<1>1. on \in BOOLEAN /\ 5 \in 0..7
      OBVIOUS
<1>2. c = [a EXCEPT !.pin = [p \in Pins |-> IF p # 5 THEN a.pin[p] ELSE new]]
      BY DEF SwitchAsked
<1>3. t \in set_bias_tee_gpio(s, 5, on)
      BY DEF switch_upconverter, set_bias_tee_gpio
<1>. HIDE DEF on, c
<1>4. /\ Outcome(s, t) /\ t.rom = s.rom /\ t.chip[SDR_MODE] = s.chip[SDR_MODE]
      /\ \A q : q # 5 => Kept(s, t, q)
      /\ t.err = "none" => Drives(t, 5, on) /\ 5 \in t.chip[GPOE] /\ 5 \notin t.chip[GPD]
      BY <1>1, <1>3, SetBiasTee_
<1>5. new \in SUBSET BOOLEAN
      BY <1>1, ZenonT(30)
<1>6. \A x \in new : (t.err = "none") /\ x = on
      BY ZenonT(30)
<1>. HIDE DEF new
<1>7. /\ c \in Asked /\ c.mode = a.mode /\ c.rom = a.rom /\ c.torn = a.torn
      /\ \A p \in Pins : c.pin[p] = IF p # 5 THEN a.pin[p] ELSE new
      BY <1>2, <1>5 DEF Asked
<1>8. PinsTrue(t, c)
  <2>. SUFFICES ASSUME NEW p \in Pins, NEW x \in c.pin[p]
                PROVE  Drives(t, p, x) /\ p \in t.chip[GPOE] /\ p \notin t.chip[GPD]
       BY DEF PinsTrue
  <2>1. CASE p = 5
        BY <1>4, <1>6, <1>7, <2>1, ZenonT(30) DEF Drives
  <2>2. CASE p # 5
    <3>1. x \in a.pin[p] /\ Kept(s, t, p)
          BY <1>4, <1>7, <2>2
    <3>2. Drives(s, p, x) /\ p \in s.chip[GPOE] /\ p \notin s.chip[GPD]
          BY <3>1, ZenonT(30) DEF PinsTrue, AllTrue
    <3>3. Drives(t, p, x) /\ p \in t.chip[GPOE] /\ p \notin t.chip[GPD]
          BY <3>1, <3>2, ZenonT(30) DEF Kept, Drives
    <3>. QED
         BY <3>2, <3>3, ZenonT(30)
  <2>. QED
       BY <2>1, <2>2
<1>9. ModeTrue(t, c) /\ RomTrue(t, c)
      BY <1>4, <1>7 DEF AllTrue, ModeTrue, RomTrue
<1>. QED
     BY <1>4, <1>7, <1>8, <1>9 DEF AllTrue, c

(* ... a write of the register that AGC and test mode share, ...           *)
LEMMA ModeCallTrue ==
    ASSUME NEW s \in Board, s.err = "none", NEW a \in Asked, AllTrue(s, a),
           NEW val \in Nat, NEW t \in Apply(s, <<Put(SDR_MODE, val)>>)
    PROVE  LET c == [a EXCEPT !.mode = IF t.err = "none" THEN {val} ELSE {}]
           IN  Outcome(s, t) /\ c \in Asked /\ AllTrue(t, c)
<1>. DEFINE c == [a EXCEPT !.mode = IF t.err = "none" THEN {val} ELSE {}]
<1>1. /\ Outcome(s, t) /\ t.rom = s.rom
      /\ t.chip[GPO] = s.chip[GPO] /\ t.chip[GPOE] = s.chip[GPOE] /\ t.chip[GPD] = s.chip[GPD]
      /\ t.err = "none" => t.chip[SDR_MODE] = Byte(val)
      BY SetMode
<1>2. c \in Asked /\ c.pin = a.pin /\ c.rom = a.rom /\ c.torn = a.torn
      /\ \A m \in c.mode : t.err = "none" /\ m = val
      BY DEF Asked
<1>. HIDE DEF c
<1>3. PinsTrue(t, c)
      BY <1>1, <1>2, PinsStayTrue DEF Kept, AllTrue
<1>4. ModeTrue(t, c) /\ RomTrue(t, c)
      BY <1>1, <1>2 DEF AllTrue, ModeTrue, RomTrue
<1>. QED
     BY <1>1, <1>2, <1>3, <1>4 DEF AllTrue, c

EepromAsked(a, err, data, offset) ==
    CASE err = "none" -> [a EXCEPT !.rom = Written(@, data, offset, Len(data)),
                                   !.torn = @ \ Region(data, offset)]
      [] err = "usb" -> [a EXCEPT !.torn = @ \cup Region(data, offset)]
      [] OTHER -> a

(* ... a write of the EEPROM, which forgets only what it tears, ...        *)
LEMMA EepromTrue ==
    ASSUME NEW s \in Board, s.err = "none", NEW a \in Asked, AllTrue(s, a),
           NEW data \in Seq(0..255), NEW offset \in 0..(Size - 1), NEW t \in write_eeprom(s, data, offset)
    PROVE  LET c == EepromAsked(a, t.err, data, offset)
           IN  Outcome(s, t) /\ c \in Asked /\ AllTrue(t, c)
<1>. DEFINE c == EepromAsked(a, t.err, data, offset)
            region == Region(data, offset)
<1>1. /\ Outcome(s, t) /\ t.chip = s.chip
      /\ t.err = "none" => t.rom = Written(s.rom, data, offset, Len(data))
      /\ t.err = "usb" => \A n \in 0..(Size - 1) : n \notin Region(data, offset) => t.rom[n] = s.rom[n]
      /\ t.err = "invalid" => t.rom = s.rom
      BY WriteEeprom_
<1>2. region \subseteq Int /\ Len(data) \in 0..Len(data) /\ s.rom \in Rom /\ a.rom \in Rom /\ t.err \in {"none", "usb", "invalid"}
      BY <1>1 DEF Region, Board, Asked, Outcome
<1>3. c \in Asked /\ c.pin = a.pin /\ c.mode = a.mode /\ RomTrue(t, c)
  <2>1. CASE t.err = "none"
    <3>. DEFINE rom == Written(a.rom, data, offset, Len(data))
    <3>1. /\ rom \in Rom
          /\ \A n \in 0..(Size - 1) : n \notin region => rom[n] = a.rom[n]
          /\ \A n \in 0..(Size - 1) : n \notin region => Written(s.rom, data, offset, Len(data))[n] = s.rom[n]
          BY <1>2, WrittenRom
    <3>2. \A n \in 0..(Size - 1) : n \in region => Written(s.rom, data, offset, Len(data))[n] = rom[n]
          BY <1>2, WrittenRom
    <3>3. c = [a EXCEPT !.rom = rom, !.torn = @ \ region]
          BY <2>1 DEF EepromAsked
    <3>. HIDE DEF rom, region, c
    <3>4. c \in Asked /\ c.pin = a.pin /\ c.mode = a.mode /\ c.rom = rom /\ c.torn = a.torn \ region
          BY <3>1, <3>3 DEF Asked
    <3>. QED
         BY <1>1, <2>1, <3>1, <3>2, <3>4 DEF RomTrue, AllTrue
  <2>2. CASE t.err = "usb"
    <3>1. c = [a EXCEPT !.torn = @ \cup region]
          BY <2>2 DEF EepromAsked
    <3>2. c \in Asked /\ c.pin = a.pin /\ c.mode = a.mode /\ c.rom = a.rom /\ c.torn = a.torn \cup region
          BY <1>2, <3>1 DEF Asked
    <3>. QED
         BY <1>1, <2>2, <3>2 DEF RomTrue, AllTrue
  <2>3. CASE t.err = "invalid"
    <3>1. c = a
          BY <2>3 DEF EepromAsked
    <3>. QED
         BY <1>1, <2>3, <3>1 DEF RomTrue, AllTrue
  <2>. QED
       BY <1>2, <2>1, <2>2, <2>3
<1>. HIDE DEF c, region
<1>4. PinsTrue(t, c)
      BY <1>1, <1>3, PinsStayTrue DEF Kept, AllTrue
<1>5. ModeTrue(t, c)
      BY <1>1, <1>3 DEF AllTrue, ModeTrue
<1>. QED
     BY <1>1, <1>3, <1>4, <1>5 DEF AllTrue, c

(* open: init_baseband sets the mode, the probe takes what pin 4 showed.   *)
LEMMA OpenTrue ==
    ASSUME NEW s \in Board, s.err = "none", NEW a \in Asked, AllTrue(s, a),
           NEW b \in init_baseband(s), b.err = "none", NEW r, Probing(b, r)
    PROVE  LET c == [a EXCEPT !.mode = {\h05}, !.pin = [g \in Pins |-> IF g = 4 THEN {} ELSE @[g]]]
           IN  r.faults <= s.faults /\ c \in Asked /\ AllTrue(r, c)
<1>. DEFINE pin == [g \in Pins |-> IF g = 4 THEN {} ELSE a.pin[g]]
            c == [a EXCEPT !.mode = {5}, !.pin = pin]
<1>1. /\ Outcome(s, b) /\ b.rom = s.rom
      /\ b.chip[GPO] = s.chip[GPO] /\ b.chip[GPOE] = s.chip[GPOE] /\ b.chip[GPD] = s.chip[GPD]
      /\ b.chip[SDR_MODE] = Byte(5)
  <2>1. \h05 = 5
        OBVIOUS
  <2>. QED
       BY <2>1, SetMode DEF init_baseband
<1>2. pin \in [Pins -> SUBSET BOOLEAN]
      BY ZenonT(30) DEF Asked
<1>3. \A p \in Pins : pin[p] = {} \/ (pin[p] = a.pin[p] /\ p # 4)
      OBVIOUS
<1>. HIDE DEF pin
<1>4. c \in Asked /\ c.pin = pin /\ c.rom = a.rom /\ c.torn = a.torn /\ c.mode = {5}
  <2>1. {5} \in SUBSET Nat
        OBVIOUS
  <2>. QED
       BY <1>2, <2>1 DEF Asked
<1>5. c = [a EXCEPT !.mode = {\h05}, !.pin = [g \in Pins |-> IF g = 4 THEN {} ELSE @[g]]]
      BY DEF pin, Asked
<1>. HIDE DEF c
<1>6. PinsTrue(r, c)
  <2>1. \A p \in Pins : c.pin[p] = {} \/ (c.pin[p] = a.pin[p] /\ Kept(s, r, p))
        BY <1>1, <1>3, <1>4 DEF Kept, Probing
  <2>. QED
       BY <2>1, PinsStayTrue DEF AllTrue
<1>7. ModeTrue(r, c) /\ RomTrue(r, c)
      BY <1>1, <1>4 DEF Probing, ModeTrue, RomTrue, AllTrue
<1>8. r.faults <= s.faults
  <2>1. r.faults \in Nat /\ b.faults \in Nat /\ s.faults \in Nat
        BY <1>1 DEF Probing, Outcome, Board
  <2>. QED
       BY <1>1, <2>1 DEF Probing, Outcome
<1>. QED
     BY <1>4, <1>5, <1>6, <1>7, <1>8 DEF AllTrue

---------------------------------------------------------------------------
(* The bus                                                                 *)

(* A dongle that is plugged in moves those behind it up by one ...         *)
LEMMA Inserted ==
    ASSUME NEW S, NEW seq \in Seq(S), NEW d \in S, NEW p \in 1..(Len(seq) + 1)
    PROVE  LET new == InsertAt(seq, p, d)
           IN  /\ new \in Seq(S) /\ Len(new) = Len(seq) + 1 /\ new[p] = d
               /\ \A j \in 1..(p - 1) : new[j] = seq[j]
               /\ \A j \in (p + 1)..(Len(seq) + 1) : new[j] = seq[j - 1]
<1>. DEFINE front == SubSeq(seq, 1, p - 1)
            back == SubSeq(seq, p, Len(seq))
            mid == front \o <<d>>
<1>1. Len(seq) \in Nat
      OBVIOUS
<1>2. /\ front \in Seq(S) /\ Len(front) = p - 1 /\ \A j \in 1..(p - 1) : front[j] = seq[j]
      BY <1>1, SubSeqProperties
<1>3. /\ back \in Seq(S) /\ Len(back) = Len(seq) - p + 1
      /\ \A j \in 1..(Len(seq) - p + 1) : back[j] = seq[p + j - 1]
      BY <1>1, SubSeqProperties
<1>4. InsertAt(seq, p, d) = mid \o back
      BY DEF InsertAt
<1>. HIDE DEF front, back
<1>5. mid \in Seq(S) /\ Len(mid) = p /\ mid[p] = d /\ \A j \in 1..(p - 1) : mid[j] = front[j]
      BY <1>1, <1>2
<1>. HIDE DEF mid
<1>. DEFINE new == mid \o back
<1>8. /\ new \in Seq(S) /\ Len(new) = Len(mid) + Len(back)
      /\ \A j \in 1..Len(mid) + Len(back) :
            new[j] = IF j <= Len(mid) THEN mid[j] ELSE back[j - Len(mid)]
      BY <1>3, <1>5, ConcatProperties
<1>. HIDE DEF new
<1>9. Len(mid) + Len(back) = Len(seq) + 1
      BY <1>1, <1>3, <1>5
<1>6. /\ Len(new) = Len(seq) + 1
      /\ \A j \in 1..p : new[j] = mid[j]
      /\ \A j \in (p + 1)..(Len(seq) + 1) : new[j] = back[j - p]
      BY <1>1, <1>5, <1>8, <1>9
<1>7. \A j \in (p + 1)..(Len(seq) + 1) : back[j - p] = seq[j - 1]
  <2>. SUFFICES ASSUME NEW j \in (p + 1)..(Len(seq) + 1) PROVE back[j - p] = seq[j - 1]
       OBVIOUS
  <2>1. j - p \in 1..(Len(seq) - p + 1) /\ p + (j - p) - 1 = j - 1
        BY <1>1
  <2>. QED
       BY <1>3, <2>1
<1>10. \A j \in 1..(p - 1) : new[j] = seq[j]
  <2>. SUFFICES ASSUME NEW j \in 1..(p - 1) PROVE new[j] = seq[j]
       OBVIOUS
  <2>1. j \in 1..p
        OBVIOUS
  <2>. QED
       BY <1>2, <1>5, <1>6, <2>1
<1>11. new[p] = d
  <2>1. p \in 1..p
        OBVIOUS
  <2>. QED
       BY <1>5, <1>6, <2>1
<1>12. InsertAt(seq, p, d) = new
       BY <1>4 DEF new
<1>. QED
     BY <1>6, <1>7, <1>8, <1>10, <1>11, <1>12

(* ... and one that is unplugged moves them down.                          *)
LEMMA Removed ==
    ASSUME NEW S, NEW seq \in Seq(S), NEW p \in 1..Len(seq)
    PROVE  LET new == RemoveAt(seq, p)
           IN  /\ new \in Seq(S) /\ Len(new) = Len(seq) - 1
               /\ \A j \in 1..(p - 1) : new[j] = seq[j]
               /\ \A j \in p..(Len(seq) - 1) : new[j] = seq[j + 1]
<1>. DEFINE front == SubSeq(seq, 1, p - 1)
            back == SubSeq(seq, p + 1, Len(seq))
<1>1. Len(seq) \in Nat
      OBVIOUS
<1>2. /\ front \in Seq(S) /\ Len(front) = p - 1 /\ \A j \in 1..(p - 1) : front[j] = seq[j]
      BY <1>1, SubSeqProperties
<1>3. /\ back \in Seq(S) /\ Len(back) = Len(seq) - p
      /\ \A j \in 1..(Len(seq) - p) : back[j] = seq[p + j]
      BY <1>1, SubSeqProperties
<1>4. RemoveAt(seq, p) = front \o back
      BY DEF RemoveAt
<1>. HIDE DEF front, back
<1>. DEFINE new == front \o back
<1>8. /\ new \in Seq(S) /\ Len(new) = Len(front) + Len(back)
      /\ \A j \in 1..Len(front) + Len(back) :
            new[j] = IF j <= Len(front) THEN front[j] ELSE back[j - Len(front)]
      BY <1>2, <1>3, ConcatProperties
<1>. HIDE DEF new
<1>5. /\ new \in Seq(S) /\ Len(new) = Len(front) + Len(back)
      /\ \A j \in 1..Len(front) : new[j] = front[j]
      /\ \A j \in (Len(front) + 1)..(Len(front) + Len(back)) : new[j] = back[j - Len(front)]
  <2>1. Len(front) \in Nat /\ Len(back) \in Nat
        BY <1>2, <1>3
  <2>. QED
       BY <1>8, <2>1
<1>7. (p - 1) + 1 = p /\ (p - 1) + (Len(seq) - p) = Len(seq) - 1
      BY <1>1
<1>6. \A j \in p..(Len(seq) - 1) : back[j - (p - 1)] = seq[j + 1]
  <2>. SUFFICES ASSUME NEW j \in p..(Len(seq) - 1) PROVE back[j - (p - 1)] = seq[j + 1]
       OBVIOUS
  <2>1. j - (p - 1) \in 1..(Len(seq) - p) /\ p + (j - (p - 1)) = j + 1
        BY <1>1
  <2>. QED
       BY <1>3, <2>1
<1>. QED
     BY <1>2, <1>3, <1>4, <1>5, <1>6, <1>7 DEF new

---------------------------------------------------------------------------
(* The inductive invariant                                                 *)

SerialNumber == [1..(Size - SerialAt) -> 0..255]
String == SerialNumber \cup {Blank}

Request == [op : {"none", "serial", "index", "list"}, serial : Serials \cup {Blank},
            stage : {"idle", "count", "lookup", "open", "done"}, count : Nat, i : Nat,
            list : Seq(String), out : {"none", "invalid", "ok", "error"},
            moved : BOOLEAN, shifted : BOOLEAN, blind : SUBSET Dongles]

BusInv == bus \in Seq(Dongles) /\ \A i, j \in 1..Len(bus) : bus[i] = bus[j] => i = j

BoardsInv ==
    /\ board \in [Dongles -> Board] /\ asked \in [Dongles -> Asked] /\ shown \in [Dongles -> SerialNumber]
    /\ \A d \in Dongles : /\ board[d].err = "none" /\ board[d].faults <= MaxFaults[d]
                          /\ AllTrue(board[d], asked[d])

DevInv ==
    dev # Closed =>
        /\ dev.dongle \in Dongles /\ On(dev.dongle)
        /\ dev.tuner # Tuner[dev.dongle] => board[dev.dongle].faults < MaxFaults[dev.dongle]

(* The search so far: every dongle in front of the index that has the      *)
(* serial could not be read, ...                                           *)
Passed == \A j \in 1..req.i : shown[bus[j]] = req.serial => bus[j] \in req.blind

(* ... and the listing so far.                                             *)
Listed == \A j \in 1..req.i : req.list[j] = IF bus[j] \in req.blind THEN Blank ELSE shown[bus[j]]

(* Only dongles in front of the index were found to be blind.              *)
Behind == \A d \in req.blind : \E j \in 1..req.i : bus[j] = d

CountInv ==
    req.stage = "count" =>
        /\ req.op \in {"serial", "list"} /\ req.i = 0 /\ Len(req.list) = 0 /\ req.blind = {}

LookupInv ==
    req.stage = "lookup" =>
        /\ req.op \in {"serial", "list"} /\ req.i <= req.count
        /\ req.op = "list" => Len(req.list) = req.i
        /\ ~req.moved => /\ req.count = Len(bus) /\ Behind
                         /\ req.op = "serial" => Passed
                         /\ req.op = "list" => Listed

OpenInv ==
    req.stage = "open" =>
        /\ req.op \in {"serial", "index"}
        /\ req.op = "serial" =>
               /\ req.serial # Blank /\ ~req.shifted =>
                      req.i < Len(bus) /\ shown[bus[req.i + 1]] = req.serial
               /\ ~req.moved => Passed

DoneInv ==
    req.stage = "done" =>
        /\ req.op = "serial" /\ req.out = "ok" /\ dev # Closed /\ req.serial # Blank =>
               /\ ~req.shifted => shown[dev.dongle] = req.serial
               /\ ~req.moved => Passed
        /\ req.out = "invalid" /\ ~req.moved =>
               \A j \in 1..Len(bus) : shown[bus[j]] = req.serial => bus[j] \in req.blind
        /\ req.op = "list" /\ ~req.moved => Len(req.list) = Len(bus) /\ req.i = Len(bus) /\ Listed

ReqInv ==
    /\ req \in Request
    /\ req.stage \in {"count", "lookup", "open"} => dev = Closed /\ req.out = "none"
    /\ CountInv /\ LookupInv /\ OpenInv /\ DoneInv

IInv == BusInv /\ BoardsInv /\ DevInv /\ ReqInv

(* A serial number that was read is not the empty string.                  *)
LEMMA ShownNotBlank == ASSUME NEW d \in Dongles, shown \in [Dongles -> SerialNumber] PROVE shown[d] # Blank
<1>1. Size - SerialAt \in Nat /\ 1 \in 1..(Size - SerialAt)
      BY BoardAssumption
<1>2. DOMAIN shown[d] = 1..(Size - SerialAt)
      BY DEF SerialNumber
<1>3. DOMAIN Blank = {}
      BY DEF Blank
<1>. QED
     BY <1>1, <1>2, <1>3

LEMMA SerialType == ASSUME NEW rom \in Rom PROVE Serial(rom) \in SerialNumber
<1>1. Size \in Nat /\ SerialAt \in Nat /\ SerialAt < Size
      BY BoardAssumption
<1>2. \A j \in 1..(Size - SerialAt) : SerialAt + j - 1 \in 0..(Size - 1)
      BY <1>1
<1>. QED
     BY <1>1, <1>2 DEF Serial, SerialNumber, Rom

LEMMA ClosedDongle == Closed.dongle = None /\ None \notin Dongles
BY BusAssumption DEF Closed

(* Nothing is plugged in at first.                                         *)
LEMMA IInvInit == Init => IInv
<1>. SUFFICES ASSUME Init PROVE IInv
     OBVIOUS
<1>1. BusInv
  <2>1. bus = <<>>
        BY DEF Init
  <2>. QED
       BY <2>1 DEF BusInv
<1>2. BoardsInv
  <2>1. PoweredUp \in Chip
        BY DEF PoweredUp, Chip, Registers
  <2>2. Roms \in [Dongles -> Rom] /\ MaxFaults \in [Dongles -> Nat]
        BY BusAssumption DEF Rom
  <2>3. ASSUME NEW d \in Dongles
        PROVE  /\ board[d] \in Board /\ board[d].err = "none" /\ board[d].faults <= MaxFaults[d]
               /\ asked[d] \in Asked /\ shown[d] \in SerialNumber
               /\ AllTrue(board[d], asked[d])
    <3>1. board[d] = [chip |-> PoweredUp, rom |-> Roms[d], faults |-> MaxFaults[d], err |-> "none"]
          BY DEF Init
    <3>2. Roms[d] \in Rom /\ MaxFaults[d] \in Nat
          BY <2>2
    <3>3. board[d] \in Board /\ board[d].err = "none" /\ board[d].faults = MaxFaults[d] /\ board[d].rom = Roms[d]
          BY <2>1, <3>1, <3>2 DEF Board
    <3>4. asked[d] = [pin |-> [p \in Pins |-> {}], mode |-> {}, rom |-> Roms[d], torn |-> {}]
          BY DEF Init, NothingAsked
    <3>5. /\ asked[d] \in Asked /\ asked[d].rom = Roms[d] /\ asked[d].mode = {}
          /\ \A p \in Pins : asked[d].pin[p] = {}
      <4>1. [p \in Pins |-> {}] \in [Pins -> SUBSET BOOLEAN]
            BY Zenon
      <4>. QED
           BY <3>2, <3>4, <4>1 DEF Asked
    <3>6. shown[d] \in SerialNumber
          BY <3>2, SerialType DEF Init
    <3>7. AllTrue(board[d], asked[d])
          BY <3>3, <3>5 DEF AllTrue, PinsTrue, ModeTrue, RomTrue
    <3>. QED
         BY <3>2, <3>3, <3>5, <3>6, <3>7
  <2>4. DOMAIN board = Dongles /\ DOMAIN asked = Dongles /\ DOMAIN shown = Dongles
        /\ board = [d \in Dongles |-> board[d]] /\ asked = [d \in Dongles |-> asked[d]] /\ shown = [d \in Dongles |-> shown[d]]
        BY DEF Init
  <2>. QED
       BY <2>3, <2>4 DEF BoardsInv
<1>3. DevInv
      BY DEF Init, DevInv
<1>4. req = Idle
      BY DEF Init
<1>5. ReqInv
  <2>1. Idle \in Request
        BY DEF Idle, Request
  <2>2. Idle.stage = "idle"
        BY DEF Idle
  <2>. QED
       BY <1>4, <2>1, <2>2 DEF ReqInv, CountInv, LookupInv, OpenInv, DoneInv
<1>. QED
     BY <1>1, <1>2, <1>3, <1>5 DEF IInv

---------------------------------------------------------------------------
(* The bus changes                                                         *)

LEMMA DisturbedReq ==
    ASSUME NEW p \in Nat, req \in Request
    PROVE  LET r == Disturbed(p)
           IN  /\ r \in Request
               /\ \A f \in {"op", "serial", "stage", "count", "i", "list", "out", "blind"} : r[f] = req[f]
               /\ req.stage \in {"lookup", "open", "done"} => r.moved
               /\ req.stage \in {"open", "done"} /\ ~r.shifted => ~req.shifted /\ p > req.i + 1
<1>1. CASE req.stage \notin {"lookup", "open", "done"}
      BY <1>1 DEF Disturbed
<1>2. CASE req.stage \in {"lookup", "open", "done"}
  <2>. DEFINE sh == req.shifted \/ (req.stage # "lookup" /\ p <= req.i + 1)
  <2>1. Disturbed(p) = [req EXCEPT !.moved = TRUE, !.shifted = sh]
        BY <1>2 DEF Disturbed
  <2>2. sh \in BOOLEAN
    <3>1. req.shifted \in BOOLEAN
          BY DEF Request
    <3>. QED
         BY <3>1
  <2>3. ~sh => ~req.shifted /\ (req.stage # "lookup" => ~(p <= req.i + 1))
        OBVIOUS
  <2>4. req.i \in Nat
        BY DEF Request
  <2>. HIDE DEF sh
  <2>5. Disturbed(p) \in Request /\ Disturbed(p).moved /\ Disturbed(p).shifted = sh
        /\ \A f \in {"op", "serial", "stage", "count", "i", "list", "out", "blind"} : Disturbed(p)[f] = req[f]
        BY <2>1, <2>2 DEF Request
  <2>. QED
       BY <2>3, <2>4, <2>5
<1>. QED
     BY <1>1, <1>2

LEMMA PlugPreserves == ASSUME IInv, Plug PROVE IInv'
<1>1. PICK d \in Dongles, p \in 1..(Len(bus) + 1) :
         /\ ~On(d)
         /\ bus' = InsertAt(bus, p, d)
         /\ shown' = [shown EXCEPT ![d] = Serial(board[d].rom)]
         /\ req' = Disturbed(p)
         /\ UNCHANGED <<board, dev, asked>>
      BY DEF Plug
<1>2. BusInv /\ BoardsInv /\ DevInv /\ ReqInv /\ req \in Request
      BY DEF IInv, ReqInv
<1>3. bus \in Seq(Dongles) /\ Len(bus) \in Nat /\ DOMAIN bus = 1..Len(bus)
      /\ \A j \in 1..Len(bus) : bus[j] \in Dongles
      BY <1>2, ElementOfSeq DEF BusInv
<1>4. \A j \in 1..Len(bus) : bus[j] # d
      BY <1>1, <1>3 DEF On
<1>5. /\ bus' \in Seq(Dongles) /\ Len(bus') = Len(bus) + 1 /\ DOMAIN bus' = 1..(Len(bus) + 1)
      /\ bus'[p] = d
      /\ \A j \in 1..(p - 1) : bus'[j] = bus[j]
      /\ \A j \in (p + 1)..(Len(bus) + 1) : bus'[j] = bus[j - 1]
  <2>. DEFINE new == InsertAt(bus, p, d)
  <2>1. /\ new \in Seq(Dongles) /\ Len(new) = Len(bus) + 1 /\ new[p] = d
        /\ \A j \in 1..(p - 1) : new[j] = bus[j]
        /\ \A j \in (p + 1)..(Len(bus) + 1) : new[j] = bus[j - 1]
    <3>1. bus \in Seq(Dongles) /\ d \in Dongles /\ p \in 1..(Len(bus) + 1)
          BY <1>3
    <3>. QED
         BY <3>1, Inserted
  <2>2. bus' = new
        BY <1>1
  <2>. HIDE DEF new
  <2>3. DOMAIN new = 1..Len(new)
        BY <2>1
  <2>. QED
       BY <2>1, <2>2, <2>3
<1>6. BusInv'
  <2>. SUFFICES ASSUME NEW j \in 1..(Len(bus) + 1), NEW k \in 1..(Len(bus) + 1), bus'[j] = bus'[k]
                PROVE  j = k
       BY <1>5 DEF BusInv
  <2>. DEFINE old(x) == IF x < p THEN x ELSE x - 1
  <2>1. \A x \in 1..(Len(bus) + 1) : x # p => bus'[x] = bus[old(x)] /\ old(x) \in 1..Len(bus)
        BY <1>3, <1>5
  <2>2. j = p <=> k = p
        BY <1>4, <1>5, <2>1
  <2>3. CASE j # p /\ k # p
    <3>1. bus[old(j)] = bus[old(k)] /\ old(j) \in 1..Len(bus) /\ old(k) \in 1..Len(bus)
          BY <2>1, <2>3
    <3>2. old(j) = old(k)
          BY <1>2, <3>1 DEF BusInv
    <3>. QED
         BY <2>3, <3>2
  <2>. QED
       BY <2>2, <2>3
<1>7. BoardsInv'
  <2>1. Serial(board[d].rom) \in SerialNumber
        BY <1>2, SerialType DEF BoardsInv, Board
  <2>2. shown' \in [Dongles -> SerialNumber]
        BY <1>1, <1>2, <2>1 DEF BoardsInv
  <2>3. board' = board /\ asked' = asked
        BY <1>1
  <2>. QED
       BY <1>2, <2>2, <2>3 DEF BoardsInv
<1>8. \A x \in Dongles : x # d => shown'[x] = shown[x]
      BY <1>1, <1>2 DEF BoardsInv
<1>9. dev' = dev /\ board' = board
      BY <1>1
<1>10. dev # Closed => dev.dongle # d /\ dev.dongle \in Dongles
       BY <1>1, <1>2 DEF DevInv
<1>11. DevInv'
  <2>. SUFFICES ASSUME dev # Closed
                PROVE  /\ dev.dongle \in Dongles /\ On(dev.dongle)'
                       /\ dev.tuner # Tuner[dev.dongle] => board[dev.dongle].faults < MaxFaults[dev.dongle]
       BY <1>9 DEF DevInv
  <2>1. PICK j \in 1..Len(bus) : bus[j] = dev.dongle
        BY <1>2, <1>3 DEF DevInv, On
  <2>2. CASE j < p
    <3>1. j \in 1..(p - 1) /\ j \in 1..(Len(bus) + 1)
          BY <2>2
    <3>2. bus'[j] = dev.dongle /\ j \in DOMAIN bus'
          BY <1>5, <2>1, <3>1
    <3>. QED
         BY <1>2, <1>9, <3>2 DEF On, DevInv
  <2>3. CASE ~(j < p)
    <3>1. j + 1 \in (p + 1)..(Len(bus) + 1) /\ (j + 1) - 1 = j /\ j + 1 \in 1..(Len(bus) + 1)
          BY <1>3, <2>3
    <3>2. bus'[j + 1] = dev.dongle /\ j + 1 \in DOMAIN bus'
          BY <1>5, <2>1, <3>1
    <3>. QED
         BY <1>2, <1>9, <3>2 DEF On, DevInv
  <2>. QED
       BY <2>2, <2>3
<1>12. /\ req' \in Request
       /\ req'.op = req.op /\ req'.serial = req.serial /\ req'.stage = req.stage /\ req'.count = req.count
       /\ req'.i = req.i /\ req'.list = req.list /\ req'.out = req.out /\ req'.blind = req.blind
       /\ req.stage \in {"lookup", "open", "done"} => req'.moved
       /\ req.stage \in {"open", "done"} /\ ~req'.shifted => ~req.shifted /\ p > req.i + 1
       BY <1>1, <1>2, DisturbedReq
<1>13. ReqInv'
  <2>1. CountInv' /\ LookupInv'
        BY <1>2, <1>12 DEF ReqInv, CountInv, LookupInv
  <2>2. OpenInv'
    <3>1. ASSUME req.stage = "open", req.op = "serial", req.serial # Blank, ~req'.shifted
          PROVE  req'.i < Len(bus') /\ shown'[bus'[req'.i + 1]] = req'.serial
      <4>1. req.i < Len(bus) /\ shown[bus[req.i + 1]] = req.serial /\ p > req.i + 1 /\ req.i \in Nat
            BY <1>2, <1>12, <3>1 DEF ReqInv, OpenInv, Request
      <4>2. req.i + 1 \in 1..(p - 1) /\ req.i + 1 \in 1..Len(bus)
            BY <4>1
      <4>3. bus'[req.i + 1] = bus[req.i + 1] /\ bus[req.i + 1] # d /\ bus[req.i + 1] \in Dongles
            BY <1>3, <1>4, <1>5, <4>2
      <4>. QED
           BY <1>3, <1>5, <1>8, <1>12, <4>1, <4>3
    <3>. QED
         BY <1>2, <1>12, <3>1 DEF ReqInv, OpenInv
  <2>3. DoneInv'
        BY <1>2, <1>8, <1>9, <1>10, <1>12 DEF ReqInv, DoneInv
  <2>. QED
       BY <1>2, <1>9, <1>12, <2>1, <2>2, <2>3 DEF ReqInv
<1>. QED
     BY <1>6, <1>7, <1>11, <1>13 DEF IInv

LEMMA UnplugPreserves == ASSUME IInv, Unplug PROVE IInv'
<1>1. PICK p \in DOMAIN bus :
         /\ bus' = RemoveAt(bus, p)
         /\ board' = [board EXCEPT ![bus[p]].chip = PoweredUp]
         /\ asked' = [asked EXCEPT ![bus[p]].pin = [g \in Pins |-> {}], ![bus[p]].mode = {}]
         /\ req' = Disturbed(p)
         /\ dev' = IF dev.dongle = bus[p] THEN Closed ELSE dev
         /\ UNCHANGED shown
      BY DEF Unplug
<1>2. BusInv /\ BoardsInv /\ DevInv /\ ReqInv /\ req \in Request
      BY DEF IInv, ReqInv
<1>3. bus \in Seq(Dongles) /\ Len(bus) \in Nat /\ DOMAIN bus = 1..Len(bus)
      /\ \A j \in 1..Len(bus) : bus[j] \in Dongles
      BY <1>2, ElementOfSeq DEF BusInv
<1>4. p \in 1..Len(bus)
      BY <1>1, <1>3
<1>5. /\ bus' \in Seq(Dongles) /\ Len(bus') = Len(bus) - 1 /\ DOMAIN bus' = 1..(Len(bus) - 1)
      /\ \A j \in 1..(p - 1) : bus'[j] = bus[j]
      /\ \A j \in p..(Len(bus) - 1) : bus'[j] = bus[j + 1]
  <2>. DEFINE new == RemoveAt(bus, p)
  <2>1. /\ new \in Seq(Dongles) /\ Len(new) = Len(bus) - 1
        /\ \A j \in 1..(p - 1) : new[j] = bus[j]
        /\ \A j \in p..(Len(bus) - 1) : new[j] = bus[j + 1]
        BY <1>3, <1>4, Removed
  <2>2. bus' = new
        BY <1>1
  <2>. HIDE DEF new
  <2>3. DOMAIN new = 1..Len(new)
        BY <2>1
  <2>. QED
       BY <2>1, <2>2, <2>3
<1>6. BusInv'
  <2>. SUFFICES ASSUME NEW j \in 1..(Len(bus) - 1), NEW k \in 1..(Len(bus) - 1), bus'[j] = bus'[k]
                PROVE  j = k
       BY <1>5 DEF BusInv
  <2>. DEFINE old(x) == IF x < p THEN x ELSE x + 1
  <2>1. \A x \in 1..(Len(bus) - 1) : bus'[x] = bus[old(x)] /\ old(x) \in 1..Len(bus)
    <3>. SUFFICES ASSUME NEW x \in 1..(Len(bus) - 1)
                  PROVE  bus'[x] = bus[old(x)] /\ old(x) \in 1..Len(bus)
         OBVIOUS
    <3>1. CASE x < p
      <4>1. x \in 1..(p - 1) /\ x \in 1..Len(bus)
            BY <1>3, <1>4, <3>1
      <4>. QED
           BY <1>5, <3>1, <4>1
    <3>2. CASE ~(x < p)
      <4>1. x \in p..(Len(bus) - 1) /\ x + 1 \in 1..Len(bus)
            BY <1>3, <1>4, <3>2
      <4>. QED
           BY <1>5, <3>2, <4>1
    <3>. QED
         BY <3>1, <3>2
  <2>2. bus[old(j)] = bus[old(k)] /\ old(j) \in 1..Len(bus) /\ old(k) \in 1..Len(bus)
        BY <2>1
  <2>3. old(j) = old(k)
        BY <1>2, <2>2 DEF BusInv
  <2>. QED
       BY <1>4, <2>3
<1>. DEFINE d == bus[p]
<1>7. d \in Dongles
      BY <1>3, <1>4
<1>8. /\ board' \in [Dongles -> Board] /\ asked' \in [Dongles -> Asked]
      /\ \A x \in Dongles : x # d => board'[x] = board[x] /\ asked'[x] = asked[x]
      /\ board'[d].err = "none" /\ board'[d].faults = board[d].faults /\ board'[d].rom = board[d].rom
      /\ (\A g \in Pins : asked'[d].pin[g] = {}) /\ asked'[d].mode = {}
      /\ asked'[d].rom = asked[d].rom /\ asked'[d].torn = asked[d].torn
  <2>1. board \in [Dongles -> Board] /\ asked \in [Dongles -> Asked] /\ board[d].err = "none"
        BY <1>2, <1>7 DEF BoardsInv
  <2>2. PoweredUp \in Chip
        BY DEF PoweredUp, Chip, Registers
  <2>. DEFINE b == [board[d] EXCEPT !.chip = PoweredUp]
              a == [asked[d] EXCEPT !.pin = [g \in Pins |-> {}], !.mode = {}]
  <2>3. board' = [board EXCEPT ![d] = b] /\ asked' = [asked EXCEPT ![d] = a]
        BY <1>1
  <2>4. b \in Board /\ b.err = "none" /\ b.faults = board[d].faults /\ b.rom = board[d].rom
        BY <1>7, <2>1, <2>2 DEF Board
  <2>5. a \in Asked /\ (\A g \in Pins : a.pin[g] = {}) /\ a.mode = {} /\ a.rom = asked[d].rom /\ a.torn = asked[d].torn
    <3>1. asked[d] \in Asked
          BY <1>7, <2>1
    <3>2. [g \in Pins |-> {}] \in [Pins -> SUBSET BOOLEAN]
          BY Zenon
    <3>. QED
         BY <3>1, <3>2 DEF Asked
  <2>. HIDE DEF a, b, d
  <2>. QED
       BY <1>7, <2>1, <2>3, <2>4, <2>5
<1>9. BoardsInv'
  <2>1. shown' = shown
        BY <1>1
  <2>2. ASSUME NEW x \in Dongles
        PROVE  /\ board'[x].err = "none" /\ board'[x].faults <= MaxFaults[x]
               /\ AllTrue(board'[x], asked'[x])
    <3>1. CASE x # d
          BY <1>2, <1>8, <3>1 DEF BoardsInv
    <3>2. CASE x = d
      <4>1. RomTrue(board[d], asked[d]) /\ board[d].faults <= MaxFaults[d]
            BY <1>2, <1>7 DEF BoardsInv, AllTrue
      <4>. HIDE DEF d
      <4>2. AllTrue(board'[d], asked'[d])
            BY <1>8, <4>1 DEF AllTrue, PinsTrue, ModeTrue, RomTrue
      <4>. QED
           BY <1>8, <3>2, <4>1, <4>2
    <3>. QED
         BY <3>1, <3>2
  <2>. HIDE DEF d
  <2>. QED
       BY <1>2, <1>8, <2>1, <2>2 DEF BoardsInv
<1>10. \A x \in Dongles : board'[x].faults = board[x].faults
       BY <1>8
<1>11. dev' # Closed => dev' = dev /\ dev # Closed /\ dev.dongle # d
       BY <1>1
<1>12. DevInv'
  <2>. SUFFICES ASSUME dev' # Closed
                PROVE  /\ dev.dongle \in Dongles /\ On(dev.dongle)'
                       /\ dev.tuner # Tuner[dev.dongle] => board'[dev.dongle].faults < MaxFaults[dev.dongle]
       BY <1>11 DEF DevInv
  <2>0. dev' = dev /\ dev # Closed /\ dev.dongle # d
        BY <1>11
  <2>1. PICK j \in 1..Len(bus) : bus[j] = dev.dongle
        BY <1>2, <1>3, <2>0 DEF DevInv, On
  <2>2. CASE j < p
    <3>1. j \in 1..(p - 1) /\ j \in 1..(Len(bus) - 1)
          BY <1>4, <2>2
    <3>2. bus'[j] = dev.dongle /\ j \in DOMAIN bus'
          BY <1>5, <2>1, <3>1
    <3>. QED
         BY <1>2, <1>10, <2>0, <3>2 DEF On, DevInv
  <2>3. CASE ~(j < p)
    <3>1. j # p
          BY <2>0, <2>1
    <3>2. j - 1 \in p..(Len(bus) - 1) /\ (j - 1) + 1 = j /\ j - 1 \in 1..(Len(bus) - 1)
          BY <1>3, <1>4, <2>3, <3>1
    <3>3. bus'[j - 1] = dev.dongle /\ j - 1 \in DOMAIN bus'
          BY <1>5, <2>1, <3>2
    <3>. QED
         BY <1>2, <1>10, <2>0, <3>3 DEF On, DevInv
  <2>. QED
       BY <2>2, <2>3
<1>13. /\ req' \in Request
       /\ req'.op = req.op /\ req'.serial = req.serial /\ req'.stage = req.stage /\ req'.count = req.count
       /\ req'.i = req.i /\ req'.list = req.list /\ req'.out = req.out /\ req'.blind = req.blind
       /\ req.stage \in {"lookup", "open", "done"} => req'.moved
       /\ req.stage \in {"open", "done"} /\ ~req'.shifted => ~req.shifted /\ p > req.i + 1
  <2>1. p \in Nat
        BY <1>4
  <2>. QED
       BY <1>1, <1>2, <2>1, DisturbedReq
<1>14. ReqInv'
  <2>0. shown' = shown
        BY <1>1
  <2>1. CountInv' /\ LookupInv'
        BY <1>2, <1>13 DEF ReqInv, CountInv, LookupInv
  <2>2. OpenInv'
    <3>1. ASSUME req.stage = "open", req.op = "serial", req.serial # Blank, ~req'.shifted
          PROVE  req'.i < Len(bus') /\ shown'[bus'[req'.i + 1]] = req'.serial
      <4>1. req.i < Len(bus) /\ shown[bus[req.i + 1]] = req.serial /\ p > req.i + 1 /\ req.i \in Nat
            BY <1>2, <1>13, <3>1 DEF ReqInv, OpenInv, Request
      <4>2. req.i + 1 \in 1..(p - 1) /\ req.i < Len(bus) - 1
            BY <1>4, <4>1
      <4>. QED
           BY <1>5, <1>13, <2>0, <4>1, <4>2
    <3>. QED
         BY <1>2, <1>13, <3>1 DEF ReqInv, OpenInv
  <2>3. DoneInv'
        BY <1>2, <1>11, <1>13, <2>0 DEF ReqInv, DoneInv
  <2>4. dev = Closed => dev' = Closed
        BY <1>11
  <2>. QED
       BY <1>2, <1>13, <2>1, <2>2, <2>3, <2>4 DEF ReqInv
<1>. QED
     BY <1>6, <1>9, <1>12, <1>14 DEF IInv

---------------------------------------------------------------------------
(* Enumeration                                                             *)

(* Steps of a request leave the bus and the boards alone.                  *)
LEMMA RequestStep ==
    ASSUME IInv, UNCHANGED <<bus, board, shown, dev, asked>>, ReqInv' PROVE IInv'
BY DEF IInv, BusInv, BoardsInv, DevInv, On

LEMMA AskPreserves == ASSUME IInv, Ask PROVE IInv'
<1>1. UNCHANGED <<bus, board, shown, dev, asked>> /\ dev = Closed
      BY DEF Ask
<1>2. Idle \in Request /\ Idle.i = 0 /\ Len(Idle.list) = 0 /\ Idle.blind = {} /\ Idle.out = "none"
      BY DEF Idle, Request
<1>3. ReqInv'
  <2>1. ASSUME NEW s \in Serials, req' = [Idle EXCEPT !.op = "serial", !.serial = s, !.stage = "count"]
        PROVE  ReqInv'
    <3>1. /\ req' \in Request /\ req'.op = "serial" /\ req'.stage = "count" /\ req'.i = 0
          /\ Len(req'.list) = 0 /\ req'.out = "none" /\ req'.blind = {}
          BY <1>2, <2>1 DEF Request
    <3>. QED
         BY <1>1, <3>1 DEF ReqInv, CountInv, LookupInv, OpenInv, DoneInv
  <2>2. ASSUME NEW i \in 0..(Cardinality(Dongles) - 1),
               req' = [Idle EXCEPT !.op = "index", !.i = i, !.stage = "open"]
        PROVE  ReqInv'
    <3>0. i \in Nat
          OBVIOUS
    <3>1. req' \in Request /\ req'.op = "index" /\ req'.stage = "open" /\ req'.out = "none"
          BY <1>2, <2>2, <3>0 DEF Request
    <3>. QED
         BY <1>1, <3>1 DEF ReqInv, CountInv, LookupInv, OpenInv, DoneInv
  <2>3. ASSUME req' = [Idle EXCEPT !.op = "list", !.stage = "count"]
        PROVE  ReqInv'
    <3>1. /\ req' \in Request /\ req'.op = "list" /\ req'.stage = "count" /\ req'.i = 0
          /\ Len(req'.list) = 0 /\ req'.out = "none" /\ req'.blind = {}
          BY <1>2, <2>3 DEF Request
    <3>. QED
         BY <1>1, <3>1 DEF ReqInv, CountInv, LookupInv, OpenInv, DoneInv
  <2>. QED
       BY <2>1, <2>2, <2>3 DEF Ask
<1>. QED
     BY <1>1, <1>3, RequestStep

LEMMA GetDeviceCountPreserves == ASSUME IInv, GetDeviceCount PROVE IInv'
<1>1. UNCHANGED <<bus, board, shown, dev, asked>> /\ req.stage = "count"
      BY DEF GetDeviceCount
<1>2. /\ req \in Request /\ dev = Closed /\ req.out = "none" /\ req.op \in {"serial", "list"}
      /\ req.i = 0 /\ Len(req.list) = 0 /\ req.blind = {} /\ Len(bus) \in Nat
      BY <1>1 DEF IInv, ReqInv, CountInv, BusInv
<1>3. /\ req' \in Request /\ req'.stage = "lookup" /\ req'.op = req.op /\ req'.i = 0
      /\ Len(req'.list) = 0 /\ req'.out = "none" /\ req'.blind = {}
      /\ ~req'.moved => req'.count = Len(bus)
  <2>1. CASE req' = [req EXCEPT !.stage = "lookup", !.count = Len(bus)]
        BY <1>2, <2>1 DEF Request
  <2>2. CASE req' = [req EXCEPT !.stage = "lookup", !.moved = TRUE]
        BY <1>2, <2>2 DEF Request
  <2>. QED
       BY <2>1, <2>2 DEF GetDeviceCount
<1>4. LookupInv'
  <2>1. req'.count \in Nat
        BY <1>3 DEF Request
  <2>. QED
       BY <1>1, <1>2, <1>3, <2>1 DEF LookupInv, Passed, Listed, Behind
<1>. QED
     BY <1>1, <1>2, <1>3, <1>4, RequestStep DEF ReqInv, CountInv, OpenInv, DoneInv

(* A string that was read is the dongle's; what else is returned is Blank, *)
(* and the dongle counts as blind.                                         *)
LEMMA StringsRead ==
    ASSUME IInv, NEW strings \in get_device_usb_strings(req.i)
    PROVE  /\ strings.serial \in String
           /\ strings.err => strings.serial = Blank
           /\ ~strings.err => req.i < Len(bus) /\ strings.serial \in {Blank, shown[bus[req.i + 1]]}
<1>1. CASE strings = [err |-> TRUE, serial |-> Blank]
      BY <1>1 DEF String
<1>2. ASSUME NEW x \in {Blank, shown[bus[req.i + 1]]}, req.i < Len(bus), strings = [err |-> FALSE, serial |-> x]
      PROVE  /\ strings.serial \in String /\ strings.err = FALSE
             /\ req.i < Len(bus) /\ strings.serial \in {Blank, shown[bus[req.i + 1]]}
  <2>1. bus[req.i + 1] \in Dongles
    <3>1. req.i + 1 \in 1..Len(bus)
          BY <1>2 DEF IInv, ReqInv, Request, BusInv
    <3>. QED
         BY <3>1, ElementOfSeq DEF IInv, BusInv
  <2>2. shown[bus[req.i + 1]] \in SerialNumber
        BY <2>1 DEF IInv, BoardsInv
  <2>. QED
       BY <1>2, <2>2 DEF String
<1>3. \/ strings = [err |-> TRUE, serial |-> Blank]
      \/ req.i < Len(bus) /\ \E x \in {Blank, shown[bus[req.i + 1]]} : strings = [err |-> FALSE, serial |-> x]
      BY DEF get_device_usb_strings
<1>. QED
     BY <1>1, <1>2, <1>3

LEMMA LookupPreserves == ASSUME IInv, Lookup PROVE IInv'
<1>1. UNCHANGED <<bus, board, shown, dev, asked>> /\ req.stage = "lookup" /\ req.i < req.count
      BY DEF Lookup
<1>. DEFINE n == req.i + 1
            unread(strings) == req.i < Len(bus) /\ strings.serial # shown[bus[n]]
            blind(strings) == req.blind \cup IF unread(strings) THEN {bus[n]} ELSE {}
            r(strings) == [req EXCEPT !.blind = blind(strings)]
<1>2. PICK strings \in get_device_usb_strings(req.i) :
          req' = IF req.op = "serial" THEN lookup_serial(r(strings), strings) ELSE list_devices(r(strings), strings)
      BY DEF Lookup, LookupNext
<1>3. /\ req \in Request /\ dev = Closed /\ req.out = "none" /\ req.op \in {"serial", "list"}
      /\ req.i \in Nat /\ req.count \in Nat /\ Len(bus) \in Nat /\ bus \in Seq(Dongles)
      BY <1>1 DEF IInv, ReqInv, LookupInv, BusInv, Request
<1>4. /\ strings.serial \in String
      /\ strings.err => strings.serial = Blank
      /\ ~strings.err => req.i < Len(bus) /\ strings.serial \in {Blank, shown[bus[n]]}
      BY StringsRead
<1>5. req.i < Len(bus) => bus[n] \in Dongles /\ shown[bus[n]] # Blank
  <2>1. req.i < Len(bus) => n \in 1..Len(bus)
        BY <1>3
  <2>2. req.i < Len(bus) => bus[n] \in Dongles
        BY <1>3, <2>1, ElementOfSeq
  <2>. QED
       BY <2>2, ShownNotBlank DEF IInv, BoardsInv
<1>. DEFINE B == blind(strings)
<1>6. /\ B \in SUBSET Dongles /\ req.blind \subseteq B
      /\ req.i < Len(bus) => (strings.serial = shown[bus[n]] \/ bus[n] \in B)
      /\ \A d \in B : d \in req.blind \/ (req.i < Len(bus) /\ d = bus[n] /\ strings.serial # shown[bus[n]])
      BY <1>3, <1>5 DEF Request
<1>. HIDE DEF B
<1>7. r(strings) = [req EXCEPT !.blind = B]
      BY DEF B
<1>. HIDE DEF r
<1>8. ~req.moved => /\ req.count = Len(bus) /\ req.i < Len(bus) /\ Behind
                    /\ \A j, k \in 1..Len(bus) : bus[j] = bus[k] => j = k
                    /\ req.op = "serial" => Passed
                    /\ req.op = "list" => Listed
      BY <1>1 DEF IInv, ReqInv, LookupInv, BusInv
<1>12. ASSUME Behind, req.i < Len(bus) PROVE \A d \in B : \E j \in 1..n : bus[j] = d
  <2>. SUFFICES ASSUME NEW d \in B PROVE \E j \in 1..n : bus[j] = d
       OBVIOUS
  <2>1. CASE d \in req.blind
    <3>1. PICK j \in 1..req.i : bus[j] = d
          BY <1>12, <2>1 DEF Behind
    <3>. QED
         BY <1>3, <3>1
  <2>2. CASE d = bus[n]
    <3>1. n \in 1..n
          BY <1>3
    <3>. QED
         BY <2>2, <3>1
  <2>. QED
       BY <1>6, <2>1, <2>2
<1>9. CASE req.op = "serial" /\ ~strings.err /\ strings.serial = req.serial
  <2>1. req' = [req EXCEPT !.blind = B, !.stage = "open"]
        BY <1>2, <1>7, <1>9 DEF lookup_serial
  <2>2. /\ req' \in Request /\ req'.op = "serial" /\ req'.serial = req.serial /\ req'.stage = "open" /\ req'.i = req.i
        /\ req'.blind = B /\ req'.out = "none" /\ req'.moved = req.moved
        BY <1>3, <1>6, <1>9, <2>1 DEF Request
  <2>3. req.serial # Blank => req.i < Len(bus) /\ shown[bus[n]] = req.serial
        BY <1>4, <1>9
  <2>4. Passed => Passed'
        BY <1>1, <1>6, <2>2 DEF Passed
  <2>5. OpenInv'
        BY <1>1, <1>8, <1>9, <2>2, <2>3, <2>4 DEF OpenInv
  <2>. QED
       BY <1>1, <1>3, <2>2, <2>5, RequestStep DEF ReqInv, CountInv, LookupInv, DoneInv
<1>10. CASE req.op = "serial" /\ ~(~strings.err /\ strings.serial = req.serial)
  <2>1. req' = [req EXCEPT !.blind = B, !.i = req.i + 1]
        BY <1>2, <1>7, <1>10 DEF lookup_serial
  <2>0. n \in Nat /\ n = req.i + 1
        BY <1>3
  <2>. HIDE DEF n
  <2>2. /\ req' \in Request /\ req'.op = "serial" /\ req'.serial = req.serial /\ req'.stage = "lookup" /\ req'.i = n
        /\ req'.count = req.count /\ req'.blind = B /\ req'.out = "none" /\ req'.moved = req.moved
        BY <1>1, <1>3, <1>6, <1>10, <2>0, <2>1 DEF Request
  <2>. USE DEF n
  <2>3. req.i < Len(bus) /\ shown[bus[n]] = req.serial => bus[n] \in B
        BY <1>4, <1>5, <1>6, <1>10
  <2>4. Passed /\ req.i < Len(bus) => Passed'
    <3>. SUFFICES ASSUME Passed, req.i < Len(bus), NEW j \in 1..n, shown[bus[j]] = req.serial
                  PROVE  bus[j] \in B
         BY <1>1, <2>2 DEF Passed
    <3>1. CASE j = n
          BY <2>3, <3>1
    <3>2. CASE j # n
      <4>1. j \in 1..req.i
            BY <1>3, <3>2
      <4>. QED
           BY <1>6, <4>1 DEF Passed
    <3>. QED
         BY <3>1, <3>2
  <2>6. ~req.moved => Behind'
        BY <1>1, <1>8, <1>12, <2>2 DEF Behind
  <2>5. LookupInv'
        BY <1>1, <1>3, <1>8, <1>10, <2>2, <2>4, <2>6 DEF LookupInv
  <2>. QED
       BY <1>1, <1>3, <2>2, <2>5, RequestStep DEF ReqInv, CountInv, OpenInv, DoneInv
<1>11. CASE req.op = "list"
  <2>1. req' = [req EXCEPT !.blind = B, !.list = Append(req.list, strings.serial), !.i = req.i + 1]
        BY <1>2, <1>7, <1>11 DEF list_devices
  <2>2. req.list \in Seq(String) /\ Len(req.list) = req.i
        BY <1>1, <1>3, <1>11 DEF Request, IInv, ReqInv, LookupInv
  <2>. DEFINE new == Append(req.list, strings.serial)
  <2>3. /\ new \in Seq(String) /\ Len(new) = n /\ new[n] = strings.serial
        /\ \A j \in 1..req.i : new[j] = req.list[j]
        BY <1>3, <1>4, <2>2
  <2>. HIDE DEF new
  <2>0. n \in Nat /\ n = req.i + 1
        BY <1>3
  <2>. HIDE DEF n
  <2>4. /\ req' \in Request /\ req'.op = "list" /\ req'.stage = "lookup" /\ req'.i = n /\ req'.list = new
        /\ req'.count = req.count /\ req'.blind = B /\ req'.out = "none" /\ req'.moved = req.moved
    <3>1. req' = [req EXCEPT !.blind = B, !.list = new, !.i = n]
          BY <2>0, <2>1 DEF new
    <3>2. new \in Seq(String)
          BY <2>3
    <3>. QED
         BY <1>1, <1>3, <1>6, <1>11, <2>0, <3>1, <3>2 DEF Request
  <2>. USE DEF n
  <2>5. ~req.moved => Listed'
    <3>. SUFFICES ASSUME ~req.moved, NEW j \in 1..n
                  PROVE  new[j] = IF bus[j] \in B THEN Blank ELSE shown[bus[j]]
         BY <1>1, <2>4 DEF Listed
    <3>0. req.i < Len(bus) /\ Listed /\ \A k, l \in 1..Len(bus) : bus[k] = bus[l] => k = l
          BY <1>8, <1>11
    <3>1. CASE j = n
      <4>1. strings.serial = Blank \/ strings.serial = shown[bus[n]]
            BY <1>4
      <4>2. CASE strings.serial = shown[bus[n]]
        <5>1. bus[n] \notin req.blind => bus[n] \notin B
              BY <1>6, <4>2
        <5>2. bus[n] \notin req.blind
          <6>. SUFFICES ASSUME bus[n] \in req.blind PROVE FALSE
               OBVIOUS
          <6>1. PICK k \in 1..req.i : bus[k] = bus[n]
                BY <1>8 DEF Behind
          <6>2. k \in 1..Len(bus) /\ n \in 1..Len(bus) /\ k # n
                BY <1>3, <3>0
          <6>. QED
               BY <3>0, <6>1, <6>2
        <5>. QED
             BY <2>3, <3>1, <4>2, <5>1, <5>2
      <4>3. CASE strings.serial = Blank
            BY <1>5, <1>6, <2>3, <3>0, <3>1, <4>3
      <4>. QED
           BY <4>1, <4>2, <4>3
    <3>2. CASE j # n
      <4>1. j \in 1..req.i /\ j \in 1..Len(bus) /\ n \in 1..Len(bus)
            BY <1>3, <3>0, <3>2
      <4>2. bus[j] # bus[n]
            BY <3>0, <3>2, <4>1
      <4>3. bus[j] \in B <=> bus[j] \in req.blind
            BY <1>6, <4>2
      <4>. QED
           BY <2>3, <3>0, <4>1, <4>3 DEF Listed
    <3>. QED
         BY <3>1, <3>2
  <2>7. ~req.moved => Behind'
        BY <1>1, <1>8, <1>12, <2>4 DEF Behind
  <2>6. LookupInv'
        BY <1>1, <1>3, <1>8, <1>11, <2>3, <2>4, <2>5, <2>7 DEF LookupInv
  <2>. QED
       BY <1>1, <1>3, <2>4, <2>6, RequestStep DEF ReqInv, CountInv, OpenInv, DoneInv
<1>. QED
     BY <1>3, <1>9, <1>10, <1>11

LEMMA LookupEndPreserves == ASSUME IInv, LookupEnd PROVE IInv'
<1>1. /\ UNCHANGED <<bus, board, shown, dev, asked>> /\ req.stage = "lookup" /\ req.i = req.count
      /\ req' = [req EXCEPT !.stage = "done", !.out = IF req.op = "serial" THEN "invalid" ELSE "ok"]
      BY DEF LookupEnd
<1>2. req \in Request /\ dev = Closed /\ req.op \in {"serial", "list"}
      BY <1>1 DEF IInv, ReqInv, LookupInv
<1>3. /\ req' \in Request /\ req'.stage = "done" /\ req'.op = req.op /\ req'.serial = req.serial
      /\ req'.i = req.i /\ req'.list = req.list /\ req'.blind = req.blind /\ req'.moved = req.moved
      /\ req'.out = IF req.op = "serial" THEN "invalid" ELSE "ok"
      BY <1>1, <1>2 DEF Request
<1>4. req.op = "list" => Len(req.list) = req.i
      BY <1>1 DEF IInv, ReqInv, LookupInv
<1>5. ~req.moved => /\ req.i = Len(bus)
                    /\ req.op = "serial" => Passed
                    /\ req.op = "list" => Listed
      BY <1>1 DEF IInv, ReqInv, LookupInv
<1>6. /\ Passed => Passed'
      /\ Listed => Listed'
      BY <1>1, <1>3 DEF Passed, Listed
<1>7. DoneInv'
  <2>1. ~req'.moved /\ req'.out = "invalid" =>
           \A j \in 1..Len(bus)' : (shown[bus[j]])' = req'.serial => (bus[j])' \in req'.blind
        BY <1>1, <1>2, <1>3, <1>5 DEF Passed
  <2>. QED
       BY <1>1, <1>2, <1>3, <1>4, <1>5, <1>6, <2>1 DEF DoneInv
<1>. QED
     BY <1>1, <1>3, <1>7, RequestStep DEF ReqInv, CountInv, LookupInv, OpenInv

LEMMA ReturnPreserves == ASSUME IInv, Return PROVE IInv'
<1>1. UNCHANGED <<bus, board, shown, dev, asked>> /\ req' = Idle
      BY DEF Return
<1>2. Idle \in Request /\ Idle.stage = "idle"
      BY DEF Idle, Request
<1>. QED
     BY <1>1, <1>2, RequestStep DEF ReqInv, CountInv, LookupInv, OpenInv, DoneInv

LEMMA DropPreserves == ASSUME IInv, Drop PROVE IInv'
<1>1. UNCHANGED <<bus, board, shown, req, asked>> /\ req.stage = "idle" /\ dev' = Closed
      BY DEF Drop
<1>2. BusInv' /\ BoardsInv' /\ DevInv'
      BY <1>1 DEF IInv, BusInv, BoardsInv, DevInv
<1>3. ReqInv'
      BY <1>1 DEF IInv, ReqInv, CountInv, LookupInv, OpenInv, DoneInv
<1>. QED
     BY <1>2, <1>3 DEF IInv

---------------------------------------------------------------------------
(* Boards that are used                                                    *)

(* A call on the board of d, with what was asked since.                    *)
LEMMA BoardStep ==
    ASSUME BoardsInv, NEW d \in Dongles, NEW b \in Board, NEW a \in Asked,
           b.err = "none", b.faults <= board[d].faults, AllTrue(b, a), UNCHANGED shown,
           board' = [board EXCEPT ![d] = b], asked' = [asked EXCEPT ![d] = a]
    PROVE  /\ BoardsInv' /\ board'[d] = b
           /\ \A x \in Dongles : board'[x].faults <= board[x].faults
<1>1. board \in [Dongles -> Board] /\ asked \in [Dongles -> Asked]
      BY DEF BoardsInv
<1>2. board' \in [Dongles -> Board] /\ asked' \in [Dongles -> Asked] /\ shown' \in [Dongles -> SerialNumber]
      BY <1>1 DEF BoardsInv
<1>3. board'[d] = b /\ asked'[d] = a
      BY <1>1
<1>4. \A x \in Dongles : x # d => board'[x] = board[x] /\ asked'[x] = asked[x]
      BY <1>1
<1>5. /\ MaxFaults[d] \in Nat /\ board[d].faults \in Nat /\ b.faults \in Nat
      /\ \A x \in Dongles : board[x].faults \in Nat
      BY <1>1, BusAssumption DEF Board
<1>6. ASSUME NEW x \in Dongles
      PROVE  /\ board'[x].err = "none" /\ board'[x].faults <= MaxFaults[x]
             /\ AllTrue(board'[x], asked'[x]) /\ board'[x].faults <= board[x].faults
  <2>1. board[x].err = "none" /\ board[x].faults <= MaxFaults[x] /\ AllTrue(board[x], asked[x])
        BY DEF BoardsInv
  <2>2. CASE x = d
        BY <1>3, <1>5, <2>1, <2>2
  <2>3. CASE x # d
        BY <1>4, <1>5, <2>1, <2>3
  <2>. QED
       BY <2>2, <2>3
<1>. QED
     BY <1>2, <1>3, <1>6 DEF BoardsInv

(* A dongle that stays open has no fewer faults behind it.                 *)
LEMMA DevStep ==
    ASSUME BusInv, DevInv, BoardsInv, BoardsInv', UNCHANGED <<bus, dev>>,
           \A x \in Dongles : board'[x].faults <= board[x].faults
    PROVE  DevInv'
<1>1. On(dev.dongle)' <=> On(dev.dongle)
      BY DEF On
<1>2. \A x \in Dongles : board[x].faults \in Nat /\ board'[x].faults \in Nat /\ MaxFaults[x] \in Nat
      BY BusAssumption DEF BoardsInv, Board
<1>. QED
     BY <1>1, <1>2 DEF DevInv

(* A call on the open dongle, whatever its outcome, preserves the          *)
(* invariant.                                                              *)
LEMMA UsePreserves ==
    ASSUME IInv, req.stage = "idle", dev # Closed, UNCHANGED <<bus, shown, req, dev>>,
           NEW t, NEW a \in Asked, Outcome(board[dev.dongle], t), AllTrue(t, a),
           board' = [board EXCEPT ![dev.dongle] = [t EXCEPT !.err = "none"]],
           asked' = [asked EXCEPT ![dev.dongle] = a]
    PROVE  IInv'
<1>. DEFINE b == [t EXCEPT !.err = "none"]
<1>1. dev.dongle \in Dongles /\ BoardsInv /\ BusInv /\ DevInv /\ ReqInv
      BY DEF IInv, DevInv
<1>2. t \in Board /\ t.faults <= board[dev.dongle].faults
      BY DEF Outcome
<1>3. b \in Board /\ b.err = "none" /\ b.faults = t.faults /\ AllTrue(b, a)
      BY <1>2, TrueWithoutError
<1>4. board' = [board EXCEPT ![dev.dongle] = b]
      OBVIOUS
<1>. HIDE DEF b
<1>5. BoardsInv' /\ \A x \in Dongles : board'[x].faults <= board[x].faults
  <2>1. b.faults <= board[dev.dongle].faults
        BY <1>2, <1>3
  <2>. QED
       BY <1>1, <1>3, <1>4, <2>1, BoardStep
<1>6. DevInv'
      BY <1>1, <1>5, DevStep
<1>7. BusInv' /\ ReqInv'
      BY <1>1 DEF BusInv, ReqInv, CountInv, LookupInv, OpenInv, DoneInv
<1>. QED
     BY <1>5, <1>6, <1>7 DEF IInv

(* The dongle of a call is a sound one.                                    *)
LEMMA InUse ==
    ASSUME IInv, dev # Closed
    PROVE  LET d == dev.dongle
           IN  /\ d \in Dongles /\ board[d] \in Board /\ board[d].err = "none"
               /\ asked[d] \in Asked /\ AllTrue(board[d], asked[d])
               /\ DOMAIN asked = Dongles
BY DEF IInv, DevInv, BoardsInv

LEMMA SetBiasTeePreserves == ASSUME IInv, SetBiasTee PROVE IInv'
<1>. DEFINE d == dev.dongle
            wish(p, on, t) == [asked[d] EXCEPT !.pin[p] = IF t.err = "none" THEN {on} ELSE {}]
<1>1. PICK p \in Pins, on \in BOOLEAN :
         /\ dev # Closed /\ req.stage = "idle"
         /\ \E t \in set_bias_tee_gpio(board[d], p, on) :
               /\ board' = [board EXCEPT ![d] = [t EXCEPT !.err = "none"]]
               /\ asked' = [asked EXCEPT ![d] = wish(p, on, t)]
         /\ UNCHANGED <<bus, shown, req, dev>>
      BY DEF SetBiasTee, Use
<1>2. PICK t \in set_bias_tee_gpio(board[d], p, on) :
               /\ board' = [board EXCEPT ![d] = [t EXCEPT !.err = "none"]]
               /\ asked' = [asked EXCEPT ![d] = wish(p, on, t)]
      BY <1>1
<1>3. board[d] \in Board /\ board[d].err = "none" /\ asked[d] \in Asked /\ AllTrue(board[d], asked[d])
      BY <1>1, InUse
<1>. DEFINE a == wish(p, on, t)
<1>4. Outcome(board[d], t) /\ a \in Asked /\ AllTrue(t, a)
      BY <1>2, <1>3, BiasTeeTrue
<1>5. asked' = [asked EXCEPT ![d] = a]
      BY <1>2
<1>. HIDE DEF a
<1>. QED
     BY <1>1, <1>2, <1>4, <1>5, UsePreserves

LEMMA SetFreqPreserves == ASSUME IInv, SetFreq PROVE IInv'
<1>. DEFINE d == dev.dongle
<1>1. PICK hf \in BOOLEAN :
         /\ dev # Closed /\ req.stage = "idle"
         /\ \E t \in switch_upconverter(board[d], hf) :
               /\ board' = [board EXCEPT ![d] = [t EXCEPT !.err = "none"]]
               /\ asked' = [asked EXCEPT ![d] = SwitchAsked(@, hf, t.err)]
         /\ UNCHANGED <<bus, shown, req, dev>>
      BY DEF SetFreq, Use, SwitchAsked
<1>2. PICK t \in switch_upconverter(board[d], hf) :
               /\ board' = [board EXCEPT ![d] = [t EXCEPT !.err = "none"]]
               /\ asked' = [asked EXCEPT ![d] = SwitchAsked(@, hf, t.err)]
      BY <1>1
<1>3. board[d] \in Board /\ board[d].err = "none" /\ asked[d] \in Asked /\ AllTrue(board[d], asked[d])
      BY <1>1, InUse
<1>. DEFINE a == SwitchAsked(asked[d], hf, t.err)
<1>4. Outcome(board[d], t) /\ a \in Asked /\ AllTrue(t, a)
      BY <1>2, <1>3, SwitchTrue
<1>5. asked' = [asked EXCEPT ![d] = a]
      BY <1>2
<1>. HIDE DEF a
<1>. QED
     BY <1>1, <1>2, <1>4, <1>5, UsePreserves

(* The two calls on the register that AGC and test mode share.             *)
LEMMA ModeCallPreserves ==
    ASSUME IInv, dev # Closed, req.stage = "idle", UNCHANGED <<bus, shown, req, dev>>,
           NEW val \in Nat, NEW t \in Apply(board[dev.dongle], <<Put(SDR_MODE, val)>>),
           board' = [board EXCEPT ![dev.dongle] = [t EXCEPT !.err = "none"]],
           asked' = [asked EXCEPT ![dev.dongle] =
                        [asked[dev.dongle] EXCEPT !.mode = IF t.err = "none" THEN {val} ELSE {}]]
    PROVE  IInv'
<1>. DEFINE d == dev.dongle
            a == [asked[d] EXCEPT !.mode = IF t.err = "none" THEN {val} ELSE {}]
<1>1. board[d] \in Board /\ board[d].err = "none" /\ asked[d] \in Asked /\ AllTrue(board[d], asked[d])
      BY InUse
<1>2. Outcome(board[d], t) /\ a \in Asked /\ AllTrue(t, a)
      BY <1>1, ModeCallTrue
<1>3. asked' = [asked EXCEPT ![d] = a]
      OBVIOUS
<1>. HIDE DEF a
<1>. QED
     BY <1>2, <1>3, UsePreserves

LEMMA SetAgcModePreserves == ASSUME IInv, SetAgcMode PROVE IInv'
<1>. DEFINE d == dev.dongle
            value(on) == IF on THEN \h25 ELSE \h05
            wish(on, t) == [asked[d] EXCEPT !.mode = IF t.err = "none" THEN {value(on)} ELSE {}]
<1>1. PICK on \in BOOLEAN :
         /\ dev # Closed /\ req.stage = "idle"
         /\ \E t \in Apply(board[d], <<Put(SDR_MODE, value(on))>>) :
               /\ board' = [board EXCEPT ![d] = [t EXCEPT !.err = "none"]]
               /\ asked' = [asked EXCEPT ![d] = wish(on, t)]
         /\ UNCHANGED <<bus, shown, req, dev>>
      BY DEF SetAgcMode, Use, set_agc_mode
<1>2. PICK t \in Apply(board[d], <<Put(SDR_MODE, value(on))>>) :
               /\ board' = [board EXCEPT ![d] = [t EXCEPT !.err = "none"]]
               /\ asked' = [asked EXCEPT ![d] = wish(on, t)]
      BY <1>1
<1>3. value(on) \in Nat
      OBVIOUS
<1>. HIDE DEF value
<1>. QED
     BY <1>1, <1>2, <1>3, ModeCallPreserves

LEMMA SetTestmodePreserves == ASSUME IInv, SetTestmode PROVE IInv'
<1>. DEFINE d == dev.dongle
            value(on) == IF on THEN \h03 ELSE \h05
            wish(on, t) == [asked[d] EXCEPT !.mode = IF t.err = "none" THEN {value(on)} ELSE {}]
<1>1. PICK on \in BOOLEAN :
         /\ dev # Closed /\ req.stage = "idle"
         /\ \E t \in Apply(board[d], <<Put(SDR_MODE, value(on))>>) :
               /\ board' = [board EXCEPT ![d] = [t EXCEPT !.err = "none"]]
               /\ asked' = [asked EXCEPT ![d] = wish(on, t)]
         /\ UNCHANGED <<bus, shown, req, dev>>
      BY DEF SetTestmode, Use, set_testmode
<1>2. PICK t \in Apply(board[d], <<Put(SDR_MODE, value(on))>>) :
               /\ board' = [board EXCEPT ![d] = [t EXCEPT !.err = "none"]]
               /\ asked' = [asked EXCEPT ![d] = wish(on, t)]
      BY <1>1
<1>3. value(on) \in Nat
      OBVIOUS
<1>. HIDE DEF value
<1>. QED
     BY <1>1, <1>2, <1>3, ModeCallPreserves

LEMMA WriteEepromPreserves == ASSUME IInv, WriteEeprom PROVE IInv'
<1>. DEFINE d == dev.dongle
            wish(image, t) == EepromAsked(asked[d], t.err, image.data, image.offset)
<1>1. PICK image \in Images :
         /\ dev # Closed /\ req.stage = "idle"
         /\ \E t \in write_eeprom(board[d], image.data, image.offset) :
               /\ board' = [board EXCEPT ![d] = [t EXCEPT !.err = "none"]]
               /\ asked' = [asked EXCEPT ![d] = wish(image, t)]
         /\ UNCHANGED <<bus, shown, req, dev>>
      BY DEF WriteEeprom, Use, EepromAsked
<1>2. PICK t \in write_eeprom(board[d], image.data, image.offset) :
               /\ board' = [board EXCEPT ![d] = [t EXCEPT !.err = "none"]]
               /\ asked' = [asked EXCEPT ![d] = wish(image, t)]
      BY <1>1
<1>3. board[d] \in Board /\ board[d].err = "none" /\ asked[d] \in Asked /\ AllTrue(board[d], asked[d])
      BY <1>1, InUse
<1>4. image.offset \in 0..(Size - 1) /\ image.data \in Seq(0..255)
      BY BusAssumption
<1>. DEFINE a == wish(image, t)
<1>5. Outcome(board[d], t) /\ a \in Asked /\ AllTrue(t, a)
      BY <1>2, <1>3, <1>4, EepromTrue
<1>6. asked' = [asked EXCEPT ![d] = a]
      BY <1>2
<1>. HIDE DEF a
<1>. QED
     BY <1>1, <1>2, <1>5, <1>6, UsePreserves

---------------------------------------------------------------------------
(* Open                                                                    *)

(* An open that fails before it reaches the board or after, or comes to    *)
(* its end: what DoneInv asks of the request.                              *)
LEMMA OpenEnds ==
    ASSUME IInv, BoardsInv', DevInv', req.stage = "open", NEW out \in {"ok", "error"},
           UNCHANGED <<bus, shown>>, req' = [req EXCEPT !.stage = "done", !.out = out],
           dev' # Closed => req.i < Len(bus) /\ dev'.dongle = bus[req.i + 1]
    PROVE  IInv'
<1>1. req \in Request /\ req.op \in {"serial", "index"} /\ OpenInv
      BY DEF IInv, ReqInv, OpenInv
<1>2. /\ req' \in Request /\ req'.stage = "done" /\ req'.op = req.op /\ req'.serial = req.serial
      /\ req'.i = req.i /\ req'.blind = req.blind /\ req'.moved = req.moved
      /\ req'.shifted = req.shifted /\ req'.out = out
      BY <1>1 DEF Request
<1>3. Passed => Passed'
      BY <1>2 DEF Passed
<1>4. DoneInv'
  <2>1. req.op = "serial" /\ dev' # Closed /\ req.serial # Blank =>
               /\ ~req.shifted => shown[dev'.dongle] = req.serial
               /\ ~req.moved => Passed
        BY <1>1 DEF OpenInv
  <2>. QED
       BY <1>1, <1>2, <1>3, <2>1 DEF DoneInv
<1>5. ReqInv'
      BY <1>2, <1>4 DEF ReqInv, CountInv, LookupInv, OpenInv
<1>6. BusInv'
      BY DEF IInv, BusInv
<1>. QED
     BY <1>5, <1>6 DEF IInv

LEMMA OpenPreserves == ASSUME IInv, Open PROVE IInv'
<1>. DEFINE d == bus[req.i + 1]
            ended(out) == [req EXCEPT !.stage = "done", !.out = out]
            keep(a) == [a EXCEPT !.mode = {\h05}, !.pin = [g \in Pins |-> IF g = 4 THEN {} ELSE @[g]]]
<1>1. /\ req.stage = "open" /\ dev = Closed /\ UNCHANGED <<bus, shown>>
      /\ BusInv /\ BoardsInv /\ DevInv
      BY DEF Open, IInv, ReqInv
<1>2. ASSUME req' = ended("error"), UNCHANGED <<board, dev, asked>>
      PROVE  IInv'
  <2>1. BoardsInv' /\ DevInv' /\ dev' = Closed
        BY <1>1, <1>2 DEF BoardsInv, DevInv
  <2>. QED
       BY <1>1, <1>2, <2>1, OpenEnds
<1>3. ASSUME req.i < Len(bus)
      PROVE  /\ d \in Dongles /\ On(d) /\ board[d] \in Board /\ board[d].err = "none"
             /\ asked[d] \in Asked /\ AllTrue(board[d], asked[d])
  <2>1. req.i + 1 \in 1..Len(bus)
        BY <1>1, <1>3 DEF IInv, ReqInv, Request, BusInv
  <2>2. d \in Dongles /\ On(d)
        BY <1>1, <2>1, ElementOfSeq DEF BusInv, On
  <2>. QED
       BY <1>1, <2>2 DEF BoardsInv
<1>4. ASSUME req.i < Len(bus), NEW b \in init_baseband(board[d]),
             board' = [board EXCEPT ![d] = [b EXCEPT !.err = "none"]],
             asked' = [asked EXCEPT ![d].mode = {}],
             b.err # "none", req' = ended("error"), UNCHANGED dev
      PROVE  IInv'
  <2>. DEFINE c == [asked[d] EXCEPT !.mode = {}]
              new == [b EXCEPT !.err = "none"]
  <2>1. b \in Apply(board[d], <<Put(SDR_MODE, 5)>>) /\ 5 \in Nat
        BY <1>4 DEF init_baseband
  <2>2. c = [asked[d] EXCEPT !.mode = IF b.err = "none" THEN {5} ELSE {}]
        BY <1>4
  <2>3. Outcome(board[d], b) /\ c \in Asked /\ AllTrue(b, c)
        BY <1>3, <1>4, <2>1, <2>2, ModeCallTrue
  <2>4. new \in Board /\ new.err = "none" /\ new.faults = b.faults /\ AllTrue(new, c)
        BY <2>3, TrueWithoutError DEF Outcome
  <2>5. board' = [board EXCEPT ![d] = new] /\ asked' = [asked EXCEPT ![d] = c]
        BY <1>4
  <2>6. new.faults <= board[d].faults
        BY <2>3, <2>4 DEF Outcome
  <2>. HIDE DEF c, new
  <2>7. BoardsInv'
        BY <1>1, <1>3, <1>4, <2>3, <2>4, <2>5, <2>6, BoardStep
  <2>8. DevInv' /\ dev' = Closed
        BY <1>1, <1>4 DEF DevInv
  <2>. QED
       BY <1>1, <1>4, <2>7, <2>8, OpenEnds
<1>5. ASSUME req.i < Len(bus), NEW b \in init_baseband(board[d]), b.err = "none",
             NEW found \in probe_tuner(b, Tuner[d]), NEW ok \in BOOLEAN,
             board' = [board EXCEPT ![d] = found.board],
             asked' = [asked EXCEPT ![d].mode = {\h05},
                                    ![d].pin = [g \in Pins |-> IF g = 4 THEN {} ELSE @[g]]],
             dev' = IF ok THEN [dongle |-> d, tuner |-> found.tuner] ELSE dev,
             req' = ended(IF ok THEN "ok" ELSE "error")
      PROVE  IInv'
  <2>. DEFINE c == keep(asked[d])
  <2>1. b \in Board /\ b.faults <= board[d].faults
    <3>1. b \in Apply(board[d], <<Put(SDR_MODE, 5)>>)
          BY <1>5 DEF init_baseband
    <3>. QED
         BY <1>3, <1>5, <3>1, SetMode DEF Outcome
  <2>2. Probing(b, found.board) /\ (found.tuner # Tuner[d] => found.board.faults < b.faults)
        BY <1>5, <2>1, ProbeTuner
  <2>. DEFINE new == found.board
  <2>3. new.faults <= board[d].faults /\ c \in Asked /\ AllTrue(new, c)
        BY <1>3, <1>5, <2>2, OpenTrue
  <2>4. new \in Board /\ new.err = "none"
        BY <2>2 DEF Probing
  <2>5. board' = [board EXCEPT ![d] = new] /\ asked' = [asked EXCEPT ![d] = c]
    <3>1. asked \in [Dongles -> Asked]
          BY <1>1 DEF BoardsInv
    <3>. QED
         BY <1>3, <1>5, <3>1
  <2>. HIDE DEF c, new
  <2>6. BoardsInv' /\ board'[d] = new
    <3>1. d \in Dongles /\ BoardsInv /\ UNCHANGED shown
          BY <1>1, <1>3, <1>5
    <3>. HIDE DEF d
    <3>. QED
         BY <2>3, <2>4, <2>5, <3>1, BoardStep
  <2>7. dev' # Closed => ok /\ dev' = [dongle |-> d, tuner |-> found.tuner]
        BY <1>1, <1>5
  <2>8. DevInv'
    <3>1. found.tuner # Tuner[d] => new.faults < MaxFaults[d]
      <4>1. /\ MaxFaults[d] \in Nat /\ board[d].faults \in Nat /\ b.faults \in Nat
            /\ new.faults \in Nat /\ board[d].faults <= MaxFaults[d]
            BY <1>1, <1>3, <1>5, <2>1, <2>4, BusAssumption DEF Board, BoardsInv
      <4>. QED
           BY <2>1, <2>2, <4>1 DEF new
    <3>2. \E j \in DOMAIN bus' : bus'[j] = d
          BY <1>1, <1>3, <1>5 DEF On
    <3>3. dev' # Closed => dev'.dongle = d /\ dev'.tuner = found.tuner
          BY <2>7
    <3>4. d \in Dongles
          BY <1>3, <1>5
    <3>. HIDE DEF d
    <3>. QED
         BY <2>6, <3>1, <3>2, <3>3, <3>4 DEF DevInv, On
  <2>9. dev' # Closed => req.i < Len(bus) /\ dev'.dongle = d
        BY <1>5, <2>7
  <2>. DEFINE out == IF ok THEN "ok" ELSE "error"
  <2>10. out \in {"ok", "error"} /\ req' = ended(out)
         BY <1>5
  <2>. HIDE DEF out
  <2>. QED
       BY <1>1, <2>6, <2>8, <2>9, <2>10, OpenEnds
<1>6. \/ req' = ended("error") /\ UNCHANGED <<board, dev, asked>>
      \/ /\ req.i < Len(bus)
         /\ \E b \in init_baseband(board[d]) :
              \/ /\ b.err # "none"
                 /\ board' = [board EXCEPT ![d] = [b EXCEPT !.err = "none"]]
                 /\ asked' = [asked EXCEPT ![d].mode = {}]
                 /\ req' = ended("error") /\ UNCHANGED dev
              \/ /\ b.err = "none"
                 /\ \E found \in probe_tuner(b, Tuner[d]), ok \in BOOLEAN :
                       /\ board' = [board EXCEPT ![d] = found.board]
                       /\ asked' = [asked EXCEPT ![d].mode = {\h05},
                                                 ![d].pin = [g \in Pins |-> IF g = 4 THEN {} ELSE @[g]]]
                       /\ dev' = IF ok THEN [dongle |-> d, tuner |-> found.tuner] ELSE dev
                       /\ req' = ended(IF ok THEN "ok" ELSE "error")
      BY DEF Open
<1>. HIDE DEF ended
<1>. QED
     BY <1>2, <1>4, <1>5, <1>6

---------------------------------------------------------------------------
(* The theorems                                                            *)

LEMMA NextPreserves == IInv /\ [Next]_vars => IInv'
<1>. SUFFICES ASSUME IInv, [Next]_vars PROVE IInv'
     OBVIOUS
<1>1. CASE UNCHANGED vars
  <2>1. UNCHANGED <<bus, board, shown, req, dev, asked>>
        BY <1>1 DEF vars
  <2>2. UNCHANGED <<bus, board, shown, dev, asked>> /\ req' = req
        BY <2>1
  <2>3. ReqInv'
        BY <2>2 DEF IInv, ReqInv, CountInv, LookupInv, OpenInv, DoneInv, Passed, Listed, Behind
  <2>. QED
       BY <2>2, <2>3, RequestStep
<1>2. CASE Plug
      BY <1>2, PlugPreserves
<1>3. CASE Unplug
      BY <1>3, UnplugPreserves
<1>4. CASE Ask
      BY <1>4, AskPreserves
<1>5. CASE GetDeviceCount
      BY <1>5, GetDeviceCountPreserves
<1>6. CASE Lookup
      BY <1>6, LookupPreserves
<1>7. CASE LookupEnd
      BY <1>7, LookupEndPreserves
<1>8. CASE Open
      BY <1>8, OpenPreserves
<1>9. CASE Return
      BY <1>9, ReturnPreserves
<1>10. CASE Drop
       BY <1>10, DropPreserves
<1>11. CASE SetBiasTee
       BY <1>11, SetBiasTeePreserves
<1>12. CASE SetAgcMode
       BY <1>12, SetAgcModePreserves
<1>13. CASE SetTestmode
       BY <1>13, SetTestmodePreserves
<1>14. CASE WriteEeprom
       BY <1>14, WriteEepromPreserves
<1>15. CASE SetFreq
       BY <1>15, SetFreqPreserves
<1>. QED
     BY <1>1, <1>2, <1>3, <1>4, <1>5, <1>6, <1>7, <1>8, <1>9, <1>10, <1>11, <1>12, <1>13, <1>14, <1>15 DEF Next

(* The inductive invariant holds of every behaviour of the bus: the place  *)
(* in the loop and what lies in front of it, and the registers of every    *)
(* board against what was asked of it.                                     *)
THEOREM IInvHolds == Spec => []IInv
<1>1. Init => IInv
      BY IInvInit
<1>2. IInv /\ [Next]_vars => IInv'
      BY NextPreserves
<1>. QED
     BY <1>1, <1>2, PTL DEF Spec

(* No dongle is on the bus twice, whatever is plugged and unplugged, one   *)
(* that is open is there, and boards have their types.                     *)
THEOREM TypeCorrect == Spec => []TypeOK
<1>1. IInv => TypeOK
  <2>. SUFFICES ASSUME IInv PROVE TypeOK
       OBVIOUS
  <2>1. BusInv /\ BoardsInv /\ DevInv /\ ReqInv
        BY DEF IInv
  <2>2. IsInjective(bus) /\ Range(bus) \subseteq Dongles
        BY <2>1, ElementOfSeq DEF BusInv, IsInjective, Range
  <2>3. req.stage \in {"idle", "count", "lookup", "open", "done"} /\ (req.stage = "lookup" => req.i <= req.count)
        BY <2>1 DEF ReqInv, LookupInv, Request
  <2>4. DOMAIN PoweredUp = Registers
        BY DEF PoweredUp, Registers
  <2>5. ASSUME NEW d \in Dongles
        PROVE  /\ board[d].chip \in [DOMAIN PoweredUp -> SUBSET (0..7)]
               /\ board[d].rom \in [0..(Size - 1) -> 0..255]
               /\ board[d].faults \in 0..MaxFaults[d] /\ board[d].err = "none"
    <3>1. board[d] \in Board /\ board[d].err = "none" /\ board[d].faults <= MaxFaults[d] /\ MaxFaults[d] \in Nat
          BY <2>1, BusAssumption DEF BoardsInv
    <3>2. /\ board[d].chip \in Chip /\ board[d].rom \in Rom /\ board[d].faults \in Nat
          BY <3>1 DEF Board
    <3>3. board[d].faults \in 0..MaxFaults[d]
          BY <3>1, <3>2
    <3>. QED
         BY <2>4, <3>1, <3>2, <3>3 DEF Chip, Rom
  <2>. QED
       BY <2>1, <2>2, <2>3, <2>5 DEF TypeOK, DevInv
<1>. QED
     BY <1>1, IInvHolds, PTL

(* builder().serial(s).open() opens a dongle of that serial, the first     *)
(* that could be read, unless the bus changed under it; its refusal and    *)
(* the entries of list_devices are true; and the tuner is the dongle's own *)
(* unless a transfer was lost. For any number of dongles, any EEPROMs and  *)
(* any number of faults.                                                   *)
THEOREM OpensRight == Spec => []OpensAsAsked
<1>1. IInv => OpensAsAsked
  <2>. SUFFICES ASSUME IInv PROVE OpensAsAsked
       OBVIOUS
  <2>1. BusInv /\ DevInv /\ ReqInv /\ DoneInv /\ req \in Request
        BY DEF IInv, ReqInv
  <2>2. DOMAIN bus = 1..Len(bus) /\ Len(bus) \in Nat
        BY <2>1 DEF BusInv
  <2>3. ASSUME req.stage = "done", req.out = "invalid", ~req.moved
        PROVE  \A d \in Range(bus) : shown[d] = req.serial => d \in req.blind
        BY <2>1, <2>2, <2>3 DEF DoneInv, Range
  <2>4. ASSUME req.stage = "done", req.op = "list", ~req.moved
        PROVE  req.list = [j \in DOMAIN bus |-> IF bus[j] \in req.blind THEN Blank ELSE shown[bus[j]]]
    <3>. DEFINE listed == [j \in DOMAIN bus |-> IF bus[j] \in req.blind THEN Blank ELSE shown[bus[j]]]
    <3>1. Len(req.list) = Len(bus) /\ req.i = Len(bus) /\ Listed /\ req.list \in Seq(String)
          BY <2>1, <2>4 DEF DoneInv, Request
    <3>2. DOMAIN req.list = DOMAIN bus /\ req.list = [j \in DOMAIN bus |-> req.list[j]]
      <4>1. DOMAIN req.list = 1..Len(req.list) /\ req.list = [j \in 1..Len(req.list) |-> req.list[j]]
            BY <3>1
      <4>. QED
           BY <2>2, <3>1, <4>1
    <3>3. \A j \in DOMAIN bus : req.list[j] = listed[j]
          BY <2>2, <3>1 DEF Listed
    <3>. QED
         BY <3>2, <3>3
  <2>5. ASSUME req.stage = "done", req.op = "serial", req.out = "ok", dev # Closed, req.serial # Blank
        PROVE  /\ ~req.shifted => shown[dev.dongle] = req.serial
               /\ ~req.moved => \A j \in 1..req.i :
                      shown[bus[j]] = req.serial => bus[j] \in req.blind
        BY <2>1, <2>5 DEF DoneInv, Passed
  <2>. QED
       BY <2>1, <2>3, <2>4, <2>5 DEF OpensAsAsked, DevInv
<1>. QED
     BY <1>1, IInvHolds, PTL

(* A set and a Boolean that agree.                                         *)
LEMMA SameTruth ==
    ASSUME NEW p, NEW S, NEW on \in BOOLEAN, on = TRUE => p \in S, on = FALSE => p \notin S
    PROVE  (p \in S) = on
OBVIOUS

(* What Ok calls set stays set while the dongle has power: pins over the   *)
(* next open's probe and over calls on other pins that fail half-way, pin  *)
(* 5 of a Blog V4 until the bias tee or the band changes it, the register  *)
(* AGC and test mode share, and every byte of the EEPROM outside the       *)
(* regions of failed writes. For any set of pins and any EEPROM size.      *)
THEOREM BoardTrue == Spec => []BoardAsAsked
<1>1. IInv => BoardAsAsked
  <2>. SUFFICES ASSUME IInv, NEW d \in Dongles
                PROVE  LET b == board[d] IN
                       /\ \A p \in Pins : \A on \in asked[d].pin[p] :
                              (p \in b.chip[GPO]) = on /\ p \in b.chip[GPOE] /\ p \notin b.chip[GPD]
                       /\ \A m \in asked[d].mode : b.chip[SDR_MODE] = Byte(m)
                       /\ \A a \in DOMAIN b.rom \ asked[d].torn : b.rom[a] = asked[d].rom[a]
       BY DEF BoardAsAsked
  <2>1. board[d] \in Board /\ asked[d] \in Asked /\ AllTrue(board[d], asked[d])
        BY DEF IInv, BoardsInv
  <2>. DEFINE b == board[d]
  <2>2. ASSUME NEW p \in Pins, NEW on \in asked[d].pin[p]
        PROVE  (p \in b.chip[GPO]) = on /\ p \in b.chip[GPOE] /\ p \notin b.chip[GPD]
    <3>1. Drives(b, p, on) /\ p \in b.chip[GPOE] /\ p \notin b.chip[GPD]
          BY <2>1, <2>2 DEF AllTrue, PinsTrue
    <3>2. on \in BOOLEAN
      <4>1. asked[d].pin \in [Pins -> SUBSET BOOLEAN]
            BY <2>1 DEF Asked
      <4>. QED
           BY <2>2, <4>1
    <3>3. on = TRUE => p \in b.chip[GPO]
          BY <3>1 DEF Drives
    <3>4. on = FALSE => p \notin b.chip[GPO]
          BY <3>1 DEF Drives
    <3>. HIDE DEF b
    <3>5. (p \in b.chip[GPO]) = on
          BY <3>2, <3>3, <3>4, SameTruth
    <3>. QED
         BY <3>1, <3>5
  <2>3. \A m \in asked[d].mode : b.chip[SDR_MODE] = Byte(m)
        BY <2>1 DEF AllTrue, ModeTrue
  <2>4. \A a \in DOMAIN b.rom \ asked[d].torn : b.rom[a] = asked[d].rom[a]
    <3>1. DOMAIN b.rom = 0..(Size - 1)
          BY <2>1 DEF Board, Rom
    <3>. QED
         BY <2>1, <3>1 DEF AllTrue, RomTrue
  <2>. QED
       BY <2>2, <2>3, <2>4
<1>. QED
     BY <1>1, IInvHolds, PTL

============================================================================
