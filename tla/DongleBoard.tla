---------------------------- MODULE DongleBoard ----------------------------
(***************************************************************************)
(* What the calls that take &self do to the dongle itself, past every      *)
(* cached setting: the GPIO pins (bias tee), the demodulator register that *)
(* AGC and test mode share, and the EEPROM. The board of a dongle is a     *)
(* record with its registers (chip) and EEPROM (rom), and calls are sets   *)
(* of outcomes, as in TunerRegisters.                                      *)
(*                                                                         *)
(* The EEPROM has Size bytes, 256 in the code, of which those from         *)
(* SerialAt on are the serial number.                                      *)
(***************************************************************************)
EXTENDS TunerRegisters

CONSTANTS Size, SerialAt

ASSUME BoardAssumption == Size \in 1..256 /\ SerialAt \in 0..(Size - 1)

GPO == 1
GPOE == 3
GPD == 4
SDR_MODE == \h19       \* register 0x19 of the demodulator's page 0

PoweredUp == [r \in {GPO, GPOE, GPD, SDR_MODE} |-> {}]

---------------------------------------------------------------------------
(* GPIO                                                                    *)

\* A read-modify-write of the bit 1 << gpio.
Pin(reg, gpio, val) == [reg |-> reg, val |-> IF val THEN {gpio} ELSE {}, mask |-> {gpio}]

set_gpio_output(s, gpio) == Apply(s, <<Pin(GPD, gpio, FALSE), Pin(GPOE, gpio, TRUE)>>)

(* Mutant: the other pins are not read first.                              *)
set_gpio_bit_alone(s, gpio, val) == Apply(s, <<Put(GPO, IF val THEN 2^gpio ELSE 0)>>)

set_gpio_bit(s, gpio, val) == Apply(s, <<Pin(GPO, gpio, val)>>)

set_bias_tee_gpio(s, gpio, on) ==
    Then(set_gpio_output(s, gpio), LAMBDA t : set_gpio_bit(t, gpio, on))

(* One register written whole by both.                                     *)
set_agc_mode(s, on) == Apply(s, <<Put(SDR_MODE, IF on THEN \h25 ELSE \h05)>>)
set_testmode(s, on) == Apply(s, <<Put(SDR_MODE, IF on THEN \h03 ELSE \h05)>>)

---------------------------------------------------------------------------
(* EEPROM                                                                  *)

Serial(rom) == [i \in 1..(Size - SerialAt) |-> rom[SerialAt + i - 1]]
Region(data, offset) == offset..(offset + Len(data) - 1)

(* Mutant: the offset is left out of a byte's address.                     *)
WrittenFromStart(rom, data, offset, n) ==
    [a \in DOMAIN rom |-> IF a < n THEN data[a + 1] ELSE rom[a]]

(* The EEPROM after the first n bytes of data.                             *)
Written(rom, data, offset, n) ==
    [a \in DOMAIN rom |-> IF a \in offset..(offset + n - 1) THEN data[a - offset + 1] ELSE rom[a]]

(* write_eeprom: bytes one by one, each read first and written if it       *)
(* differs, until a transfer fails.                                        *)
write_eeprom(s, data, offset) ==
    LET Partly(n) == [s EXCEPT !.rom = Written(s.rom, data, offset, n)]
    IN  IF Len(data) + offset > Size THEN {[s EXCEPT !.err = "invalid"]}
        ELSE {Partly(Len(data))} \cup Faulty({Partly(n) : n \in 0..Len(data)})

===========================================================================
