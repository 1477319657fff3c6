----------------------------- MODULE DongleBus -----------------------------
(***************************************************************************)
(* Dongles that come and go on the bus, and a thread that finds one, opens *)
(* it, uses it and drops it. Enumeration keeps nothing: get_device_count,  *)
(* every get_device_usb_strings and open walk the bus anew, and an index   *)
(* counts the dongles that are there at that moment.                       *)
(*                                                                         *)
(* The tuner is probed by open, with reads whose errors are ignored. What  *)
(* else open and drop do, and fail at, is the matter of DeviceLifecycle.   *)
(***************************************************************************)
EXTENDS DongleBoard

CONSTANTS Dongles, Tuner, Roms, Serials, Images, Pins, MaxFaults, None

ASSUME BusAssumption ==
    /\ Tuner \in [Dongles -> {"E4000", "FC0013", "R820T", "R828D", "BlogV4", "FC2580", "FC0012"}]
    /\ Roms \in [Dongles -> [0..(Size - 1) -> 0..255]]
    /\ \A image \in Images : image.offset \in 0..(Size - 1) /\ image.data \in Seq(0..255)
    /\ Pins \subseteq 0..7 /\ MaxFaults \in [Dongles -> Nat]
    /\ None \notin Dongles

VARIABLES
    bus,      \* the dongles in the order of enumeration
    board,    \* dongle -> its registers and EEPROM
    shown,    \* dongle -> the serial it read from its EEPROM when it was plugged in
    req,      \* the search or open in progress
    dev,      \* the dongle that is open, and the tuner that was found on it
    asked     \* history: dongle -> what calls asked of it, without those that failed

vars == <<bus, board, shown, req, dev, asked>>

Blank == <<>>             \* a string descriptor that could not be read
Closed == [dongle |-> None, tuner |-> "none"]

On(d) == \E i \in DOMAIN bus : bus[i] = d

(* A request: the number of dongles and the place in the loop (in the end  *)
(* the index found), the entries listed, and the result. history: moved,   *)
(* whether the bus has changed since it was counted; shifted, since the    *)
(* index was found, and at or in front of it; blind, the dongles whose     *)
(* strings could not be read.                                              *)
Idle == [op |-> "none", serial |-> Blank, stage |-> "idle", count |-> 0, i |-> 0,
         list |-> <<>>, out |-> "none", moved |-> FALSE, shifted |-> FALSE, blind |-> {}]

NothingAsked(rom) == [pin |-> [p \in Pins |-> {}], mode |-> {}, rom |-> rom, torn |-> {}]

Init ==
    /\ bus = <<>>
    /\ board = [d \in Dongles |-> [chip |-> PoweredUp, rom |-> Roms[d], faults |-> MaxFaults[d],
                                   err |-> "none"]]
    /\ shown = [d \in Dongles |-> Serial(Roms[d])]
    /\ req = Idle /\ dev = Closed
    /\ asked = [d \in Dongles |-> NothingAsked(Roms[d])]

---------------------------------------------------------------------------
(* The bus                                                                 *)

(* What a change of the bus at place p means to a request.                 *)
Disturbed(p) ==
    IF req.stage \in {"lookup", "open", "done"}
    THEN [req EXCEPT !.moved = TRUE, !.shifted = @ \/ (req.stage # "lookup" /\ p <= req.i + 1)]
    ELSE req

Plug ==
    \E d \in Dongles, p \in 1..(Len(bus) + 1) :
        /\ ~On(d)
        /\ bus' = InsertAt(bus, p, d)
        /\ shown' = [shown EXCEPT ![d] = Serial(board[d].rom)]
        /\ req' = Disturbed(p)
        /\ UNCHANGED <<board, dev, asked>>

(* An unplugged dongle forgets its registers. On its handle every call     *)
(* fails from now on: for the model it is closed.                          *)
Unplug ==
    \E p \in DOMAIN bus :
        /\ bus' = RemoveAt(bus, p)
        /\ board' = [board EXCEPT ![bus[p]].chip = PoweredUp]
        /\ asked' = [asked EXCEPT ![bus[p]].pin = [g \in Pins |-> {}], ![bus[p]].mode = {}]
        /\ req' = Disturbed(p)
        /\ dev' = IF dev.dongle = bus[p] THEN Closed ELSE dev
        /\ UNCHANGED shown

---------------------------------------------------------------------------
(* Enumeration                                                             *)

Ask ==
    /\ req.stage = "idle" /\ dev = Closed
    /\ \/ \E s \in Serials : req' = [Idle EXCEPT !.op = "serial", !.serial = s, !.stage = "count"]
       \/ \E i \in 0..(Cardinality(Dongles) - 1) :
              req' = [Idle EXCEPT !.op = "index", !.i = i, !.stage = "open"]
       \/ req' = [Idle EXCEPT !.op = "list", !.stage = "count"]
    /\ UNCHANGED <<bus, board, shown, dev, asked>>

(* get_device_count: no dongles when the bus cannot be read.               *)
GetDeviceCount ==
    /\ req.stage = "count"
    /\ \/ req' = [req EXCEPT !.stage = "lookup", !.count = Len(bus)]
       \/ req' = [req EXCEPT !.stage = "lookup", !.moved = TRUE]
    /\ UNCHANGED <<bus, board, shown, dev, asked>>

(* get_device_usb_strings: an error, or the serial, Blank when the dongle  *)
(* can be opened but its descriptor not be read.                           *)
get_device_usb_strings(i) ==
    {[err |-> TRUE, serial |-> Blank]}
    \cup IF i < Len(bus) THEN {[err |-> FALSE, serial |-> s] : s \in {Blank, shown[bus[i + 1]]}}
         ELSE {}

(* Mutant: the search ends at the first dongle that cannot be read.        *)
lookup_serial_brittle(r, strings) ==
    IF strings.err THEN [r EXCEPT !.i = r.count]
    ELSE IF strings.serial = r.serial THEN [r EXCEPT !.stage = "open"]
    ELSE [r EXCEPT !.i = @ + 1]

(* The loops of lookup_serial ...                                          *)
lookup_serial(r, strings) ==
    IF ~strings.err /\ strings.serial = r.serial THEN [r EXCEPT !.stage = "open"]
    ELSE [r EXCEPT !.i = @ + 1]

(* ... and of list_devices.                                                *)
list_devices(r, strings) == [r EXCEPT !.list = Append(@, strings.serial), !.i = @ + 1]

LookupNext ==
    \E strings \in get_device_usb_strings(req.i) :
        LET unread == req.i < Len(bus) /\ strings.serial # shown[bus[req.i + 1]]
            r == [req EXCEPT !.blind = @ \cup IF unread THEN {bus[req.i + 1]} ELSE {}]
        IN  req' = IF req.op = "serial" THEN lookup_serial(r, strings) ELSE list_devices(r, strings)

(* Mutant: the loop takes the count for an index.                          *)
LookupPastEnd ==
    /\ req.stage = "lookup" /\ req.i <= req.count
    /\ LookupNext
    /\ UNCHANGED <<bus, board, shown, dev, asked>>

Lookup ==
    /\ req.stage = "lookup" /\ req.i < req.count
    /\ LookupNext
    /\ UNCHANGED <<bus, board, shown, dev, asked>>

LookupEnd ==
    /\ req.stage = "lookup" /\ req.i = req.count
    /\ req' = [req EXCEPT !.stage = "done", !.out = IF req.op = "serial" THEN "invalid" ELSE "ok"]
    /\ UNCHANGED <<bus, board, shown, dev, asked>>

(* The caller takes the result.                                            *)
Return ==
    /\ req.stage = "done"
    /\ req' = Idle
    /\ UNCHANGED <<bus, board, shown, dev, asked>>

---------------------------------------------------------------------------
(* Open                                                                    *)

(* let _ = : the error is dropped.                                         *)
Ignore(S) == {[s EXCEPT !.err = "none"] : s \in S}

ResetTuner(s) ==
    UNION {UNION {Ignore(set_gpio_bit(u, 4, FALSE)) : u \in Ignore(set_gpio_bit(t, 4, TRUE))} :
           t \in Ignore(set_gpio_output(s, 4))}

(* probe_tuner: the tuner of type t answers, and is passed over when its   *)
(* answer is lost; a Blog V4 is one only by the strings of its descriptor. *)
(* The last two types are probed after a reset.                            *)
probe_tuner(s, t) ==
    LET Lost(S) == {[b EXCEPT !.err = "none"] : b \in Faulty(S)}
        Probed(b, found) == [board |-> b, tuner |-> found]
        reset == ResetTuner(s)
    IN  IF t \in {"FC2580", "FC0012"}
        THEN {Probed(b, t) : b \in IF t = "FC2580" THEN reset
                                   ELSE UNION {Ignore(set_gpio_output(r, 6)) : r \in reset}}
             \cup {Probed(b, "Unknown") : b \in Lost(reset)}
        ELSE {Probed(s, t)}
             \cup {Probed(b, "R828D") : b \in IF t = "BlogV4" THEN Lost({s}) ELSE {}}
             \cup {Probed(b, "Unknown") : b \in UNION {ResetTuner(r) : r \in Lost({s})}}

(* init_baseband, as far as these registers go.                            *)
init_baseband(s) == Apply(s, <<Put(SDR_MODE, \h05)>>)

(* open may fail before, in and after these steps.                         *)
Open ==
    /\ req.stage = "open"
    /\ \/ /\ req' = [req EXCEPT !.stage = "done", !.out = "error"]
          /\ UNCHANGED <<board, dev, asked>>
       \/ /\ req.i < Len(bus)
          /\ LET d == bus[req.i + 1]
             IN  \E b \in init_baseband(board[d]) :
                     IF b.err # "none"
                     THEN /\ board' = [board EXCEPT ![d] = [b EXCEPT !.err = "none"]]
                          /\ asked' = [asked EXCEPT ![d].mode = {}]
                          /\ req' = [req EXCEPT !.stage = "done", !.out = "error"]
                          /\ UNCHANGED dev
                     ELSE \E found \in probe_tuner(b, Tuner[d]), ok \in BOOLEAN :
                          /\ board' = [board EXCEPT ![d] = found.board]
                          /\ asked' = [asked EXCEPT ![d].mode = {\h05},
                                        ![d].pin = [g \in Pins |-> IF g = 4 THEN {} ELSE @[g]]]
                          /\ dev' = IF ok THEN [dongle |-> d, tuner |-> found.tuner] ELSE dev
                          /\ req' = [req EXCEPT !.stage = "done", !.out = IF ok THEN "ok" ELSE "error"]
    /\ UNCHANGED <<bus, shown>>

Drop ==
    /\ dev # Closed /\ req.stage = "idle"
    /\ dev' = Closed
    /\ UNCHANGED <<bus, board, shown, req, asked>>

---------------------------------------------------------------------------
(* The open dongle: a call, and what its outcome t adds to the history.    *)
Use(Op(_), Wish(_, _)) ==
    /\ dev # Closed /\ req.stage = "idle"
    /\ LET d == dev.dongle
       IN  \E t \in Op(board[d]) :
               /\ board' = [board EXCEPT ![d] = [t EXCEPT !.err = "none"]]
               /\ asked' = [asked EXCEPT ![d] = Wish(@, t.err)]
    /\ UNCHANGED <<bus, shown, req, dev>>

SetBiasTee ==
    \E p \in Pins, on \in BOOLEAN :
        Use(LAMBDA s : set_bias_tee_gpio(s, p, on),
            LAMBDA a, err : [a EXCEPT !.pin[p] = IF err = "none" THEN {on} ELSE {}])

(* Mutant: the switch is thrown before its pin is an output.               *)
switch_upconverter_hasty(s, hf) ==
    Then(set_gpio_bit(s, 5, ~hf), LAMBDA t : Ignore(set_gpio_output(t, 5)))

(* set_freq of the R82xx on a Blog V4, as far as it goes past the tuner:   *)
(* in another band than the last it sets the upconverter's switch, which   *)
(* is low for HF. Which band the driver takes for the last one is a matter *)
(* of R82xxDriver; init forgets it, so here any call may switch.           *)
switch_upconverter(s, hf) ==
    Then(set_gpio_output(s, 5), LAMBDA t : set_gpio_bit(t, 5, ~hf))

SetFreq ==
    \E hf \in BOOLEAN :
        /\ dev.tuner = "BlogV4"
        /\ Use(LAMBDA s : switch_upconverter(s, hf),
               LAMBDA a, err :
                   [a EXCEPT !.pin = [p \in Pins |-> IF p # 5 THEN @[p]
                                                     ELSE IF err = "none" THEN {~hf} ELSE {}]])

SetAgcMode ==
    \E on \in BOOLEAN :
        Use(LAMBDA s : set_agc_mode(s, on),
            LAMBDA a, err : [a EXCEPT !.mode = IF err = "none" THEN {IF on THEN \h25 ELSE \h05} ELSE {}])

SetTestmode ==
    \E on \in BOOLEAN :
        Use(LAMBDA s : set_testmode(s, on),
            LAMBDA a, err : [a EXCEPT !.mode = IF err = "none" THEN {IF on THEN \h03 ELSE \h05} ELSE {}])

(* A failed write leaves the bytes of its region in doubt, until one that  *)
(* goes through.                                                           *)
WriteEeprom ==
    \E image \in Images :
        LET region == Region(image.data, image.offset)
        IN  Use(LAMBDA s : write_eeprom(s, image.data, image.offset),
                LAMBDA a, err :
                    CASE err = "none" -> [a EXCEPT !.rom = Written(@, image.data, image.offset,
                                                                   Len(image.data)),
                                                   !.torn = @ \ region]
                      [] err = "usb" -> [a EXCEPT !.torn = @ \cup region]
                      [] OTHER -> a)

Next ==
    \/ Plug \/ Unplug
    \/ Ask \/ GetDeviceCount \/ Lookup \/ LookupEnd \/ Open \/ Return \/ Drop
    \/ SetBiasTee \/ SetFreq \/ SetAgcMode \/ SetTestmode \/ WriteEeprom

Spec == Init /\ [][Next]_vars

---------------------------------------------------------------------------
(* Properties                                                              *)

(* The type invariant. No dongle is on the bus twice, an open one is there *)
(* and the loop of a request ends at the count.                            *)
TypeOK ==
    /\ IsInjective(bus) /\ Range(bus) \subseteq Dongles
    /\ dev = Closed \/ On(dev.dongle)
    /\ req.stage \in {"idle", "count", "lookup", "open", "done"}
    /\ req.stage = "lookup" => req.i <= req.count
    /\ \A d \in Dongles : /\ board[d].chip \in [DOMAIN PoweredUp -> SUBSET (0..7)]
                          /\ board[d].rom \in [0..(Size - 1) -> 0..255]
                          /\ board[d].faults \in 0..MaxFaults[d] /\ board[d].err = "none"

(* builder().serial(s).open() opens a dongle of that serial, the first in  *)
(* the enumeration that could be read, unless the bus changed under it;    *)
(* "no device with serial" is true of those that could be read; and        *)
(* list_devices has every dongle at its index. A dongle that cannot be     *)
(* read has the empty serial, and is what a search for that one finds. The *)
(* tuner found on the dongle is its own, unless a transfer was lost.       *)
OpensAsAsked ==
    /\ dev # Closed /\ dev.tuner # Tuner[dev.dongle] =>
           board[dev.dongle].faults < MaxFaults[dev.dongle]
    /\ req.stage = "done" =>
        /\ req.op = "serial" /\ req.out = "ok" /\ dev # Closed /\ req.serial # Blank =>
               /\ ~req.shifted => shown[dev.dongle] = req.serial
               /\ ~req.moved => \A j \in 1..req.i :
                      shown[bus[j]] = req.serial => bus[j] \in req.blind
        /\ req.out = "invalid" /\ ~req.moved =>
               \A d \in Range(bus) : shown[d] = req.serial => d \in req.blind
        /\ req.op = "list" /\ ~req.moved =>
               req.list = [j \in DOMAIN bus |-> IF bus[j] \in req.blind THEN Blank ELSE shown[bus[j]]]

(* What Ok calls set stays set as long as the dongle has power: over the   *)
(* reset of the tuner in the next open, and whatever fails on other pins.  *)
(* Pin 5 of a Blog V4 has two masters, the bias tee calls and the tuning   *)
(* calls that change the band: it is as the last one set it, and neither   *)
(* takes another pin with it. And every byte of the EEPROM is the one last written, but for the bytes *)
(* of a write that failed, until one goes through there.                   *)
BoardAsAsked ==
    \A d \in Dongles :
        LET b == board[d] IN
        /\ \A p \in Pins : \A on \in asked[d].pin[p] :
               (p \in b.chip[GPO]) = on /\ p \in b.chip[GPOE] /\ p \notin b.chip[GPD]
        /\ \A m \in asked[d].mode : b.chip[SDR_MODE] = Byte(m)
        /\ \A a \in DOMAIN b.rom \ asked[d].torn : b.rom[a] = asked[d].rom[a]
===========================================================================
