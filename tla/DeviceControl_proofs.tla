------------------------ MODULE DeviceControl_proofs ------------------------
(***************************************************************************)
(* What holds of the control surface for every chip, every set of valid    *)
(* parameters and every number of faults. The argument has two levels:     *)
(*                                                                         *)
(*  - an operator of DeviceControl maps a device to the set of devices its *)
(*    call may leave, so each has a lemma on an arbitrary outcome t of an  *)
(*    arbitrary device s: that t is Sound if s is, which fields may differ *)
(*    (Step), and what is true of t where no write failed (Clean). Loops   *)
(*    of `?` (Then) and brackets of the repeater are taken apart write by  *)
(*    write, in the order of the source;                                   *)
(*  - an action of the specification is one such operator and Call, which  *)
(*    keeps the inductive invariant IInv because every call Answers for    *)
(*    what sync vouches for.                                               *)
(***************************************************************************)
EXTENDS DeviceControl, FiniteSetTheorems, TLAPS

(* The fields of a device: DOMAIN and frame conditions are stated on them. *)
Fields == {"chip", "freq", "rate", "bw", "gain", "offs", "corr", "ds", "rtlXtal", "tunXtal",
           "intFreq", "drvXtal", "shadow", "lo", "filt", "gainReg", "standby", "rep", "ifreg", "inv",
           "zeroIf", "iq", "swap", "ratio", "corrReg", "faults", "err"}

(* A device, whatever its fields hold, with a number of faults to come.    *)
IsDev(s) == DOMAIN s = Fields /\ s.faults \in Nat

(* From s to t no field outside changed differs, and faults are used up.   *)
Step(s, t, changed) ==
    /\ IsDev(t) /\ t.faults <= s.faults
    /\ \A f \in Fields : f \notin changed => t[f] = s[f]

---------------------------------------------------------------------------
(* One write                                                               *)

LEMMA Faulting ==
    ASSUME NEW s, IsDev(s), NEW reg \in Fields, reg \notin {"faults", "err"},
           NEW V, NEW t \in Faulty(s, reg, V)
    PROVE  /\ DOMAIN t = Fields /\ s.faults > 0 /\ t.faults = s.faults - 1
           /\ t.err = "usb" /\ t[reg] \in V
           /\ \A f \in Fields : f \notin {reg, "faults", "err"} => t[f] = s[f]
<1>1. s.faults # 0
      BY DEF Faulty
<1>2. PICK v \in V : t = [s EXCEPT ![reg] = v, !.faults = s.faults - 1, !.err = "usb"]
      BY <1>1 DEF Faulty
<1>3. DOMAIN t = Fields
      BY <1>2 DEF IsDev
<1>4. \A f \in Fields :
          t[f] = CASE f = "err" -> "usb" [] f = "faults" -> s.faults - 1 [] f = reg -> v [] OTHER -> s[f]
      BY <1>2 DEF IsDev
<1>5. "err" \in Fields /\ "faults" \in Fields
      BY DEF Fields
<1>. HIDE DEF Fields
<1>6. t.err = "usb" /\ t.faults = s.faults - 1 /\ t[reg] = v
      BY <1>4, <1>5
<1>. QED
     BY <1>1, <1>3, <1>4, <1>5, <1>6 DEF IsDev

LEMMA Opening ==
    ASSUME NEW s, IsDev(s), NEW t \in OpenRepeater(s)
    PROVE  /\ Step(s, t, {"rep", "faults", "err"}) /\ t.rep \in {s.rep, "on", "stuck"}
           /\ \/ (t.rep = "on" /\ t.err = s.err /\ t.faults = s.faults)
              \/ (t.err = "usb" /\ t.faults < s.faults)
<1>1. CASE t \in Faulty(s, "rep", {s.rep, "stuck"})
      BY <1>1, Faulting DEF Step, Fields, IsDev
<1>2. CASE t = [s EXCEPT !.rep = "on"]
      BY <1>2 DEF IsDev, Step, Fields
<1>. QED
     BY <1>1, <1>2 DEF OpenRepeater

LEMMA Closing ==
    ASSUME NEW s, IsDev(s), NEW t \in CloseRepeater(s)
    PROVE  /\ Step(s, t, {"rep", "faults", "err"}) /\ t.rep \in {"off", "stuck"}
           /\ \/ (t.rep = "off" /\ t.err = s.err /\ t.faults = s.faults)
              \/ (t.err = "usb" /\ t.faults < s.faults)
<1>1. CASE t \in Faulty(s, "rep", {"off", IF s.rep = "off" THEN "off" ELSE "stuck"})
      BY <1>1, Faulting DEF Step, Fields, IsDev
<1>2. CASE t = [s EXCEPT !.rep = "off"]
      BY <1>2 DEF IsDev, Step, Fields
<1>. QED
     BY <1>1, <1>2 DEF CloseRepeater

LEMMA Writing ==
    ASSUME NEW s, IsDev(s), NEW reg \in Fields, reg \notin {"faults", "err"},
           NEW v, NEW t \in Write(s, reg, v)
    PROVE  /\ IsDev(t) /\ t[reg] \in {s[reg], v}
           /\ \A f \in Fields : f \notin {reg, "faults", "err"} => t[f] = s[f]
           /\ \/ (t[reg] = v /\ t.err = s.err /\ t.faults = s.faults)
              \/ (t.err = "usb" /\ t.faults < s.faults /\ t.faults \in Nat)
<1>1. CASE t \in Faulty(s, reg, {s[reg], v})
      BY <1>1, Faulting DEF IsDev
<1>2. CASE t = [s EXCEPT ![reg] = v]
      BY <1>2 DEF IsDev, Fields
<1>. QED
     BY <1>1, <1>2 DEF Write

LEMMA WritingParts ==
    ASSUME NEW s, IsDev(s), NEW reg \in Fields, reg \notin {"faults", "err"},
           NEW v, NEW t \in WriteParts(s, reg, v)
    PROVE  /\ IsDev(t) /\ t[reg] \in {s[reg], v, Torn(reg)}
           /\ \A f \in Fields : f \notin {reg, "faults", "err"} => t[f] = s[f]
           /\ \/ (t[reg] = v /\ t.err = s.err /\ t.faults = s.faults)
              \/ (t.err = "usb" /\ t.faults < s.faults /\ t.faults \in Nat)
<1>1. CASE t \in Faulty(s, reg, {s[reg], v, Torn(reg)})
      BY <1>1, Faulting DEF IsDev
<1>2. CASE t = [s EXCEPT ![reg] = v]
      BY <1>2 DEF IsDev, Fields
<1>. QED
     BY <1>1, <1>2 DEF WriteParts

(* A transfer to the tuner that fails takes its shadow registers with it.  *)
LEMMA TunerFaulting ==
    ASSUME NEW s, IsDev(s), NEW reg \in Fields, reg \notin {"faults", "err", "shadow"},
           NEW V, NEW t \in TunerFaults(s, reg, V)
    PROVE  /\ IsDev(t) /\ t.faults < s.faults /\ t.err = "usb" /\ t[reg] \in V
           /\ t.shadow = "behind"
           /\ \A f \in Fields : f \notin {reg, "faults", "err", "shadow"} => t[f] = s[f]
<1>1. PICK u \in Faulty(s, reg, V) : t = [u EXCEPT !.shadow = "behind"]
      BY DEF TunerFaults
<1>2. /\ DOMAIN u = Fields /\ s.faults > 0 /\ u.faults = s.faults - 1
      /\ u.err = "usb" /\ u[reg] \in V
      /\ \A f \in Fields : f \notin {reg, "faults", "err"} => u[f] = s[f]
      BY Faulting
<1>3. /\ DOMAIN t = Fields /\ t.shadow = "behind"
      /\ \A f \in Fields : f # "shadow" => t[f] = u[f]
      BY <1>1, <1>2 DEF Fields
<1>4. "faults" \in Fields /\ "err" \in Fields
      BY DEF Fields
<1>. HIDE DEF Fields
<1>5. t.faults = s.faults - 1 /\ t.err = "usb" /\ t[reg] \in V
      BY <1>2, <1>3, <1>4
<1>6. \A f \in Fields : f \notin {reg, "faults", "err", "shadow"} => t[f] = s[f]
      BY <1>2, <1>3
<1>. QED
     BY <1>2, <1>3, <1>5, <1>6 DEF IsDev

LEMMA TunerWriting ==
    ASSUME NEW s, IsDev(s), NEW reg \in Fields, reg \notin {"faults", "err", "shadow"},
           NEW v, NEW t \in TunerWrite(s, reg, v)
    PROVE  /\ IsDev(t) /\ t[reg] \in {s[reg], v, Torn(reg)}
           /\ \A f \in Fields : f \notin {reg, "faults", "err", "shadow"} => t[f] = s[f]
           /\ \/ (t.err = s.err /\ t.faults = s.faults /\ t.shadow = s.shadow
                  /\ (s.shadow = "right" => t[reg] = v))
              \/ (t.err = "usb" /\ t.faults < s.faults /\ t.shadow = "behind")
<1>1. CASE t \in TunerFaults(s, reg, {s[reg], v, Torn(reg)})
      BY <1>1, TunerFaulting DEF IsDev
<1>2. CASE \E w \in Landings(s, reg, v) : t = [s EXCEPT ![reg] = w]
  <2>1. PICK w \in Landings(s, reg, v) : t = [s EXCEPT ![reg] = w]
        BY <1>2
  <2>2. w \in {s[reg], v, Torn(reg)} /\ (s.shadow = "right" => w = v)
        BY DEF Landings
  <2>3. /\ DOMAIN t = Fields /\ t[reg] = w
        /\ \A f \in Fields : f # reg => t[f] = s[f]
        BY <2>1 DEF IsDev
  <2>4. t.err = s.err /\ t.faults = s.faults /\ t.shadow = s.shadow
        BY <2>3 DEF Fields
  <2>. QED
       BY <2>2, <2>3, <2>4 DEF IsDev
<1>. QED
     BY <1>1, <1>2 DEF TunerWrite

---------------------------------------------------------------------------
(* What holds of a device at any point of any call                         *)

(* Types of the cached values and of the registers, as in TypeOK.          *)
Typed(s) ==
    /\ s.chip \in Chips /\ s.ds \in 0..2
    /\ s.freq \in Freqs \cup {0}
    /\ s.rate \in Nat /\ s.bw \in Bandwidths \cup {0}
    /\ s.gain \in Gains \cup {0} /\ s.offs \in Nat /\ s.corr \in Ppms \cup {0}
    /\ s.rtlXtal \in Nat \ {0} /\ s.tunXtal \in Nat \ {0} /\ s.intFreq \in Nat
    /\ s.drvXtal \in Nat \X Int /\ s.lo \in Computed /\ s.ifreg \in Computed
    /\ s.filt \in Int /\ s.ratio \in Int /\ s.corrReg \in Int
    /\ s.gainReg \in Gains \cup {Garbled}
    /\ s.rep \in {"off", "on", "stuck"}
    /\ s.standby \in BOOLEAN /\ s.inv \in BOOLEAN /\ s.zeroIf \in BOOLEAN
    /\ s.iq \in BOOLEAN /\ s.swap \in BOOLEAN
    /\ s.shadow \in {"right", "behind"}

(* What no call and no fault can disturb where the tuner has a driver: it  *)
(* is never offset nor in zero-IF mode, it was told the reported crystal,  *)
(* and a whole value in its gain registers is the cached gain while its    *)
(* shadow registers are right.                                             *)
DriverSound(s) ==
    HasDriver(s) =>
        /\ s.offs = 0 /\ s.zeroIf = FALSE
        /\ s.drvXtal = get_tuner_xtal(s)
        /\ s.shadow = "right" /\ s.gainReg # Garbled => s.gain = s.gainReg

Sound(s) == IsDev(s) /\ Typed(s) /\ DriverSound(s)

(* No write failed between s and t, nor before s one to the tuner that has *)
(* left its shadow registers behind.                                       *)
Clean(s, t) == t.faults = s.faults
Trusted(s, t) == Clean(s, t) /\ s.shadow = "right"

(* A write to the tuner settles nothing about its shadow, or breaks it.    *)
Kept(s, t) == /\ Clean(s, t) => t.shadow = s.shadow
              /\ t.shadow \in {s.shadow, "behind"}

(* The demodulator's IF was not written, or from the crystal of now.       *)
IfKept(s, t) == Clean(s, t) => t.ifreg = s.ifreg \/ t.ifreg[2] = get_rtl_xtal(t)

LEMMA ConstantTypes ==
    /\ \A x \in Freqs \cup {0} : x \in Nat
    /\ \A x \in Rates : x \in Nat \ {0}
    /\ \A x \in Bandwidths \cup {0} : x \in Nat
    /\ \A x \in Ppms \cup {0} : x \in Int
    /\ \A c \in Chips : \A x \in Xtals[c] \cup {0} : x \in Nat
BY ControlAssumption

LEMMA ComputedTypes ==
    /\ \A f \in Int, x \in Nat \X Int : <<f, x>> \in Computed
    /\ Torn("lo") \in Computed /\ Torn("ifreg") \in Computed
    /\ Torn("filt") = Garbled /\ Torn("ratio") = Garbled /\ Torn("corrReg") = Garbled
    /\ Torn("gainReg") = Garbled /\ Garbled \in Int /\ InitFilter \in Int
BY SMT DEF Computed, Torn, Garbled, InitFilter

LEMMA CrystalTypes ==
    ASSUME NEW s, Sound(s)
    PROVE  /\ get_rtl_xtal(s) \in Nat \X Int /\ get_tuner_xtal(s) \in Nat \X Int
           /\ s.corr \in Int /\ s.faults \in Nat
<1>1. /\ s.rtlXtal \in Nat /\ s.tunXtal \in Nat /\ s.corr \in Ppms \cup {0}
      /\ s.faults \in Nat
      BY DEF Sound, Typed, IsDev
<1>2. s.corr \in Int
      BY <1>1, ConstantTypes
<1>. QED
     BY <1>1, <1>2 DEF get_rtl_xtal, get_tuner_xtal

LEMMA SameSound ==
    ASSUME NEW s, Sound(s), NEW t,
           Step(s, t, {"freq", "lo", "ifreg", "rep", "faults", "err", "intFreq", "filt", "corrReg",
                       "ratio", "shadow"}),
           t.freq \in Freqs \cup {0}, t.lo \in Computed, t.ifreg \in Computed, t.filt \in Int,
           t.intFreq \in Nat, t.corrReg \in Int, t.ratio \in Int,
           t.rep \in {"off", "on", "stuck"}, t.shadow \in {s.shadow, "behind"}
    PROVE  Sound(t)
<1>1. t.shadow \in {"right", "behind"} /\ (t.shadow = "right" => s.shadow = "right")
      BY DEF Sound, Typed
<1>2. Typed(t)
      BY <1>1 DEF Sound, Step, Typed, IsDev, Fields
<1>3. DriverSound(t)
      BY <1>1 DEF Sound, Step, DriverSound, HasDriver, get_tuner_xtal, Fields
<1>. QED
     BY <1>2, <1>3 DEF Sound, Step

LEMMA SetIfFreqSound ==
    ASSUME NEW s, Sound(s), NEW f \in Int, NEW t \in SetIfFreq(s, f)
    PROVE  /\ Sound(t) /\ Step(s, t, {"ifreg", "faults", "err"})
           /\ \/ (t.ifreg = <<f, get_rtl_xtal(t)>> /\ t.err = s.err /\ Clean(s, t))
              \/ (t.err = "usb" /\ t.faults < s.faults)
<1>1. "ifreg" \in Fields /\ "ifreg" \notin {"faults", "err"} /\ IsDev(s)
      BY DEF Fields, Sound
<1>2. t \in WriteParts(s, "ifreg", <<f, get_rtl_xtal(s)>>)
      BY DEF SetIfFreq
<1>3. /\ IsDev(t) /\ t["ifreg"] \in {s["ifreg"], <<f, get_rtl_xtal(s)>>, Torn("ifreg")}
      /\ \A g \in Fields : g \notin {"ifreg", "faults", "err"} => t[g] = s[g]
      /\ \/ (t["ifreg"] = <<f, get_rtl_xtal(s)>> /\ t.err = s.err /\ t.faults = s.faults)
         \/ (t.err = "usb" /\ t.faults < s.faults /\ t.faults \in Nat)
      BY <1>1, <1>2, WritingParts
<1>4. /\ Step(s, t, {"ifreg", "faults", "err"})
      /\ \/ (t.ifreg = <<f, get_rtl_xtal(s)>> /\ t.err = s.err /\ Clean(s, t))
         \/ (t.err = "usb" /\ t.faults < s.faults)
      BY <1>1, <1>3 DEF Step, Clean, IsDev
<1>5. t.ifreg \in Computed
  <2>1. s.ifreg \in Computed /\ <<f, get_rtl_xtal(s)>> \in Computed /\ Torn("ifreg") \in Computed
        BY CrystalTypes, ComputedTypes DEF Sound, Typed
  <2>. QED
       BY <1>3, <2>1
<1>6. Sound(t) /\ get_rtl_xtal(t) = get_rtl_xtal(s)
      BY <1>4, <1>5, SameSound DEF Step, Sound, Typed, Fields, get_rtl_xtal
<1>. QED
     BY <1>4, <1>6

LEMMA TunerSetFreqSound ==
    ASSUME NEW s, Sound(s), NEW f \in Nat, NEW t \in TunerSetFreq(s, f)
    PROVE  /\ Sound(t) /\ Step(s, t, {"lo", "shadow", "faults", "err"}) /\ Kept(s, t)
           /\ \/ ((s.shadow = "right" => t.lo = <<f + s.intFreq, s.drvXtal>>)
                  /\ t.err = s.err /\ Clean(s, t))
              \/ (t.err = "tuner" /\ Clean(s, t))
              \/ (t.err = "usb" /\ t.faults < s.faults)
<1>. DEFINE lo == <<f + s.intFreq, s.drvXtal>>
<1>1. /\ IsDev(s) /\ s.lo \in Computed /\ s.intFreq \in Nat /\ s.drvXtal \in Nat \X Int
      /\ "lo" \in Fields /\ "lo" \notin {"faults", "err", "shadow"} /\ s.faults \in Nat
      BY DEF Sound, Typed, Fields, IsDev
<1>2. lo \in Computed /\ Torn("lo") \in Computed
      BY <1>1, ComputedTypes
<1>. HIDE DEF lo
<1>5. /\ Step(s, t, {"lo", "shadow", "faults", "err"}) /\ t.lo \in Computed
      /\ Kept(s, t)
      /\ \/ ((s.shadow = "right" => t.lo = lo) /\ t.err = s.err /\ Clean(s, t))
         \/ (t.err = "tuner" /\ Clean(s, t))
         \/ (t.err = "usb" /\ t.faults < s.faults)
  <2>1. CASE t \in TunerFaults(s, "lo", {s.lo})
    <3>1. /\ IsDev(t) /\ t.faults < s.faults /\ t.err = "usb" /\ t["lo"] \in {s.lo}
          /\ t.shadow = "behind"
          /\ \A g \in Fields : g \notin {"lo", "faults", "err", "shadow"} => t[g] = s[g]
          BY <1>1, <2>1, TunerFaulting DEF IsDev
    <3>. QED
         BY <1>1, <3>1 DEF Step, IsDev, Clean, Kept, Fields
  <2>2. CASE t = Fail(s, "tuner")
        BY <1>1, <2>2 DEF Fail, Step, Fields, IsDev, Clean, Kept
  <2>3. CASE t \in TunerWrite(s, "lo", lo)
    <3>1. /\ IsDev(t) /\ t["lo"] \in {s["lo"], lo, Torn("lo")}
          /\ \A g \in Fields : g \notin {"lo", "faults", "err", "shadow"} => t[g] = s[g]
          /\ \/ (t.err = s.err /\ t.faults = s.faults /\ t.shadow = s.shadow
                 /\ (s.shadow = "right" => t["lo"] = lo))
             \/ (t.err = "usb" /\ t.faults < s.faults /\ t.shadow = "behind")
          BY <1>1, <2>3, TunerWriting DEF IsDev
    <3>2. t.lo \in Computed
          BY <1>1, <1>2, <3>1
    <3>. QED
         BY <1>1, <3>1, <3>2 DEF Step, IsDev, Clean, Kept, Fields
  <2>4. CASE t = Fail([s EXCEPT !.lo = Torn("lo")], "tuner")
        BY <1>1, <1>2, <2>4 DEF Fail, Step, Fields, IsDev, Clean, Kept
  <2>. QED
       BY <2>1, <2>2, <2>3, <2>4 DEF TunerSetFreq, lo
<1>6. Sound(t)
      BY <1>5, SameSound DEF Step, Sound, Typed, Fields, Kept
<1>. QED
     BY <1>5, <1>6 DEF lo

LEMMA RetuneSound ==
    ASSUME NEW s, Sound(s), HasDriver(s), NEW f \in Nat, NEW t \in Retune(s, f)
    PROVE  /\ Sound(t) /\ Step(s, t, {"lo", "shadow", "faults", "err"}) /\ Kept(s, t)
           /\ \/ ((s.shadow = "right" => t.lo = <<f + s.intFreq, s.drvXtal>>)
                  /\ t.err = s.err /\ Clean(s, t))
              \/ (t.err = "tuner" /\ Clean(s, t))
              \/ (t.err = "usb" /\ t.faults < s.faults)
<1>1. s.offs = 0
      BY DEF Sound, DriverSound
<1>2. ~BelowOffset(f, s.offs) /\ f - s.offs = f
      BY <1>1 DEF BelowOffset
<1>. QED
     BY <1>2, TunerSetFreqSound DEF Retune

LEMMA QuietSound ==
    ASSUME NEW s, Sound(s), NEW e
    PROVE  /\ Sound(Fail(s, e)) /\ Step(s, Fail(s, e), {"err"}) /\ Fail(s, e).err = e
           /\ Clean(s, Fail(s, e)) /\ Quiet(s) = Fail(s, "none")
<1>1. Step(s, Fail(s, e), {"err"}) /\ Fail(s, e).err = e /\ Clean(s, Fail(s, e))
      BY DEF Sound, IsDev, Step, Fail, Fields, Clean
<1>2. Sound(Fail(s, e))
      BY <1>1, SameSound DEF Step, Sound, Typed, Fields
<1>. QED
     BY <1>1, <1>2 DEF Quiet, Fail

---------------------------------------------------------------------------
(* Brackets: opening, and what closing after an outcome r of the tuner's   *)
(* call does to it.                                                        *)

LEMMA OpeningSound ==
    ASSUME NEW s, Sound(s), NEW t \in OpenRepeater(s)
    PROVE  /\ Sound(t) /\ Step(s, t, {"rep", "faults", "err"})
           /\ \/ (t.err = s.err /\ Clean(s, t))
              \/ (t.err = "usb" /\ t.faults < s.faults)
<1>1. /\ Step(s, t, {"rep", "faults", "err"}) /\ t.rep \in {s.rep, "on", "stuck"}
      /\ \/ (t.err = s.err /\ Clean(s, t))
         \/ (t.err = "usb" /\ t.faults < s.faults)
      BY Opening DEF Sound, Clean
<1>2. Sound(t)
      BY <1>1, SameSound DEF Step, Sound, Typed, Fields
<1>. QED
     BY <1>1, <1>2

LEMMA ClosingSound ==
    ASSUME NEW s, Sound(s), NEW t \in CloseRepeater(s)
    PROVE  /\ Sound(t) /\ Step(s, t, {"rep", "faults", "err"})
           /\ \/ (t.rep = "off" /\ t.err = s.err /\ Clean(s, t))
              \/ (t.err = "usb" /\ t.faults < s.faults)
<1>1. /\ Step(s, t, {"rep", "faults", "err"}) /\ t.rep \in {"off", "stuck"}
      /\ \/ (t.rep = "off" /\ t.err = s.err /\ Clean(s, t))
         \/ (t.err = "usb" /\ t.faults < s.faults)
      BY Closing DEF Sound, Clean
<1>2. Sound(t)
      BY <1>1, SameSound DEF Step, Sound, Typed, Fields
<1>. QED
     BY <1>1, <1>2

LEMMA ClosingAfter ==
    ASSUME NEW r, Sound(r), NEW u \in CloseRepeater(Quiet(r))
    PROVE  /\ Sound(u) /\ Step(r, u, {"rep", "faults", "err"})
           /\ \/ (u.rep = "off" /\ u.err = "none" /\ Clean(r, u))
              \/ (u.err = "usb" /\ u.faults < r.faults)
<1>1. /\ Sound(Quiet(r)) /\ Step(r, Quiet(r), {"err"})
      /\ Quiet(r).err = "none" /\ Clean(r, Quiet(r))
      BY QuietSound
<1>2. /\ Sound(u) /\ Step(Quiet(r), u, {"rep", "faults", "err"})
      /\ \/ (u.rep = "off" /\ u.err = "none" /\ Clean(Quiet(r), u))
         \/ (u.err = "usb" /\ u.faults < Quiet(r).faults)
      BY <1>1, ClosingSound
<1>. QED
     BY <1>1, <1>2 DEF Step, Fields, Clean

LEMMA FailAfter ==
    ASSUME NEW u, Sound(u), NEW e, NEW v, v = Fail(u, e)
    PROVE  /\ Sound(v) /\ Step(u, v, {"err"}) /\ v.err = e /\ Clean(u, v)
BY QuietSound

---------------------------------------------------------------------------
(* Tuning                                                                  *)

LEMMA CacheFreq ==
    ASSUME NEW s, Sound(s), NEW f \in Freqs \cup {0}, NEW t, t = [s EXCEPT !.freq = f]
    PROVE  Sound(t) /\ Step(s, t, {"freq"}) /\ t.freq = f /\ Clean(s, t) /\ t.err = s.err
<1>1. Step(s, t, {"freq"}) /\ t.freq = f /\ Clean(s, t) /\ t.err = s.err
  <2>1. DOMAIN s = Fields /\ s.faults \in Nat
        BY DEF Sound, IsDev
  <2>. QED
       BY <2>1 DEF IsDev, Step, Fields, Clean
<1>2. Sound(t)
      BY <1>1, SameSound DEF Step, Sound, Typed, Fields
<1>. QED
     BY <1>1, <1>2

SetCenterFreqEffect(s, f, t) ==
    /\ Sound(t) /\ Step(s, t, {"freq", "lo", "ifreg", "rep", "shadow", "faults", "err"})
    /\ Kept(s, t) /\ IfKept(s, t)
    /\ t.err \in {"none", "usb", "tuner", "noTuner"}
    /\ HasDriver(s) /\ s.ds = 0 =>
        /\ t.err \in {"none", "tuner"} => t.rep = "off"
        /\ t.err \in {"none", "tuner", "usb"}
        /\ Clean(s, t) => t.ifreg = s.ifreg /\ t.freq = IF t.err = "none" THEN f ELSE 0
        /\ Trusted(s, t) /\ t.err = "none" => t.lo = <<f + s.intFreq, s.drvXtal>>

LEMMA SetCenterFreqSound ==
    ASSUME NEW s, Sound(s), s.err = "none", NEW f \in Freqs, NEW t \in set_center_freq(s, f)
    PROVE  SetCenterFreqEffect(s, f, t)
<1>. DEFINE Cache(u) == [u EXCEPT !.freq = IF u.err = "none" THEN f ELSE 0]
<1>0. f \in Nat /\ f \in Freqs \cup {0} /\ 0 \in Freqs \cup {0} /\ s.faults \in Nat
      BY ControlAssumption DEF Sound, IsDev
<1>1. ASSUME NEW u, Sound(u), NEW v, v = Cache(u)
      PROVE  /\ Sound(v) /\ Step(u, v, {"freq"}) /\ Clean(u, v) /\ v.err = u.err
             /\ v.freq = IF u.err = "none" THEN f ELSE 0
      BY <1>0, <1>1, CacheFreq
<1>2. CASE s.ds # 0
  <2>1. PICK u \in SetIfFreq(s, f) : t = Cache(u)
        BY <1>2 DEF set_center_freq
  <2>2. /\ Sound(u) /\ Step(s, u, {"ifreg", "faults", "err"}) /\ u.err \in {"none", "usb"}
        /\ (u.ifreg = <<f, get_rtl_xtal(u)>> /\ Clean(s, u)) \/ u.faults < s.faults
        BY <1>0, SetIfFreqSound
  <2>. HIDE DEF Cache
  <2>3. Kept(s, t)
        BY <1>1, <2>1, <2>2 DEF Step, Fields, Kept
  <2>4. IfKept(s, t)
    <3>1. /\ t.ifreg = u.ifreg /\ t.rtlXtal = u.rtlXtal /\ t.corr = u.corr /\ t.faults = u.faults
          /\ u.faults \in Nat
          BY <1>1, <2>1, <2>2 DEF Step, Fields, IsDev
    <3>2. get_rtl_xtal(t) = get_rtl_xtal(u)
          BY <3>1 DEF get_rtl_xtal
    <3>3. u.ifreg = <<f, get_rtl_xtal(u)>> => t.ifreg[2] = get_rtl_xtal(t)
          BY <3>1, <3>2
    <3>. QED
         BY <1>0, <2>2, <3>1, <3>3 DEF IfKept, Clean
  <2>. QED
       BY <1>1, <1>2, <2>1, <2>2, <2>3, <2>4 DEF SetCenterFreqEffect, Step, Fields
<1>3. CASE s.ds = 0 /\ ~HasDriver(s)
  <2>1. t = Cache(Fail(s, "noTuner"))
        BY <1>3 DEF set_center_freq
  <2>2. /\ Sound(Fail(s, "noTuner")) /\ Step(s, Fail(s, "noTuner"), {"err"})
        /\ Fail(s, "noTuner").err = "noTuner"
        BY QuietSound
  <2>. HIDE DEF Cache
  <2>. QED
       BY <1>1, <1>3, <2>1, <2>2 DEF SetCenterFreqEffect, Step, Fields, Kept, IfKept
<1>4. CASE s.ds = 0 /\ HasDriver(s)
  <2>1. PICK a \in OpenRepeater(s) :
            t \in IF a.err = "none"
                  THEN UNION {{IF u.err = "none" THEN Cache(Fail(u, r.err)) ELSE u :
                                   u \in CloseRepeater(Quiet(r))} : r \in Retune(a, f)}
                  ELSE {a}
        BY <1>4 DEF set_center_freq, Bracket, Then
  <2>2. /\ Sound(a) /\ Step(s, a, {"rep", "faults", "err"})
        /\ \/ (a.err = "none" /\ Clean(s, a))
           \/ (a.err = "usb" /\ a.faults < s.faults)
        BY OpeningSound
  <2>3. CASE a.err # "none"
        BY <1>0, <1>4, <2>1, <2>2, <2>3
        DEF SetCenterFreqEffect, Step, Fields, Clean, Trusted, IsDev, Kept, IfKept
  <2>4. CASE a.err = "none"
    <3>0. PICK r \in Retune(a, f) : \E u \in CloseRepeater(Quiet(r)) :
              t = IF u.err = "none" THEN Cache(Fail(u, r.err)) ELSE u
          BY <2>1, <2>4
    <3>1. PICK u \in CloseRepeater(Quiet(r)) :
              t = IF u.err = "none" THEN Cache(Fail(u, r.err)) ELSE u
          BY <3>0
    <3>2. HasDriver(a) /\ a.intFreq = s.intFreq /\ a.drvXtal = s.drvXtal /\ a.shadow = s.shadow
          BY <1>4, <2>2 DEF HasDriver, Step, Fields
    <3>3. /\ Sound(r) /\ Step(a, r, {"lo", "shadow", "faults", "err"}) /\ Kept(a, r)
          /\ \/ ((s.shadow = "right" => r.lo = <<f + s.intFreq, s.drvXtal>>)
                 /\ r.err = "none" /\ Clean(a, r))
             \/ (r.err = "tuner" /\ Clean(a, r))
             \/ (r.err = "usb" /\ r.faults < a.faults)
          BY <1>0, <2>2, <2>4, <3>2, RetuneSound
    <3>4. /\ Sound(u) /\ Step(r, u, {"rep", "faults", "err"})
          /\ \/ (u.rep = "off" /\ u.err = "none" /\ Clean(r, u))
             \/ (u.err = "usb" /\ u.faults < r.faults)
          BY <3>3, ClosingAfter
    <3>5. CASE u.err # "none"
          BY <1>0, <1>4, <2>2, <3>1, <3>2, <3>3, <3>4, <3>5
          DEF SetCenterFreqEffect, Step, Fields, Clean, Trusted, IsDev, Kept, IfKept
    <3>6. CASE u.err = "none"
      <4>1. PICK v : v = Fail(u, r.err)
            OBVIOUS
      <4>2. Sound(v) /\ Step(u, v, {"err"}) /\ v.err = r.err /\ Clean(u, v)
            BY <3>4, <4>1, FailAfter
      <4>3. /\ Sound(t) /\ Step(v, t, {"freq"}) /\ Clean(v, t) /\ t.err = v.err
            /\ t.freq = IF v.err = "none" THEN f ELSE 0
            BY <1>1, <3>1, <3>6, <4>1, <4>2
      <4>. HIDE DEF Cache
      <4>4. Kept(s, t) /\ t.ifreg = s.ifreg
            BY <1>0, <2>2, <3>2, <3>3, <3>4, <4>2, <4>3 DEF Step, Fields, Clean, IsDev, Kept
      <4>5. Step(s, t, {"freq", "lo", "ifreg", "rep", "shadow", "faults", "err"}) /\ t.rep = u.rep /\ t.lo = r.lo
            BY <1>0, <2>2, <3>3, <3>4, <4>2, <4>3 DEF Step, Fields, IsDev
      <4>6. Clean(s, t) => Clean(a, r)
            BY <1>0, <2>2, <3>3, <3>4, <4>2, <4>3 DEF Step, Clean, IsDev
      <4>. QED
           BY <1>0, <1>4, <2>2, <3>3, <3>4, <3>6, <4>2, <4>3, <4>4, <4>5, <4>6
           DEF SetCenterFreqEffect, Clean, Trusted, IfKept, IsDev
    <3>. QED
         BY <3>5, <3>6
  <2>. QED
       BY <2>3, <2>4
<1>. QED
     BY <1>2, <1>3, <1>4

---------------------------------------------------------------------------
(* The intermediate frequency of every filter setting                      *)

LEMMA TableRange ==
    \A i \in 1..10 : /\ IF_LOW_PASS_BW_TABLE[i] \in Int
                     /\ IF_LOW_PASS_BW_TABLE[i] >= 350000 /\ IF_LOW_PASS_BW_TABLE[i] <= 1700000
BY SMT DEF IF_LOW_PASS_BW_TABLE

LEMMA IdxRange == ASSUME NEW bw PROVE FindIfLpfIdx(bw) \in 1..10
<1>. DEFINE W == {i \in 1..10 : IF_LOW_PASS_BW_TABLE[i] >= bw}
            k == Cardinality(W)
            m == IF k = 0 THEN 1 ELSE k
<1>1. IsFiniteSet(1..10) /\ Cardinality(1..10) = 10
  <2>1. 1 \in Int /\ 10 \in Int
        OBVIOUS
  <2>2. /\ IsFiniteSet(1..10)
        /\ Cardinality(1..10) = IF 1 > 10 THEN 0 ELSE 10 - 1 + 1
        BY <2>1, FS_Interval
  <2>. QED
       BY <2>2
<1>2. W \subseteq 1..10
      OBVIOUS
<1>3. k \in Nat /\ k <= 10
  <2>. HIDE DEF W
  <2>1. Cardinality(W) <= Cardinality(1..10) /\ IsFiniteSet(W)
        BY <1>1, <1>2, FS_Subset
  <2>2. Cardinality(W) \in Nat
        BY <2>1, FS_CardinalityType
  <2>. QED
       BY <1>1, <2>1, <2>2
<1>. HIDE DEF k
<1>4. m \in {1, k} /\ (\A y \in {1, k} : m >= y) /\ m \in 1..10
      BY <1>3
<1>5. \A x \in {1, k} : (\A y \in {1, k} : x >= y) => x = m
      BY <1>3
<1>. HIDE DEF m
<1>6. Max({1, k}) = m
      BY <1>4, <1>5 DEF Max
<1>. QED
     BY <1>4, <1>6 DEF FindIfLpfIdx, k

(* int_freq is never negative: half a passband is less than 2.3 MHz.       *)
LEMMA IntFreqNat == ASSUME NEW bw \in Nat PROVE Setting(bw).intFreq \in Nat
<1>1. WideSetting(bw).intFreq \in Nat
      BY SMT DEF WideSetting
<1>2. NarrowSetting(bw).intFreq \in Nat
  <2>. DEFINE low == IF_LOW_PASS_BW_TABLE[FindIfLpfIdx(Residual(bw))]
  <2>1. low \in Int /\ low >= 350000 /\ low <= 1700000
        BY TableRange, IdxRange, SMT
  <2>2. HighPass(bw) \in Int /\ HighPass(bw) >= 0 /\ HighPass(bw) <= 730000
        BY SMT DEF HighPass, FILT_HP_BW1, FILT_HP_BW2
  <2>. HIDE DEF low
  <2>3. RealBw(bw) = HighPass(bw) + low
        BY SMT DEF RealBw, low
  <2>4. 2300000 + HighPass(bw) - RealBw(bw) \div 2 \in Nat
        BY <2>1, <2>2, <2>3, SMT
  <2>. QED
       BY <2>4, SMT DEF NarrowSetting
<1>. QED
     BY <1>1, <1>2, SMT DEF Setting

---------------------------------------------------------------------------
(* The filter, and what follows it                                         *)

LEMMA TunerSetBwSound ==
    ASSUME NEW s, Sound(s), NEW bw \in Nat, NEW t \in TunerSetBw(s, bw)
    PROVE  /\ Sound(t) /\ Step(s, t, {"intFreq", "filt", "shadow", "faults", "err"}) /\ Kept(s, t)
           /\ \/ ((s.shadow = "right" => t.filt = bw) /\ t.err = s.err /\ Clean(s, t))
              \/ (t.err = "usb" /\ t.faults < s.faults)
<1>. DEFINE i == Setting(bw).intFreq
            u == [s EXCEPT !.intFreq = i]
<1>0. i \in Nat
      BY IntFreqNat
<1>. HIDE DEF i
<1>1. IsDev(u) /\ Step(s, u, {"intFreq"}) /\ u.intFreq = i /\ Clean(s, u) /\ u.err = s.err
  <2>1. DOMAIN s = Fields /\ s.faults \in Nat
        BY DEF Sound, IsDev
  <2>. QED
       BY <2>1 DEF IsDev, Step, Fields, Clean
<1>. HIDE DEF u
<1>2. Sound(u)
  <2>1. Typed(u)
        BY <1>0, <1>1 DEF Sound, Step, Typed, Fields
  <2>2. DriverSound(u)
        BY <1>1 DEF Sound, Step, DriverSound, HasDriver, get_tuner_xtal, Fields
  <2>. QED
       BY <1>1, <2>1, <2>2 DEF Sound
<1>3. "filt" \in Fields /\ "filt" \notin {"faults", "err", "shadow"} /\ s.faults \in Nat
      BY DEF Fields, Sound, IsDev
<1>4. t \in TunerWrite(u, "filt", bw)
      BY DEF TunerSetBw, i, u
<1>5. /\ Step(u, t, {"filt", "shadow", "faults", "err"}) /\ t.filt \in {u.filt, bw, Garbled}
      /\ Kept(u, t)
      /\ \/ ((u.shadow = "right" => t.filt = bw) /\ t.err = u.err /\ Clean(u, t))
         \/ (t.err = "usb" /\ t.faults < u.faults)
  <2>1. /\ IsDev(t) /\ t["filt"] \in {u["filt"], bw, Torn("filt")}
        /\ \A g \in Fields : g \notin {"filt", "faults", "err", "shadow"} => t[g] = u[g]
        /\ \/ (t.err = u.err /\ t.faults = u.faults /\ t.shadow = u.shadow
               /\ (u.shadow = "right" => t["filt"] = bw))
           \/ (t.err = "usb" /\ t.faults < u.faults /\ t.shadow = "behind")
        BY <1>1, <1>3, <1>4, TunerWriting DEF IsDev
  <2>. QED
       BY <1>1, <1>3, <2>1, ComputedTypes DEF Step, Clean, IsDev, Kept, Fields
<1>6. Sound(t)
      BY <1>2, <1>5, SameSound, ComputedTypes DEF Step, Sound, Typed, Fields, Kept
<1>. QED
     BY <1>1, <1>5, <1>6 DEF Step, Clean, Fields, Kept

(* Tuner and demodulator agree on the IF, and the LO on the frequency, as  *)
(* computed from the crystal that the driver was told.                     *)
Follows(t) == /\ t.ifreg[1] = t.intFreq
              /\ t.freq > 0 => t.lo = <<t.freq + t.intFreq, t.drvXtal>>

LEMMA FollowIfSound ==
    ASSUME NEW s, Sound(s), HasDriver(s), s.err = "none", NEW t \in FollowIf(s)
    PROVE  /\ Sound(t) /\ Step(s, t, {"freq", "lo", "ifreg", "shadow", "faults", "err"})
           /\ Kept(s, t) /\ t.err = "none"
           /\ Clean(s, t) => t.ifreg = <<t.intFreq, get_rtl_xtal(t)>>
           /\ Trusted(s, t) => Follows(t)
<1>1. PICK a \in SetIfFreq(s, s.intFreq) :
          t \in IF a.freq = 0 \/ BelowOffset(a.freq, a.offs) THEN {Quiet(a)}
                ELSE {IF u.err = "none" THEN u ELSE [Quiet(u) EXCEPT !.freq = 0] :
                          u \in TunerSetFreq(Quiet(a), a.freq - a.offs)}
      BY DEF FollowIf
<1>2. s.intFreq \in Int /\ s.faults \in Nat /\ s.freq \in Nat
  <2>1. s.freq \in Freqs \cup {0} /\ s.intFreq \in Nat /\ s.faults \in Nat
        BY DEF Sound, Typed, IsDev
  <2>. QED
       BY <2>1, ConstantTypes
<1>3. /\ Sound(a) /\ Step(s, a, {"ifreg", "faults", "err"})
      /\ \/ (a.ifreg = <<s.intFreq, get_rtl_xtal(a)>> /\ a.err = "none" /\ Clean(s, a))
         \/ (a.err = "usb" /\ a.faults < s.faults)
      BY <1>2, SetIfFreqSound
<1>4. PICK b : b = Quiet(a)
      OBVIOUS
<1>5. Sound(b) /\ Step(a, b, {"err"}) /\ b.err = "none" /\ Clean(a, b)
      BY <1>3, <1>4, QuietSound
<1>6. /\ a.offs = 0 /\ a.freq = s.freq /\ b.freq = s.freq /\ b.intFreq = s.intFreq
      /\ b.shadow = s.shadow /\ b.drvXtal = s.drvXtal /\ b.ifreg = a.ifreg /\ b.faults <= s.faults
      /\ HasDriver(b) /\ get_rtl_xtal(b) = get_rtl_xtal(a)
      BY <1>3, <1>5 DEF Sound, DriverSound, HasDriver, Step, Fields, get_rtl_xtal, Clean
<1>7. Step(s, b, {"ifreg", "faults", "err"})
      BY <1>2, <1>3, <1>5 DEF Step, Fields, IsDev
(* It is enough to know how the tuner's part, from b on, ends.             *)
<1>8. ASSUME Sound(t), t.err = "none",
             Step(b, t, {"freq", "lo", "shadow", "faults", "err"}), Kept(b, t),
             Clean(b, t) /\ b.shadow = "right" /\ t.freq > 0 => t.lo = <<t.freq + t.intFreq, t.drvXtal>>
      PROVE  /\ Sound(t) /\ Step(s, t, {"freq", "lo", "ifreg", "shadow", "faults", "err"})
             /\ Kept(s, t) /\ t.err = "none"
             /\ Clean(s, t) => t.ifreg = <<t.intFreq, get_rtl_xtal(t)>>
             /\ Trusted(s, t) => Follows(t)
  <2>1. Step(s, t, {"freq", "lo", "ifreg", "shadow", "faults", "err"})
        BY <1>2, <1>7, <1>8 DEF Step, Fields, IsDev
  <2>2. Clean(s, t) => Clean(s, a) /\ Clean(b, t)
        BY <1>2, <1>3, <1>5, <1>8 DEF Step, Clean, IsDev
  <2>3. Kept(s, t)
        BY <1>6, <1>8, <2>2 DEF Kept
  <2>4. t.ifreg = a.ifreg /\ t.intFreq = s.intFreq /\ get_rtl_xtal(t) = get_rtl_xtal(a)
        BY <1>6, <1>8 DEF Step, Fields, get_rtl_xtal
  <2>5. Clean(s, t) => t.ifreg = <<t.intFreq, get_rtl_xtal(t)>>
    <3>1. ASSUME Clean(s, t) PROVE a.ifreg = <<s.intFreq, get_rtl_xtal(a)>>
      <4>1. a.faults = s.faults /\ s.faults \in Nat
            BY <1>2, <2>2, <3>1 DEF Clean
      <4>. QED
           BY <1>3, <4>1
    <3>. QED
         BY <2>4, <3>1
  <2>6. Trusted(s, t) => Follows(t)
    <3>1. ASSUME Trusted(s, t) PROVE Follows(t)
      <4>1. Clean(s, t) /\ Clean(b, t) /\ b.shadow = "right"
            BY <1>6, <2>2, <3>1 DEF Trusted
      <4>2. t.ifreg[1] = t.intFreq
            BY <2>5, <4>1
      <4>. QED
           BY <1>8, <4>1, <4>2 DEF Follows
    <3>. QED
         BY <3>1
  <2>. QED
       BY <1>8, <2>1, <2>3, <2>5, <2>6
<1>9. CASE a.freq = 0 \/ BelowOffset(a.freq, a.offs)
  <2>1. a.freq = 0 /\ t = b
        BY <1>1, <1>2, <1>4, <1>6, <1>9 DEF BelowOffset
  <2>2. Step(b, t, {"freq", "lo", "shadow", "faults", "err"}) /\ Kept(b, t)
        BY <1>5, <2>1 DEF Step, Sound, IsDev, Kept
  <2>3. ~(t.freq > 0)
        BY <1>6, <2>1
  <2>. QED
       BY <1>5, <1>8, <2>1, <2>2, <2>3
<1>10. CASE ~(a.freq = 0 \/ BelowOffset(a.freq, a.offs))
  <2>1. PICK u \in TunerSetFreq(b, a.freq) : t = IF u.err = "none" THEN u ELSE [Quiet(u) EXCEPT !.freq = 0]
        BY <1>1, <1>2, <1>4, <1>6, <1>10
  <2>2. /\ Sound(u) /\ Step(b, u, {"lo", "shadow", "faults", "err"}) /\ Kept(b, u)
        /\ \/ ((b.shadow = "right" => u.lo = <<a.freq + b.intFreq, b.drvXtal>>)
               /\ u.err = "none" /\ Clean(b, u))
           \/ (u.err = "tuner" /\ Clean(b, u))
           \/ (u.err = "usb" /\ u.faults < b.faults)
        BY <1>2, <1>5, <1>6, TunerSetFreqSound
  <2>3. CASE u.err = "none"
    <3>1. t = u /\ t.freq = a.freq /\ t.intFreq = b.intFreq /\ t.drvXtal = b.drvXtal
          BY <1>6, <2>1, <2>2, <2>3 DEF Step, Fields
    <3>2. Step(b, t, {"freq", "lo", "shadow", "faults", "err"})
          BY <2>2, <3>1 DEF Step
    <3>. QED
         BY <1>8, <2>2, <2>3, <3>1, <3>2
  <2>4. CASE u.err # "none"
    <3>1. PICK v : v = Quiet(u)
          OBVIOUS
    <3>2. Sound(v) /\ Step(u, v, {"err"}) /\ v.err = "none" /\ Clean(u, v)
          BY <2>2, <3>1, QuietSound
    <3>3. Sound(t) /\ Step(v, t, {"freq"}) /\ t.freq = 0 /\ Clean(v, t) /\ t.err = "none"
          BY <2>1, <2>4, <3>1, <3>2, CacheFreq
    <3>4. Step(b, t, {"freq", "lo", "shadow", "faults", "err"})
          BY <1>2, <2>2, <3>2, <3>3 DEF Step, Fields, IsDev, Clean
    <3>5. Kept(b, t)
          BY <2>2, <3>2, <3>3 DEF Step, Fields, Clean, Kept
    <3>6. ~(t.freq > 0)
          BY <3>3
    <3>. QED
         BY <1>8, <3>3, <3>4, <3>5, <3>6
  <2>. QED
       BY <2>3, <2>4
<1>. QED
     BY <1>9, <1>10

---------------------------------------------------------------------------
(* Sample rate, bandwidth and offset tuning                                *)

LEMMA RateBandwidthNat ==
    ASSUME NEW s, Sound(s)
    PROVE  RateBandwidth(s) \in Nat /\ s.rate \in Nat /\ s.bw \in Nat /\ s.corr \in Int /\ s.faults \in Nat
<1>1. /\ s.bw \in Bandwidths \cup {0} /\ s.rate \in Nat
      /\ s.corr \in Ppms \cup {0} /\ s.faults \in Nat
      BY DEF Sound, Typed, IsDev
<1>2. s.bw \in Nat /\ s.rate \in Nat /\ s.corr \in Int
      BY <1>1, ConstantTypes
<1>. QED
     BY <1>1, <1>2 DEF RateBandwidth

RateTunerEffect(s, t) ==
    /\ Sound(t)
    /\ Step(s, t, {"freq", "lo", "ifreg", "rep", "intFreq", "filt", "shadow", "faults", "err"})
    /\ Kept(s, t) /\ t.err \in {"none", "usb"}
    /\ Clean(s, t) => t.err = "none"
    /\ HasDriver(s) =>
        /\ Clean(s, t) => t.ifreg = <<t.intFreq, get_rtl_xtal(t)>>
        /\ Trusted(s, t) => Follows(t) /\ t.filt = RateBandwidth(t)

LEMMA RateTunerSound ==
    ASSUME NEW s, Sound(s), s.err = "none", NEW t \in RateTuner(s)
    PROVE  RateTunerEffect(s, t)
<1>1. CASE ~HasDriver(s)
  <2>1. t = s
        BY <1>1 DEF RateTuner
  <2>. QED
       BY <1>1, <2>1 DEF RateTunerEffect, Sound, Step, IsDev, Kept
<1>2. CASE HasDriver(s)
  <2>1. PICK a \in OpenRepeater(s) :
            t \in IF a.err = "none"
                  THEN UNION {{IF u.err = "none" THEN Fail(u, r.err) ELSE u :
                                   u \in CloseRepeater(Quiet(r))} :
                              r \in UNION {IF v.err = "none" THEN FollowIf(v) ELSE {Quiet(v)} :
                                               v \in TunerSetBw(a, RateBandwidth(a))}}
                  ELSE {a}
        BY <1>2 DEF RateTuner, Bracket, Then
  <2>2. /\ Sound(a) /\ Step(s, a, {"rep", "faults", "err"})
        /\ \/ (a.err = "none" /\ Clean(s, a))
           \/ (a.err = "usb" /\ a.faults < s.faults)
        BY OpeningSound
  <2>3. RateBandwidth(a) \in Nat /\ s.faults \in Nat /\ a.shadow = s.shadow
        BY <2>2, RateBandwidthNat DEF Step, Fields
  <2>4. CASE a.err # "none"
        BY <2>1, <2>2, <2>3, <2>4 DEF RateTunerEffect, Step, Fields, Clean, Trusted, IsDev, Kept
  <2>5. CASE a.err = "none"
    <3>1. PICK v \in TunerSetBw(a, RateBandwidth(a)) :
              \E r \in IF v.err = "none" THEN FollowIf(v) ELSE {Quiet(v)} :
                 \E u \in CloseRepeater(Quiet(r)) : t = IF u.err = "none" THEN Fail(u, r.err) ELSE u
          BY <2>1, <2>5
    <3>2. PICK r \in IF v.err = "none" THEN FollowIf(v) ELSE {Quiet(v)} :
                 \E u \in CloseRepeater(Quiet(r)) : t = IF u.err = "none" THEN Fail(u, r.err) ELSE u
          BY <3>1
    <3>3. PICK u \in CloseRepeater(Quiet(r)) : t = IF u.err = "none" THEN Fail(u, r.err) ELSE u
          BY <3>2
    <3>4. /\ Sound(v) /\ Step(a, v, {"intFreq", "filt", "shadow", "faults", "err"}) /\ Kept(a, v)
          /\ \/ ((s.shadow = "right" => v.filt = RateBandwidth(a)) /\ v.err = "none" /\ Clean(a, v))
             \/ (v.err = "usb" /\ v.faults < a.faults)
          BY <2>2, <2>3, <2>5, TunerSetBwSound
    <3>5. HasDriver(v)
          BY <1>2, <2>2, <3>4 DEF HasDriver, Step, Fields
    <3>6. /\ Sound(r) /\ Step(v, r, {"freq", "lo", "ifreg", "shadow", "faults", "err"}) /\ r.err = "none"
          /\ Kept(v, r)
          /\ v.err = "none" => /\ Clean(v, r) => r.ifreg = <<r.intFreq, get_rtl_xtal(r)>>
                               /\ Trusted(v, r) => Follows(r)
      <4>1. CASE v.err = "none"
            BY <3>2, <3>4, <3>5, <4>1, FollowIfSound
      <4>2. CASE v.err # "none"
            BY <3>2, <3>4, <4>2, QuietSound DEF Step, Fields, Kept
      <4>. QED
           BY <4>1, <4>2
    <3>7. /\ Sound(u) /\ Step(r, u, {"rep", "faults", "err"})
          /\ \/ (u.rep = "off" /\ u.err = "none" /\ Clean(r, u))
             \/ (u.err = "usb" /\ u.faults < r.faults)
          BY <3>6, ClosingAfter
    <3>8. /\ Sound(t) /\ Step(u, t, {"err"}) /\ t.err = u.err /\ Clean(u, t)
      <4>1. CASE u.err = "none"
            BY <3>3, <3>6, <3>7, <4>1, FailAfter
      <4>2. CASE u.err # "none"
            BY <3>3, <3>7, <4>2 DEF Step, Clean, Sound, IsDev
      <4>. QED
           BY <4>1, <4>2
    <3>9. Step(r, t, {"rep", "faults", "err"}) /\ t.err \in {"none", "usb"}
          BY <2>3, <3>6, <3>7, <3>8 DEF Step, Fields, IsDev
    <3>10. Step(s, t, {"freq", "lo", "ifreg", "rep", "intFreq", "filt", "shadow", "faults", "err"})
          BY <2>2, <2>3, <3>4, <3>6, <3>9 DEF Step, Fields, IsDev
    <3>11. Clean(s, t) => Clean(a, v) /\ Clean(v, r) /\ v.err = "none" /\ t.err = "none"
          BY <2>2, <2>3, <3>4, <3>6, <3>7, <3>8 DEF Step, Clean, IsDev
    <3>12. Kept(s, t)
          BY <2>3, <3>4, <3>6, <3>9, <3>11 DEF Step, Fields, Kept
    <3>13. /\ t.intFreq = r.intFreq /\ t.ifreg = r.ifreg /\ t.filt = v.filt /\ RateBandwidth(t) = RateBandwidth(a)
           /\ get_rtl_xtal(t) = get_rtl_xtal(r) /\ (Follows(r) => Follows(t))
          BY <3>4, <3>6, <3>9 DEF Step, Fields, get_rtl_xtal, Follows, RateBandwidth
    <3>14. Trusted(s, t) => Trusted(v, r)
          BY <2>3, <3>4, <3>11 DEF Trusted, Kept
    <3>15. Trusted(s, t) => v.filt = RateBandwidth(a)
      <4>1. Trusted(s, t) => s.shadow = "right" /\ v.err = "none"
            BY <3>11 DEF Trusted
      <4>. QED
           BY <3>4, <4>1
    <3>16. /\ Clean(s, t) => t.ifreg = <<t.intFreq, get_rtl_xtal(t)>>
           /\ Trusted(s, t) => Follows(t) /\ t.filt = RateBandwidth(t)
          BY <3>6, <3>11, <3>13, <3>14, <3>15 DEF Trusted
    <3>. QED
         BY <3>8, <3>9, <3>10, <3>11, <3>12, <3>16 DEF RateTunerEffect
  <2>. QED
       BY <2>4, <2>5
<1>. QED
     BY <1>1, <1>2

(* What the registers of the resampler can be told is a number, and so is  *)
(* the rate that comes of it.                                              *)
LEMMA DivisionTypes ==
    ASSUME NEW n \in Nat, NEW d \in Nat \ {0}
    PROVE  n \div d \in Nat /\ n % d \in Nat
BY SMT

LEMMA TimesDivTypes ==
    ASSUME NEW qr, qr[1] \in Nat, qr[2] \in Nat, NEW k \in {16, 128, 256}, NEW d \in Nat \ {0}
    PROVE  TimesDiv(qr, k, d)[1] \in Nat /\ TimesDiv(qr, k, d)[2] \in Nat
<1>1. k * qr[1] \in Nat /\ k * qr[2] \in Nat
      BY SMT
<1>2. (k * qr[2]) \div d \in Nat /\ (k * qr[2]) % d \in Nat
      BY <1>1, DivisionTypes
<1>3. k * qr[1] + (k * qr[2]) \div d \in Nat
      BY <1>1, <1>2
<1>. QED
     BY <1>2, <1>3 DEF TimesDiv

LEMMA RatioType ==
    ASSUME NEW xtal \in Nat, NEW r \in Nat \ {0}
    PROVE  rsamp_ratio(xtal, r) \in Nat
<1>. DEFINE w == <<xtal \div r, xtal % r>>
            x == TimesDiv(w, 256, r)
            y == TimesDiv(x, 128, r)
            z == TimesDiv(y, 128, r)
<1>1. w[1] \in Nat /\ w[2] \in Nat
      BY DivisionTypes
<1>. HIDE DEF w
<1>2. x[1] \in Nat /\ x[2] \in Nat
      BY <1>1, TimesDivTypes
<1>. HIDE DEF x
<1>3. y[1] \in Nat /\ y[2] \in Nat
      BY <1>2, TimesDivTypes
<1>. HIDE DEF y
<1>4. z[1] \in Nat
      BY <1>3, TimesDivTypes
<1>5. rsamp_ratio(xtal, r) = 4 * ((z[1] % 2^28) \div 4)
      BY DEF rsamp_ratio, w, x, y, z
<1>. HIDE DEF z
<1>6. 4 * ((z[1] % 2^28) \div 4) \in Nat
      BY <1>4, SMT
<1>. QED
     BY <1>5, <1>6

LEMMA RealRateType ==
    ASSUME NEW xtal \in Nat, NEW ratio \in Nat
    PROVE  real_rate(xtal, ratio) \in Nat
<1>. DEFINE quarter == (IF ratio >= 2^27 THEN ratio + 2^28 ELSE ratio) \div 4
            S(qr) == TimesDiv(qr, 16, quarter)
            w == <<xtal \div quarter, xtal % quarter>>
            q == S(S(S(S(S(w)))))[1]
            Lost == quarter = 0 \/ q \div 2 > I32_MAX
<1>1. quarter \in Nat
      BY SMT
<1>2. real_rate(xtal, ratio) = IF Lost THEN 2 * I32_MAX + 1 ELSE q
      BY DEF real_rate
<1>3. CASE Lost
  <2>1. 2 * I32_MAX + 1 \in Nat
        BY SMT DEF I32_MAX
  <2>. HIDE DEF Lost
  <2>. QED
       BY <1>2, <1>3, <2>1
<1>4. CASE ~Lost
  <2>1. quarter \in Nat \ {0} /\ real_rate(xtal, ratio) = q
        BY <1>1, <1>2, <1>4
  <2>. HIDE DEF quarter
  <2>2. w[1] \in Nat /\ w[2] \in Nat
        BY <2>1, DivisionTypes
  <2>. HIDE DEF w
  <2>3. ASSUME NEW qr, qr[1] \in Nat, qr[2] \in Nat
        PROVE  S(qr)[1] \in Nat /\ S(qr)[2] \in Nat
        BY <2>1, <2>3, TimesDivTypes
  <2>. HIDE DEF S
  <2>4. S(w)[1] \in Nat /\ S(w)[2] \in Nat
        BY <2>2, <2>3
  <2>5. S(S(w))[1] \in Nat /\ S(S(w))[2] \in Nat
        BY <2>3, <2>4
  <2>6. S(S(S(w)))[1] \in Nat /\ S(S(S(w)))[2] \in Nat
        BY <2>3, <2>5
  <2>7. S(S(S(S(w))))[1] \in Nat /\ S(S(S(S(w))))[2] \in Nat
        BY <2>3, <2>6
  <2>8. q \in Nat
        BY <2>3, <2>7
  <2>. QED
       BY <2>1, <2>8
<1>. QED
     BY <1>3, <1>4

LEMMA CorrWordType == ASSUME NEW ppm \in Int PROVE CorrWord(ppm) \in Int
<1>. DEFINE p == Clamped(ppm, -1954, 1954)
            offs == IF p > 0 THEN -((p * 262144) \div 15625) ELSE (-p * 262144) \div 15625
<1>1. p \in Int
      BY SMT DEF Clamped
<1>. HIDE DEF p
<1>2. offs \in Int
      BY <1>1, SMT
<1>. HIDE DEF offs
<1>3. Clamped(offs, -32768, 32767) \in Int
      BY <1>2, SMT DEF Clamped
<1>4. Clamped(offs, -32768, 32767) % 2^14 \in Int
      BY <1>3, SMT
<1>. QED
     BY <1>4 DEF CorrWord, offs, p

LEMMA FloorNat == ASSUME NEW r \in Nat PROVE offset_tuning_floor(r) \in Nat
<1>1. (r \div 2) * 170 \in Nat
      BY SMT
<1>2. Wrapped((r \div 2) * 170) \in Nat
      BY <1>1, SMT DEF Wrapped, I32_MAX
<1>. QED
     BY <1>2, SMT DEF offset_tuning_floor

LEMMA RatioSound ==
    ASSUME NEW s, Sound(s), NEW v \in Int, NEW t \in WriteParts(s, "ratio", v)
    PROVE  /\ Sound(t) /\ Step(s, t, {"ratio", "faults", "err"})
           /\ \/ (t.ratio = v /\ t.err = s.err /\ Clean(s, t))
              \/ (t.err = "usb" /\ t.faults < s.faults)
<1>1. "ratio" \in Fields /\ "ratio" \notin {"faults", "err"}
      BY DEF Fields
<1>2. /\ Step(s, t, {"ratio", "faults", "err"}) /\ t.ratio \in {s.ratio, v, Torn("ratio")}
      /\ \/ (t.ratio = v /\ t.err = s.err /\ Clean(s, t))
         \/ (t.err = "usb" /\ t.faults < s.faults)
      BY <1>1, WritingParts DEF Step, Sound, Clean, IsDev, Fields
<1>3. Sound(t)
      BY <1>2, SameSound, ComputedTypes DEF Step, Sound, Typed, Fields
<1>. QED
     BY <1>2, <1>3

LEMMA CorrRegSound ==
    ASSUME NEW s, Sound(s), NEW v \in Int, NEW t \in WriteParts(s, "corrReg", v)
    PROVE  /\ Sound(t) /\ Step(s, t, {"corrReg", "faults", "err"})
           /\ \/ (t.corrReg = v /\ t.err = s.err /\ Clean(s, t))
              \/ (t.err = "usb" /\ t.faults < s.faults)
<1>1. "corrReg" \in Fields /\ "corrReg" \notin {"faults", "err"}
      BY DEF Fields
<1>2. /\ Step(s, t, {"corrReg", "faults", "err"}) /\ t.corrReg \in {s.corrReg, v, Torn("corrReg")}
      /\ \/ (t.corrReg = v /\ t.err = s.err /\ Clean(s, t))
         \/ (t.err = "usb" /\ t.faults < s.faults)
      BY <1>1, WritingParts DEF Step, Sound, Clean, IsDev, Fields
<1>3. Sound(t)
      BY <1>2, SameSound, ComputedTypes DEF Step, Sound, Typed, Fields
<1>. QED
     BY <1>2, <1>3

RateDemodEffect(s, ratio, t) ==
    /\ Sound(t) /\ Step(s, t, {"ratio", "corrReg", "rep", "faults", "err"})
    /\ \/ (t.err = "none" /\ t.rep = "off" /\ Clean(s, t)
           /\ t.ratio = ratio /\ t.corrReg = CorrWord(t.corr))
       \/ (t.err = "usb" /\ t.faults < s.faults)

LEMMA RateDemodSound ==
    ASSUME NEW s, Sound(s), s.err = "none", NEW ratio \in Int, NEW t \in RateDemod(s, ratio)
    PROVE  RateDemodEffect(s, ratio, t)
<1>1. PICK b \in Then(WriteParts(s, "ratio", ratio),
                      LAMBDA u : WriteParts(u, "corrReg", CorrWord(u.corr))) :
          t \in IF b.err = "none" THEN CloseRepeater(b) ELSE {b}
      BY DEF RateDemod, Then
<1>2. PICK a \in WriteParts(s, "ratio", ratio) :
          b \in IF a.err = "none" THEN WriteParts(a, "corrReg", CorrWord(a.corr)) ELSE {a}
      BY <1>1 DEF Then
<1>3. /\ Sound(a) /\ Step(s, a, {"ratio", "faults", "err"})
      /\ \/ (a.ratio = ratio /\ a.err = "none" /\ Clean(s, a))
         \/ (a.err = "usb" /\ a.faults < s.faults)
      BY RatioSound
<1>4. CorrWord(a.corr) \in Int /\ s.faults \in Nat
  <2>1. a.corr \in Int /\ s.faults \in Nat
        BY <1>3, RateBandwidthNat
  <2>. QED
       BY <2>1, CorrWordType
<1>5. /\ Sound(b) /\ Step(a, b, {"corrReg", "faults", "err"})
      /\ \/ (b.corrReg = CorrWord(a.corr) /\ b.err = "none" /\ a.err = "none" /\ Clean(a, b))
         \/ (b.err = "usb" /\ b.faults < s.faults)
  <2>1. CASE a.err = "none"
    <3>1. /\ Sound(b) /\ Step(a, b, {"corrReg", "faults", "err"})
          /\ \/ (b.corrReg = CorrWord(a.corr) /\ b.err = "none" /\ Clean(a, b))
             \/ (b.err = "usb" /\ b.faults < a.faults)
          BY <1>2, <1>3, <1>4, <2>1, CorrRegSound
    <3>. QED
         BY <1>3, <1>4, <2>1, <3>1 DEF Step, IsDev, Clean
  <2>2. CASE a.err # "none"
        BY <1>2, <1>3, <2>2 DEF Step, IsDev, Sound
  <2>. QED
       BY <2>1, <2>2
<1>6. CASE b.err = "none"
  <2>1. /\ Sound(t) /\ Step(b, t, {"rep", "faults", "err"})
        /\ \/ (t.rep = "off" /\ t.err = "none" /\ Clean(b, t))
           \/ (t.err = "usb" /\ t.faults < b.faults)
        BY <1>1, <1>5, <1>6, ClosingSound
  <2>2. t.corr = a.corr
        BY <1>5, <2>1 DEF Step, Fields
  <2>. QED
       BY <1>3, <1>4, <1>5, <1>6, <2>1, <2>2 DEF RateDemodEffect, Step, Fields, Clean, IsDev
<1>7. CASE b.err # "none"
      BY <1>1, <1>3, <1>4, <1>5, <1>7 DEF RateDemodEffect, Step, Fields, Clean, IsDev
<1>. QED
     BY <1>6, <1>7

OffsetEffect(s, t) ==
    /\ Sound(t) /\ Step(s, t, {"offs", "freq", "lo", "ifreg", "rep", "shadow", "faults", "err"})
    /\ HasDriver(s) => t = Fail(s, "invalid")

LEMMA OffsetTuningSound ==
    ASSUME NEW s, Sound(s), s.err = "none", NEW on \in BOOLEAN, NEW t \in set_offset_tuning(s, on)
    PROVE  OffsetEffect(s, t)
<1>. DEFINE offs == IF on THEN offset_tuning_floor(s.rate) ELSE 0
            Refused == HasDriver(s) \/ s.ds # 0 \/ (on /\ s.freq > 0 /\ s.freq <= offs)
<1>1. offs \in Nat /\ s.faults \in Nat
      BY RateBandwidthNat, FloorNat
<1>. HIDE DEF offs
<1>2. CASE Refused
  <2>1. t = Fail(s, "invalid")
        BY <1>2 DEF set_offset_tuning, offs
  <2>2. Sound(t) /\ Step(s, t, {"err"})
        BY <2>1, FailAfter
  <2>. QED
       BY <2>1, <2>2 DEF OffsetEffect, Step
<1>3. CASE ~Refused
  <2>1. PICK a \in SetIfFreq(s, offs) :
            t \in IF a.err = "none"
                  THEN IF a.freq > offs THEN set_center_freq([a EXCEPT !.offs = offs], a.freq)
                       ELSE {[a EXCEPT !.offs = offs]}
                  ELSE {a}
        BY <1>3 DEF set_offset_tuning, Then, offs
  <2>2. /\ Sound(a) /\ Step(s, a, {"ifreg", "faults", "err"}) /\ a.err \in {"none", "usb"}
        BY <1>1, SetIfFreqSound
  <2>3. ~HasDriver(s) /\ ~HasDriver(a)
        BY <1>3, <2>2 DEF HasDriver, Step, Fields
  <2>4. CASE a.err # "none"
        BY <2>1, <2>2, <2>3, <2>4 DEF OffsetEffect, Step, Fields
  <2>5. CASE a.err = "none"
    <3>1. PICK b : b = [a EXCEPT !.offs = offs]
          OBVIOUS
    <3>2. Step(a, b, {"offs"}) /\ b.offs = offs /\ b.err = "none"
          BY <2>2, <2>5, <3>1 DEF Sound, IsDev, Step, Fields
    <3>3. Sound(b) /\ b.freq = a.freq
      <4>1. Typed(b)
            BY <1>1, <2>2, <3>2 DEF Sound, Step, Typed, Fields
      <4>2. DriverSound(b) /\ b.freq = a.freq
            BY <2>3, <3>2 DEF HasDriver, DriverSound, Step, Fields
      <4>. QED
           BY <3>2, <4>1, <4>2 DEF Sound, Step
    <3>4. CASE a.freq > offs
      <4>1. a.freq \in Freqs
        <5>1. a.freq \in Freqs \cup {0}
              BY <2>2 DEF Sound, Typed
        <5>2. a.freq # 0
              BY <1>1, <3>4
        <5>. QED
             BY <5>1, <5>2
      <4>2. t \in set_center_freq(b, a.freq)
            BY <2>1, <2>5, <3>1, <3>4
      <4>3. Sound(t) /\ Step(b, t, {"freq", "lo", "ifreg", "rep", "shadow", "faults", "err"})
            BY <3>2, <3>3, <4>1, <4>2, SetCenterFreqSound DEF SetCenterFreqEffect
      <4>. QED
           BY <1>1, <2>2, <2>3, <3>2, <4>3 DEF OffsetEffect, Step, Fields, IsDev
    <3>5. CASE ~(a.freq > offs)
      <4>1. t = b
            BY <2>1, <2>5, <3>1, <3>5
      <4>. QED
           BY <1>1, <2>2, <2>3, <3>2, <3>3, <4>1 DEF OffsetEffect, Step, Fields, IsDev
    <3>. QED
         BY <3>4, <3>5
  <2>. QED
       BY <2>4, <2>5
<1>. QED
     BY <1>2, <1>3

(* With a driver the rate is refused before anything changes, or set up    *)
(* completely, or a fault stops it.                                        *)
SampleRateEffect(s, r, t) ==
    /\ Sound(t)
    /\ Step(s, t, {"rate", "freq", "lo", "ifreg", "rep", "intFreq", "filt", "ratio", "corrReg",
                   "offs", "shadow", "faults", "err"})
    /\ HasDriver(s) =>
        \/ (~ValidRate(r) /\ t = Fail(s, "invalid"))
        \/ (t.err = "none" /\ t.rep = "off" /\ Kept(s, t)
            /\ (Clean(s, t) => /\ t.rate = real_rate(t.rtlXtal, t.ratio) /\ t.corrReg = CorrWord(t.corr)
                               /\ t.ifreg = <<t.intFreq, get_rtl_xtal(t)>>)
            /\ (Trusted(s, t) => Follows(t) /\ t.filt = RateBandwidth(t)))
        \/ (t.err = "usb" /\ t.faults < s.faults)

LEMMA SampleRateSound ==
    ASSUME NEW s, Sound(s), s.err = "none", NEW r \in Nat \ {0}, NEW t \in set_sample_rate(s, r)
    PROVE  SampleRateEffect(s, r, t)
<1>. DEFINE ratio == rsamp_ratio(s.rtlXtal, r)
            rate == real_rate(s.rtlXtal, ratio)
            Refused == ~ValidRate(r) \/ (s.offs > 0 /\ s.freq > 0 /\ s.freq <= offset_tuning_floor(rate))
<1>0. ratio \in Nat /\ rate \in Nat
  <2>1. s.rtlXtal \in Nat
        BY DEF Sound, Typed
  <2>2. ratio \in Nat
        BY <2>1, RatioType
  <2>. HIDE DEF ratio
  <2>. QED
       BY <2>1, <2>2, RealRateType
<1>1. CASE Refused
  <2>1. t = Fail(s, "invalid")
        BY <1>1 DEF set_sample_rate
  <2>2. Sound(t) /\ Step(s, t, {"err"})
        BY <2>1, FailAfter
  <2>3. HasDriver(s) => ~ValidRate(r)
    <3>1. HasDriver(s) => s.offs = 0
          BY DEF Sound, DriverSound
    <3>. HIDE DEF rate
    <3>. QED
         BY <1>1, <3>1
  <2>. QED
       BY <2>1, <2>2, <2>3 DEF SampleRateEffect, Step
<1>2. CASE ~Refused
  <2>0. PICK a : a = [s EXCEPT !.rate = rate]
        OBVIOUS
  <2>1. PICK c \in Then(RateTuner(a), LAMBDA u : RateDemod(u, ratio)) :
            t \in IF c.err = "none"
                  THEN IF c.offs > 0 THEN set_offset_tuning(c, TRUE) ELSE {c}
                  ELSE {c}
        BY <1>2, <2>0 DEF set_sample_rate, Then
  <2>. HIDE DEF ratio
  <2>2. PICK b \in RateTuner(a) : c \in IF b.err = "none" THEN RateDemod(b, ratio) ELSE {b}
        BY <2>1 DEF Then
  <2>. DEFINE rt == rate
  <2>a. rt \in Nat /\ a = [s EXCEPT !.rate = rt] /\ rt = real_rate(s.rtlXtal, ratio)
        BY <1>0, <2>0
  <2>. HIDE DEF rate, rt, Refused
  <2>3. Step(s, a, {"rate"}) /\ a.rate = rt /\ a.err = "none" /\ Clean(s, a) /\ s.faults \in Nat
        BY <2>a DEF Sound, IsDev, Step, Fields, Clean
  <2>4. Sound(a)
    <3>1. Typed(a)
          BY <2>a, <2>3 DEF Sound, Step, Typed, Fields
    <3>2. DriverSound(a)
          BY <2>3 DEF Sound, Step, DriverSound, HasDriver, get_tuner_xtal, Fields
    <3>. QED
         BY <2>3, <3>1, <3>2 DEF Sound, Step
  <2>5. RateTunerEffect(a, b)
        BY <2>3, <2>4, RateTunerSound
  <2>6. CASE b.err # "none"
    <3>1. t = b
          BY <2>1, <2>2, <2>6
    <3>2. b.err = "usb" /\ b.faults < a.faults /\ Sound(b)
          BY <2>3, <2>4, <2>5, <2>6 DEF RateTunerEffect, Step, Clean, Sound, IsDev
    <3>3. Step(a, b, {"freq", "lo", "ifreg", "rep", "intFreq", "filt", "shadow", "faults", "err"})
          BY <2>5 DEF RateTunerEffect
    <3>. QED
         BY <2>3, <3>1, <3>2, <3>3 DEF SampleRateEffect, Step, Fields, Clean, IsDev
  <2>7. CASE b.err = "none"
    <3>1. /\ Sound(b) /\ Kept(a, b)
          /\ Step(a, b, {"freq", "lo", "ifreg", "rep", "intFreq", "filt", "shadow", "faults", "err"})
          /\ HasDriver(a) => /\ Clean(a, b) => b.ifreg = <<b.intFreq, get_rtl_xtal(b)>>
                             /\ Trusted(a, b) => Follows(b) /\ b.filt = RateBandwidth(b)
          BY <2>5 DEF RateTunerEffect
    <3>2. RateDemodEffect(b, ratio, c)
          BY <1>0, <2>2, <2>7, <3>1, RateDemodSound
    <3>3. /\ Sound(c) /\ Step(b, c, {"ratio", "corrReg", "rep", "faults", "err"})
          /\ \/ (c.err = "none" /\ c.rep = "off" /\ Clean(b, c)
                 /\ c.ratio = ratio /\ c.corrReg = CorrWord(c.corr))
             \/ (c.err = "usb" /\ c.faults < b.faults)
          BY <3>2 DEF RateDemodEffect
    <3>4. /\ Step(s, c, {"rate", "freq", "lo", "ifreg", "rep", "intFreq", "filt", "ratio", "corrReg",
                         "shadow", "faults", "err"})
          BY <2>3, <3>1, <3>3 DEF Step, Fields, IsDev
    <3>5. HasDriver(s) =>
             \/ (c.err = "none" /\ c.rep = "off" /\ Kept(s, c)
                 /\ (Clean(s, c) => /\ c.rate = real_rate(c.rtlXtal, c.ratio)
                                    /\ c.corrReg = CorrWord(c.corr)
                                    /\ c.ifreg = <<c.intFreq, get_rtl_xtal(c)>>)
                 /\ (Trusted(s, c) => Follows(c) /\ c.filt = RateBandwidth(c)))
             \/ (c.err = "usb" /\ c.faults < s.faults)
      <4>1. CASE c.err = "usb" /\ c.faults < b.faults
        <5>1. c.faults < s.faults
              BY <2>3, <3>1, <3>3, <4>1 DEF Step, Clean, IsDev
        <5>. QED
             BY <4>1, <5>1
      <4>2. CASE c.err = "none" /\ c.rep = "off" /\ Clean(b, c)
                 /\ c.ratio = ratio /\ c.corrReg = CorrWord(c.corr)
        <5>1. /\ c.rate = rt /\ c.rtlXtal = s.rtlXtal /\ c.ifreg = b.ifreg /\ c.intFreq = b.intFreq
              /\ c.shadow = b.shadow /\ a.shadow = s.shadow /\ get_rtl_xtal(c) = get_rtl_xtal(b)
              /\ (Follows(b) => Follows(c)) /\ c.filt = b.filt /\ RateBandwidth(c) = RateBandwidth(b)
              BY <2>3, <3>1, <3>3 DEF Step, Fields, get_rtl_xtal, Follows, RateBandwidth
        <5>2. (HasDriver(s) => HasDriver(a)) /\ (Clean(s, c) => Clean(a, b))
              BY <2>3, <3>1, <4>2 DEF Step, Fields, Clean, IsDev, HasDriver
        <5>3. Kept(s, c)
              BY <3>1, <5>1, <5>2 DEF Kept
        <5>4. c.rate = real_rate(c.rtlXtal, c.ratio)
              BY <2>a, <4>2, <5>1
        <5>5. HasDriver(s) /\ Trusted(s, c) => Trusted(a, b)
              BY <5>1, <5>2 DEF Trusted
        <5>6. HasDriver(s) /\ Clean(s, c) => c.ifreg = <<c.intFreq, get_rtl_xtal(c)>>
              BY <3>1, <5>1, <5>2
        <5>7. HasDriver(s) /\ Trusted(s, c) => Follows(c) /\ c.filt = RateBandwidth(c)
              BY <3>1, <5>1, <5>2, <5>5
        <5>. QED
             BY <4>2, <5>3, <5>4, <5>6, <5>7
      <4>. QED
           BY <3>3, <4>1, <4>2
    <3>6. CASE t = c
          BY <3>3, <3>4, <3>5, <3>6 DEF SampleRateEffect, Step
    <3>7. CASE t # c
      <4>1. t \in set_offset_tuning(c, TRUE) /\ c.err = "none" /\ c.offs > 0
            BY <2>1, <3>7
      <4>2. OffsetEffect(c, t)
            BY <3>3, <4>1, OffsetTuningSound
      <4>3. ~HasDriver(c)
            BY <3>3, <4>1 DEF Sound, DriverSound
      <4>4. ~HasDriver(s)
            BY <3>4, <4>3 DEF HasDriver, Step, Fields
      <4>. QED
           BY <2>3, <3>4, <4>2, <4>4 DEF SampleRateEffect, OffsetEffect, Step, Fields, IsDev
    <3>. QED
         BY <3>6, <3>7
  <2>. QED
       BY <2>6, <2>7
<1>. QED
     BY <1>1, <1>2

LEMMA BracketEnd ==
    ASSUME NEW r, Sound(r), NEW u \in CloseRepeater(Quiet(r)),
           NEW t, t = IF u.err = "none" THEN Fail(u, r.err) ELSE u
    PROVE  /\ Sound(t) /\ Step(r, t, {"rep", "faults", "err"})
           /\ \/ (t.rep = "off" /\ t.err = r.err /\ Clean(r, t))
              \/ (t.err = "usb" /\ t.faults < r.faults)
<1>1. /\ Sound(u) /\ Step(r, u, {"rep", "faults", "err"})
      /\ \/ (u.rep = "off" /\ u.err = "none" /\ Clean(r, u))
         \/ (u.err = "usb" /\ u.faults < r.faults)
      BY ClosingAfter
<1>2. CASE u.err = "none"
  <2>1. Sound(t) /\ Step(u, t, {"err"}) /\ t.err = r.err /\ Clean(u, t)
        BY <1>1, <1>2, FailAfter
  <2>. QED
       BY <1>1, <1>2, <2>1 DEF Step, Fields, Clean
<1>3. CASE u.err # "none"
      BY <1>1, <1>3
<1>. QED
     BY <1>2, <1>3

BandwidthEffect(s, t) ==
    /\ Sound(t)
    /\ Step(s, t, {"freq", "lo", "ifreg", "rep", "intFreq", "filt", "bw", "shadow", "faults", "err"})
    /\ HasDriver(s) =>
        \/ (t.err = "none" /\ t.rep = "off" /\ Kept(s, t)
            /\ (Clean(s, t) => t.ifreg = <<t.intFreq, get_rtl_xtal(t)>>)
            /\ (Trusted(s, t) => Follows(t) /\ t.filt = RateBandwidth(t)))
        \/ (t.err = "usb" /\ t.faults < s.faults)
    /\ ~HasDriver(s) => t = s

LEMMA BandwidthSound ==
    ASSUME NEW s, Sound(s), s.err = "none", NEW b \in Bandwidths, NEW t \in set_tuner_bandwidth(s, b)
    PROVE  BandwidthEffect(s, t)
<1>1. CASE ~HasDriver(s)
  <2>1. t = s
        BY <1>1 DEF set_tuner_bandwidth
  <2>. QED
       BY <1>1, <2>1 DEF BandwidthEffect, Sound, Step, IsDev
<1>2. CASE HasDriver(s)
  <2>. DEFINE Asked(x) == IF b > 0 THEN b ELSE x.rate
              Rest(x) == UNION {
                  IF u.err # "none" THEN {Fail(v, u.err) : v \in CloseRepeater(Quiet(u))}
                  ELSE Then(UNION {CloseRepeater(v) : v \in FollowIf(u)},
                            LAMBDA v : {[v EXCEPT !.bw = b]}) :
                  u \in TunerSetBw(x, Asked(x))}
  <2>1. PICK a \in OpenRepeater(s) : t \in IF a.err = "none" THEN Rest(a) ELSE {a}
        BY <1>2 DEF set_tuner_bandwidth, Then
  <2>2. /\ Sound(a) /\ Step(s, a, {"rep", "faults", "err"})
        /\ \/ (a.err = "none" /\ Clean(s, a))
           \/ (a.err = "usb" /\ a.faults < s.faults)
        BY OpeningSound
  <2>3. b \in Nat /\ a.rate \in Nat /\ s.faults \in Nat /\ Asked(a) \in Nat /\ b \in Bandwidths \cup {0}
    <3>1. b \in Nat /\ b \in Bandwidths \cup {0} /\ s.faults \in Nat
          BY ConstantTypes DEF Sound, IsDev
    <3>2. a.rate \in Nat
          BY <2>2, RateBandwidthNat
    <3>. QED
         BY <3>1, <3>2
  <2>4. CASE a.err # "none"
    <3>1. t = a /\ t.err = "usb" /\ t.faults < s.faults
          BY <2>1, <2>2, <2>4
    <3>2. Step(s, t, {"freq", "lo", "ifreg", "rep", "intFreq", "filt", "bw", "shadow", "faults", "err"})
          BY <2>2, <3>1 DEF Step
    <3>. QED
         BY <1>2, <2>2, <3>1, <3>2 DEF BandwidthEffect
  <2>5. CASE a.err = "none"
    <3>1. PICK u \in TunerSetBw(a, Asked(a)) :
              t \in IF u.err # "none" THEN {Fail(v, u.err) : v \in CloseRepeater(Quiet(u))}
                    ELSE Then(UNION {CloseRepeater(v) : v \in FollowIf(u)},
                              LAMBDA v : {[v EXCEPT !.bw = b]})
          BY <2>1, <2>5
    <3>2. /\ Sound(u) /\ Step(a, u, {"intFreq", "filt", "shadow", "faults", "err"}) /\ Kept(a, u)
          /\ \/ ((a.shadow = "right" => u.filt = Asked(a)) /\ u.err = "none" /\ Clean(a, u))
             \/ (u.err = "usb" /\ u.faults < a.faults)
          BY <2>2, <2>3, <2>5, TunerSetBwSound
    <3>3. HasDriver(u)
          BY <1>2, <2>2, <3>2 DEF HasDriver, Step, Fields
    <3>4. CASE u.err # "none"
      <4>1. PICK v \in CloseRepeater(Quiet(u)) : t = Fail(v, u.err)
            BY <3>1, <3>4
      <4>2. Sound(v) /\ Step(u, v, {"rep", "faults", "err"})
            BY <3>2, ClosingAfter
      <4>3. Sound(t) /\ Step(v, t, {"err"}) /\ t.err = u.err
            BY <4>1, <4>2, FailAfter
      <4>. QED
           BY <1>2, <2>2, <2>3, <3>2, <3>4, <4>2, <4>3 DEF BandwidthEffect, Step, Fields, IsDev, Clean
    <3>5. CASE u.err = "none"
      <4>1. PICK v \in FollowIf(u) :
                \E w \in CloseRepeater(v) : t \in IF w.err = "none" THEN {[w EXCEPT !.bw = b]} ELSE {w}
            BY <3>1, <3>5 DEF Then
      <4>2. PICK w \in CloseRepeater(v) : t = IF w.err = "none" THEN [w EXCEPT !.bw = b] ELSE w
            BY <4>1
      <4>3. /\ Sound(v) /\ Step(u, v, {"freq", "lo", "ifreg", "shadow", "faults", "err"}) /\ Kept(u, v)
            /\ v.err = "none" /\ (Clean(u, v) => v.ifreg = <<v.intFreq, get_rtl_xtal(v)>>)
            /\ (Trusted(u, v) => Follows(v))
            BY <3>2, <3>3, <3>5, FollowIfSound
      <4>4. /\ Sound(w) /\ Step(v, w, {"rep", "faults", "err"})
            /\ \/ (w.rep = "off" /\ w.err = "none" /\ Clean(v, w))
               \/ (w.err = "usb" /\ w.faults < v.faults)
            BY <4>3, ClosingSound
      <4>5. CASE w.err # "none"
            BY <1>2, <2>2, <2>3, <3>2, <4>2, <4>3, <4>4, <4>5 DEF BandwidthEffect, Step, Fields, IsDev, Clean
      <4>6. CASE w.err = "none"
        <5>1. Step(w, t, {"bw"}) /\ t.bw = b /\ Clean(w, t)
              BY <4>2, <4>4, <4>6 DEF Sound, IsDev, Step, Fields, Clean
        <5>2. Typed(t)
              BY <2>3, <4>4, <5>1 DEF Sound, Step, Typed, Fields
        <5>3. DriverSound(t)
              BY <4>4, <5>1 DEF Sound, Step, DriverSound, HasDriver, get_tuner_xtal, Fields
        <5>4. t.err = "none" /\ t.rep = "off"
              BY <4>4, <4>6, <5>1 DEF Step, Fields
        <5>5. Step(s, t, {"freq", "lo", "ifreg", "rep", "intFreq", "filt", "bw", "shadow", "faults", "err"})
              BY <2>2, <2>3, <3>2, <4>3, <4>4, <5>1 DEF Step, Fields, IsDev
        <5>6. Clean(s, t) => Clean(a, u) /\ Clean(u, v)
              BY <2>2, <2>3, <3>2, <4>3, <4>4, <5>1 DEF Step, Clean, IsDev
        <5>7. /\ t.ifreg = v.ifreg /\ t.intFreq = v.intFreq /\ get_rtl_xtal(t) = get_rtl_xtal(v)
              /\ (Follows(v) => Follows(t)) /\ t.shadow = v.shadow /\ a.shadow = s.shadow
              /\ t.filt = u.filt /\ t.rate = a.rate
              BY <2>2, <3>2, <4>3, <4>4, <5>1 DEF Step, Fields, get_rtl_xtal, Follows
        <5>8. Kept(s, t)
              BY <3>2, <4>3, <5>6, <5>7 DEF Kept
        <5>9. Trusted(s, t) => a.shadow = "right" /\ Trusted(u, v)
              BY <3>2, <5>6, <5>7 DEF Trusted, Kept
        <5>10. RateBandwidth(t) = Asked(a)
              BY <5>1, <5>7 DEF RateBandwidth
        <5>11. Trusted(s, t) => Follows(t) /\ t.filt = RateBandwidth(t)
              BY <3>2, <3>5, <4>3, <5>7, <5>9, <5>10
        <5>12. Clean(s, t) => t.ifreg = <<t.intFreq, get_rtl_xtal(t)>>
              BY <4>3, <5>6, <5>7
        <5>. QED
             BY <1>2, <5>1, <5>2, <5>3, <5>4, <5>5, <5>8, <5>11, <5>12 DEF BandwidthEffect, Sound, Step
      <4>. QED
           BY <4>5, <4>6
    <3>. QED
         BY <3>4, <3>5
  <2>. QED
       BY <2>4, <2>5
<1>. QED
     BY <1>1, <1>2

---------------------------------------------------------------------------
(* Gain                                                                    *)

GainEffect(s, t) ==
    /\ Sound(t) /\ Step(s, t, {"rep", "gainReg", "gain", "shadow", "faults", "err"}) /\ Kept(s, t)
    /\ HasDriver(s) => (t.err = "none" /\ t.rep = "off") \/ (t.err = "usb" /\ t.faults < s.faults)
    /\ ~HasDriver(s) => t = s

(* All three: the call q of the tuner between opening and closing.         *)
LEMMA GainBracket ==
    ASSUME NEW s, Sound(s), s.err = "none", HasDriver(s),
           NEW a \in OpenRepeater(s), NEW t,
           a.err = "none" =>
               \E q : /\ Sound(q) /\ Step(a, q, {"gainReg", "gain", "shadow", "faults", "err"}) /\ Kept(a, q)
                      /\ q.err = "none" \/ (q.err = "usb" /\ q.faults < a.faults)
                      /\ \E u \in CloseRepeater(Quiet(q)) : t = IF u.err = "none" THEN Fail(u, q.err) ELSE u,
           a.err # "none" => t = a
    PROVE  GainEffect(s, t)
<1>1. /\ Sound(a) /\ Step(s, a, {"rep", "faults", "err"}) /\ s.faults \in Nat
      /\ \/ (a.err = "none" /\ Clean(s, a))
         \/ (a.err = "usb" /\ a.faults < s.faults)
      BY OpeningSound DEF Sound, IsDev
<1>2. CASE a.err # "none"
      BY <1>1, <1>2 DEF GainEffect, Step, Fields, IsDev, Kept
<1>3. CASE a.err = "none"
  <2>1. PICK q : /\ Sound(q) /\ Step(a, q, {"gainReg", "gain", "shadow", "faults", "err"}) /\ Kept(a, q)
                 /\ q.err = "none" \/ (q.err = "usb" /\ q.faults < a.faults)
                 /\ \E u \in CloseRepeater(Quiet(q)) : t = IF u.err = "none" THEN Fail(u, q.err) ELSE u
        BY <1>3
  <2>2. /\ Sound(t) /\ Step(q, t, {"rep", "faults", "err"})
        /\ \/ (t.rep = "off" /\ t.err = q.err /\ Clean(q, t))
           \/ (t.err = "usb" /\ t.faults < q.faults)
        BY <2>1, BracketEnd
  <2>. QED
       BY <1>1, <2>1, <2>2 DEF GainEffect, Step, Fields, IsDev, Clean, Kept
<1>. QED
     BY <1>2, <1>3

(* The gain is cached where the tuner took it, before the repeater closes. *)
LEMMA TunerGainCached ==
    ASSUME NEW a, Sound(a), NEW g \in Gains, a.err = "none", NEW p \in TunerSetGain(a, g),
           NEW q, q = IF p.err = "none" THEN [p EXCEPT !.gain = g] ELSE p
    PROVE  /\ Sound(q) /\ Step(a, q, {"gainReg", "gain", "shadow", "faults", "err"}) /\ Kept(a, q)
           /\ q.err = "none" \/ (q.err = "usb" /\ q.faults < a.faults)
<1>1. /\ Step(a, p, {"gainReg", "shadow", "faults", "err"}) /\ Kept(a, p)
      /\ p.gainReg \in {a.gainReg, g, Garbled}
      /\ \/ (p.err = "none" /\ (p.shadow = "right" => p.gainReg = g))
         \/ (p.err = "usb" /\ p.faults < a.faults /\ p.shadow = "behind")
  <2>1. "gainReg" \in Fields /\ "gainReg" \notin {"faults", "err", "shadow"} /\ IsDev(a) /\ a.faults \in Nat
        BY DEF Fields, Sound, IsDev
  <2>2. /\ IsDev(p) /\ p["gainReg"] \in {a["gainReg"], g, Torn("gainReg")}
        /\ \A f \in Fields : f \notin {"gainReg", "faults", "err", "shadow"} => p[f] = a[f]
        /\ \/ (p.err = a.err /\ p.faults = a.faults /\ p.shadow = a.shadow
               /\ (a.shadow = "right" => p["gainReg"] = g))
           \/ (p.err = "usb" /\ p.faults < a.faults /\ p.shadow = "behind")
        BY <2>1, TunerWriting DEF TunerSetGain, IsDev
  <2>. QED
       BY <2>1, <2>2, ComputedTypes DEF Step, Clean, IsDev, Kept, Fields
<1>2. a.shadow \in {"right", "behind"} /\ g \in Gains \cup {Garbled} /\ a.gainReg \in Gains \cup {Garbled}
      BY DEF Sound, Typed
<1>3. CASE p.err = "none"
  <2>1. /\ Step(p, q, {"gain"}) /\ q.gain = g /\ q.err = "none"
        BY <1>1, <1>3 DEF IsDev, Step, Fields
  <2>2. Typed(q)
        BY <1>1, <1>2, <2>1 DEF Sound, Step, Typed, Fields, Kept
  <2>3. DriverSound(q)
        BY <1>1, <1>3, <2>1 DEF Sound, Step, DriverSound, HasDriver, get_tuner_xtal, Fields
  <2>4. Step(a, q, {"gainReg", "gain", "shadow", "faults", "err"}) /\ Kept(a, q)
        BY <1>1, <2>1 DEF Step, Fields, IsDev, Kept, Clean, Sound
  <2>. QED
       BY <2>1, <2>2, <2>3, <2>4 DEF Sound, Step
<1>4. CASE p.err # "none"
  <2>1. q = p /\ p.err = "usb" /\ p.faults < a.faults /\ p.shadow = "behind"
        BY <1>1, <1>4
  <2>2. Typed(p)
        BY <1>1, <1>2, <2>1 DEF Sound, Step, Typed, Fields
  <2>3. DriverSound(p)
        BY <1>1, <2>1 DEF Sound, Step, DriverSound, HasDriver, get_tuner_xtal, Fields
  <2>. QED
       BY <1>1, <2>1, <2>2, <2>3 DEF Sound, Step
<1>. QED
     BY <1>3, <1>4

LEMMA GainSound ==
    ASSUME NEW s, Sound(s), s.err = "none", NEW g \in Gains, NEW t \in set_tuner_gain(s, g)
    PROVE  GainEffect(s, t)
<1>1. CASE ~HasDriver(s)
  <2>1. t = s
        BY <1>1 DEF set_tuner_gain
  <2>. QED
       BY <1>1, <2>1 DEF GainEffect, Sound, Step, IsDev, Kept
<1>2. CASE HasDriver(s)
  <2>. DEFINE F(x) == {IF u.err = "none" THEN [u EXCEPT !.gain = g] ELSE u : u \in TunerSetGain(x, g)}
  <2>1. PICK a \in OpenRepeater(s) :
            t \in IF a.err = "none"
                  THEN UNION {{IF u.err = "none" THEN Fail(u, q.err) ELSE u :
                                   u \in CloseRepeater(Quiet(q))} : q \in F(a)}
                  ELSE {a}
        BY <1>2 DEF set_tuner_gain, Bracket, Then
  <2>2. Sound(a)
        BY OpeningSound
  <2>3. ASSUME a.err = "none"
        PROVE  \E q : /\ Sound(q) /\ Step(a, q, {"gainReg", "gain", "shadow", "faults", "err"}) /\ Kept(a, q)
                      /\ q.err = "none" \/ (q.err = "usb" /\ q.faults < a.faults)
                      /\ \E u \in CloseRepeater(Quiet(q)) : t = IF u.err = "none" THEN Fail(u, q.err) ELSE u
    <3>1. PICK p \in TunerSetGain(a, g), q \in F(a) :
              /\ q = IF p.err = "none" THEN [p EXCEPT !.gain = g] ELSE p
              /\ \E u \in CloseRepeater(Quiet(q)) : t = IF u.err = "none" THEN Fail(u, q.err) ELSE u
          BY <2>1, <2>3
    <3>2. /\ Sound(q) /\ Step(a, q, {"gainReg", "gain", "shadow", "faults", "err"}) /\ Kept(a, q)
          /\ q.err = "none" \/ (q.err = "usb" /\ q.faults < a.faults)
          BY <2>2, <2>3, <3>1, TunerGainCached
    <3>. QED
         BY <3>1, <3>2
  <2>4. a.err # "none" => t = a
        BY <2>1
  <2>. QED
       BY <1>2, <2>3, <2>4, GainBracket
<1>. QED
     BY <1>1, <1>2

LEMMA GainModeSound ==
    ASSUME NEW s, Sound(s), s.err = "none", NEW t \in set_tuner_gain_mode(s)
    PROVE  GainEffect(s, t)
<1>1. CASE ~HasDriver(s)
  <2>1. t = s
        BY <1>1 DEF set_tuner_gain_mode
  <2>. QED
       BY <1>1, <2>1 DEF GainEffect, Sound, Step, IsDev, Kept
<1>2. CASE HasDriver(s)
  <2>. DEFINE F(x) == {x} \cup TunerFaults(x, "gainReg", {x.gainReg})
  <2>1. PICK a \in OpenRepeater(s) :
            t \in IF a.err = "none"
                  THEN UNION {{IF u.err = "none" THEN Fail(u, q.err) ELSE u :
                                   u \in CloseRepeater(Quiet(q))} : q \in F(a)}
                  ELSE {a}
        BY <1>2 DEF set_tuner_gain_mode, Bracket, Then
  <2>2. Sound(a)
        BY OpeningSound
  <2>3. ASSUME a.err = "none"
        PROVE  \E q : /\ Sound(q) /\ Step(a, q, {"gainReg", "gain", "shadow", "faults", "err"}) /\ Kept(a, q)
                      /\ q.err = "none" \/ (q.err = "usb" /\ q.faults < a.faults)
                      /\ \E u \in CloseRepeater(Quiet(q)) : t = IF u.err = "none" THEN Fail(u, q.err) ELSE u
    <3>1. PICK q \in F(a) :
              \E u \in CloseRepeater(Quiet(q)) : t = IF u.err = "none" THEN Fail(u, q.err) ELSE u
          BY <2>1, <2>3
    <3>2. /\ Sound(q) /\ Step(a, q, {"gainReg", "gain", "shadow", "faults", "err"}) /\ Kept(a, q)
          /\ q.err = "none" \/ (q.err = "usb" /\ q.faults < a.faults)
      <4>1. CASE q = a
            BY <2>2, <2>3, <4>1 DEF Sound, IsDev, Step, Kept
      <4>2. CASE q \in TunerFaults(a, "gainReg", {a.gainReg})
        <5>0. "gainReg" \in Fields /\ "gainReg" \notin {"faults", "err", "shadow"} /\ IsDev(a) /\ a.faults \in Nat
              BY <2>2 DEF Fields, Sound, IsDev
        <5>1. /\ IsDev(q) /\ q.faults < a.faults /\ q.err = "usb" /\ q["gainReg"] \in {a.gainReg}
              /\ q.shadow = "behind"
              /\ \A f \in Fields : f \notin {"gainReg", "faults", "err", "shadow"} => q[f] = a[f]
              BY <4>2, <5>0, TunerFaulting DEF IsDev
        <5>2. Step(a, q, {"shadow", "faults", "err"}) /\ q.shadow = "behind" /\ Kept(a, q)
              BY <5>0, <5>1 DEF Step, Fields, IsDev, Kept, Clean
        <5>3. Sound(q)
              BY <2>2, <5>2, SameSound DEF Step, Sound, Typed, Fields
        <5>. QED
             BY <5>1, <5>2, <5>3 DEF Step
      <4>. QED
           BY <3>1, <4>1, <4>2
    <3>. QED
         BY <3>1, <3>2
  <2>4. a.err # "none" => t = a
        BY <2>1
  <2>. QED
       BY <1>2, <2>3, <2>4, GainBracket
<1>. QED
     BY <1>1, <1>2

LEMMA IfGainSound ==
    ASSUME NEW s, Sound(s), s.err = "none", NEW t \in set_tuner_if_gain(s)
    PROVE  GainEffect(s, t)
<1>1. CASE ~HasDriver(s)
  <2>1. t = s
        BY <1>1 DEF set_tuner_if_gain
  <2>. QED
       BY <1>1, <2>1 DEF GainEffect, Sound, Step, IsDev, Kept
<1>2. CASE HasDriver(s)
  <2>1. PICK a \in OpenRepeater(s) :
            t \in IF a.err = "none"
                  THEN UNION {{IF u.err = "none" THEN Fail(u, q.err) ELSE u :
                                   u \in CloseRepeater(Quiet(q))} : q \in {a}}
                  ELSE {a}
        BY <1>2 DEF set_tuner_if_gain, Bracket, Then
  <2>2. Sound(a)
        BY OpeningSound
  <2>3. ASSUME a.err = "none"
        PROVE  \E q : /\ Sound(q) /\ Step(a, q, {"gainReg", "gain", "shadow", "faults", "err"}) /\ Kept(a, q)
                      /\ q.err = "none" \/ (q.err = "usb" /\ q.faults < a.faults)
                      /\ \E u \in CloseRepeater(Quiet(q)) : t = IF u.err = "none" THEN Fail(u, q.err) ELSE u
    <3>1. \E u \in CloseRepeater(Quiet(a)) : t = IF u.err = "none" THEN Fail(u, a.err) ELSE u
          BY <2>1, <2>3
    <3>2. Step(a, a, {"gainReg", "gain", "shadow", "faults", "err"}) /\ Kept(a, a)
          BY <2>2 DEF Sound, IsDev, Step, Kept
    <3>. QED
         BY <2>2, <2>3, <3>1, <3>2
  <2>4. a.err # "none" => t = a
        BY <2>1
  <2>. QED
       BY <1>2, <2>3, <2>4, GainBracket
<1>. QED
     BY <1>1, <1>2

---------------------------------------------------------------------------
(* Corrections and crystals                                                *)

(* The properties as state predicates of any device.                       *)
Receives(s) == HasDriver(s) /\ s.ds = 0 => Follows(s)
RateTrue(s) ==
    HasDriver(s) /\ s.rate > 0 =>
        s.rate = real_rate(s.rtlXtal, s.ratio) /\ s.corrReg = CorrWord(s.corr)
FilterTrue(s) ==
    HasDriver(s) /\ s.ds = 0 /\ s.rate > 0 => s.filt \in {InitFilter, RateBandwidth(s)}
IfTrue(s) == HasDriver(s) => s.ifreg[2] = get_rtl_xtal(s)

RetuneErrors == {"none", "usb", "tuner", "noTuner"}

(* The trailing "if freq > 0, set_center_freq(freq)" of several calls.     *)
LEMMA RetuneCached ==
    ASSUME NEW s, Sound(s), s.err = "none",
           NEW t, t \in IF s.freq > 0 THEN set_center_freq(s, s.freq) ELSE {s}
    PROVE  /\ Sound(t) /\ Step(s, t, {"freq", "lo", "ifreg", "rep", "shadow", "faults", "err"})
           /\ t.err \in RetuneErrors /\ Kept(s, t) /\ IfKept(s, t)
           /\ HasDriver(s) /\ s.ds = 0 =>
                 /\ Clean(s, t) => t.ifreg = s.ifreg
                 /\ Trusted(s, t) => (t.freq > 0 => t.lo = <<t.freq + t.intFreq, t.drvXtal>>)
<1>1. s.freq \in Freqs \cup {0} /\ s.freq \in Nat
  <2>1. s.freq \in Freqs \cup {0}
        BY DEF Sound, Typed
  <2>. QED
       BY <2>1, ConstantTypes
<1>2. CASE s.freq > 0
  <2>1. s.freq \in Freqs
        BY <1>1, <1>2
  <2>2. SetCenterFreqEffect(s, s.freq, t)
        BY <1>2, <2>1, SetCenterFreqSound
  <2>3. /\ Sound(t) /\ Step(s, t, {"freq", "lo", "ifreg", "rep", "shadow", "faults", "err"})
        /\ t.err \in RetuneErrors /\ Kept(s, t) /\ IfKept(s, t)
        BY <2>2 DEF SetCenterFreqEffect, RetuneErrors
  <2>4. HasDriver(s) /\ s.ds = 0 =>
            /\ t.err \in {"none", "tuner", "usb"}
            /\ Clean(s, t) => t.ifreg = s.ifreg /\ t.freq = IF t.err = "none" THEN s.freq ELSE 0
            /\ Trusted(s, t) /\ t.err = "none" => t.lo = <<s.freq + s.intFreq, s.drvXtal>>
        BY <2>2 DEF SetCenterFreqEffect
  <2>5. t.intFreq = s.intFreq /\ t.drvXtal = s.drvXtal
        BY <2>3 DEF Step, Fields
  <2>6. HasDriver(s) /\ s.ds = 0 /\ Trusted(s, t) =>
            (t.freq > 0 => t.lo = <<t.freq + t.intFreq, t.drvXtal>>)
        BY <2>4, <2>5 DEF Trusted
  <2>. QED
       BY <2>3, <2>4, <2>6
<1>3. CASE ~(s.freq > 0)
  <2>1. t = s
        BY <1>3
  <2>. QED
       BY <1>1, <1>3, <2>1 DEF Sound, Step, IsDev, RetuneErrors, Kept, IfKept
<1>. QED
     BY <1>2, <1>3

LEMMA CorrectSound ==
    ASSUME NEW s, Sound(s), s.err = "none", NEW ppm \in Ppms, NEW t \in Correct(s, ppm)
    PROVE  /\ Sound(t) /\ Step(s, t, {"corrReg", "corr", "drvXtal", "faults", "err"})
           /\ \/ (t.err = "none" /\ Clean(s, t) /\ t.corrReg = CorrWord(t.corr))
              \/ (t.err = "usb" /\ t.faults < s.faults)
<1>1. PICK a \in WriteParts(s, "corrReg", CorrWord(ppm)) :
          t \in IF a.err = "none" THEN {SetXtal([a EXCEPT !.corr = ppm])} ELSE {a}
      BY DEF Correct, Then
<1>2. ppm \in Int /\ ppm \in Ppms \cup {0} /\ CorrWord(ppm) \in Int
      BY ConstantTypes, CorrWordType
<1>3. /\ Sound(a) /\ Step(s, a, {"corrReg", "faults", "err"})
      /\ \/ (a.corrReg = CorrWord(ppm) /\ a.err = "none" /\ Clean(s, a))
         \/ (a.err = "usb" /\ a.faults < s.faults)
      BY <1>2, CorrRegSound
<1>4. CASE a.err # "none"
      BY <1>1, <1>3, <1>4 DEF Step, Fields
<1>5. CASE a.err = "none"
  <2>1. PICK b : b = [a EXCEPT !.corr = ppm]
        OBVIOUS
  <2>2. t = SetXtal(b)
        BY <1>1, <1>5, <2>1
  <2>3. Step(a, b, {"corr"}) /\ b.corr = ppm /\ DOMAIN b = Fields
        BY <1>3, <2>1 DEF Sound, IsDev, Step, Fields
  <2>4. Step(a, t, {"corr", "drvXtal"}) /\ t.corr = ppm
        BY <1>3, <2>2, <2>3 DEF SetXtal, IsDev, Step, Fields
  <2>5. t.drvXtal = IF HasDriver(b) THEN <<a.tunXtal, ppm>> ELSE a.drvXtal
        BY <2>2, <2>3 DEF SetXtal, get_tuner_xtal, Step, Fields
  <2>6. (HasDriver(b) <=> HasDriver(t)) /\ get_tuner_xtal(t) = <<a.tunXtal, ppm>>
        BY <2>3, <2>4 DEF HasDriver, get_tuner_xtal, Step, Fields
  <2>7. t.drvXtal \in Nat \X Int
    <3>1. a.tunXtal \in Nat \ {0} /\ a.drvXtal \in Nat \X Int
          BY <1>3 DEF Sound, Typed
    <3>. QED
         BY <1>2, <2>5, <3>1
  <2>8. Typed(t)
        BY <1>2, <1>3, <2>4, <2>7 DEF Sound, Step, Typed, Fields
  <2>9. DriverSound(t)
        BY <1>3, <2>4, <2>5, <2>6 DEF Sound, Step, DriverSound, HasDriver, Fields
  <2>. QED
       BY <1>3, <1>5, <2>4, <2>8, <2>9 DEF Sound, Step, Fields, Clean
<1>. QED
     BY <1>4, <1>5

CorrectionEffect(s, ppm, t) ==
    /\ Sound(t)
    /\ Step(s, t, {"corrReg", "corr", "drvXtal", "freq", "lo", "ifreg", "rep", "shadow", "faults", "err"})
    /\ t.err \in RetuneErrors /\ Kept(s, t)
    /\ Trusted(s, t) => (Receives(s) => Receives(t))
    /\ Clean(s, t) => (RateTrue(s) => RateTrue(t))
    /\ FilterTrue(s) => FilterTrue(t)
    /\ s.corr = ppm => t = s

LEMMA FreqCorrectionSound ==
    ASSUME NEW s, Sound(s), s.err = "none", NEW ppm \in Ppms, NEW t \in set_freq_correction(s, ppm)
    PROVE  CorrectionEffect(s, ppm, t)
<1>1. CASE s.corr = ppm
  <2>1. t = s
        BY <1>1 DEF set_freq_correction
  <2>. QED
       BY <2>1 DEF CorrectionEffect, Sound, Step, IsDev, RetuneErrors, Kept
<1>2. CASE s.corr # ppm
  <2>1. PICK a \in Correct(s, ppm) :
            t \in IF a.err = "none"
                  THEN IF a.freq > 0 THEN set_center_freq(a, a.freq) ELSE {a}
                  ELSE {a}
        BY <1>2 DEF set_freq_correction, Then
  <2>2. /\ Sound(a) /\ Step(s, a, {"corrReg", "corr", "drvXtal", "faults", "err"}) /\ s.faults \in Nat
        /\ \/ (a.err = "none" /\ Clean(s, a) /\ a.corrReg = CorrWord(a.corr))
           \/ (a.err = "usb" /\ a.faults < s.faults)
        BY CorrectSound DEF Sound, IsDev
  <2>3. CASE a.err # "none"
    <3>1. t = a /\ ~Clean(s, t) /\ t.shadow = s.shadow /\ t.err = "usb"
          BY <2>1, <2>2, <2>3 DEF Step, Fields, Clean, IsDev
    <3>2. FilterTrue(s) => FilterTrue(t)
          BY <2>2, <3>1 DEF Step, Fields, FilterTrue, HasDriver, RateBandwidth
    <3>3. Step(s, t, {"corrReg", "corr", "drvXtal", "freq", "lo", "ifreg", "rep", "shadow", "faults", "err"})
          BY <2>2, <3>1 DEF Step
    <3>. QED
         BY <1>2, <2>2, <3>1, <3>2, <3>3 DEF CorrectionEffect, Trusted, Kept, RetuneErrors
  <2>4. CASE a.err = "none"
    <3>1. /\ Sound(t) /\ Step(a, t, {"freq", "lo", "ifreg", "rep", "shadow", "faults", "err"})
          /\ t.err \in RetuneErrors /\ Kept(a, t)
          /\ HasDriver(a) /\ a.ds = 0 =>
                /\ Clean(a, t) => t.ifreg = a.ifreg
                /\ Trusted(a, t) => (t.freq > 0 => t.lo = <<t.freq + t.intFreq, t.drvXtal>>)
          BY <2>1, <2>2, <2>4, RetuneCached
    <3>2. a.shadow = s.shadow /\ (Clean(s, t) => Clean(s, a) /\ Clean(a, t))
          BY <2>2, <3>1 DEF Step, Fields, IsDev, Clean
    <3>3. Trusted(s, t) => (Receives(s) => Receives(t))
          BY <2>2, <3>1, <3>2 DEF Step, Fields, Receives, Follows, HasDriver, Trusted
    <3>4. Clean(s, t) => (RateTrue(s) => RateTrue(t))
      <4>1. /\ t.rate = s.rate /\ t.rtlXtal = s.rtlXtal /\ t.ratio = s.ratio /\ t.chip = s.chip
            /\ t.corrReg = a.corrReg /\ t.corr = a.corr
            BY <2>2, <3>1 DEF Step, Fields
      <4>2. a.corrReg = CorrWord(a.corr)
            BY <2>2, <2>4
      <4>. QED
           BY <4>1, <4>2 DEF RateTrue, HasDriver
    <3>5. FilterTrue(s) => FilterTrue(t)
          BY <2>2, <3>1 DEF Step, Fields, FilterTrue, HasDriver, RateBandwidth
    <3>6. Step(s, t, {"corrReg", "corr", "drvXtal", "freq", "lo", "ifreg", "rep", "shadow", "faults", "err"})
          BY <2>2, <3>1 DEF Step, Fields, IsDev
    <3>7. Kept(s, t)
          BY <3>1, <3>2 DEF Kept
    <3>. QED
         BY <1>2, <3>1, <3>3, <3>4, <3>5, <3>6, <3>7 DEF CorrectionEffect
  <2>. QED
       BY <2>3, <2>4
<1>. QED
     BY <1>1, <1>2

(* The RTL side. The cached rate may not be valid, and is then refused     *)
(* before anything changed but the crystal, which is rolled back.          *)
RtlXtalEffect(s, t) ==
    /\ Sound(t)
    /\ Step(s, t, {"rtlXtal", "rate", "freq", "lo", "ifreg", "rep", "intFreq", "filt", "ratio",
                   "corrReg", "offs", "shadow", "faults", "err"})
    /\ HasDriver(s) =>
        \/ t = Fail(s, "invalid")
        \/ (t.err = "none" /\ Kept(s, t)
            /\ (Trusted(s, t) => (Receives(s) => Receives(t)) /\ (FilterTrue(s) => FilterTrue(t)))
            /\ (Clean(s, t) => /\ RateTrue(s) => RateTrue(t)
                               /\ s.rate # 0 => (IfTrue(s) => IfTrue(t))))
        \/ (t.err = "usb" /\ t.faults < s.faults)

LEMMA NewRtlXtal ==
    ASSUME NEW s, Sound(s), NEW x \in Nat \ {0}, NEW t, t = [s EXCEPT !.rtlXtal = x]
    PROVE  Sound(t) /\ Step(s, t, {"rtlXtal"}) /\ t.rtlXtal = x /\ Clean(s, t)
<1>1. Step(s, t, {"rtlXtal"}) /\ t.rtlXtal = x /\ Clean(s, t)
      BY DEF Sound, IsDev, Step, Fields, Clean
<1>2. Typed(t)
      BY <1>1 DEF Sound, Step, Typed, Fields
<1>3. DriverSound(t)
      BY <1>1 DEF Sound, Step, DriverSound, HasDriver, get_tuner_xtal, Fields
<1>. QED
     BY <1>1, <1>2, <1>3 DEF Sound, Step

LEMMA RtlXtalSound ==
    ASSUME NEW s, Sound(s), s.err = "none", NEW x \in Nat, NEW t \in SetRtlXtal(s, x)
    PROVE  RtlXtalEffect(s, t)
<1>1. CASE x = 0 \/ s.rtlXtal = x
  <2>1. t = s
        BY <1>1 DEF SetRtlXtal
  <2>. QED
       BY <2>1 DEF RtlXtalEffect, Sound, Step, IsDev, Kept
<1>2. CASE ~(x = 0 \/ s.rtlXtal = x)
  <2>1. PICK a : a = [s EXCEPT !.rtlXtal = x]
        OBVIOUS
  <2>2. x \in Nat \ {0} /\ s.faults \in Nat
        BY <1>2, ConstantTypes DEF Sound, IsDev
  <2>3. Sound(a) /\ Step(s, a, {"rtlXtal"}) /\ a.rtlXtal = x /\ Clean(s, a)
        BY <2>1, <2>2, NewRtlXtal
  <2>4. CASE s.rate = 0
    <3>1. t = a
          BY <1>2, <2>1, <2>4 DEF SetRtlXtal
    <3>2. /\ t.err = "none" /\ t.rate = 0 /\ t.shadow = s.shadow
          /\ Receives(s) => Receives(t)
          BY <2>3, <2>4, <3>1 DEF Step, Fields, Receives, Follows, HasDriver
    <3>3. FilterTrue(t) /\ RateTrue(t)
          BY <3>2 DEF FilterTrue, RateTrue
    <3>4. Step(s, t, {"rtlXtal", "rate", "freq", "lo", "ifreg", "rep", "intFreq", "filt", "ratio",
                      "corrReg", "offs", "shadow", "faults", "err"})
          BY <2>3, <3>1 DEF Step, Fields
    <3>. QED
         BY <2>3, <2>4, <3>1, <3>2, <3>3, <3>4 DEF RtlXtalEffect, Kept
  <2>5. CASE s.rate # 0
    <3>1. PICK u \in set_sample_rate(a, s.rate) :
              t = IF u.err = "none" THEN u ELSE [u EXCEPT !.rtlXtal = s.rtlXtal]
          BY <1>2, <2>1, <2>5 DEF SetRtlXtal
    <3>2. s.rate \in Nat \ {0} /\ s.rtlXtal \in Nat \ {0}
          BY <2>5 DEF Sound, Typed
    <3>3. a.err = "none" /\ (HasDriver(s) <=> HasDriver(a)) /\ a.ds = s.ds /\ a.shadow = s.shadow
          BY <2>3 DEF Step, Fields, HasDriver
    <3>4. SampleRateEffect(a, s.rate, u)
          BY <2>3, <3>2, <3>3, SampleRateSound
    <3>5. /\ Sound(u)
          /\ Step(a, u, {"rate", "freq", "lo", "ifreg", "rep", "intFreq", "filt", "ratio", "corrReg",
                         "offs", "shadow", "faults", "err"})
          /\ HasDriver(s) =>
               \/ u = Fail(a, "invalid")
               \/ (u.err = "none" /\ Kept(a, u)
                   /\ (Clean(a, u) => /\ u.rate = real_rate(u.rtlXtal, u.ratio)
                                      /\ u.corrReg = CorrWord(u.corr)
                                      /\ u.ifreg = <<u.intFreq, get_rtl_xtal(u)>>)
                   /\ (Trusted(a, u) => Follows(u) /\ u.filt = RateBandwidth(u)))
               \/ (u.err = "usb" /\ u.faults < a.faults)
          BY <3>3, <3>4 DEF SampleRateEffect
    <3>6. CASE u.err = "none"
      <4>1. t = u
            BY <3>1, <3>6
      <4>2. Step(s, t, {"rtlXtal", "rate", "freq", "lo", "ifreg", "rep", "intFreq", "filt", "ratio",
                        "corrReg", "offs", "shadow", "faults", "err"})
            BY <2>2, <2>3, <3>5, <4>1 DEF Step, Fields, IsDev
      <4>3. ASSUME HasDriver(s)
            PROVE  /\ Kept(a, t)
                   /\ Clean(a, t) => /\ t.rate = real_rate(t.rtlXtal, t.ratio)
                                     /\ t.corrReg = CorrWord(t.corr)
                                     /\ t.ifreg = <<t.intFreq, get_rtl_xtal(t)>>
                   /\ Trusted(a, t) => Follows(t) /\ t.filt = RateBandwidth(t)
        <5>1. u # Fail(a, "invalid")
          <6>1. Fail(a, "invalid").err = "invalid"
                BY <2>3, QuietSound
          <6>. QED
               BY <3>6, <6>1
        <5>. QED
             BY <3>5, <3>6, <4>1, <4>3, <5>1
      <4>4. ASSUME HasDriver(s)
            PROVE  /\ t.err = "none" /\ Kept(s, t)
                   /\ Trusted(s, t) => Receives(t) /\ FilterTrue(t)
        <5>1. Kept(s, t) /\ (Trusted(s, t) => Trusted(a, t))
              BY <2>3, <3>3, <4>3, <4>4 DEF Kept, Trusted, Clean
        <5>. QED
             BY <3>6, <4>1, <4>3, <4>4, <5>1 DEF Receives, FilterTrue
      <4>5. ASSUME HasDriver(s), Clean(s, t)
            PROVE  RateTrue(t) /\ IfTrue(t)
        <5>1. Clean(a, t)
              BY <2>3, <4>5 DEF Clean
        <5>2. t.ifreg[2] = get_rtl_xtal(t)
              BY <4>3, <4>5, <5>1
        <5>. QED
             BY <4>3, <4>5, <5>1, <5>2 DEF RateTrue, IfTrue
      <4>. QED
           BY <3>5, <4>1, <4>2, <4>4, <4>5 DEF RtlXtalEffect
    <3>7. CASE u.err # "none"
      <4>1. t = [u EXCEPT !.rtlXtal = s.rtlXtal]
            BY <3>1, <3>7
      <4>2. Sound(t) /\ Step(u, t, {"rtlXtal"}) /\ Clean(u, t)
            BY <3>2, <3>5, <4>1, NewRtlXtal
      <4>3. ASSUME HasDriver(s) PROVE t = Fail(s, "invalid") \/ (t.err = "usb" /\ t.faults < s.faults)
        <5>1. CASE u = Fail(a, "invalid")
              BY <2>1, <4>1, <5>1 DEF Fail, Sound, IsDev, Fields
        <5>2. CASE u.err = "usb" /\ u.faults < a.faults
              BY <2>2, <2>3, <4>2, <5>2 DEF Step, Fields, Clean
        <5>. QED
             BY <3>5, <3>7, <4>3, <5>1, <5>2
      <4>4. Step(s, t, {"rtlXtal", "rate", "freq", "lo", "ifreg", "rep", "intFreq", "filt", "ratio",
                        "corrReg", "offs", "shadow", "faults", "err"})
            BY <2>2, <2>3, <3>5, <4>2 DEF Step, Fields, IsDev
      <4>. QED
           BY <4>2, <4>3, <4>4 DEF RtlXtalEffect
    <3>. QED
         BY <3>6, <3>7
  <2>. QED
       BY <2>4, <2>5
<1>. QED
     BY <1>1, <1>2

(* Telling the driver its crystal repairs whatever it believed before.     *)
LEMMA TellDriver ==
    ASSUME NEW s, Sound(s), NEW x \in Nat \ {0}, NEW t, t = SetXtal([s EXCEPT !.tunXtal = x])
    PROVE  Sound(t) /\ Step(s, t, {"tunXtal", "drvXtal"}) /\ Clean(s, t) /\ t.err = s.err
<1>1. PICK b : b = [s EXCEPT !.tunXtal = x]
      OBVIOUS
<1>2. Step(s, b, {"tunXtal"}) /\ b.tunXtal = x /\ DOMAIN b = Fields /\ t = SetXtal(b)
      BY <1>1 DEF Sound, IsDev, Step, Fields
<1>3. Step(s, t, {"tunXtal", "drvXtal"}) /\ t.tunXtal = x /\ t.err = s.err /\ Clean(s, t)
  <2>1. CASE HasDriver(b)
    <3>1. t = [b EXCEPT !.drvXtal = get_tuner_xtal(b)]
          BY <1>2, <2>1 DEF SetXtal
    <3>. QED
         BY <1>2, <3>1 DEF IsDev, Step, Fields, Clean
  <2>2. CASE ~HasDriver(b)
    <3>1. t = b
          BY <1>2, <2>2 DEF SetXtal
    <3>. QED
         BY <1>2, <3>1 DEF IsDev, Step, Fields, Clean
  <2>. QED
       BY <2>1, <2>2
<1>4. HasDriver(t) => t.drvXtal = get_tuner_xtal(t)
      BY <1>2 DEF SetXtal, get_tuner_xtal, HasDriver, Fields
<1>5. Typed(t)
  <2>1. t.drvXtal = <<x, s.corr>> \/ t.drvXtal = s.drvXtal
    <3>1. get_tuner_xtal(b) = <<x, s.corr>> /\ b.drvXtal = s.drvXtal
          BY <1>2 DEF get_tuner_xtal, Step, Fields
    <3>2. t.drvXtal = get_tuner_xtal(b) \/ t = b
          BY <1>2 DEF SetXtal, Fields
    <3>. QED
         BY <3>1, <3>2
  <2>2. s.corr \in Int /\ s.drvXtal \in Nat \X Int
        BY CrystalTypes DEF Sound, Typed
  <2>3. t.drvXtal \in Nat \X Int
        BY <2>1, <2>2
  <2>. QED
       BY <1>3, <2>3 DEF Sound, Step, Typed, Fields
<1>6. DriverSound(t)
      BY <1>3, <1>4 DEF Sound, Step, DriverSound, HasDriver, Fields
<1>. QED
     BY <1>3, <1>5, <1>6 DEF Sound, Step

TunerXtalEffect(s, t) ==
    /\ Sound(t)
    /\ Step(s, t, {"tunXtal", "drvXtal", "freq", "lo", "ifreg", "rep", "shadow", "faults", "err"})
    /\ t.err \in RetuneErrors /\ Kept(s, t) /\ IfKept(s, t)
    /\ Trusted(s, t) => (Receives(s) => Receives(t))

LEMMA TunerXtalSound ==
    ASSUME NEW s, Sound(s), s.err = "none", NEW x \in Nat, NEW t \in SetTunerXtal(s, x)
    PROVE  TunerXtalEffect(s, t)
<1>. DEFINE new == IF x = 0 THEN s.rtlXtal ELSE x
<1>1. new \in Nat \ {0} /\ s.tunXtal \in Nat \ {0} /\ s.faults \in Nat
  <2>1. s.rtlXtal \in Nat \ {0} /\ s.tunXtal \in Nat \ {0} /\ s.faults \in Nat
        BY DEF Sound, Typed, IsDev
  <2>. QED
       BY <2>1, ConstantTypes
<1>. HIDE DEF new
<1>2. PICK a : a = SetXtal([s EXCEPT !.tunXtal = new])
      OBVIOUS
<1>3. Sound(a) /\ Step(s, a, {"tunXtal", "drvXtal"}) /\ Clean(s, a) /\ a.err = "none"
      BY <1>1, <1>2, TellDriver
<1>4. a.freq = s.freq
      BY <1>3 DEF Step, Fields
<1>5. CASE s.tunXtal = new
  <2>1. t = s
        BY <1>5 DEF SetTunerXtal, new
  <2>. QED
       BY <2>1 DEF TunerXtalEffect, Sound, Step, IsDev, RetuneErrors, Kept, IfKept
<1>6. CASE s.tunXtal # new
  <2>1. PICK u \in IF a.freq > 0 THEN set_center_freq(a, a.freq) ELSE {a} :
            t = IF u.err = "none" THEN u
                ELSE [SetXtal([u EXCEPT !.tunXtal = s.tunXtal]) EXCEPT !.err = u.err]
    <3>0. s.freq \in Nat
      <4>1. s.freq \in Freqs \cup {0}
            BY DEF Sound, Typed
      <4>. QED
           BY <4>1, ConstantTypes
    <3>1. CASE s.freq = 0
      <4>1. t = a
            BY <1>2, <1>6, <3>1 DEF SetTunerXtal, new
      <4>2. ~(a.freq > 0)
            BY <1>4, <3>1
      <4>. QED
           BY <1>3, <4>1, <4>2
    <3>2. CASE s.freq # 0
      <4>1. a.freq > 0
            BY <1>4, <3>0, <3>2
      <4>. QED
           BY <1>2, <1>6, <3>2, <4>1 DEF SetTunerXtal, new
    <3>. QED
         BY <3>1, <3>2
  <2>2. /\ Sound(u) /\ Step(a, u, {"freq", "lo", "ifreg", "rep", "shadow", "faults", "err"})
        /\ u.err \in RetuneErrors /\ Kept(a, u) /\ IfKept(a, u)
        /\ HasDriver(a) /\ a.ds = 0 =>
              /\ Clean(a, u) => u.ifreg = a.ifreg
              /\ Trusted(a, u) => (u.freq > 0 => u.lo = <<u.freq + u.intFreq, u.drvXtal>>)
        BY <1>3, RetuneCached
  <2>3. /\ Sound(t) /\ Step(u, t, {"tunXtal", "drvXtal"}) /\ Clean(u, t) /\ t.err = u.err
        /\ u.err = "none" => t.drvXtal = u.drvXtal
    <3>1. CASE u.err = "none"
      <4>1. t = u
            BY <2>1, <3>1
      <4>. QED
           BY <2>2, <4>1 DEF Sound, Step, IsDev, Clean
    <3>2. CASE u.err # "none"
      <4>1. PICK b : b = SetXtal([u EXCEPT !.tunXtal = s.tunXtal])
            OBVIOUS
      <4>2. Sound(b) /\ Step(u, b, {"tunXtal", "drvXtal"}) /\ Clean(u, b) /\ b.err = u.err
            BY <1>1, <2>2, <4>1, TellDriver
      <4>3. t = Fail(b, u.err)
            BY <2>1, <3>2, <4>1 DEF Fail
      <4>4. Sound(t) /\ Step(b, t, {"err"}) /\ t.err = u.err /\ Clean(b, t)
            BY <4>2, <4>3, FailAfter
      <4>. QED
           BY <3>2, <4>2, <4>4 DEF Step, Fields, Clean, IsDev
    <3>. QED
         BY <3>1, <3>2
  <2>4. (Clean(s, t) => Clean(a, u)) /\ (Trusted(s, t) => Trusted(a, u))
        BY <1>1, <1>3, <2>2, <2>3 DEF Step, IsDev, Clean, Trusted, Fields
  <2>5. ASSUME Trusted(s, t), Receives(s), HasDriver(t), t.ds = 0
        PROVE  Follows(t)
    <3>1. HasDriver(s) /\ s.ds = 0 /\ HasDriver(a) /\ a.ds = 0
          BY <1>3, <2>2, <2>3, <2>5 DEF HasDriver, Step, Fields
    <3>2. Follows(s) /\ Clean(a, u) /\ Trusted(a, u)
          BY <2>4, <2>5, <3>1 DEF Receives, Trusted
    <3>3. /\ t.ifreg = s.ifreg /\ t.intFreq = s.intFreq /\ t.intFreq = u.intFreq
          /\ t.lo = u.lo /\ t.freq = u.freq
          BY <1>3, <2>2, <2>3, <3>1, <3>2 DEF Step, Fields
    <3>4. CASE u.err = "none"
      <4>1. t.freq > 0 => t.lo = <<t.freq + t.intFreq, t.drvXtal>>
            BY <2>2, <2>3, <3>1, <3>2, <3>3, <3>4
      <4>. QED
           BY <3>2, <3>3, <4>1 DEF Follows
    <3>5. CASE u.err # "none"
      <4>1. u.freq = 0
        <5>1. CASE a.freq > 0
          <6>1. a.freq \in Freqs
            <7>1. a.freq \in Freqs \cup {0}
                  BY <1>3 DEF Sound, Typed
            <7>. QED
                 BY <5>1, <7>1
          <6>2. SetCenterFreqEffect(a, a.freq, u)
                BY <1>3, <2>1, <5>1, <6>1, SetCenterFreqSound
          <6>. QED
               BY <3>1, <3>2, <3>5, <6>2 DEF SetCenterFreqEffect
        <5>2. CASE ~(a.freq > 0)
          <6>1. u = a
                BY <2>1, <5>2
          <6>. QED
               BY <1>3, <3>5, <6>1
        <5>. QED
             BY <5>1, <5>2
      <4>. QED
           BY <3>2, <3>3, <4>1 DEF Follows
    <3>. QED
         BY <3>4, <3>5
  <2>6. Step(s, t, {"tunXtal", "drvXtal", "freq", "lo", "ifreg", "rep", "shadow", "faults", "err"})
        BY <1>1, <1>3, <2>2, <2>3 DEF Step, Fields, IsDev
  <2>7. Kept(s, t) /\ IfKept(s, t)
    <3>1. /\ t.ifreg = u.ifreg /\ a.ifreg = s.ifreg /\ t.shadow = u.shadow /\ a.shadow = s.shadow
          /\ t.rtlXtal = u.rtlXtal /\ t.corr = u.corr
          BY <1>3, <2>2, <2>3 DEF Step, Fields
    <3>2. get_rtl_xtal(t) = get_rtl_xtal(u)
          BY <3>1 DEF get_rtl_xtal
    <3>3. Kept(s, t)
          BY <2>2, <2>4, <3>1 DEF Kept
    <3>. QED
         BY <2>2, <2>4, <3>1, <3>2, <3>3 DEF IfKept
  <2>8. Trusted(s, t) => (Receives(s) => Receives(t))
        BY <2>5 DEF Receives
  <2>. QED
       BY <2>2, <2>3, <2>6, <2>7, <2>8 DEF TunerXtalEffect
<1>. QED
     BY <1>5, <1>6

XtalEffect(s, t) ==
    /\ Sound(t)
    /\ Step(s, t, {"rtlXtal", "tunXtal", "drvXtal", "rate", "freq", "lo", "ifreg", "rep", "intFreq",
                   "filt", "ratio", "corrReg", "offs", "shadow", "faults", "err"})
    /\ HasDriver(s) =>
        \/ t = Fail(s, "invalid")
        \/ (t.err \in RetuneErrors /\ Kept(s, t)
            /\ (Trusted(s, t) => (Receives(s) => Receives(t)) /\ (FilterTrue(s) => FilterTrue(t)))
            /\ (Clean(s, t) => /\ RateTrue(s) => RateTrue(t)
                               /\ s.rate # 0 => (IfTrue(s) => IfTrue(t))))
        \/ (t.err = "usb" /\ t.faults < s.faults)

LEMMA XtalSound ==
    ASSUME NEW s, Sound(s), s.err = "none", NEW x \in Nat, NEW y \in Nat,
           NEW t \in set_xtal_freq(s, x, y)
    PROVE  XtalEffect(s, t)
<1>1. CASE t = Fail(s, "invalid")
  <2>1. Sound(t) /\ Step(s, t, {"err"})
        BY <1>1, FailAfter
  <2>. QED
       BY <1>1, <2>1 DEF XtalEffect, Step
<1>2. CASE t \in Then(SetRtlXtal(s, x), LAMBDA u : SetTunerXtal(u, y))
  <2>1. PICK a \in SetRtlXtal(s, x) : t \in IF a.err = "none" THEN SetTunerXtal(a, y) ELSE {a}
        BY <1>2 DEF Then
  <2>2. RtlXtalEffect(s, a)
        BY RtlXtalSound
  <2>3. CASE a.err # "none"
    <3>1. t = a
          BY <2>1, <2>3
    <3>2. Step(s, t, {"rtlXtal", "tunXtal", "drvXtal", "rate", "freq", "lo", "ifreg", "rep", "intFreq",
                      "filt", "ratio", "corrReg", "offs", "shadow", "faults", "err"})
          BY <2>2, <3>1 DEF RtlXtalEffect, Step
    <3>. QED
         BY <2>2, <2>3, <3>1, <3>2 DEF RtlXtalEffect, XtalEffect
  <2>4. CASE a.err = "none"
    <3>1. /\ Sound(a) /\ s.faults \in Nat
          /\ Step(s, a, {"rtlXtal", "rate", "freq", "lo", "ifreg", "rep", "intFreq", "filt", "ratio",
                      "corrReg", "offs", "shadow", "faults", "err"})
          BY <2>2 DEF RtlXtalEffect, Sound, IsDev
    <3>2. TunerXtalEffect(a, t)
          BY <2>1, <2>4, <3>1, TunerXtalSound
    <3>3. /\ Sound(t) /\ t.err \in RetuneErrors /\ Kept(a, t) /\ IfKept(a, t)
          /\ Step(a, t, {"tunXtal", "drvXtal", "freq", "lo", "ifreg", "rep", "shadow", "faults", "err"})
          /\ Trusted(a, t) => (Receives(a) => Receives(t))
          BY <3>2 DEF TunerXtalEffect
    <3>4. Clean(s, t) => Clean(s, a) /\ Clean(a, t)
          BY <3>1, <3>3 DEF Step, IsDev, Clean
    <3>5. /\ RateTrue(a) => RateTrue(t)
          /\ FilterTrue(a) => FilterTrue(t)
          BY <3>3 DEF Step, Fields, RateTrue, FilterTrue, RateBandwidth, HasDriver
    <3>6. Step(s, t, {"rtlXtal", "tunXtal", "drvXtal", "rate", "freq", "lo", "ifreg", "rep", "intFreq",
                      "filt", "ratio", "corrReg", "offs", "shadow", "faults", "err"})
          BY <3>1, <3>3 DEF Step, Fields, IsDev
    <3>7. Clean(a, t) => (IfTrue(a) => IfTrue(t))
      <4>1. get_rtl_xtal(t) = get_rtl_xtal(a) /\ t.chip = a.chip
            BY <3>3 DEF get_rtl_xtal, Step, Fields
      <4>. QED
           BY <3>3, <4>1 DEF IfKept, IfTrue, HasDriver
    <3>8. ASSUME HasDriver(s), ~(t.err = "usb" /\ t.faults < s.faults)
          PROVE  /\ Kept(s, t)
                 /\ (Trusted(s, t) => (Receives(s) => Receives(t)) /\ (FilterTrue(s) => FilterTrue(t)))
                 /\ (Clean(s, t) => /\ RateTrue(s) => RateTrue(t)
                                    /\ s.rate # 0 => (IfTrue(s) => IfTrue(t)))
      <4>1. /\ Kept(s, a)
            /\ (Trusted(s, a) => (Receives(s) => Receives(a)) /\ (FilterTrue(s) => FilterTrue(a)))
            /\ (Clean(s, a) => /\ RateTrue(s) => RateTrue(a)
                               /\ s.rate # 0 => (IfTrue(s) => IfTrue(a)))
        <5>1. a # Fail(s, "invalid")
          <6>1. Fail(s, "invalid").err = "invalid"
                BY QuietSound
          <6>. QED
               BY <2>4, <6>1
        <5>2. a.err # "usb"
              BY <2>4
        <5>. QED
             BY <2>2, <3>8, <5>1, <5>2 DEF RtlXtalEffect
      <4>2. Trusted(s, t) => Trusted(s, a) /\ Trusted(a, t)
            BY <3>4, <4>1 DEF Trusted, Kept
      <4>3. Kept(s, t)
            BY <3>3, <3>4, <4>1 DEF Kept
      <4>. QED
           BY <3>3, <3>4, <3>5, <3>7, <4>1, <4>2, <4>3
    <3>. QED
         BY <3>3, <3>6, <3>8 DEF XtalEffect
  <2>. QED
       BY <2>3, <2>4
<1>. QED
     BY <1>1, <1>2 DEF set_xtal_freq

---------------------------------------------------------------------------
(* Direct sampling                                                         *)

(* A chain of writes that stops at the first fault, n of them to come when *)
(* it began, or at the tuner's refusal.                                    *)
UnderWay(n, s) ==
    Sound(s) /\ s.faults <= n /\ (s.err \in {"none", "tuner"} \/ (s.err = "usb" /\ s.faults < n))

(* t is s after a write of reg that is only tried where s has no error.    *)
After(s, reg, t) ==
    /\ Step(s, t, {reg, "faults", "err"})
    /\ t.err = "none" => s.err = "none"
    /\ t.err = "tuner" => s.err = "tuner"

LEMMA Chained ==
    ASSUME NEW n \in Nat, NEW s, UnderWay(n, s),
           NEW reg \in {"zeroIf", "inv", "iq", "swap"}, NEW v \in BOOLEAN,
           reg = "zeroIf" /\ HasDriver(s) => v = FALSE,
           NEW t, t \in IF s.err = "none" THEN Write(s, reg, v) ELSE {s}
    PROVE  UnderWay(n, t) /\ After(s, reg, t) /\ (t.err = "none" => t[reg] = v)
<1>1. Sound(s) /\ s.faults <= n /\ (s.err \in {"none", "tuner"} \/ (s.err = "usb" /\ s.faults < n))
      BY DEF UnderWay
<1>2. CASE s.err # "none"
  <2>1. t = s
        BY <1>2
  <2>. QED
       BY <1>1, <1>2, <2>1 DEF UnderWay, After, Step, Sound, IsDev
<1>3. CASE s.err = "none"
  <2>1. reg \in Fields /\ reg \notin {"faults", "err"} /\ t \in Write(s, reg, v) /\ IsDev(s)
        BY <1>1, <1>3 DEF Fields, Sound
  <2>2. /\ IsDev(t) /\ t[reg] \in {s[reg], v}
        /\ \A f \in Fields : f \notin {reg, "faults", "err"} => t[f] = s[f]
        /\ \/ (t[reg] = v /\ t.err = s.err /\ t.faults = s.faults)
           \/ (t.err = "usb" /\ t.faults < s.faults /\ t.faults \in Nat)
        BY <2>1, Writing
  <2>3. \A f \in {"inv", "zeroIf", "iq", "swap"} : t[f] = s[f] \/ (f = reg /\ t[f] = v)
        BY <2>2 DEF Fields
  <2>4. s.inv \in BOOLEAN /\ s.zeroIf \in BOOLEAN /\ s.iq \in BOOLEAN /\ s.swap \in BOOLEAN
        BY <1>1 DEF Sound, Typed
  <2>5. t.inv \in BOOLEAN /\ t.zeroIf \in BOOLEAN /\ t.iq \in BOOLEAN /\ t.swap \in BOOLEAN
        BY <2>3, <2>4
  <2>6. Typed(t)
        BY <1>1, <2>2, <2>5 DEF Sound, Typed, Fields
  <2>7. DriverSound(t)
        BY <1>1, <2>2, <2>3 DEF Sound, DriverSound, HasDriver, get_tuner_xtal, Fields
  <2>8. s.faults \in Nat /\ t.faults <= s.faults
        BY <2>1, <2>2 DEF IsDev
  <2>9. Step(s, t, {reg, "faults", "err"})
        BY <2>2, <2>8 DEF Step
  <2>10. UnderWay(n, t)
        BY <1>1, <1>3, <2>2, <2>6, <2>7, <2>8 DEF UnderWay, Sound, IsDev
  <2>11. t.err = "none" => t[reg] = v
        BY <1>3, <2>2
  <2>. QED
       BY <1>3, <2>2, <2>9, <2>10, <2>11 DEF After
<1>. QED
     BY <1>2, <1>3

LEMMA TunerExitSound ==
    ASSUME NEW s, Sound(s), NEW t \in TunerExit(s)
    PROVE  /\ Sound(t) /\ Step(s, t, {"standby", "gainReg", "filt", "shadow", "faults", "err"})
           /\ \/ ((s.shadow = "right" => t.standby = TRUE) /\ t.shadow = s.shadow
                  /\ t.err = s.err /\ Clean(s, t))
              \/ (t.err = "usb" /\ t.faults < s.faults)
<1>. DEFINE half == [Asleep(s) EXCEPT !.filt = Garbled]
            Others == {"standby", "gainReg", "filt", "shadow", "faults", "err"}
<1>1. /\ IsDev(s) /\ s.standby \in BOOLEAN /\ s.filt \in Int /\ s.gainReg \in Gains \cup {Garbled}
      /\ "standby" \in Fields /\ "standby" \notin {"faults", "err", "shadow"} /\ s.faults \in Nat
      /\ s.shadow \in {"right", "behind"}
      BY DEF Sound, Typed, Fields, IsDev
<1>2. AsleepFilter(s.filt) \in {s.filt, Garbled}
      BY DEF AsleepFilter
<1>3. /\ Step(s, Asleep(s), {"standby", "gainReg", "filt"}) /\ Asleep(s).standby = TRUE
      /\ Asleep(s).gainReg = Garbled /\ Asleep(s).filt = AsleepFilter(s.filt) /\ IsDev(Asleep(s))
      BY <1>1 DEF Asleep, IsDev, Step, Fields
<1>4. /\ Step(s, half, {"standby", "gainReg", "filt"}) /\ IsDev(half)
      /\ half.gainReg = Garbled /\ half.filt = Garbled
      BY <1>1 DEF Asleep, IsDev, Step, Fields
<1>. HIDE DEF half
<1>5. /\ Step(s, t, Others) /\ t.standby \in BOOLEAN /\ t.gainReg \in {s.gainReg, Garbled}
      /\ t.filt \in {s.filt, Garbled} /\ t.shadow \in {s.shadow, "behind"}
      /\ \/ ((s.shadow = "right" => t.standby = TRUE) /\ t.shadow = s.shadow
             /\ t.err = s.err /\ Clean(s, t))
         \/ (t.err = "usb" /\ t.faults < s.faults)
  <2>1. CASE t = Asleep(s)
        BY <1>2, <1>3, <2>1 DEF Step, Fields, Clean
  <2>2. CASE s.shadow # "right" /\ \E b \in BOOLEAN : t = [half EXCEPT !.standby = b]
    <3>1. PICK b \in BOOLEAN : t = [half EXCEPT !.standby = b]
          BY <2>2
    <3>2. Step(half, t, {"standby"}) /\ t.standby = b
          BY <1>4, <3>1 DEF IsDev, Step, Fields
    <3>. QED
         BY <1>4, <2>2, <3>2 DEF Step, Fields, IsDev, Clean
  <2>3. CASE t \in TunerFaults(s, "standby", {s.standby})
    <3>1. /\ IsDev(t) /\ t.faults < s.faults /\ t.err = "usb" /\ t["standby"] \in {s.standby}
          /\ t.shadow = "behind"
          /\ \A g \in Fields : g \notin {"standby", "faults", "err", "shadow"} => t[g] = s[g]
          BY <1>1, <2>3, TunerFaulting DEF IsDev
    <3>. QED
         BY <1>1, <3>1 DEF Step, Fields, IsDev
  <2>4. CASE t \in TunerFaults(half, "standby", BOOLEAN)
    <3>1. /\ IsDev(t) /\ t.faults < half.faults /\ t.err = "usb" /\ t["standby"] \in BOOLEAN
          /\ t.shadow = "behind"
          /\ \A g \in Fields : g \notin {"standby", "faults", "err", "shadow"} => t[g] = half[g]
          BY <1>1, <1>4, <2>4, TunerFaulting DEF IsDev
    <3>2. t.gainReg = Garbled /\ t.filt = Garbled /\ half.faults = s.faults
          BY <1>4, <3>1 DEF Fields, Step
    <3>. QED
         BY <1>1, <1>4, <3>1, <3>2 DEF Step, Fields, IsDev
  <2>. QED
       BY <1>1, <2>1, <2>2, <2>3, <2>4 DEF TunerExit, half
<1>6. t.filt \in Int /\ t.shadow \in {"right", "behind"}
      BY <1>1, <1>5, ComputedTypes
<1>7. Typed(t)
      BY <1>5, <1>6 DEF Sound, Step, Typed, Fields
<1>8. DriverSound(t)
      BY <1>5 DEF Sound, Step, DriverSound, HasDriver, get_tuner_xtal, Fields
<1>. QED
     BY <1>5, <1>7, <1>8 DEF Sound, Step

(* How far init came before a transfer failed, from the device mid.        *)
LEMMA InitStopped ==
    ASSUME NEW s, IsDev(s), NEW mid, IsDev(mid), NEW Others,
           Step(s, mid, Others), {"standby", "shadow", "faults", "err"} \subseteq Others,
           NEW V, V \subseteq BOOLEAN, NEW t \in TunerFaults(mid, "standby", V)
    PROVE  /\ Step(s, t, Others) /\ t.standby \in BOOLEAN /\ t.shadow = "behind"
           /\ t.filt = mid.filt /\ t.gainReg = mid.gainReg /\ t.lo = mid.lo /\ t.intFreq = mid.intFreq
           /\ t.err = "usb" /\ t.faults < s.faults
<1>1. "standby" \in Fields /\ "standby" \notin {"faults", "err", "shadow"}
      BY DEF Fields
<1>2. /\ IsDev(t) /\ t.faults < mid.faults /\ t.err = "usb" /\ t["standby"] \in V
      /\ t.shadow = "behind"
      /\ \A g \in Fields : g \notin {"standby", "faults", "err", "shadow"} => t[g] = mid[g]
      BY <1>1, TunerFaulting DEF IsDev
<1>3. t.filt = mid.filt /\ t.gainReg = mid.gainReg /\ t.lo = mid.lo /\ t.intFreq = mid.intFreq
      BY <1>2 DEF Fields
<1>4. mid.faults <= s.faults /\ s.faults \in Nat /\ mid.faults \in Nat /\ t.faults \in Nat
      BY <1>2 DEF Step, IsDev
<1>5. \A g \in Fields : g \notin Others => t[g] = s[g]
      BY <1>2 DEF Step
<1>. QED
     BY <1>2, <1>3, <1>4, <1>5 DEF Step

LEMMA TunerInitSound ==
    ASSUME NEW s, Sound(s), NEW t \in TunerInit(s)
    PROVE  /\ Sound(t)
           /\ Step(s, t, {"standby", "filt", "gainReg", "lo", "intFreq", "shadow", "faults", "err"})
           /\ \/ (t.standby = FALSE /\ t.filt = InitFilter /\ t.intFreq = R82XX_IF_FREQ
                  /\ t.shadow = "right" /\ t.err = s.err /\ Clean(s, t))
              \/ (t.err = "tuner" /\ Clean(s, t))
              \/ (t.err = "usb" /\ t.faults < s.faults)
<1>. DEFINE half == [s EXCEPT !.filt = Garbled, !.gainReg = Garbled, !.lo = Torn("lo")]
            table == [half EXCEPT !.standby = FALSE, !.shadow = "right"]
            tv == [table EXCEPT !.intFreq = R82XX_IF_FREQ]
            ready == [tv EXCEPT !.filt = InitFilter, !.lo = <<CalibrationLo, s.drvXtal>>]
            Others == {"standby", "filt", "gainReg", "lo", "intFreq", "shadow", "faults", "err"}
<1>0. R82XX_IF_FREQ \in Nat /\ CalibrationLo \in Int /\ Garbled \in Int /\ InitFilter \in Int
      BY SMT DEF R82XX_IF_FREQ, CalibrationLo, Garbled, InitFilter
<1>1. /\ IsDev(s) /\ s.lo \in Computed /\ s.intFreq \in Nat /\ s.filt \in Int
      /\ s.standby \in BOOLEAN /\ s.gainReg \in Gains \cup {Garbled} /\ s.drvXtal \in Nat \X Int
      /\ s.shadow \in {"right", "behind"} /\ s.faults \in Nat
      BY DEF Sound, Typed, IsDev
<1>2. /\ Step(s, half, Others) /\ IsDev(half) /\ half.filt = Garbled /\ half.gainReg = Garbled
      /\ half.lo = Torn("lo") /\ half.standby = s.standby /\ half.shadow = s.shadow
      /\ half.intFreq = s.intFreq /\ half.err = s.err /\ Clean(s, half)
      BY <1>1 DEF IsDev, Step, Fields, Clean
<1>. HIDE DEF half
<1>3. /\ Step(s, table, Others) /\ IsDev(table) /\ table.standby = FALSE
      /\ table.filt = Garbled /\ table.gainReg = Garbled /\ table.lo = Torn("lo")
      /\ table.shadow = "right" /\ table.intFreq = s.intFreq /\ table.err = s.err /\ Clean(s, table)
      BY <1>2 DEF IsDev, Step, Fields, Clean
<1>. HIDE DEF table
<1>4. /\ Step(s, tv, Others) /\ IsDev(tv) /\ tv.standby = FALSE
      /\ tv.filt = Garbled /\ tv.gainReg = Garbled /\ tv.lo = Torn("lo") /\ tv.shadow = "right"
      /\ tv.intFreq = R82XX_IF_FREQ /\ tv.err = s.err /\ Clean(s, tv)
      BY <1>3 DEF IsDev, Step, Fields, Clean
<1>. HIDE DEF tv
<1>5. CASE t \in {ready, Fail(tv, "tuner")}
  <2>1. /\ Step(s, t, Others) /\ t.standby = FALSE /\ t.filt \in {InitFilter, Garbled}
        /\ t.gainReg = Garbled /\ t.lo \in {<<CalibrationLo, s.drvXtal>>, Torn("lo")}
        /\ t.intFreq = R82XX_IF_FREQ /\ t.shadow = "right" /\ Clean(s, t)
        /\ (t.err = s.err /\ t.filt = InitFilter) \/ t.err = "tuner"
    <3>1. CASE t = ready
          BY <1>4, <3>1 DEF IsDev, Step, Fields, Clean
    <3>2. CASE t = Fail(tv, "tuner")
          BY <1>4, <3>2 DEF Fail, IsDev, Step, Fields, Clean
    <3>. QED
         BY <1>5, <3>1, <3>2
  <2>2. t.lo \in Computed /\ t.filt \in Int /\ t.intFreq \in Nat
    <3>1. <<CalibrationLo, s.drvXtal>> \in Computed /\ Torn("lo") \in Computed
          BY <1>0, <1>1, ComputedTypes
    <3>. QED
         BY <1>0, <2>1, <3>1
  <2>3. Typed(t)
        BY <2>1, <2>2 DEF Sound, Step, Typed, Fields
  <2>4. DriverSound(t)
        BY <2>1 DEF Sound, Step, DriverSound, HasDriver, get_tuner_xtal, Fields
  <2>. QED
       BY <2>1, <2>3, <2>4 DEF Sound, Step
<1>6. ASSUME Step(s, t, Others), t.standby \in BOOLEAN, t.shadow = "behind",
             t.filt \in {s.filt, Garbled}, t.gainReg \in {s.gainReg, Garbled},
             t.lo \in {s.lo, Torn("lo")}, t.intFreq \in {s.intFreq, R82XX_IF_FREQ}
      PROVE  Sound(t)
  <2>1. t.lo \in Computed /\ t.filt \in Int /\ t.intFreq \in Nat
        BY <1>0, <1>1, <1>6, ComputedTypes
  <2>2. Typed(t)
        BY <1>6, <2>1 DEF Sound, Step, Typed, Fields
  <2>3. DriverSound(t)
        BY <1>6 DEF Sound, Step, DriverSound, HasDriver, get_tuner_xtal, Fields
  <2>. QED
       BY <1>6, <2>2, <2>3 DEF Sound, Step
<1>7. CASE t \in TunerFaults(s, "lo", {s.lo})
  <2>0. "lo" \in Fields /\ "lo" \notin {"faults", "err", "shadow"}
        BY DEF Fields
  <2>1. /\ IsDev(t) /\ t.faults < s.faults /\ t.err = "usb" /\ t["lo"] \in {s.lo}
        /\ t.shadow = "behind"
        /\ \A g \in Fields : g \notin {"lo", "faults", "err", "shadow"} => t[g] = s[g]
        BY <1>1, <1>7, <2>0, TunerFaulting DEF IsDev
  <2>2. Step(s, t, Others)
        BY <1>1, <2>1 DEF Step, IsDev
  <2>3. /\ t.standby = s.standby /\ t.filt = s.filt /\ t.gainReg = s.gainReg /\ t.lo = s.lo
        /\ t.intFreq = s.intFreq
        BY <2>1 DEF Fields
  <2>. QED
       BY <1>1, <1>6, <2>1, <2>2, <2>3
<1>8. CASE \E mid \in {half, table, tv} : \E V \in SUBSET BOOLEAN : t \in TunerFaults(mid, "standby", V)
  <2>1. PICK mid \in {half, table, tv}, V \in SUBSET BOOLEAN : t \in TunerFaults(mid, "standby", V)
        BY <1>8
  <2>2. /\ IsDev(mid) /\ Step(s, mid, Others) /\ mid.filt = Garbled /\ mid.gainReg = Garbled
        /\ mid.lo = Torn("lo") /\ mid.intFreq \in {s.intFreq, R82XX_IF_FREQ}
        BY <1>2, <1>3, <1>4
  <2>3. /\ Step(s, t, Others) /\ t.standby \in BOOLEAN /\ t.shadow = "behind"
        /\ t.filt = mid.filt /\ t.gainReg = mid.gainReg /\ t.lo = mid.lo /\ t.intFreq = mid.intFreq
        /\ t.err = "usb" /\ t.faults < s.faults
        BY <1>1, <2>1, <2>2, InitStopped
  <2>. QED
       BY <1>6, <2>2, <2>3
<1>9. \/ t \in {ready, Fail(tv, "tuner")} \/ t \in TunerFaults(s, "lo", {s.lo})
      \/ t \in TunerFaults(half, "standby", BOOLEAN) \/ t \in TunerFaults(table, "standby", {FALSE})
      \/ t \in TunerFaults(tv, "standby", {FALSE})
      BY DEF TunerInit, half, table, tv
<1>. HIDE DEF ready
<1>. QED
     BY <1>5, <1>7, <1>8, <1>9

(* Repeater on?, tuner.exit or tuner.init?, repeater off.                  *)
LEMMA TunerOff ==
    ASSUME NEW s, Sound(s), s.err = "none",
           NEW t \in Then(Then(OpenRepeater(s), TunerExit), CloseRepeater)
    PROVE  /\ Sound(t) /\ Step(s, t, {"rep", "standby", "gainReg", "filt", "shadow", "faults", "err"})
           /\ \/ ((s.shadow = "right" => t.standby = TRUE) /\ t.shadow = s.shadow
                  /\ t.err = "none" /\ Clean(s, t))
              \/ (t.err = "usb" /\ t.faults < s.faults)
<1>1. PICK b \in Then(OpenRepeater(s), TunerExit) : t \in IF b.err = "none" THEN CloseRepeater(b) ELSE {b}
      BY DEF Then
<1>2. PICK a \in OpenRepeater(s) : b \in IF a.err = "none" THEN TunerExit(a) ELSE {a}
      BY <1>1 DEF Then
<1>3. /\ Sound(a) /\ Step(s, a, {"rep", "faults", "err"}) /\ s.faults \in Nat
      /\ \/ (a.err = "none" /\ Clean(s, a))
         \/ (a.err = "usb" /\ a.faults < s.faults)
      BY OpeningSound DEF Sound, IsDev
<1>4. /\ Sound(b) /\ Step(s, b, {"rep", "standby", "gainReg", "filt", "shadow", "faults", "err"})
      /\ \/ ((s.shadow = "right" => b.standby = TRUE) /\ b.shadow = s.shadow
             /\ b.err = "none" /\ Clean(s, b))
         \/ (b.err = "usb" /\ b.faults < s.faults)
  <2>1. CASE a.err = "none"
    <3>1. /\ Sound(b) /\ Step(a, b, {"standby", "gainReg", "filt", "shadow", "faults", "err"})
          /\ \/ ((a.shadow = "right" => b.standby = TRUE) /\ b.shadow = a.shadow
                 /\ b.err = a.err /\ Clean(a, b))
             \/ (b.err = "usb" /\ b.faults < a.faults)
          BY <1>2, <1>3, <2>1, TunerExitSound
    <3>. QED
         BY <1>3, <2>1, <3>1 DEF Step, Fields, IsDev, Clean
  <2>2. CASE a.err # "none"
        BY <1>2, <1>3, <2>2 DEF Step, Fields
  <2>. QED
       BY <2>1, <2>2
<1>5. CASE b.err = "none"
  <2>1. /\ Sound(t) /\ Step(b, t, {"rep", "faults", "err"})
        /\ \/ (t.rep = "off" /\ t.err = b.err /\ Clean(b, t))
           \/ (t.err = "usb" /\ t.faults < b.faults)
        BY <1>1, <1>4, <1>5, ClosingSound
  <2>. QED
       BY <1>3, <1>4, <1>5, <2>1 DEF Step, Fields, IsDev, Clean
<1>6. CASE b.err # "none"
      BY <1>1, <1>4, <1>6
<1>. QED
     BY <1>5, <1>6

LEMMA TunerOn ==
    ASSUME NEW s, Sound(s), s.err = "none",
           NEW t \in Then(Then(OpenRepeater(s), TunerInit), CloseRepeater)
    PROVE  /\ Sound(t)
           /\ Step(s, t, {"rep", "standby", "filt", "gainReg", "lo", "intFreq", "shadow", "faults", "err"})
           /\ \/ (t.standby = FALSE /\ t.filt = InitFilter /\ t.intFreq = R82XX_IF_FREQ
                  /\ t.shadow = "right" /\ t.err = "none" /\ Clean(s, t))
              \/ t.err = "tuner"
              \/ (t.err = "usb" /\ t.faults < s.faults)
<1>1. PICK b \in Then(OpenRepeater(s), TunerInit) : t \in IF b.err = "none" THEN CloseRepeater(b) ELSE {b}
      BY DEF Then
<1>2. PICK a \in OpenRepeater(s) : b \in IF a.err = "none" THEN TunerInit(a) ELSE {a}
      BY <1>1 DEF Then
<1>3. /\ Sound(a) /\ Step(s, a, {"rep", "faults", "err"}) /\ s.faults \in Nat
      /\ \/ (a.err = "none" /\ Clean(s, a))
         \/ (a.err = "usb" /\ a.faults < s.faults)
      BY OpeningSound DEF Sound, IsDev
<1>4. /\ Sound(b)
      /\ Step(s, b, {"rep", "standby", "filt", "gainReg", "lo", "intFreq", "shadow", "faults", "err"})
      /\ \/ (b.standby = FALSE /\ b.filt = InitFilter /\ b.intFreq = R82XX_IF_FREQ
             /\ b.shadow = "right" /\ b.err = "none" /\ Clean(s, b))
         \/ b.err = "tuner"
         \/ (b.err = "usb" /\ b.faults < s.faults)
  <2>1. CASE a.err = "none"
    <3>1. /\ Sound(b)
          /\ Step(a, b, {"standby", "filt", "gainReg", "lo", "intFreq", "shadow", "faults", "err"})
          /\ \/ (b.standby = FALSE /\ b.filt = InitFilter /\ b.intFreq = R82XX_IF_FREQ
                 /\ b.shadow = "right" /\ b.err = a.err /\ Clean(a, b))
             \/ (b.err = "tuner" /\ Clean(a, b))
             \/ (b.err = "usb" /\ b.faults < a.faults)
          BY <1>2, <1>3, <2>1, TunerInitSound
    <3>2. Step(s, b, {"rep", "standby", "filt", "gainReg", "lo", "intFreq", "shadow", "faults", "err"})
          BY <1>3, <3>1 DEF Step, Fields, IsDev
    <3>. QED
         BY <1>3, <2>1, <3>1, <3>2 DEF Step, IsDev, Clean
  <2>2. CASE a.err # "none"
        BY <1>2, <1>3, <2>2 DEF Step, Fields
  <2>. QED
       BY <2>1, <2>2
<1>5. CASE b.err = "none"
  <2>1. /\ Sound(t) /\ Step(b, t, {"rep", "faults", "err"})
        /\ \/ (t.rep = "off" /\ t.err = b.err /\ Clean(b, t))
           \/ (t.err = "usb" /\ t.faults < b.faults)
        BY <1>1, <1>4, <1>5, ClosingSound
  <2>. QED
       BY <1>3, <1>4, <1>5, <2>1 DEF Step, Fields, IsDev, Clean
<1>6. CASE b.err # "none"
      BY <1>1, <1>4, <1>6
<1>. QED
     BY <1>5, <1>6

(* The tuner, the spectrum inversion and the ADC datapath are in mode ds.  *)
Mode(s) == HasDriver(s) => s.standby = (s.ds # 0) /\ s.inv = (s.ds = 0) /\ s.swap = (s.ds = 2)

(* The last step of both changes of mode.                                  *)
LEMMA NewMode ==
    ASSUME NEW s, Sound(s), NEW on \in 0..2, NEW t, t = [s EXCEPT !.ds = on]
    PROVE  Sound(t) /\ Step(s, t, {"ds"}) /\ t.ds = on /\ Clean(s, t) /\ t.err = s.err
<1>1. Step(s, t, {"ds"}) /\ t.ds = on /\ Clean(s, t) /\ t.err = s.err
      BY DEF Sound, IsDev, Step, Fields, Clean
<1>2. Typed(t)
      BY <1>1 DEF Sound, Step, Typed, Fields
<1>3. DriverSound(t)
      BY <1>1 DEF Sound, Step, DriverSound, HasDriver, get_tuner_xtal, Fields
<1>. QED
     BY <1>1, <1>2, <1>3 DEF Sound, Step

DirectEffect(s, on, t) ==
    /\ Sound(t)
    /\ Step(s, t, {"rep", "standby", "gainReg", "filt", "shadow", "zeroIf", "inv", "iq", "swap", "ds",
                   "faults", "err"})
    /\ \/ (t.err = "none" /\ t.ds = on
           /\ (HasDriver(s) => t.shadow = s.shadow /\ (s.shadow = "right" => Mode(t))))
       \/ (t.err = "usb" /\ t.faults < s.faults)

LEMMA ToDirectSound ==
    ASSUME NEW s, Sound(s), s.err = "none", NEW on \in 1..2, NEW t \in ToDirect(s, on)
    PROVE  DirectEffect(s, on, t)
<1>. DEFINE tuner == IF HasDriver(s)
                     THEN Then(Then(OpenRepeater(s), TunerExit), CloseRepeater) ELSE {s}
            zif == Then(tuner, LAMBDA x : Write(x, "zeroIf", FALSE))
            inv == Then(zif, LAMBDA x : Write(x, "inv", FALSE))
            iq == Then(inv, LAMBDA x : Write(x, "iq", FALSE))
            swap == Then(iq, LAMBDA x : Write(x, "swap", on > 1))
<1>0. t \in Then(swap, LAMBDA x : {[x EXCEPT !.ds = on]})
      BY DEF ToDirect
<1>1. PICK e \in swap : t \in IF e.err = "none" THEN {[e EXCEPT !.ds = on]} ELSE {e}
  <2>. HIDE DEF swap
  <2>. QED
       BY <1>0 DEF Then
<1>2. PICK d \in iq : e \in IF d.err = "none" THEN Write(d, "swap", on > 1) ELSE {d}
  <2>. HIDE DEF iq
  <2>. QED
       BY <1>1 DEF Then
<1>3. PICK c \in inv : d \in IF c.err = "none" THEN Write(c, "iq", FALSE) ELSE {c}
  <2>. HIDE DEF inv
  <2>. QED
       BY <1>2 DEF Then
<1>4. PICK b \in zif : c \in IF b.err = "none" THEN Write(b, "inv", FALSE) ELSE {b}
  <2>. HIDE DEF zif
  <2>. QED
       BY <1>3 DEF Then
<1>5. PICK a \in tuner : b \in IF a.err = "none" THEN Write(a, "zeroIf", FALSE) ELSE {a}
  <2>. HIDE DEF tuner
  <2>. QED
       BY <1>4 DEF Then
<1>6. /\ Sound(a) /\ s.faults \in Nat
      /\ Step(s, a, {"rep", "standby", "gainReg", "filt", "shadow", "faults", "err"})
      /\ \/ ((HasDriver(s) => a.shadow = s.shadow /\ (s.shadow = "right" => a.standby = TRUE))
             /\ a.err = "none" /\ Clean(s, a))
         \/ (a.err = "usb" /\ a.faults < s.faults)
  <2>1. CASE HasDriver(s)
        BY <2>1, TunerOff DEF Sound, IsDev
  <2>2. CASE ~HasDriver(s)
        BY <2>2 DEF Sound, IsDev, Step, Clean
  <2>. QED
       BY <2>1, <2>2
<1>. HIDE DEF tuner, zif, inv, iq, swap
<1>7. UnderWay(s.faults, a) /\ s.faults \in Nat
  <2>1. a.faults <= s.faults
        BY <1>6 DEF Step
  <2>. QED
       BY <1>6, <2>1 DEF UnderWay
<1>8. UnderWay(s.faults, b) /\ After(a, "zeroIf", b) /\ (b.err = "none" => b.zeroIf = FALSE)
      BY <1>5, <1>7, Chained, ZenonT(30)
<1>9. UnderWay(s.faults, c) /\ After(b, "inv", c) /\ (c.err = "none" => c.inv = FALSE)
      BY <1>4, <1>7, <1>8, Chained, ZenonT(30)
<1>10. UnderWay(s.faults, d) /\ After(c, "iq", d) /\ (d.err = "none" => d.iq = FALSE)
      BY <1>3, <1>7, <1>9, Chained, ZenonT(60)
<1>11. /\ UnderWay(s.faults, e) /\ After(d, "swap", e)
       /\ e.err = "none" => e.swap = (on = 2)
  <2>0. on > 1 <=> on = 2
        BY SMT
  <2>1. CASE on = 2
    <3>0. (on > 1) = TRUE
          BY <2>0, <2>1
    <3>1. e \in IF d.err = "none" THEN Write(d, "swap", TRUE) ELSE {d}
          BY <1>2, <3>0
    <3>2. UnderWay(s.faults, e) /\ After(d, "swap", e) /\ (e.err = "none" => e.swap = TRUE)
          BY <1>7, <1>10, <3>1, Chained, ZenonT(30)
    <3>. QED
         BY <2>1, <3>2
  <2>2. CASE on # 2
    <3>0. (on > 1) = FALSE
          BY <2>0, <2>2
    <3>1. e \in IF d.err = "none" THEN Write(d, "swap", FALSE) ELSE {d}
          BY <1>2, <3>0
    <3>2. UnderWay(s.faults, e) /\ After(d, "swap", e) /\ (e.err = "none" => e.swap = FALSE)
          BY <1>7, <1>10, <3>1, Chained, ZenonT(30)
    <3>. QED
         BY <2>2, <3>2
  <2>. QED
       BY <2>1, <2>2
<1>12. Step(s, e, {"rep", "standby", "gainReg", "filt", "shadow", "zeroIf", "inv", "iq", "swap",
                   "faults", "err"})
  <2>1. Step(s, b, {"rep", "standby", "gainReg", "filt", "shadow", "zeroIf", "faults", "err"})
        BY <1>6, <1>7, <1>8 DEF After, Step, Fields, IsDev
  <2>2. Step(s, c, {"rep", "standby", "gainReg", "filt", "shadow", "zeroIf", "inv", "faults", "err"})
        BY <1>7, <1>9, <2>1 DEF After, Step, Fields, IsDev
  <2>3. Step(s, d, {"rep", "standby", "gainReg", "filt", "shadow", "zeroIf", "inv", "iq", "faults", "err"})
        BY <1>7, <1>10, <2>2 DEF After, Step, Fields, IsDev
  <2>. QED
       BY <1>7, <1>11, <2>3 DEF After, Step, Fields, IsDev
<1>13. /\ e.err = "none" => /\ HasDriver(s) => e.shadow = s.shadow /\ (s.shadow = "right" => e.standby = TRUE)
                            /\ e.inv = FALSE /\ e.swap = (on = 2)
       /\ e.err \in {"none", "usb"}
  <2>1. /\ b.standby = a.standby /\ c.standby = b.standby /\ d.standby = c.standby /\ e.standby = d.standby
        /\ b.shadow = a.shadow /\ c.shadow = b.shadow /\ d.shadow = c.shadow /\ e.shadow = d.shadow
        /\ d.inv = c.inv /\ e.inv = d.inv
        BY <1>8, <1>9, <1>10, <1>11 DEF After, Step, Fields
  <2>2. e.err = "none" => d.err = "none" /\ c.err = "none" /\ b.err = "none" /\ a.err = "none"
        BY <1>8, <1>9, <1>10, <1>11 DEF After
  <2>3. e.err \in {"none", "usb"}
        BY <1>6, <1>8, <1>9, <1>10, <1>11 DEF After, UnderWay
  <2>4. e.err = "none" /\ HasDriver(s) => e.shadow = s.shadow /\ (s.shadow = "right" => e.standby = TRUE)
        BY <1>6, <2>1, <2>2
  <2>. QED
       BY <1>9, <1>11, <2>1, <2>2, <2>3, <2>4
<1>14. CASE e.err # "none"
  <2>1. t = e /\ e.err = "usb" /\ e.faults < s.faults
        BY <1>1, <1>11, <1>13, <1>14 DEF UnderWay
  <2>. QED
       BY <1>11, <1>12, <2>1 DEF UnderWay, DirectEffect, Step
<1>15. CASE e.err = "none"
  <2>1. on \in 0..2 /\ t = [e EXCEPT !.ds = on]
        BY <1>1, <1>15
  <2>2. Sound(t) /\ Step(e, t, {"ds"}) /\ t.ds = on /\ Clean(e, t) /\ t.err = "none"
        BY <1>11, <1>15, <2>1, NewMode DEF UnderWay
  <2>3. HasDriver(s) => t.shadow = s.shadow /\ (s.shadow = "right" => Mode(t))
    <3>1. /\ t.standby = e.standby /\ t.inv = e.inv /\ t.swap = e.swap /\ t.chip = s.chip
          /\ t.shadow = e.shadow
          BY <1>12, <2>2 DEF Step, Fields
    <3>2. /\ HasDriver(s) => t.shadow = s.shadow
          /\ HasDriver(s) /\ s.shadow = "right" => t.standby = TRUE /\ t.inv = FALSE /\ t.swap = (on = 2)
          BY <1>13, <1>15, <3>1
    <3>3. on # 0
          OBVIOUS
    <3>. QED
         BY <2>2, <3>2, <3>3 DEF Mode
  <2>4. Step(s, t, {"rep", "standby", "gainReg", "filt", "shadow", "zeroIf", "inv", "iq", "swap", "ds",
                    "faults", "err"})
        BY <1>6, <1>12, <2>2 DEF Step, Fields, IsDev
  <2>. QED
       BY <2>2, <2>3, <2>4 DEF DirectEffect
<1>. QED
     BY <1>14, <1>15

(* Back to the tuner: with a driver the demodulator's IF is int_freq's.    *)
TunerEffect(s, t) ==
    /\ Sound(t)
    /\ Step(s, t, {"rep", "standby", "filt", "gainReg", "lo", "intFreq", "shadow", "ifreg", "zeroIf", "inv",
                   "iq", "swap", "ds", "faults", "err"})
    /\ \/ (t.err = "none" /\ t.ds = 0
           /\ (HasDriver(s) => /\ Mode(t) /\ t.filt = InitFilter /\ t.shadow = "right"
                               /\ t.ifreg = <<t.intFreq, get_rtl_xtal(t)>>))
       \/ (t.err = "tuner" /\ t.ifreg = s.ifreg)
       \/ (t.err = "usb" /\ t.faults < s.faults)

(* How the two last writes end, e being the outcome of the mode's writes.  *)
LEMMA TunerEnd ==
    ASSUME NEW s, Sound(s), NEW e, UnderWay(s.faults, e),
           Step(s, e, {"rep", "standby", "filt", "gainReg", "lo", "intFreq", "shadow", "ifreg", "zeroIf", "inv",
                       "iq", "faults", "err"}),
           HasDriver(s) /\ e.err = "none" =>
               /\ e.standby = FALSE /\ e.filt = InitFilter /\ e.shadow = "right" /\ e.inv = TRUE
               /\ e.ifreg = <<e.intFreq, get_rtl_xtal(e)>>,
           e.err = "tuner" => e.ifreg = s.ifreg,
           NEW f, f \in IF e.err = "none" THEN Write(e, "swap", FALSE) ELSE {e},
           NEW t, t \in IF f.err = "none" THEN {[f EXCEPT !.ds = 0]} ELSE {f}
    PROVE  TunerEffect(s, t)
<1>0. s.faults \in Nat
      BY DEF Sound, IsDev
<1>1. UnderWay(s.faults, f) /\ After(e, "swap", f) /\ (f.err = "none" => f.swap = FALSE)
      BY <1>0, Chained, ZenonT(30)
<1>2. Step(s, f, {"rep", "standby", "filt", "gainReg", "lo", "intFreq", "shadow", "ifreg", "zeroIf", "inv",
                  "iq", "swap", "faults", "err"})
      BY <1>0, <1>1 DEF After, Step, Fields, IsDev
<1>3. /\ f.err = "tuner" => f.ifreg = s.ifreg
      /\ HasDriver(s) /\ f.err = "none" =>
          /\ f.standby = FALSE /\ f.filt = InitFilter /\ f.shadow = "right" /\ f.inv = TRUE
          /\ f.ifreg = <<f.intFreq, get_rtl_xtal(f)>> /\ f.swap = FALSE
  <2>1. /\ f.standby = e.standby /\ f.filt = e.filt /\ f.shadow = e.shadow /\ f.inv = e.inv
        /\ f.ifreg = e.ifreg /\ f.intFreq = e.intFreq /\ get_rtl_xtal(f) = get_rtl_xtal(e)
        BY <1>1 DEF After, Step, Fields, get_rtl_xtal
  <2>. QED
       BY <1>1, <2>1 DEF After
<1>4. CASE f.err # "none"
  <2>1. t = f /\ ((f.err = "usb" /\ f.faults < s.faults) \/ f.err = "tuner")
        BY <1>1, <1>4 DEF UnderWay
  <2>. QED
       BY <1>1, <1>2, <1>3, <2>1 DEF UnderWay, TunerEffect, Step
<1>5. CASE f.err = "none"
  <2>1. t = [f EXCEPT !.ds = 0]
        BY <1>5
  <2>2. Sound(t) /\ Step(f, t, {"ds"}) /\ t.ds = 0 /\ Clean(f, t) /\ t.err = "none"
        BY <1>1, <1>5, <2>1, NewMode DEF UnderWay
  <2>3. HasDriver(s) => /\ t.standby = FALSE /\ t.filt = InitFilter /\ t.shadow = "right"
                        /\ t.inv = TRUE /\ t.swap = FALSE
                        /\ t.ifreg = <<t.intFreq, get_rtl_xtal(t)>>
    <3>1. /\ t.standby = f.standby /\ t.filt = f.filt /\ t.shadow = f.shadow /\ t.inv = f.inv
          /\ t.swap = f.swap
          /\ t.ifreg = f.ifreg /\ t.intFreq = f.intFreq /\ get_rtl_xtal(t) = get_rtl_xtal(f)
          BY <2>2 DEF Step, Fields, get_rtl_xtal
    <3>. QED
         BY <1>3, <1>5, <3>1
  <2>4. HasDriver(s) => Mode(t)
    <3>1. (t.ds # 0) = FALSE /\ (t.ds = 0) = TRUE /\ (t.ds = 2) = FALSE
          BY <2>2
    <3>. QED
         BY <2>3, <3>1 DEF Mode
  <2>5. Step(s, t, {"rep", "standby", "filt", "gainReg", "lo", "intFreq", "shadow", "ifreg", "zeroIf", "inv",
                    "iq", "swap", "ds", "faults", "err"})
        BY <1>0, <1>2, <2>2 DEF Step, Fields, IsDev
  <2>. QED
       BY <2>2, <2>3, <2>4, <2>5 DEF TunerEffect
<1>. QED
     BY <1>4, <1>5

LEMMA ToTunerSound ==
    ASSUME NEW s, Sound(s), s.err = "none", NEW t \in ToTuner(s)
    PROVE  TunerEffect(s, t)
<1>. DEFINE tuner == IF HasDriver(s)
                     THEN Then(Then(OpenRepeater(s), TunerInit), CloseRepeater) ELSE {s}
            ifr == Then(tuner, LAMBDA x : SetIfFreq(x, IF HasDriver(x) THEN R82XX_IF_FREQ ELSE 0))
            mode == IF HasDriver(s) THEN Then(ifr, LAMBDA x : Write(x, "inv", TRUE))
                    ELSE Then(Then(ifr, LAMBDA x : Write(x, "iq", TRUE)),
                              LAMBDA x : Write(x, "zeroIf", TRUE))
            swap == Then(mode, LAMBDA x : Write(x, "swap", FALSE))
<1>0. t \in Then(swap, LAMBDA x : {[x EXCEPT !.ds = 0]})
      BY DEF ToTuner
<1>1. PICK f \in swap : t \in IF f.err = "none" THEN {[f EXCEPT !.ds = 0]} ELSE {f}
  <2>. HIDE DEF swap
  <2>. QED
       BY <1>0 DEF Then
<1>2. PICK e \in mode : f \in IF e.err = "none" THEN Write(e, "swap", FALSE) ELSE {e}
  <2>. HIDE DEF mode
  <2>. QED
       BY <1>1 DEF Then
<1>. HIDE DEF tuner, ifr, mode, swap
<1>3. s.faults \in Nat
      BY DEF Sound, IsDev
<1>4. ASSUME NEW c \in ifr
      PROVE  /\ UnderWay(s.faults, c)
             /\ Step(s, c, {"rep", "standby", "filt", "gainReg", "lo", "intFreq", "shadow", "ifreg", "faults", "err"})
             /\ HasDriver(s) /\ c.err = "none" =>
                    /\ c.standby = FALSE /\ c.filt = InitFilter /\ c.shadow = "right"
                    /\ c.ifreg = <<c.intFreq, get_rtl_xtal(c)>>
             /\ c.err = "tuner" => c.ifreg = s.ifreg
  <2>1. PICK a \in tuner : c \in IF a.err = "none"
                                 THEN SetIfFreq(a, IF HasDriver(a) THEN R82XX_IF_FREQ ELSE 0) ELSE {a}
        BY <1>4 DEF Then, ifr
  <2>2. /\ Sound(a)
        /\ Step(s, a, {"rep", "standby", "filt", "gainReg", "lo", "intFreq", "shadow", "faults", "err"})
        /\ \/ ((HasDriver(s) => /\ a.standby = FALSE /\ a.filt = InitFilter /\ a.intFreq = R82XX_IF_FREQ
                                 /\ a.shadow = "right")
               /\ a.err = "none" /\ Clean(s, a))
           \/ a.err = "tuner"
           \/ (a.err = "usb" /\ a.faults < s.faults)
    <3>1. CASE HasDriver(s)
          BY <2>1, <3>1, TunerOn DEF tuner
    <3>2. CASE ~HasDriver(s)
          BY <2>1, <3>2 DEF Sound, IsDev, Step, Clean, tuner
    <3>. QED
         BY <3>1, <3>2
  <2>3. CASE a.err # "none"
    <3>1. c = a
          BY <2>1, <2>3
    <3>2. Step(s, c, {"rep", "standby", "filt", "gainReg", "lo", "intFreq", "shadow", "ifreg", "faults", "err"})
          /\ c.ifreg = s.ifreg
          BY <2>2, <3>1 DEF Step, Fields
    <3>. QED
         BY <2>2, <2>3, <3>1, <3>2 DEF UnderWay, Step
  <2>4. CASE a.err = "none"
    <3>1. PICK i \in Int : i = (IF HasDriver(a) THEN R82XX_IF_FREQ ELSE 0)
      <4>1. R82XX_IF_FREQ \in Int
            BY SMT DEF R82XX_IF_FREQ
      <4>. QED
           BY <4>1
    <3>2. c \in SetIfFreq(a, i)
          BY <2>1, <2>4, <3>1
    <3>3. /\ Sound(c) /\ Step(a, c, {"ifreg", "faults", "err"})
          /\ \/ (c.ifreg = <<i, get_rtl_xtal(c)>> /\ c.err = a.err /\ Clean(a, c))
             \/ (c.err = "usb" /\ c.faults < a.faults)
          BY <2>2, <3>2, SetIfFreqSound
    <3>4. UnderWay(s.faults, c)
          BY <1>3, <2>2, <2>4, <3>3 DEF UnderWay, Clean, Sound, IsDev
    <3>5. Step(s, c, {"rep", "standby", "filt", "gainReg", "lo", "intFreq", "shadow", "ifreg", "faults", "err"})
          BY <1>3, <2>2, <3>3 DEF Step, Fields, IsDev
    <3>6. HasDriver(s) => HasDriver(a)
          BY <2>2 DEF HasDriver, Step, Fields
    <3>7. HasDriver(s) /\ c.err = "none" =>
              /\ a.standby = FALSE /\ a.filt = InitFilter /\ a.shadow = "right"
              /\ c.ifreg = <<a.intFreq, get_rtl_xtal(c)>>
          BY <2>2, <2>4, <3>1, <3>3, <3>6
    <3>8. /\ c.standby = a.standby /\ c.filt = a.filt /\ c.shadow = a.shadow /\ c.intFreq = a.intFreq
          /\ c.err # "tuner"
          BY <2>4, <3>3 DEF Step, Fields
    <3>. QED
         BY <3>4, <3>5, <3>7, <3>8
  <2>. QED
       BY <2>3, <2>4
<1>5. /\ UnderWay(s.faults, e)
      /\ Step(s, e, {"rep", "standby", "filt", "gainReg", "lo", "intFreq", "shadow", "ifreg", "zeroIf", "inv",
                     "iq", "faults", "err"})
      /\ HasDriver(s) /\ e.err = "none" =>
             /\ e.standby = FALSE /\ e.filt = InitFilter /\ e.shadow = "right" /\ e.inv = TRUE
             /\ e.ifreg = <<e.intFreq, get_rtl_xtal(e)>>
      /\ e.err = "tuner" => e.ifreg = s.ifreg
  <2>1. CASE HasDriver(s)
    <3>1. PICK c \in ifr : e \in IF c.err = "none" THEN Write(c, "inv", TRUE) ELSE {c}
          BY <2>1 DEF Then, mode
    <3>2. UnderWay(s.faults, e) /\ After(c, "inv", e) /\ (e.err = "none" => e.inv = TRUE)
          BY <1>3, <1>4, <3>1, Chained, ZenonT(30)
    <3>a. Step(s, c, {"rep", "standby", "filt", "gainReg", "lo", "intFreq", "shadow", "ifreg", "faults", "err"})
          BY <1>4
    <3>3. Step(s, e, {"rep", "standby", "filt", "gainReg", "lo", "intFreq", "shadow", "ifreg", "zeroIf", "inv",
                      "iq", "faults", "err"})
          BY <1>3, <3>2, <3>a DEF After, Step, Fields, IsDev
    <3>4. /\ e.standby = c.standby /\ e.filt = c.filt /\ e.shadow = c.shadow /\ e.ifreg = c.ifreg
          /\ e.intFreq = c.intFreq /\ get_rtl_xtal(e) = get_rtl_xtal(c)
          BY <3>2 DEF After, Step, Fields, get_rtl_xtal
    <3>5. /\ e.err = "none" => c.err = "none"
          /\ e.err = "tuner" => c.err = "tuner"
          BY <3>2 DEF After
    <3>. QED
         BY <1>4, <2>1, <3>2, <3>3, <3>4, <3>5
  <2>2. CASE ~HasDriver(s)
    <3>1. PICK d \in Then(ifr, LAMBDA x : Write(x, "iq", TRUE)) :
              e \in IF d.err = "none" THEN Write(d, "zeroIf", TRUE) ELSE {d}
          BY <2>2 DEF Then, mode
    <3>2. PICK c \in ifr : d \in IF c.err = "none" THEN Write(c, "iq", TRUE) ELSE {c}
          BY <3>1 DEF Then
    <3>3. UnderWay(s.faults, d) /\ After(c, "iq", d)
          BY <1>3, <1>4, <3>2, Chained, ZenonT(30)
    <3>a. Step(s, c, {"rep", "standby", "filt", "gainReg", "lo", "intFreq", "shadow", "ifreg", "faults", "err"})
          BY <1>4
    <3>4. Step(s, d, {"rep", "standby", "filt", "gainReg", "lo", "intFreq", "shadow", "ifreg", "iq", "faults", "err"})
          BY <1>3, <3>3, <3>a DEF After, Step, Fields, IsDev
    <3>5. ~HasDriver(d)
          BY <2>2, <3>4 DEF HasDriver, Step, Fields
    <3>6. UnderWay(s.faults, e) /\ After(d, "zeroIf", e)
          BY <1>3, <3>1, <3>3, <3>5, Chained, ZenonT(30)
    <3>7. Step(s, e, {"rep", "standby", "filt", "gainReg", "lo", "intFreq", "shadow", "ifreg", "zeroIf", "inv",
                      "iq", "faults", "err"})
          BY <1>3, <3>4, <3>6 DEF After, Step, Fields, IsDev
    <3>8. e.err = "tuner" => e.ifreg = s.ifreg
      <4>1. e.ifreg = d.ifreg /\ d.ifreg = c.ifreg
            BY <3>3, <3>6 DEF After, Step, Fields
      <4>2. e.err = "tuner" => c.err = "tuner"
            BY <3>3, <3>6 DEF After
      <4>. QED
           BY <1>4, <4>1, <4>2
    <3>. QED
         BY <2>2, <3>6, <3>7, <3>8
  <2>. QED
       BY <2>1, <2>2
<1>. QED
     BY <1>1, <1>2, <1>5, TunerEnd

(* A change of mode and the tuning after it.                               *)
DirectSamplingEffect(s, on, t) ==
    /\ Sound(t)
    /\ Step(s, t, {"rep", "standby", "filt", "gainReg", "lo", "intFreq", "shadow", "ifreg", "zeroIf", "inv",
                   "iq", "swap", "ds", "freq", "faults", "err"})
    /\ t.err \in RetuneErrors
    /\ HasDriver(s) =>
        /\ IfKept(s, t)
        /\ t.err = "none" /\ Clean(s, t) =>
            /\ t.ds = on
            /\ on # 0 => t.shadow = s.shadow /\ (s.shadow = "right" => Mode(t))
            /\ on = 0 => /\ Mode(t) /\ Receives(t) /\ t.filt = InitFilter /\ t.shadow = "right"
                         /\ t.ifreg[2] = get_rtl_xtal(t)

LEMMA DirectSamplingSound ==
    ASSUME NEW s, Sound(s), s.err = "none", NEW on \in 0..2, NEW t \in set_direct_sampling(s, on)
    PROVE  DirectSamplingEffect(s, on, t)
<1>1. PICK a \in IF on # 0 THEN ToDirect(s, on) ELSE ToTuner(s) :
          t \in IF a.err = "none" THEN IF a.freq > 0 THEN set_center_freq(a, a.freq) ELSE {a} ELSE {a}
      BY DEF set_direct_sampling, Then
<1>2. /\ Sound(a) /\ s.faults \in Nat
      /\ Step(s, a, {"rep", "standby", "filt", "gainReg", "lo", "intFreq", "shadow", "ifreg", "zeroIf", "inv",
                     "iq", "swap", "ds", "faults", "err"})
      /\ a.err \in {"none", "tuner"} \/ (a.err = "usb" /\ a.faults < s.faults)
      /\ a.err = "tuner" => a.ifreg = s.ifreg
      /\ a.err = "none" =>
            /\ a.ds = on
            /\ on # 0 /\ HasDriver(s) =>
                  a.ifreg = s.ifreg /\ a.shadow = s.shadow /\ (s.shadow = "right" => Mode(a))
            /\ on = 0 /\ HasDriver(s) =>
                  /\ Mode(a) /\ a.filt = InitFilter /\ a.shadow = "right"
                  /\ a.ifreg = <<a.intFreq, get_rtl_xtal(a)>>
  <2>0. s.faults \in Nat
        BY DEF Sound, IsDev
  <2>1. CASE on # 0
    <3>1. DirectEffect(s, on, a)
          BY <1>1, <2>1, ToDirectSound
    <3>2. Step(s, a, {"rep", "standby", "filt", "gainReg", "lo", "intFreq", "shadow", "ifreg", "zeroIf", "inv",
                      "iq", "swap", "ds", "faults", "err"})
          BY <3>1 DEF DirectEffect, Step
    <3>3. a.ifreg = s.ifreg
          BY <3>1 DEF DirectEffect, Step, Fields
    <3>. QED
         BY <2>0, <2>1, <3>1, <3>2, <3>3 DEF DirectEffect
  <2>2. CASE on = 0
    <3>1. TunerEffect(s, a)
          BY <1>1, <2>2, ToTunerSound
    <3>. QED
         BY <2>0, <2>2, <3>1 DEF TunerEffect
  <2>. QED
       BY <2>1, <2>2
<1>3. CASE a.err # "none"
  <2>1. t = a /\ t.err # "none" /\ t.err \in RetuneErrors
        BY <1>1, <1>2, <1>3 DEF RetuneErrors
  <2>2. IfKept(s, t)
        BY <1>2, <1>3, <2>1 DEF IfKept, Clean, Sound, IsDev
  <2>3. Step(s, t, {"rep", "standby", "filt", "gainReg", "lo", "intFreq", "shadow", "ifreg", "zeroIf", "inv",
                    "iq", "swap", "ds", "freq", "faults", "err"})
        BY <1>2, <2>1 DEF Step
  <2>. QED
       BY <1>2, <2>1, <2>2, <2>3 DEF DirectSamplingEffect
<1>4. CASE a.err = "none"
  <2>1. /\ Sound(t) /\ Step(a, t, {"freq", "lo", "ifreg", "rep", "shadow", "faults", "err"})
        /\ t.err \in RetuneErrors /\ Kept(a, t) /\ IfKept(a, t)
        /\ HasDriver(a) /\ a.ds = 0 =>
              /\ Clean(a, t) => t.ifreg = a.ifreg
              /\ Trusted(a, t) => (t.freq > 0 => t.lo = <<t.freq + t.intFreq, t.drvXtal>>)
        BY <1>1, <1>2, <1>4, RetuneCached
  <2>2. Clean(s, t) => Clean(s, a) /\ Clean(a, t)
        BY <1>2, <2>1 DEF Step, IsDev, Clean
  <2>3. Step(s, t, {"rep", "standby", "filt", "gainReg", "lo", "intFreq", "shadow", "ifreg", "zeroIf", "inv",
                    "iq", "swap", "ds", "freq", "faults", "err"})
        BY <1>2, <2>1 DEF Step, Fields, IsDev
  <2>4. /\ HasDriver(s) <=> HasDriver(a)
        /\ t.ds = a.ds /\ t.filt = a.filt /\ t.intFreq = a.intFreq
        /\ get_rtl_xtal(t) = get_rtl_xtal(a)
        BY <1>2, <2>1 DEF Step, Fields, HasDriver, get_rtl_xtal
  <2>5. Mode(a) => Mode(t)
        BY <2>1 DEF Step, Fields, HasDriver, Mode
  <2>6. ASSUME HasDriver(s), Clean(s, t), on = 0
        PROVE  /\ Mode(t) /\ Receives(t) /\ t.filt = InitFilter /\ t.shadow = "right"
               /\ t.ifreg[2] = get_rtl_xtal(t)
    <3>1. /\ Mode(a) /\ a.filt = InitFilter /\ a.shadow = "right" /\ a.ds = 0
          /\ a.ifreg = <<a.intFreq, get_rtl_xtal(a)>> /\ HasDriver(a)
          BY <1>2, <1>4, <2>4, <2>6
    <3>2. t.ifreg = a.ifreg /\ Trusted(a, t) /\ t.shadow = "right"
          BY <2>1, <2>2, <2>6, <3>1 DEF Trusted, Kept
    <3>3. Follows(t)
          BY <2>1, <2>4, <3>1, <3>2 DEF Follows
    <3>4. t.ifreg[2] = get_rtl_xtal(t)
          BY <2>4, <3>1, <3>2
    <3>. QED
         BY <2>4, <2>5, <3>1, <3>2, <3>3, <3>4 DEF Receives
  <2>7. ASSUME HasDriver(s), Clean(s, t), on # 0
        PROVE  t.shadow = s.shadow /\ (s.shadow = "right" => Mode(t))
        BY <1>2, <1>4, <2>1, <2>2, <2>5, <2>7 DEF Kept
  <2>8. HasDriver(s) => IfKept(s, t)
    <3>1. CASE on = 0
          BY <2>6, <3>1 DEF IfKept
    <3>2. CASE on # 0
          BY <1>2, <1>4, <2>1, <2>2, <3>2 DEF IfKept
    <3>. QED
         BY <3>1, <3>2
  <2>. QED
       BY <1>2, <1>4, <2>1, <2>3, <2>4, <2>6, <2>7, <2>8 DEF DirectSamplingEffect
<1>. QED
     BY <1>3, <1>4

---------------------------------------------------------------------------
(* What sync vouches for, and what every call answers for.                 *)

Told(s) == HasDriver(s) => s.shadow = "right"

Believed(s, sy) ==
    /\ "tuner" \in sy => Mode(s) /\ Receives(s) /\ Told(s)
    /\ "rate" \in sy => RateTrue(s)
    /\ "if" \in sy => IfTrue(s)
    /\ "tuner" \in sy /\ "rate" \in sy => FilterTrue(s)

(* What sync vouches for after a call without a fault.                     *)
Vouched(sy, t, doubts, settles) == (sy \ doubts) \cup (IF t.err = "none" THEN settles ELSE {})

Answers(s, t, brackets, doubts, settles, sy) ==
    /\ Sound(t) /\ t.faults <= s.faults
    /\ Clean(s, t) => Believed(t, Vouched(sy, t, doubts, settles))
    /\ brackets /\ HasDriver(t) /\ t.err \in {"none", "tuner"} => t.rep = "off"
    /\ HasDriver(s) /\ t.err = "invalid" => t = Fail(s, "invalid")

(* A call that settles nothing and leaves the chip's mode alone.           *)
LEMMA BelievedStill ==
    ASSUME NEW s, NEW sy, Believed(s, sy), NEW t, Clean(s, t), HasDriver(s) <=> HasDriver(t), Kept(s, t),
           Mode(s) => Mode(t), RateTrue(s) => RateTrue(t),
           HasDriver(s) /\ Trusted(s, t) =>
               (Receives(s) => Receives(t)) /\ (FilterTrue(s) => FilterTrue(t)),
           NEW doubts, "if" \in doubts \/ (IfTrue(s) => IfTrue(t))
    PROVE  Believed(t, Vouched(sy, t, doubts, {}))
<1>. DEFINE sz == Vouched(sy, t, doubts, {})
<1>1. sz \subseteq sy /\ ("if" \in sz => "if" \notin doubts)
      BY DEF Vouched
<1>. HIDE DEF sz
<1>2. ASSUME ~HasDriver(t) PROVE Believed(t, sz)
      BY <1>2 DEF Believed, Mode, Receives, Told, RateTrue, IfTrue, FilterTrue
<1>3. ASSUME HasDriver(t) PROVE Believed(t, sz)
  <2>1. "tuner" \in sz => Trusted(s, t) /\ Mode(s) /\ Receives(s)
        BY <1>1, <1>3 DEF Believed, Told, Trusted
  <2>2. "tuner" \in sz => Mode(t) /\ Receives(t) /\ Told(t)
        BY <1>3, <2>1 DEF Kept, Trusted, Told
  <2>3. "tuner" \in sz /\ "rate" \in sz => FilterTrue(t)
        BY <1>1, <1>3, <2>1 DEF Believed
  <2>4. ("rate" \in sz => RateTrue(t)) /\ ("if" \in sz => IfTrue(t))
        BY <1>1 DEF Believed
  <2>. QED
       BY <2>2, <2>3, <2>4 DEF Believed
<1>. QED
     BY <1>2, <1>3 DEF sz

(* Without a driver there is nothing to believe.                           *)
LEMMA NoDriverBelieved == ASSUME NEW t, ~HasDriver(t) PROVE \A sz : Believed(t, sz)
BY DEF Believed, Mode, Receives, Told, RateTrue, IfTrue, FilterTrue

(* Nothing but the error differs: all is believed that was.                *)
LEMMA RefusedBelieved ==
    ASSUME NEW s, Sound(s), NEW sy, Believed(s, sy), NEW t, t = Fail(s, "invalid"),
           NEW doubts, NEW settles
    PROVE  Believed(t, Vouched(sy, t, doubts, settles))
<1>1. Step(s, t, {"err"}) /\ t.err = "invalid"
      BY QuietSound
<1>2. (Mode(s) => Mode(t)) /\ (RateTrue(s) => RateTrue(t)) /\ (FilterTrue(s) => FilterTrue(t))
      BY <1>1 DEF Step, Fields, Mode, RateTrue, FilterTrue, HasDriver, RateBandwidth
<1>3. (Receives(s) => Receives(t)) /\ (Told(s) => Told(t)) /\ (IfTrue(s) => IfTrue(t))
      BY <1>1 DEF Step, Fields, Receives, Follows, Told, IfTrue, HasDriver, get_rtl_xtal
<1>4. Vouched(sy, t, doubts, settles) \subseteq sy
      BY <1>1 DEF Vouched
<1>. HIDE DEF Vouched
<1>. QED
     BY <1>2, <1>3, <1>4 DEF Believed

LEMMA SetCenterFreqAnswers ==
    ASSUME NEW s, Sound(s), s.err = "none", NEW sy, Believed(s, sy),
           NEW f \in Freqs, NEW t \in set_center_freq(s, f)
    PROVE  Answers(s, t, s.ds = 0, {}, {}, sy)
<1>1. SetCenterFreqEffect(s, f, t)
      BY SetCenterFreqSound
<1>2. /\ Sound(t) /\ Step(s, t, {"freq", "lo", "ifreg", "rep", "shadow", "faults", "err"})
      /\ t.err \in {"none", "usb", "tuner", "noTuner"} /\ Kept(s, t) /\ IfKept(s, t)
      BY <1>1 DEF SetCenterFreqEffect
<1>3. /\ HasDriver(s) <=> HasDriver(t)
      /\ Mode(s) => Mode(t)
      /\ t.ds = s.ds /\ t.intFreq = s.intFreq /\ t.drvXtal = s.drvXtal /\ get_rtl_xtal(t) = get_rtl_xtal(s)
      BY <1>2 DEF Step, Fields, HasDriver, Mode, get_rtl_xtal
<1>4. HasDriver(s) /\ Trusted(s, t) => (Receives(s) => Receives(t))
  <2>1. CASE s.ds = 0
    <3>1. HasDriver(s) /\ Trusted(s, t) =>
              /\ t.err \in {"none", "tuner", "usb"} /\ t.ifreg = s.ifreg
              /\ t.freq = IF t.err = "none" THEN f ELSE 0
              /\ t.err = "none" => t.lo = <<f + s.intFreq, s.drvXtal>>
          BY <1>1, <2>1 DEF SetCenterFreqEffect, Trusted
    <3>. QED
         BY <1>3, <2>1, <3>1 DEF Receives, Follows
  <2>2. CASE s.ds # 0
        BY <1>3, <2>2 DEF Receives
  <2>. QED
       BY <2>1, <2>2
<1>5. (RateTrue(s) => RateTrue(t)) /\ (FilterTrue(s) => FilterTrue(t))
      BY <1>2 DEF Step, Fields, RateTrue, FilterTrue, HasDriver, RateBandwidth
<1>6. s.ds = 0 /\ HasDriver(t) /\ t.err \in {"none", "tuner"} => t.rep = "off"
      BY <1>1, <1>3 DEF SetCenterFreqEffect
<1>7. Clean(s, t) => (IfTrue(s) => IfTrue(t))
      BY <1>2, <1>3 DEF IfKept, IfTrue
<1>8. Clean(s, t) => Believed(t, Vouched(sy, t, {}, {}))
      BY <1>2, <1>3, <1>4, <1>5, <1>7, BelievedStill
<1>. QED
     BY <1>2, <1>6, <1>8 DEF Answers, Step

LEMMA SetSampleRateAnswers ==
    ASSUME NEW s, Sound(s), s.err = "none", NEW sy, Believed(s, sy),
           NEW r \in Rates, NEW t \in set_sample_rate(s, r)
    PROVE  Answers(s, t, TRUE, {}, {"rate", "if"}, sy)
<1>1. SampleRateEffect(s, r, t)
      BY SampleRateSound, ConstantTypes
<1>2. /\ Sound(t) /\ s.faults \in Nat
      /\ Step(s, t, {"rate", "freq", "lo", "ifreg", "rep", "intFreq", "filt", "ratio", "corrReg",
                     "offs", "shadow", "faults", "err"})
      BY <1>1 DEF SampleRateEffect, Sound, IsDev
<1>3. (HasDriver(s) <=> HasDriver(t)) /\ (Mode(s) => Mode(t))
      BY <1>2 DEF Step, Fields, HasDriver, Mode
<1>4. CASE ~HasDriver(s)
      BY <1>2, <1>3, <1>4, NoDriverBelieved DEF Answers, Step
<1>5. CASE HasDriver(s) /\ t = Fail(s, "invalid")
  <2>1. t.err = "invalid"
        BY <1>5, QuietSound
  <2>2. Believed(t, Vouched(sy, t, {}, {"rate", "if"}))
        BY <1>5, RefusedBelieved
  <2>. QED
       BY <1>2, <1>5, <2>1, <2>2 DEF Answers, Step
<1>6. CASE /\ HasDriver(s) /\ t.err = "none" /\ t.rep = "off" /\ Kept(s, t)
           /\ Clean(s, t) => /\ t.rate = real_rate(t.rtlXtal, t.ratio) /\ t.corrReg = CorrWord(t.corr)
                             /\ t.ifreg = <<t.intFreq, get_rtl_xtal(t)>>
           /\ Trusted(s, t) => Follows(t) /\ t.filt = RateBandwidth(t)
  <2>1. ASSUME Clean(s, t) PROVE RateTrue(t) /\ IfTrue(t)
    <3>1. t.ifreg[2] = get_rtl_xtal(t)
          BY <1>6, <2>1
    <3>. QED
         BY <1>6, <2>1, <3>1 DEF RateTrue, IfTrue
  <2>2. ASSUME Clean(s, t), "tuner" \in sy
        PROVE  Mode(t) /\ Receives(t) /\ Told(t) /\ FilterTrue(t)
    <3>1. Mode(s) /\ Trusted(s, t)
          BY <1>6, <2>2 DEF Believed, Told, Trusted
    <3>2. Told(t)
          BY <1>6, <2>2, <3>1 DEF Kept, Trusted, Told
    <3>. QED
         BY <1>3, <1>6, <3>1, <3>2 DEF Receives, FilterTrue
  <2>3. Vouched(sy, t, {}, {"rate", "if"}) = sy \cup {"rate", "if"}
        BY <1>6 DEF Vouched
  <2>4. Clean(s, t) => Believed(t, sy \cup {"rate", "if"})
        BY <2>1, <2>2 DEF Believed
  <2>. QED
       BY <1>2, <1>6, <2>3, <2>4 DEF Answers, Step
<1>7. CASE HasDriver(s) /\ t.err = "usb" /\ t.faults < s.faults
      BY <1>2, <1>7 DEF Answers, Step, Clean, Sound, IsDev
<1>. QED
     BY <1>1, <1>4, <1>5, <1>6, <1>7 DEF SampleRateEffect

LEMMA SetTunerBandwidthAnswers ==
    ASSUME NEW s, Sound(s), s.err = "none", NEW sy, Believed(s, sy),
           NEW b \in Bandwidths, NEW t \in set_tuner_bandwidth(s, b)
    PROVE  Answers(s, t, TRUE, {}, {"if"}, sy)
<1>1. BandwidthEffect(s, t)
      BY BandwidthSound
<1>2. /\ Sound(t) /\ s.faults \in Nat
      /\ Step(s, t, {"freq", "lo", "ifreg", "rep", "intFreq", "filt", "bw", "shadow", "faults", "err"})
      BY <1>1 DEF BandwidthEffect, Sound, IsDev
<1>3. (HasDriver(s) <=> HasDriver(t)) /\ (Mode(s) => Mode(t)) /\ (RateTrue(s) => RateTrue(t))
      BY <1>2 DEF Step, Fields, HasDriver, Mode, RateTrue
<1>4. CASE ~HasDriver(s)
  <2>1. t = s
        BY <1>1, <1>4 DEF BandwidthEffect
  <2>. QED
       BY <1>2, <1>3, <1>4, <2>1, NoDriverBelieved DEF Answers, Step
<1>5. CASE /\ HasDriver(s) /\ t.err = "none" /\ t.rep = "off" /\ Kept(s, t)
           /\ Clean(s, t) => t.ifreg = <<t.intFreq, get_rtl_xtal(t)>>
           /\ Trusted(s, t) => Follows(t) /\ t.filt = RateBandwidth(t)
  <2>1. ASSUME Clean(s, t) PROVE IfTrue(t)
    <3>1. t.ifreg[2] = get_rtl_xtal(t)
          BY <1>5, <2>1
    <3>. QED
         BY <3>1 DEF IfTrue
  <2>2. ASSUME Clean(s, t), "tuner" \in sy
        PROVE  Mode(t) /\ Receives(t) /\ Told(t) /\ FilterTrue(t)
    <3>1. Mode(s) /\ Trusted(s, t)
          BY <1>5, <2>2 DEF Believed, Told, Trusted
    <3>2. Told(t)
          BY <1>5, <2>2, <3>1 DEF Kept, Trusted, Told
    <3>. QED
         BY <1>3, <1>5, <3>1, <3>2 DEF Receives, FilterTrue
  <2>3. Vouched(sy, t, {}, {"if"}) = sy \cup {"if"}
        BY <1>5 DEF Vouched
  <2>4. Clean(s, t) => Believed(t, sy \cup {"if"})
        BY <1>3, <2>1, <2>2 DEF Believed
  <2>. QED
       BY <1>2, <1>5, <2>3, <2>4 DEF Answers, Step
<1>6. CASE HasDriver(s) /\ t.err = "usb" /\ t.faults < s.faults
      BY <1>2, <1>6 DEF Answers, Step, Clean, Sound, IsDev
<1>. QED
     BY <1>1, <1>4, <1>5, <1>6 DEF BandwidthEffect

(* set_tuner_gain, set_tuner_gain_mode and set_tuner_if_gain.              *)
LEMMA GainAnswers ==
    ASSUME NEW s, Sound(s), s.err = "none", NEW sy, Believed(s, sy), NEW t, GainEffect(s, t)
    PROVE  Answers(s, t, TRUE, {}, {}, sy)
<1>1. Sound(t) /\ Step(s, t, {"rep", "gainReg", "gain", "shadow", "faults", "err"}) /\ Kept(s, t)
      BY DEF GainEffect
<1>2. (HasDriver(s) <=> HasDriver(t)) /\ (Mode(s) => Mode(t)) /\ (RateTrue(s) => RateTrue(t))
      BY <1>1 DEF Step, Fields, HasDriver, Mode, RateTrue
<1>3. (Receives(s) => Receives(t)) /\ (FilterTrue(s) => FilterTrue(t)) /\ (IfTrue(s) => IfTrue(t))
      BY <1>1 DEF Step, Fields, HasDriver, Receives, Follows, FilterTrue, RateBandwidth, IfTrue, get_rtl_xtal
<1>4. HasDriver(t) => (t.err = "none" /\ t.rep = "off") \/ t.err = "usb"
      BY <1>2 DEF GainEffect
<1>5. Clean(s, t) => Believed(t, Vouched(sy, t, {}, {}))
      BY <1>1, <1>2, <1>3, BelievedStill
<1>. QED
     BY <1>1, <1>2, <1>4, <1>5 DEF Answers, Step

LEMMA SetOffsetTuningAnswers ==
    ASSUME NEW s, Sound(s), s.err = "none", NEW sy, Believed(s, sy),
           NEW on \in BOOLEAN, NEW t \in set_offset_tuning(s, on)
    PROVE  Answers(s, t, FALSE, {}, {}, sy)
<1>1. OffsetEffect(s, t)
      BY OffsetTuningSound
<1>2. Sound(t) /\ Step(s, t, {"offs", "freq", "lo", "ifreg", "rep", "shadow", "faults", "err"})
      BY <1>1 DEF OffsetEffect
<1>3. HasDriver(s) <=> HasDriver(t)
      BY <1>2 DEF Step, Fields, HasDriver
<1>4. CASE HasDriver(s)
  <2>1. t = Fail(s, "invalid")
        BY <1>1, <1>4 DEF OffsetEffect
  <2>. QED
       BY <1>2, <1>4, <2>1, RefusedBelieved DEF Answers, Step
<1>5. CASE ~HasDriver(s)
      BY <1>2, <1>3, <1>5, NoDriverBelieved DEF Answers, Step
<1>. QED
     BY <1>4, <1>5

LEMMA SetFreqCorrectionAnswers ==
    ASSUME NEW s, Sound(s), s.err = "none", NEW sy, Believed(s, sy),
           NEW p \in Ppms, NEW t \in set_freq_correction(s, p)
    PROVE  Answers(s, t, FALSE, IF p = s.corr THEN {} ELSE {"if"}, {}, sy)
<1>1. CorrectionEffect(s, p, t)
      BY FreqCorrectionSound
<1>2. /\ Sound(t) /\ t.err \in RetuneErrors /\ Kept(s, t)
      /\ Step(s, t, {"corrReg", "corr", "drvXtal", "freq", "lo", "ifreg", "rep", "shadow", "faults", "err"})
      BY <1>1 DEF CorrectionEffect
<1>3. (HasDriver(s) <=> HasDriver(t)) /\ (Mode(s) => Mode(t))
      BY <1>2 DEF Step, Fields, HasDriver, Mode
<1>4. Clean(s, t) => /\ RateTrue(s) => RateTrue(t)
                     /\ Trusted(s, t) => (Receives(s) => Receives(t)) /\ (FilterTrue(s) => FilterTrue(t))
      BY <1>1 DEF CorrectionEffect
<1>5. "if" \in (IF p = s.corr THEN {} ELSE {"if"}) \/ (IfTrue(s) => IfTrue(t))
      BY <1>1 DEF CorrectionEffect
<1>6. Clean(s, t) => Believed(t, Vouched(sy, t, IF p = s.corr THEN {} ELSE {"if"}, {}))
      BY <1>2, <1>3, <1>4, <1>5, BelievedStill
<1>. QED
     BY <1>2, <1>6 DEF Answers, Step, RetuneErrors

LEMMA SetXtalFreqAnswers ==
    ASSUME NEW s, Sound(s), s.err = "none", NEW sy, Believed(s, sy),
           NEW x \in Nat, NEW y \in Nat, NEW t \in set_xtal_freq(s, x, y)
    PROVE  Answers(s, t, FALSE, IF s.rate = 0 THEN {"if"} ELSE {}, {}, sy)
<1>. DEFINE doubts == IF s.rate = 0 THEN {"if"} ELSE {}
<1>1. XtalEffect(s, t)
      BY XtalSound
<1>2. /\ Sound(t)
      /\ Step(s, t, {"rtlXtal", "tunXtal", "drvXtal", "rate", "freq", "lo", "ifreg", "rep", "intFreq",
                     "filt", "ratio", "corrReg", "offs", "shadow", "faults", "err"})
      BY <1>1 DEF XtalEffect
<1>3. (HasDriver(s) <=> HasDriver(t)) /\ (Mode(s) => Mode(t)) /\ t.faults <= s.faults
      BY <1>2 DEF Step, Fields, HasDriver, Mode
<1>4. Clean(s, t) => Believed(t, Vouched(sy, t, doubts, {}))
  <2>1. CASE ~HasDriver(s)
        BY <1>3, <2>1, NoDriverBelieved
  <2>2. CASE HasDriver(s) /\ t = Fail(s, "invalid")
    <3>. HIDE DEF doubts
    <3>. QED
         BY <2>2, RefusedBelieved
  <2>3. CASE HasDriver(s) /\ t # Fail(s, "invalid")
    <3>0. Clean(s, t) => ~(t.faults < s.faults)
          BY <1>2 DEF Clean, Sound, IsDev
    <3>1. Clean(s, t) =>
              /\ Kept(s, t)
              /\ Trusted(s, t) => (Receives(s) => Receives(t)) /\ (FilterTrue(s) => FilterTrue(t))
              /\ RateTrue(s) => RateTrue(t)
              /\ s.rate # 0 => (IfTrue(s) => IfTrue(t))
          BY <1>1, <2>3, <3>0 DEF XtalEffect
    <3>2. "if" \in doubts \/ s.rate # 0
          OBVIOUS
    <3>. HIDE DEF doubts
    <3>. QED
         BY <1>3, <3>1, <3>2, BelievedStill
  <2>. QED
       BY <2>1, <2>2, <2>3
<1>5. HasDriver(s) /\ t.err = "invalid" => t = Fail(s, "invalid")
      BY <1>1 DEF XtalEffect, RetuneErrors
<1>. QED
     BY <1>2, <1>3, <1>4, <1>5 DEF Answers

LEMMA SetDirectSamplingAnswers ==
    ASSUME NEW s, Sound(s), s.err = "none", NEW sy, Believed(s, sy),
           NEW on \in 0..2, NEW t \in set_direct_sampling(s, on)
    PROVE  Answers(s, t, FALSE, {"tuner"}, IF on = 0 THEN {"tuner", "if"} ELSE sy, sy)
<1>. DEFINE settles == IF on = 0 THEN {"tuner", "if"} ELSE sy
            after == Vouched(sy, t, {"tuner"}, settles)
<1>1. DirectSamplingEffect(s, on, t)
      BY DirectSamplingSound
<1>2. /\ Sound(t) /\ t.err \in RetuneErrors
      /\ Step(s, t, {"rep", "standby", "filt", "gainReg", "lo", "intFreq", "shadow", "ifreg", "zeroIf",
                     "inv", "iq", "swap", "ds", "freq", "faults", "err"})
      BY <1>1 DEF DirectSamplingEffect
<1>3. /\ HasDriver(s) <=> HasDriver(t)
      /\ RateTrue(s) => RateTrue(t)
      /\ get_rtl_xtal(t) = get_rtl_xtal(s)
      BY <1>2 DEF Step, Fields, HasDriver, RateTrue, get_rtl_xtal
<1>4. ASSUME HasDriver(s), Clean(s, t)
      PROVE  Believed(t, after)
  <2>1. IfTrue(s) => IfTrue(t)
        BY <1>1, <1>3, <1>4 DEF DirectSamplingEffect, IfKept, IfTrue
  <2>2. CASE t.err # "none"
    <3>1. after \subseteq sy /\ "tuner" \notin after
          BY <2>2 DEF Vouched
    <3>. HIDE DEF after
    <3>. QED
         BY <1>3, <2>1, <3>1 DEF Believed
  <2>3. CASE t.err = "none" /\ on = 0
    <3>1. Mode(t) /\ Receives(t) /\ t.filt = InitFilter /\ t.shadow = "right" /\ t.ifreg[2] = get_rtl_xtal(t)
          BY <1>1, <1>4, <2>3 DEF DirectSamplingEffect
    <3>2. FilterTrue(t) /\ Told(t) /\ IfTrue(t)
          BY <3>1 DEF FilterTrue, Told, IfTrue
    <3>3. "rate" \in after => "rate" \in sy
          BY <2>3 DEF Vouched
    <3>. HIDE DEF after
    <3>. QED
         BY <1>3, <3>1, <3>2, <3>3 DEF Believed
  <2>4. CASE t.err = "none" /\ on # 0
    <3>1. t.ds # 0 /\ t.shadow = s.shadow /\ (s.shadow = "right" => Mode(t))
          BY <1>1, <1>4, <2>4 DEF DirectSamplingEffect
    <3>2. Receives(t) /\ FilterTrue(t)
          BY <3>1 DEF Receives, FilterTrue
    <3>3. "tuner" \in sy => Mode(t) /\ Told(t)
          BY <1>4, <3>1 DEF Believed, Told
    <3>4. after = sy
          BY <2>4 DEF Vouched
    <3>. HIDE DEF after
    <3>5. Believed(t, sy)
          BY <1>3, <2>1, <3>2, <3>3 DEF Believed
    <3>. QED
         BY <3>4, <3>5
  <2>. QED
       BY <2>2, <2>3, <2>4
<1>5. Clean(s, t) => Believed(t, after)
      BY <1>3, <1>4, NoDriverBelieved
<1>. QED
     BY <1>2, <1>5 DEF Answers, Step, RetuneErrors

---------------------------------------------------------------------------
(* The inductive invariant. Beyond the properties: the device is sound     *)
(* between calls, and what sync vouches for is true of it in every mode,   *)
(* whatever its frequency and rate are.                                    *)

IInv ==
    /\ Sound(dev) /\ dev = [f \in Fields |-> dev[f]]
    /\ dev.err = "none"
    /\ last \in {"refused", "bracketed", "other"} /\ sync \subseteq {"tuner", "rate", "if"}
    /\ Believed(dev, sync)
    /\ RepeaterClosed

LEMMA IInvInit == Init => IInv
<1>. SUFFICES ASSUME Init PROVE IInv
     OBVIOUS
<1>1. PICK c \in Chips : dev = Opened(c)
      BY DEF Init
<1>2. /\ DEF_RTL_XTAL_FREQ \in Nat \ {0} /\ R828D_XTAL_FREQ \in Nat \ {0} /\ R82XX_IF_FREQ \in Nat
      /\ CalibrationLo \in Int /\ Garbled \in Int /\ InitFilter \in Int
      BY SMT DEF DEF_RTL_XTAL_FREQ, R828D_XTAL_FREQ, R82XX_IF_FREQ, CalibrationLo, Garbled, InitFilter
<1>3. DOMAIN dev = Fields /\ dev = [f \in Fields |-> dev[f]]
      BY <1>1 DEF Opened, Fields
<1>4. /\ dev.chip = c /\ dev.freq = 0 /\ dev.rate = 0 /\ dev.bw = 0 /\ dev.gain = 0 /\ dev.offs = 0
      /\ dev.corr = 0 /\ dev.ds \in {0, 1} /\ (c # "Unknown" => dev.ds = 0)
      /\ dev.rtlXtal = DEF_RTL_XTAL_FREQ
      /\ dev.tunXtal \in {R828D_XTAL_FREQ, DEF_RTL_XTAL_FREQ} /\ dev.drvXtal = <<dev.tunXtal, 0>>
      /\ dev.intFreq \in {R82XX_IF_FREQ, 0} /\ dev.ifreg = <<dev.intFreq, <<dev.rtlXtal, 0>>>>
      /\ dev.lo[1] \in {CalibrationLo, 0} /\ dev.lo = <<dev.lo[1], <<dev.tunXtal, 0>>>>
      /\ dev.shadow = "right" /\ dev.ratio = 0
      /\ dev.filt = InitFilter /\ dev.gainReg = Garbled /\ dev.standby = FALSE /\ dev.rep = "off"
      /\ dev.inv = (c \in {"R820T", "R828D"}) /\ dev.zeroIf = (c = "E4000") /\ dev.iq = (c = "E4000")
      /\ dev.swap = FALSE /\ dev.corrReg = 0 /\ dev.faults = MaxFaults[c] /\ dev.err = "none"
      BY <1>1 DEF Opened
<1>5. MaxFaults[c] \in Nat
      BY ControlAssumption
<1>6. Typed(dev)
  <2>1. dev.ds \in 0..2
        BY <1>4
  <2>2. /\ dev.rtlXtal \in Nat \ {0} /\ dev.tunXtal \in Nat \ {0} /\ dev.intFreq \in Nat
        /\ dev.filt \in Int /\ dev.corrReg \in Int /\ dev.ratio \in Int
        BY <1>2, <1>4
  <2>7. dev.drvXtal \in Nat \X Int /\ <<dev.rtlXtal, 0>> \in Nat \X Int /\ <<dev.tunXtal, 0>> \in Nat \X Int
        BY <1>4, <2>2
  <2>8. dev.lo \in Computed /\ dev.ifreg \in Computed
    <3>1. dev.lo[1] \in Int /\ dev.intFreq \in Int
          BY <1>2, <1>4
    <3>2. <<dev.lo[1], <<dev.tunXtal, 0>>>> \in Computed /\ <<dev.intFreq, <<dev.rtlXtal, 0>>>> \in Computed
          BY <2>7, <3>1, ComputedTypes
    <3>. QED
         BY <1>4, <3>2
  <2>3. /\ (c \in {"R820T", "R828D"}) \in BOOLEAN
        /\ (c = "E4000") \in BOOLEAN
        OBVIOUS
  <2>4. dev.inv \in BOOLEAN /\ dev.zeroIf \in BOOLEAN /\ dev.iq \in BOOLEAN
        BY <1>4, <2>3
  <2>5. /\ dev.chip \in Chips /\ dev.freq \in Freqs \cup {0} /\ dev.rate = 0
        /\ dev.bw \in Bandwidths \cup {0} /\ dev.gain \in Gains \cup {0} /\ dev.offs \in Nat
        /\ dev.corr \in Ppms \cup {0} /\ dev.gainReg \in Gains \cup {Garbled}
        BY <1>4
  <2>6. /\ dev.rep \in {"off", "on", "stuck"} /\ dev.standby \in BOOLEAN /\ dev.swap \in BOOLEAN
        /\ dev.shadow \in {"right", "behind"}
        BY <1>4
  <2>. QED
       BY <2>1, <2>2, <2>4, <2>5, <2>6, <2>7, <2>8 DEF Typed
<1>7. DriverSound(dev)
      BY <1>4 DEF DriverSound, HasDriver, get_tuner_xtal
<1>8. Believed(dev, sync)
  <2>1. HasDriver(dev) => dev.ds = 0 /\ dev.inv = TRUE /\ dev.standby = FALSE /\ dev.swap = FALSE
        BY <1>4 DEF HasDriver
  <2>2. Mode(dev)
    <3>1. dev.ds = 0 => (dev.ds # 0) = FALSE /\ (dev.ds = 0) = TRUE /\ (dev.ds = 2) = FALSE
          OBVIOUS
    <3>. QED
         BY <2>1, <3>1 DEF Mode
  <2>3. Receives(dev) /\ RateTrue(dev) /\ FilterTrue(dev)
        BY <1>4 DEF Receives, Follows, RateTrue, FilterTrue
  <2>4. Told(dev) /\ IfTrue(dev)
        BY <1>4 DEF Told, IfTrue, get_rtl_xtal
  <2>. QED
       BY <2>2, <2>3, <2>4 DEF Believed
<1>9. last = "other" /\ sync = {"tuner", "rate", "if"}
      BY DEF Init
<1>. QED
     BY <1>3, <1>4, <1>5, <1>6, <1>7, <1>8, <1>9 DEF IInv, Sound, IsDev, RepeaterClosed

(* Whatever a call answers, the state it leaves is as the invariant says.  *)
LEMMA CallPreserves ==
    ASSUME IInv, NEW outcomes, NEW brackets, NEW doubts, NEW settles,
           settles \subseteq {"tuner", "rate", "if"},
           \A t \in outcomes : Answers(dev, t, brackets, doubts, settles, sync),
           Call(outcomes, brackets, doubts, settles)
    PROVE  IInv' /\ (last' = "refused" /\ HasDriver(dev) => dev' = dev)
<1>1. PICK t \in outcomes :
          /\ dev' = Quiet(t)
          /\ last' = CASE t.err = "invalid" -> "refused"
                       [] t.err \in {"none", "tuner"} /\ brackets /\ HasDriver(t) -> "bracketed"
                       [] OTHER -> "other"
          /\ sync' = IF t.faults < dev.faults THEN {} ELSE Vouched(sync, t, doubts, settles)
      BY DEF Call, Vouched
<1>2. Answers(dev, t, brackets, doubts, settles, sync)
      OBVIOUS
<1>3. /\ Sound(dev) /\ dev = [f \in Fields |-> dev[f]] /\ dev.err = "none"
      /\ dev.faults \in Nat
      /\ sync \subseteq {"tuner", "rate", "if"}
      BY DEF IInv, Sound, IsDev
<1>4. Sound(t) /\ t.faults <= dev.faults /\ t.faults \in Nat
      BY <1>2 DEF Answers, Sound, IsDev
<1>. DEFINE q == Quiet(t)
            syncAfter == Vouched(sync, t, doubts, settles)
<1>5. Sound(q) /\ Step(t, q, {"err"}) /\ q.err = "none" /\ Clean(t, q)
      BY <1>4, QuietSound
<1>6. q = [f \in Fields |-> q[f]]
      BY <1>4 DEF Quiet, Sound, IsDev
<1>8. HasDriver(dev) /\ t.err = "invalid" => t = Fail(dev, "invalid")
      BY <1>2 DEF Answers
<1>9. brackets /\ HasDriver(t) /\ t.err \in {"none", "tuner"} => q.rep = "off"
      BY <1>2, <1>5 DEF Answers, Step, Fields
<1>10. \A sy : Believed(t, sy) => Believed(q, sy)
  <2>1. (Mode(t) => Mode(q)) /\ (Receives(t) => Receives(q))
        BY <1>5 DEF Step, Fields, Mode, Receives, Follows, HasDriver
  <2>2. (RateTrue(t) => RateTrue(q)) /\ (FilterTrue(t) => FilterTrue(q))
        BY <1>5 DEF Step, Fields, RateTrue, FilterTrue, RateBandwidth, HasDriver
  <2>3. (Told(t) => Told(q)) /\ (IfTrue(t) => IfTrue(q))
        BY <1>5 DEF Step, Fields, Told, IfTrue, get_rtl_xtal, HasDriver
  <2>. HIDE DEF q
  <2>. QED
       BY <2>1, <2>2, <2>3 DEF Believed
<1>11. Believed(q, IF t.faults < dev.faults THEN {} ELSE syncAfter)
  <2>1. CASE t.faults < dev.faults
        BY <2>1 DEF Believed
  <2>2. CASE ~(t.faults < dev.faults)
    <3>1. Clean(dev, t)
          BY <1>3, <1>4, <2>2 DEF Clean
    <3>2. Believed(t, syncAfter)
          BY <1>2, <3>1 DEF Answers
    <3>. HIDE DEF syncAfter
    <3>. QED
         BY <1>10, <2>2, <3>2
  <2>. QED
       BY <2>1, <2>2
<1>. HIDE DEF q
<1>12. Sound(dev)' /\ (dev = [f \in Fields |-> dev[f]])' /\ (dev.err = "none")'
       /\ Believed(dev, sync)'
  <2>1. dev' = q
        BY <1>1 DEF q
  <2>2. sync' = IF t.faults < dev.faults THEN {} ELSE syncAfter
        BY <1>1
  <2>. QED
       BY <1>5, <1>6, <1>11, <2>1, <2>2
<1>13. sync' \subseteq {"tuner", "rate", "if"}
       BY <1>1, <1>3 DEF Vouched
<1>14. last' \in {"refused", "bracketed", "other"}
       BY <1>1
<1>15. RepeaterClosed'
  <2>1. last' = "bracketed" => brackets /\ HasDriver(t) /\ t.err \in {"none", "tuner"}
        BY <1>1
  <2>. QED
       BY <1>1, <1>9, <2>1 DEF RepeaterClosed, q
<1>16. last' = "refused" /\ HasDriver(dev) => dev' = dev
  <2>. SUFFICES ASSUME last' = "refused", HasDriver(dev) PROVE dev' = dev
       OBVIOUS
  <2>1. t.err = "invalid"
        BY <1>1
  <2>2. dev' = Quiet(Fail(dev, "invalid"))
        BY <1>1, <1>8, <2>1
  <2>3. Quiet(Fail(dev, "invalid")) = [f \in Fields |-> dev[f]]
        BY <1>3 DEF Quiet, Fail, Sound, IsDev
  <2>. QED
       BY <1>3, <2>2, <2>3
<1>. QED
     BY <1>12, <1>13, <1>14, <1>15, <1>16 DEF IInv

(* One case per action: the outcome of its call answers, so Call keeps the *)
(* invariant.                                                              *)
LEMMA ActionPreserves ==
    ASSUME IInv, Next
    PROVE  IInv' /\ (last' = "refused" /\ HasDriver(dev) => dev' = dev)
<1>1. Sound(dev) /\ dev.err = "none" /\ Believed(dev, sync)
      BY DEF IInv
<1>2. CASE SetCenterFreq
  <2>1. PICK f \in Freqs : Call(set_center_freq(dev, f), dev.ds = 0, {}, {})
        BY <1>2 DEF SetCenterFreq
  <2>2. \A t \in set_center_freq(dev, f) : Answers(dev, t, dev.ds = 0, {}, {}, sync)
        BY <1>1, SetCenterFreqAnswers
  <2>. QED
       BY <2>1, <2>2, CallPreserves
<1>3. CASE SetSampleRate
  <2>1. PICK r \in Rates : Call(set_sample_rate(dev, r), TRUE, {}, {"rate", "if"})
        BY <1>3 DEF SetSampleRate
  <2>2. \A t \in set_sample_rate(dev, r) : Answers(dev, t, TRUE, {}, {"rate", "if"}, sync)
        BY <1>1, SetSampleRateAnswers
  <2>. QED
       BY <2>1, <2>2, CallPreserves
<1>4. CASE SetTunerBandwidth
  <2>1. PICK b \in Bandwidths : Call(set_tuner_bandwidth(dev, b), TRUE, {}, {"if"})
        BY <1>4 DEF SetTunerBandwidth
  <2>2. \A t \in set_tuner_bandwidth(dev, b) : Answers(dev, t, TRUE, {}, {"if"}, sync)
        BY <1>1, SetTunerBandwidthAnswers
  <2>. QED
       BY <2>1, <2>2, CallPreserves
<1>5. CASE SetTunerGain
  <2>1. PICK g \in Gains : Call(set_tuner_gain(dev, g), TRUE, {}, {})
        BY <1>5 DEF SetTunerGain
  <2>2. \A t \in set_tuner_gain(dev, g) : Answers(dev, t, TRUE, {}, {}, sync)
        BY <1>1, GainSound, GainAnswers
  <2>. QED
       BY <2>1, <2>2, CallPreserves
<1>6. CASE SetTunerGainMode
  <2>1. \A t \in set_tuner_gain_mode(dev) : Answers(dev, t, TRUE, {}, {}, sync)
        BY <1>1, GainModeSound, GainAnswers
  <2>. QED
       BY <1>6, <2>1, CallPreserves DEF SetTunerGainMode
<1>7. CASE SetTunerIfGain
  <2>1. \A t \in set_tuner_if_gain(dev) : Answers(dev, t, TRUE, {}, {}, sync)
        BY <1>1, IfGainSound, GainAnswers
  <2>. QED
       BY <1>7, <2>1, CallPreserves DEF SetTunerIfGain
<1>8. CASE SetOffsetTuning
  <2>1. PICK on \in BOOLEAN : Call(set_offset_tuning(dev, on), FALSE, {}, {})
        BY <1>8 DEF SetOffsetTuning
  <2>2. \A t \in set_offset_tuning(dev, on) : Answers(dev, t, FALSE, {}, {}, sync)
        BY <1>1, SetOffsetTuningAnswers
  <2>. QED
       BY <2>1, <2>2, CallPreserves
<1>9. CASE SetFreqCorrection
  <2>1. PICK p \in Ppms :
            Call(set_freq_correction(dev, p), FALSE, IF p = dev.corr THEN {} ELSE {"if"}, {})
        BY <1>9 DEF SetFreqCorrection
  <2>2. \A t \in set_freq_correction(dev, p) :
            Answers(dev, t, FALSE, IF p = dev.corr THEN {} ELSE {"if"}, {}, sync)
        BY <1>1, SetFreqCorrectionAnswers
  <2>. QED
       BY <2>1, <2>2, CallPreserves
<1>10. CASE SetXtalFreq
  <2>1. PICK x \in Xtals[dev.chip] \cup {0}, y \in Xtals[dev.chip] \cup {0} :
            Call(set_xtal_freq(dev, x, y), FALSE, IF dev.rate = 0 THEN {"if"} ELSE {}, {})
        BY <1>10 DEF SetXtalFreq
  <2>2. x \in Nat /\ y \in Nat
        BY ConstantTypes DEF IInv, Sound, Typed
  <2>3. \A t \in set_xtal_freq(dev, x, y) :
            Answers(dev, t, FALSE, IF dev.rate = 0 THEN {"if"} ELSE {}, {}, sync)
        BY <1>1, <2>2, SetXtalFreqAnswers
  <2>. QED
       BY <2>1, <2>3, CallPreserves
<1>11. CASE SetDirectSampling
  <2>1. PICK on \in 0..2 :
            Call(set_direct_sampling(dev, on), FALSE, {"tuner"}, IF on = 0 THEN {"tuner", "if"} ELSE sync)
        BY <1>11 DEF SetDirectSampling
  <2>2. \A t \in set_direct_sampling(dev, on) :
            Answers(dev, t, FALSE, {"tuner"}, IF on = 0 THEN {"tuner", "if"} ELSE sync, sync)
        BY <1>1, SetDirectSamplingAnswers
  <2>3. (IF on = 0 THEN {"tuner", "if"} ELSE sync) \subseteq {"tuner", "rate", "if"}
        BY DEF IInv
  <2>. QED
       BY <2>1, <2>2, <2>3, CallPreserves
<1>. QED
     BY <1>2, <1>3, <1>4, <1>5, <1>6, <1>7, <1>8, <1>9, <1>10, <1>11 DEF Next

LEMMA StutterPreserves == IInv /\ UNCHANGED vars => IInv'
BY DEF IInv, vars, Sound, IsDev, Typed, DriverSound, HasDriver, get_tuner_xtal, Believed, Mode,
       Receives, Follows, RateTrue, FilterTrue, RateBandwidth, RepeaterClosed, Told, IfTrue, get_rtl_xtal

---------------------------------------------------------------------------
(* The theorems                                                            *)

(* The inductive invariant holds in every reachable state: after any       *)
(* sequence of control calls, whichever of their writes failed.            *)
THEOREM IInvHolds == Spec => []IInv
<1>1. IInv /\ [Next]_vars => IInv'
      BY ActionPreserves, StutterPreserves
<1>. QED
     BY IInvInit, <1>1, PTL DEF Spec

(* Whatever sequence of calls and faults went before, caches and registers *)
(* hold values of their kinds: no crystal is 0 Hz, so that neither the     *)
(* resampler's ratio nor the PLL divides by zero, and no frequency, gain,  *)
(* bandwidth or correction is cached that no caller asked for.             *)
THEOREM TypeCorrect == Spec => []TypeOK
<1>1. IInv => TypeOK
      BY ControlAssumption DEF IInv, Sound, IsDev, Typed, TypeOK, Cached, Registers
<1>. QED
     BY <1>1, IInvHolds, PTL

(* center_freq() is true for every chip, crystal and correction, after any *)
(* sequence of rate, bandwidth, correction, crystal and mode changes: the  *)
(* LO is above the cached frequency by the IF that the demodulator was set *)
(* to, and it is computed from the crystal and correction reported now.    *)
(* The demodulator's IF itself is of the crystal reported now only once a  *)
(* rate, a bandwidth or the tuner mode was set after the last correction   *)
(* or crystal change. A fault, or a set_direct_sampling that the tuner     *)
(* refused, ends the promise until a clean set_direct_sampling(0).         *)
THEOREM CenterFreqReceived == Spec => []ReceivesCenterFreq
<1>1. IInv => ReceivesCenterFreq
  <2>. SUFFICES ASSUME IInv, "tuner" \in sync, HasDriver(dev), dev.ds = 0, dev.freq > 0
                PROVE  /\ dev.lo = <<dev.freq + dev.ifreg[1], get_tuner_xtal(dev)>>
                       /\ "if" \in sync => dev.ifreg[2] = get_rtl_xtal(dev)
       BY DEF ReceivesCenterFreq
  <2>1. dev.ifreg[1] = dev.intFreq /\ dev.lo = <<dev.freq + dev.intFreq, dev.drvXtal>>
        BY DEF IInv, Believed, Receives, Follows
  <2>2. dev.drvXtal = get_tuner_xtal(dev)
        BY DEF IInv, Sound, DriverSound
  <2>3. "if" \in sync => dev.ifreg[2] = get_rtl_xtal(dev)
        BY DEF IInv, Believed, IfTrue
  <2>. QED
       BY <2>1, <2>2, <2>3
<1>. QED
     BY <1>1, IInvHolds, PTL

(* direct_sampling() is true: tuner standby, spectrum inversion and ADC    *)
(* datapath are those of the cached mode, and zero IF is off, as long as   *)
(* every transfer went through and no set_direct_sampling ended with the   *)
(* tuner's refusal (a PLL that does not lock in init leaves the tuner      *)
(* awake and the cached mode at direct sampling) since it was last Ok.     *)
THEOREM ModeReported == Spec => []ModeAsReported
<1>1. IInv => ModeAsReported
      BY DEF IInv, Believed, Mode, Sound, DriverSound, ModeAsReported
<1>. QED
     BY <1>1, IInvHolds, PTL

(* sample_rate() is the rate that the resampler makes of the cached        *)
(* crystal with the 28 bits of ratio that it keeps, and freq_correction()  *)
(* is the correction written, since the last clean set_sample_rate. In     *)
(* tuner mode the filter is the bandwidth's, or else the cached rate's, or *)
(* that of init, as long as the tuner was not put in doubt either.         *)
THEOREM RateReported == Spec => []RateAsReported
<1>1. IInv => RateAsReported
      BY DEF IInv, Believed, RateTrue, FilterTrue, RateAsReported, RateIsTrue, FilterIsTrue
<1>. QED
     BY <1>1, IInvHolds, PTL

(* tuner_gain() is what the gain registers hold, whichever transfer around *)
(* the tuner's own failed in whichever call. The gain registers must hold  *)
(* a whole gain (standby and init take them), and no transfer to the tuner *)
(* itself may have failed since its last init: its shadow registers would  *)
(* be behind, and an Ok set_gain may then have written nothing.            *)
THEOREM GainReported == Spec => []GainAsReported
<1>1. IInv => GainAsReported
      BY DEF IInv, Sound, DriverSound, GainAsReported
<1>. QED
     BY <1>1, IInvHolds, PTL

(* The tuner driver computes from the crystal and the correction that the  *)
(* device reports, also where set_xtal_freq rolled back after an error.    *)
THEOREM DriverXtalTold == Spec => []DriverXtalTracks
<1>1. IInv => DriverXtalTracks
      BY DEF IInv, Sound, DriverSound, DriverXtalTracks
<1>. QED
     BY <1>1, IInvHolds, PTL

(* A call that bracketed the tuner and returned Ok, or the tuner's own     *)
(* refusal, left the I2C repeater off.                                     *)
THEOREM RepeaterOffAfterBracket == Spec => []RepeaterClosed
<1>1. IInv => RepeaterClosed
      BY DEF IInv
<1>. QED
     BY <1>1, IInvHolds, PTL

(* A call refused for its parameters changed nothing, cached or in the     *)
(* chip, of a device whose tuner has a driver.                             *)
THEOREM RefusalChangesNothing == Spec => RejectedIsNoOp
<1>1. IInv /\ [Next]_vars => [last' = "refused" /\ HasDriver(dev) => dev' = dev]_vars
      BY ActionPreserves
<1>. QED
     BY <1>1, IInvHolds, PTL DEF Spec, RejectedIsNoOp
====
