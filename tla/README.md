# A verification project for librtlsdr-rs

librtlsdr-rs is a Rust port of librtlsdr: it opens an RTL2832U USB dongle,
programs its demodulator and tuner through control transfers, and reads IQ
samples from bulk endpoint 0x81. This directory holds TLA+ models of it, the TLC
configurations that check them and TLAPS proofs of most of what they check. Paths below are relative to the repository (`src/src/...`).

    tlc -config MCBulkStreamSafety.cfg MCBulkStream     # check a model
    tlapm BulkStream_proofs.tla                         # check the proofs

`PROJECT.json` says for every definition which lines of the source it stands
for, for every run which properties it checks, and for every property which
plausible bug of the code (a *mutant*, an operator defined in front of the
definition it replaces) violates it.

## 1. Inventory

| component | source | state | operations | how it meets the others |
|---|---|---|---|---|
| Reader-busy guard | `device/reader.rs` | one `AtomicBool` shared by the device, its readers and every live session; RAII guards | `try_acquire`, drop | taken by every way of reading, moved into iterators and worker closures |
| Bulk streaming | `device/streaming.rs`, `reader.rs` | the iterators' `fused`/`pending_error`; `consecutive_zero_reads`; the cancel flag; `dev_lost` | `bulk_read`, `read_sync`, `iter_samples`, `next`, `read_async_blocking`, `reset_buffer` | sets `dev_lost`, which Drop of the device reads |
| Async streams | `streaming_tokio.rs`, `streaming_smol.rs` | a bounded channel, a worker closure on a blocking pool | spawn, worker loop, `poll_next`, drop | own a clone of the handle and outlive the device |
| Open and Drop | `device/mod.rs`, `usb.rs` | claim of interface 0, kernel driver, `driver_active`, `dev_lost`, powered demodulator, tuner | `open` with its probe, `Drop` | Drop runs while workers may still be reading |
| Control surface | `device/frequency.rs`, `sampling.rs`, `gain.rs`, `mod.rs` | cached settings, driver state, registers | setters for frequency, rate, bandwidth, offset tuning, ppm, crystals, direct sampling, gain | each setter calls the tuner driver inside an I2C-repeater bracket and the demodulator outside it |
| AGC, test mode, bias tee | `device/sampling.rs`, `gain.rs`, `usb.rs` | one demodulator register, the GPIO registers; nothing cached | setters | take `&self`; the registers outlive the device, and the next open's probe uses the same GPIO register |
| R82xx driver | `tuner/r82xx/*` | shadow registers, `int_freq`, `input`, `init_done`, the PLL | init, standby, set_freq, set_bw, gains | called by the control surface |
| FC0012, FC0013, E4000, FC2580 drivers | `tuner/*.rs` | the chip's registers; crystal, frequency, bandwidth | the same trait | `pub(crate)` and complete, but `probe_tuner` only creates the R82xx driver: a dongle with one of these is recognised and left without a driver |
| Register access | `usb.rs`, `reg.rs` | none | control transfers, I2C, GPIO, FIR packing | used by everything |
| Enumeration, builder | `device/enumerate.rs`, `builder.rs` | none between calls | count, strings, list, find by index or serial, open | every step enumerates the bus anew |
| EEPROM | `device/eeprom.rs` | the EEPROM | read, byte-wise write | through the device; its serial is what enumeration shows after the next plug |
| Errors, constants, crate root | `error.rs`, `constants.rs`, `lib.rs` | none | | |

What is hard about this code, and what makes each component correct:

* **The endpoint is shared by threads.** Two transfers on 0x81 would split the
  sample stream. Readers are cloned across threads, workers outlive the device,
  guards are dropped by threads nobody joins. Correct means: one transfer at a
  time, contiguous samples in every session, the flag free when nobody reads, and
  a dropped or cancelled session that really ends.
* **End-of-session order.** A worker gives up the guard and closes its channel;
  the consumer sees only the second. Errors must be the last thing delivered, and
  `dev_lost` must be set before anyone can learn of the error.
* **Open can fail at every step, Drop cannot.** The claim, the kernel driver, the
  power and the repeater must be in order after every early return, a failed
  transfer, a crash of the process or an unplug.
* **A control call is many USB writes.** Each can fail alone, with the cached
  settings updated before, after or between them. Correct means that what the
  getters report is what the hardware does, at least once a clean call has set the
  device up again, and that a failed call leaves the I2C repeater off.
* **Registers are shared and cached.** LNA gain, gain mode and antenna input live
  in one register; writes are skipped when a cache says so. Correct means that no
  call undoes another's bits, and that the cache is the chip. Four drivers have no
  cache: there, a call must write everything that an earlier failure may have left.
* **The bus changes between two enumerations.** An index or a serial that was
  looked up is used later; the dongle that is opened must be the one asked for.
* **Numbers at boundaries**: filter tables, PLL divider ranges, integer offsets,
  fractions that borrow and wrap in 8 and 16 bits.

`PROJECT.json` lists every such hazard at its line with the properties that cover
it, or the reason why none does.

## 2. The modules

    SingleReader   <---implements---  BulkStream  <-- MCBulkStream
                                          ^---------- BulkStream_proofs
    DeviceLifecycle  <-- DeviceLifecycle_proofs
    R82xxFilter  <--  R82xxBandwidth  <-- MCR82xxBandwidth
         ^                   ^----------- R82xxBandwidth_proofs
         ^----------  DeviceControl  <-- MCDeviceControl, DeviceControl_proofs
         ^----------  R82xxDriver  <-- MCR82xxDriver, R82xxDriver_proofs
    TunerRegisters <-- R82xxShadow <--'
         ^-- Fc001xDriver, E4kDriver, Fc2580Driver  <-- TraitDrivers  <-- MCTraitDrivers
         |                                                   ^--- TraitDrivers_proofs
         ^-- DongleBoard  <-- DongleBus  <-- MCDongleBus
         |                        ^--------- DongleBus_proofs
         ^-- TunerRegisters_proofs  <--------'  (and R82xxDriver_proofs,
                                                TraitDrivers_proofs)

An arrow points from a module to one that EXTENDS it.

### SingleReader
The abstract contract of the busy flag: sessions acquire the endpoint, run one
transfer at a time, and release between transfers.

### BulkStream
A *session* is one call of an entry point (`kind`): `read_sync`, `iter_samples`
(of the device or of a reader; they are the same state machine), a tokio stream, a
smol stream, or `read_async_blocking`. `pc` is where the thread of the session is;
consumers (`next`, `poll_next`, drops, the cancel flag) interleave with it.

| variable | code |
|---|---|
| `busy`, `guard[s]` | `reader_busy`; session s owns a `ReaderBusyGuard` |
| `devLost` | `dev_lost` |
| `buf[s]` | the result of `bulk_read`, in the worker's or iterator's locals |
| `chan[s]`, `rx[s]` | the bounded channel; the receiver is alive |
| `cancel[s]`, `zeros[s]` | `cancel_flag`, `consecutive_zero_reads` |
| `got[s]`, `ended[s]` | history: what the consumer has been handed |

One action per operation: `StartOk`/`StartBusy`/`StartNoRuntime`/`StartBadLength`
are the outcomes of an entry point; `WorkerStart`, `StreamHead`, `ReadChunk`,
`ReadZero`, `ReadFailed`, `Send`, `SendClosed`, `DropWorkerGuard`, `DropSender` are
the worker; `IterNext...`, `Yield`, `DropIter` an iterator; `AsyncHead`,
`Callback`, `Return` the callback loop. Chunks are named by the order in which the
dongle completed them, so that `SamplesContiguous` can tell a lost, repeated or
stolen chunk. Decisions worth knowing:
  * a worker's locals are dropped (the guard) before the closure's captured sender;
  * `WorkerDiscard`: a tokio runtime that shuts down drops the closure unrun; the
    order in which its captures are dropped is not specified by the language, the
    model takes the same order as for a closure that ran;
  * `Pipe` and `Io` become `DeviceLost` for a dongle that is still there;
  * a leaked iterator (`mem::forget`) is not modelled.

### DeviceLifecycle
Several openers on one dongle, in one process or several. Every fallible step of
`RtlSdrDevice::open` (find, kernel-driver check, detach, claim, dummy write,
`init_baseband`, repeater, probe, tuner init, repeater off) and of `Drop` (look at
`dev_lost`, tuner exit, `deinit_baseband`, release, attach) is an action. A worker
has its own reference to the handle. `Crash` loses the process and `Unplug` the
dongle. A failing write may have reached the chip. Reads on an interface that is
no longer claimed do not bring data. `trouble` is a history of what went wrong, for
the properties that promise something only while nothing did.

### TunerRegisters
What the drivers and the board share. A byte is the set of its one bits. A call is
an operator `Op(s, ...)` that yields the *set* of states in which it can leave a
driver or a board in state s: one in which every transfer went through, and, while
faults are left, one for every prefix of its writes in which the transfer that
failed did or did not reach the chip. `Then` is the `?` of the source.

### R82xxFilter, R82xxBandwidth
`set_bw` of the R82xx driver: the table lookup, the high-pass corners, the
register values and the intermediate frequency.

### R82xxShadow, R82xxDriver
The tuner driver register by register, on an R820T, a standard R828D and the
R828D of a Blog V4. `R82xxShadow` is the register access (`i2c.rs`): a write that
the shadow does not make superfluous goes to the chip in messages of 7 bytes, each
of which may fail with or without having reached the chip, and only then into the
shadow. `R82xxDriver` has init with the filter calibration, standby, `set_freq`
(mux and tracking filter, PLL, antenna inputs), `set_bw`, `set_gain` and
`set_gain_mode` as sequences of such writes.

| variable | code |
|---|---|
| `drv.shadow`, `drv.input`, `drv.intFreq`, `drv.model` | `regs`, `input`, `int_freq`, chip and Blog V4 flag of `R82xxPriv` |
| `drv.chip`, `drv.upconv` | the registers of the tuner; GPIO 5 of the demodulator |
| `drv.faults`, `drv.err` | how many transfers may still fail; the error of the call |
| `asked`, `doubt`, `asleep` | history: what Ok calls asked for; the call that a fault broke; standby |

What the tuner answers (VCO fine tune, calibration code, lock) is free. Frequencies
are whole kHz, for which the 64-bit arithmetic of `set_pll` is reproduced exactly;
crystals are the default 28.8 and 16 MHz, with which the limits of `nint` are out of
reach. The model starts after a clean `init`, without which `open` returns no device.
After a failed transfer the properties say nothing until `init`, or the same call,
has gone through; for `set_freq` only `init` counts, because it skips an antenna
switch that it remembers. At exactly 28.8 MHz a Blog V4 takes the upconverter's
input without shifting the LO; no doc says which comparison is meant, so the two LO
properties leave that frequency out.

### Fc001xDriver, E4kDriver, Fc2580Driver, TraitDrivers
The four drivers without a shadow, register by register, and the trait through
which the device would call them. The FC0012 and FC0013 differ in tables and two
registers and share a module. A table of the source is a table here; the PLL
arithmetic is exact, with the long division `Shifted` where a product leaves the
integers of the checker, and with the widths of the code: XDIV's signed 16-bit
fraction, its remainder cut to 16 bits by `xin_remainder as u16`, the bytes that `reg[1]`
and `reg[2]` are.

| variable | code |
|---|---|
| `drv.chip` | the tuner's registers |
| `drv.xtal`, `drv.freq`, `drv.bw` | what the driver keeps between calls |
| `drv.faults`, `drv.err`, `drv.model` | the transfers that may still fail; the call's error; which tuner |
| `asked` | history: per setting, what the last call asked for, `{}` once a call for it failed |

Frequencies are whole kHz, and the crystals of the FC001x even kHz, so that the
divisions of the code by the crystal and by its half have the same remainders; the
model says nothing of odd crystals (see section 5). A frequency is what a u32 of Hz can
say, up to 4294967 kHz. So is a crystal, but that of an FC2580 is at most 976128 kHz
(`CoeffKHz`): beyond, the product of the filter's coefficient and the crystal leaves the
u32 in which `set_filter` computes it, and from about 2.1 GHz the fraction K would carry
into the bits of R. Its own crystal has 16.384 MHz. Reads whose answer goes nowhere
are possible faults and no more. Of the registers of the E4000 those that reset
themselves (the reset bits) keep what was written.

### DongleBoard, DongleBus
The dongles on a bus, and a thread that finds one, opens it, uses what takes
`&self` and drops it. `DongleBoard` is one dongle: GPIO, the register of AGC and
test mode, and the EEPROM with its byte-wise write. `DongleBus` has the bus and the
requests.

| variable | code |
|---|---|
| `bus` | the dongles in the order of enumeration; `Plug` and `Unplug` change it between any two steps |
| `board[d]` | registers, EEPROM and remaining faults of a dongle |
| `shown[d]` | the serial that the dongle read from its EEPROM when it was plugged in |
| `req` | the request: `lookup_serial` or `list_devices` with count, loop index and entries; open by index. History: `moved` (the bus changed since it was counted), `shifted` (at or in front of the index since it was found), `blind` (dongles whose strings could not be read) |
| `dev` | the open dongle, and the tuner that the probe found on it |
| `asked[d]` | history: what Ok calls set; the EEPROM's bytes, and which of them a failed write left in doubt |

Requests are sequential: one thread looks, opens, uses and drops. Two openers are
the matter of DeviceLifecycle, and so are the other failures of open and drop.
`Unplug` of the open dongle closes it, since every call on its handle fails from
then on. The EEPROM has `Size` bytes (256) with the serial from `SerialAt` on, pins
are 0..7. The probe is what it does to the board (the reset pulse on GPIO 4, GPIO 6
for the FC0012) and what it finds when an answer or the strings are lost. `SetFreq` is
what a band switch of a Blog V4 does to the board: GPIO 5, in the register of bias tee
and reset pulse, is the upconverter's switch. The rest of `set_freq`, and when it
switches, is in R82xxDriver and DeviceControl; here any call may switch.

### DeviceControl
`dev` is a record of the device's cached settings, the driver's state and the
registers that matter. The control methods take `&mut self` and the device is not
`Sync`, so a call is one step; calls are sets of outcomes as in TunerRegisters,
with every early return and every repeater bracket of the source. `sync` remembers
what nothing has put in doubt since a call without a fault last set it up:

| member | put in doubt by | set up by |
|---|---|---|
| `"tuner"`: mode, LO, filter | a fault; a `set_direct_sampling` that is not Ok (its calibration can refuse when the table has woken the tuner) | `set_direct_sampling`, Ok: to tuner mode always; to direct mode, it keeps what was believed |
| `"rate"`: resampler, correction | a fault | `set_sample_rate` |
| `"if"`: the crystal in the demodulator's IF | a fault; a change of correction; a crystal set before a rate is | `set_sample_rate`, `set_tuner_bandwidth`, `set_direct_sampling(0)` |

Abstractions:
  * a register that is computed from a crystal (`lo`, `ifreg`) holds the pair of the
    wanted frequency and the crystal of that time, itself the pair of crystal and ppm;
    the resampler's ratio and the correction word are their numbers, 28-bit mask, sign
    bit and saturation included, and the cached rate is `real_rate`;
  * whether a PLL accepts an LO (its `nint` depends on the crystal) and locks is free:
    every `set_freq`, and the calibration of every `tuner.init`, can be refused with no
    USB fault, before or after its registers are written. `Reachable` is only what no
    crystal can make possible;
  * `shadow` says whether the driver's shadow registers are still the chip's. After a
    failed transfer to the tuner they may not be, until `tuner.init` writes the whole
    table; meanwhile a write that returns Ok may have been skipped, so that its register
    keeps the old value;
  * standby takes the gain registers, and bit 4 of the filter's register 0x0a
    (`AsleepFilter`);
  * the gain registers are one value; which bits of which register they are is in
    R82xxDriver;
  * antenna switching is left to R82xxDriver, AGC, test mode, bias tee and the
    upconverter's pin to DongleBus.

## 3. What the runs show

| run | config | asks | bounds |
|---|---|---|---|
| `stream_safety` | `MCBulkStreamSafety.cfg` | can any interleaving of two sessions break exclusivity, contiguity, error order, release order; and the refinement of SingleReader | 2 sessions of any kind, depth 2, 4 chunks, zero-read limit 2 |
| `stream_liveness` | `MCBulkStreamLiveness.cfg` | do dropped, cancelled and unplugged sessions end | 2 sessions (callback loop, stream), depth 1, 3 chunks |
| `lifecycle` | `MCDeviceLifecycle.cfg` | claim, power, driver and repeater over every failure of open and Drop; open and Drop end | 2 openers, unplug, crash, a worker each |
| `r82xx_bandwidth` | `MCR82xxBandwidth.cfg` | is the right filter selected and centred | a 50 kHz grid to 8.5 MHz and the neighbours of every boundary |
| `r82xx_driver` | `MCR82xxDriver.cfg` | shadow = chip; LO, tracking filter, antenna, IF filter and gain as asked, over any sequence of calls | R820T with 1 fault, R828D and Blog V4 without; 2 frequencies (3 on the V4: one per band), 1 bandwidth, 2 gains (1 on the chip with the fault) |
| `trait_drivers` | `MCTraitDrivers.cfg` | do the PLL registers spell the frequency asked for, and do filter, gains and modes stay as asked, over any sequence of calls | one dongle of each kind, 1 fault each; frequencies on both sides of a band's limit, on one, and refused ones; 1 or 2 bandwidths and gains, 3 IF stage gains (one out of range), 2 crystals on the FC0012 (28.8 MHz, and 140 MHz, whose remainder leaves 16 bits) |
| `control` | `MCDeviceControl.cfg` | do the getters tell the truth after any sequence of calls with a fault anywhere, the PLL refusing at will, and crystals and corrections changing | an R828D with 1 fault, and an R820T with a crystal of 28.799 MHz to change to and no fault; 1 frequency, 2 rates (one invalid, one that the resampler meets with one of the crystals only), 1 bandwidth, 1 gain, 1 ppm beside 0 |
| `dongle_bus` | `MCDongleBus.cfg` | is the dongle that a search opens the one asked for while dongles come and go; do bias tee, AGC or test mode and EEPROM stay as Ok calls left them | 2 dongles with equal factory serials, a Blog V4 with 1 fault and an FC0012 without; 4 serials searched (the blank one, one that none has at first), an EEPROM of 3 bytes with 2 of serial, 2 images (one does not fit), pin 5 (the Blog V4's upconverter) |
| `kernel_driver`, `repeater_leak`, `direct_sampling_if`, `antenna_retry` | `MCKernelDriver.cfg`, `MCRepeater.cfg`, `MCDirectSampling.cfg`, `MCAntennaRetry.cfg` | disagreements between the code and what its comments say, see section 5 | |

Why the bounds are enough. *Two sessions*: exclusion, stealing and hand-over are
between two parties, and a third only repeats the second (the proofs cover any
number). *Depth 2 and 4 chunks*: the channel is empty, part full and full with a
sender waiting, and a chunk more than the channel holds is read. *Zero limit 2*
(100 in the code): the counter is below, at and reset from its limit. *One fault*:
each property is about what remains after one failed write, at every position of
every call and any number of clean calls after it. The crystals change on a second
dongle, since a fault and they do not meet in more than a rollback, which the R828D has
with `set_xtal_freq(0, 0)`. *Frequencies*: the control model computes nothing from
a frequency that another would change, since the PLL may refuse any. In `r82xx_driver` one
frequency puts the LO on the first MHz of a tracking-filter range, the gains are one
the device offers and one it does not, and the fault is given to the chip whose
state space it multiplies least. The 900,000 S/s rate is the largest invalid one (an
exclusive bound of the check), and 299,990 S/s one that the resampler meets with one
crystal and misses with the other (section 5). In `trait_drivers` the FC0013 is tuned just below and
at the limit of a divider and into the band of the other filter bits, the E4000 at
the shared limit of two bands and where no row of its PLL table is meant to apply,
the FC2580 in each of its bands and where N does not fit. *Two openers*: an open
against a close, an open against an open, a re-open after a crash. *Two dongles*: an
index is shifted by a dongle in front of it, or is one past the end; writing one
EEPROM tells two equal dongles apart after the next plug.

Liveness. `WF(Thread(s))`: the thread that runs a session takes its next step. The
code justifies it as far as its environment does: a blocking pool runs the closure
it accepted, a bulk transfer ends within its timeout (every transfer has one), a
user's callback returns. Nothing is assumed of consumers: `UnplugEndsStreams`
states its own assumption, that this stream goes on being polled. Interleaved
timeouts and zero-length reads never end a stream (documented at
`streaming.rs:76-82`), which the model reproduces; the cancel flag does end the
callback loop then, and that is what `CancelReturns` says. `OpenEnds` assumes only
that running code goes on. The other modules have one step per call and nothing that
waits, so that there is no liveness to state.

What the less obvious properties say:

* `ReceivesCenterFreq`: in tuner mode the LO is the reported frequency plus the IF that
  the demodulator has, computed from the crystal and correction of now. That the IF was
  computed from those of now too is said only while `"if"` is in `sync`: a correction
  leaves it behind, as section 5 says.
* `ModeAsReported`: said only until a fault or a `set_direct_sampling` that is not Ok.
* `RateAsReported`: the ratio in the resampler makes the cached rate of the cached
  crystal, the correction word is that of the cached ppm, and in tuner mode the filter is
  that of the bandwidth, or else of the rate, or after `tuner.init` the initial one. Not
  in direct sampling, where standby has taken a bit of the filter.
* `RejectedIsNoOp`: said of a device whose tuner has a driver; for one without see
  section 5.

* `SamplesContiguous`: the chunks a session hands over were completed one after the
  other, with none in between that went to another session or got lost.
* `OpensAsAsked`: a search by serial opens a dongle of that serial, the first that
  could be read, unless the bus changed at or in front of its index after it was
  found; "no device with serial" is true of the dongles that could be read; a
  listing has every dongle at its index; the tuner found is the dongle's own unless
  a transfer was lost.
* `BoardAsAsked`: over the next open, with its reset of the tuner through the same
  GPIO register, and over what fails on other pins, what Ok calls set stays set; pin 5
  of a Blog V4 is as the last Ok call about it, bias tee or band switch, set it;
  every byte of the EEPROM is the one last written to it, apart from those of a
  failed write until one goes through there.
* `TunesAsAsked`: output divider, quotient and fraction, read back from the chip's
  registers, spell the frequency to within a step of the fraction, and the band's
  registers are those of the frequency, whatever failed before the last Ok
  `set_freq` and whatever was set since. Of the FC001x it is said for quotients up to
  503, which are those of the tables' range: larger ones wrap; and the fraction for
  crystals up to 131.072 MHz, beyond which it is cut (section 5).
* `SettingsAsAsked` (R82xxDriver and TraitDrivers): each setting is read back from
  the field of the chip that holds it, after every call that writes its register.
* `GainAsReported`: `tuner_gain()` is the gain in the chip, also when the repeater's
  close failed after it. Not after the next `set_direct_sampling`, which restores no
  gain; nor, once a transfer to the tuner itself has failed, until its next init, since
  the shadow registers may skip what a later Ok call should have written.

## 4. What is proved

`BulkStream_proofs` proves, for any set of sessions, channel depth, zero-read limit and
number of chunks (from `BulkStreamAssumption`: depth and limit are positive), every
safety property of the runs and the refinement:

| theorem | statement |
|---|---|
| `TypeCorrect` | `Spec => []TypeOK`, with the channel's bound and the counter's |
| `ExclusiveTransfer` | `Spec => []OneTransfer` |
| `NoGuardLeak` | `Spec => []IdleMeansFree` |
| `StreamEndReleased` | `Spec => []EndMeansReleased` |
| `Refinement` | `Spec => SR!SRSpec`: the flag implements the single reader |
| `NoGapInSamples` | `Spec => []SamplesContiguous` |
| `ErrorEndsSession` | `Spec => []ErrorIsLast` |
| `LossIsRecorded` | `Spec => []DeviceLostRecorded` |

`TypeOK` is not inductive: that `zeros` stays within its limit holds because the
loop returns at the limit, so it is strengthened by `ZeroCount`. `OneTransfer` is
not inductive either: a state in which a session reads without a guard, or in which
two hold one, satisfies it until the next step. `IInv` adds
  * `GuardAtPC`: where a session is says whether it holds a guard;
  * `Exclusive`: the flag is set exactly when somebody holds a guard, and no two do;
  * `KindAtPC`: only streams are at the stream-worker places, and so on, without which a
    session of the wrong kind could leave a place with its guard.

Each action preserves each conjunct (one step per action), the theorems follow, and
the refinement maps the acquiring, transferring and releasing steps to those of
`SingleReader` and every other step to a stutter.

What is handed over is in order because what is still on its way is: `BufAtPC` ties
the item in a thread's hands to its place in the code, and `DeliveryInv` is about the
`Pipeline` of a session, what was handed over, then the channel, then the item in
hand. It has consecutive chunks and at most one error, at the end; a DeviceLost in it
has been recorded; it has no error while the thread can still read; and, where the
session holds the guard, its last chunk is the newest that the dongle has completed.
The last is what makes the next chunk follow: with `IInv` no other session can have
completed one since. A receiver that is gone cuts the pipeline to what was handed
over. Items only move from one part of the pipeline to the next, so that most actions
leave it as it is.

`DeviceLifecycle_proofs` proves, for any number of openers (from
`LifecycleAssumption`: "no opener" is not an opener), every safety property of the
run:

| theorem | statement |
|---|---|
| `TypeCorrect` | `Spec => []TypeOK` |
| `InterfaceReturned` | `Spec => []ClaimReturned` |
| `OneChipOwner` | `Spec => []ChipOwned` |
| `ReadyStaysPowered` | `Spec => []ReadyIsPowered` |
| `ClosedIsOff` | `Spec => []CloseIsPowerDown` |
| `DriverComesBack` | `Spec => []DriverRestored` |

The invariant under all of them is `OwnerAtPC`: an opener is at one of the places in
`Owned` exactly when it has the interface claimed. So no two are there, and a step of
one cannot change what is claimed of the chip at another's place. On it rest
`PowerAtPC` (what of the chip is up at which place of the owner), `OffAtPC` (what is
off when nobody owns it) and `DriverOwed` (a driver that was detached is back, or an
active opener still has to give it back).

`R82xxBandwidth_proofs` proves `FilterAlwaysFits` and `AlwaysCentred`
(`Spec => []FilterFits`, `Spec => []CentredInFilter`) for every set of requests a
caller can make (`RequestsAssumption`), where the run tries boundaries and a grid. The
lemmas are about the operators: `LowPass`, that `find_if_lpf_idx` finds the narrowest
wide-enough entry because the table falls; `CornerPoints`, at which widths the
high-pass corners open; `Monotone`, that a request that opens more corners is wider
than all that fewer corners could serve. The invariant is that the driver's setting is
the one for the last request.

`DeviceControl_proofs` proves, for every set of frequencies, rates, bandwidths, gains,
corrections and crystals that satisfies `ControlAssumption`, with or without a driver
and for any number of faults, every invariant of the run and its action property:

| theorem | statement |
|---|---|
| `TypeCorrect` | `Spec => []TypeOK` |
| `CenterFreqReceived` | `Spec => []ReceivesCenterFreq` |
| `ModeReported` | `Spec => []ModeAsReported` |
| `RateReported` | `Spec => []RateAsReported` |
| `GainReported` | `Spec => []GainAsReported` |
| `DriverXtalTold` | `Spec => []DriverXtalTracks` |
| `RepeaterOffAfterBracket` | `Spec => []RepeaterClosed` |
| `RefusalChangesNothing` | `Spec => RejectedIsNoOp` |

A call is a set of outcomes, so the lemmas are about an arbitrary outcome t of an
operator on an arbitrary device s that is `Sound` (its fields have their types,
no crystal is 0 Hz, the driver knows the crystal): which fields t shares
with s (`Step`), and what is true of t when no transfer failed (`Clean`) and the shadow
registers were right in s (`Told`). They follow
the call graph of the source, from the repeater bracket and single registers up to the
setters. The inductive invariant is `Sound(dev)` with `RepeaterClosed` and with
`Believed(dev, sync)`: what each getter says is what the hardware has, on the sides that
`sync` vouches for. `Vouched` is how a call changes `sync`. The theorems say of the PLL's
refusals what the model does: any `set_freq` and any calibration may be refused, so
nothing rests on a refusal that is missing. It speaks of both sides at once because calls cross over:
`set_sample_rate` sets the tuner's filter and IF, and a correction retunes the LO and
sets the resampler. `CallPreserves` is the step from such lemmas to the invariant, once
for all calls; each action instantiates it.

`DongleBus_proofs` proves, for any number of dongles of any tuner type and EEPROM
content, and any pins, images, EEPROM size and number of faults (`BoardAssumption`,
`BusAssumption`), every invariant of the run:

| theorem | statement |
|---|---|
| `TypeCorrect` | `Spec => []TypeOK` |
| `OpensRight` | `Spec => []OpensAsAsked` |
| `BoardTrue` | `Spec => []BoardAsAsked` |

`OpensAsAsked` speaks of a request that is done. The inductive invariant says it of
every place in the loop: as long as the bus has not moved, `Passed` (a dongle of the
serial in front of the index could not be read), `Listed` (the entries so far) and
`Behind` (no dongle further on has been found unreadable, which is what makes an entry
that was read stay listed by its serial); and of an index that was found, that its
dongle has the serial unless the bus changed at it or in front of it. Plugging and
unplugging move the dongles behind a place by one (`Inserted`, `Removed`). For
`BoardAsAsked`, one lemma for each call says of every outcome, failed ones included,
which pins, register and bytes it leaves alone; `Probing` is that of `probe_tuner` with
all its ignored errors: every pin but 4.

`TunerRegisters_proofs` has what a list of writes leaves, and so what `Apply` can.
`After` recurs over the list. The induction theorems of the library take a predicate,
which cannot be instantiated here, but induction for a *set* of naturals
(`NatSetInduction`) follows from the well-foundedness of <, and with it a function that
satisfies the equations of the recursive one exists for lists of every length
(`ChipAtExists`).

`R82xxDriver_proofs` proves, for any chips of the three models, any frequencies,
bandwidths and gains, any fine tune and calibration code the tuner answers with, and
any number of faults (`DriverAssumption`), every invariant of the run:

| theorem | statement |
|---|---|
| `TypeCorrect` | `Spec => []TypeOK` |
| `ShadowHolds` | `Spec => []ShadowIsChip` |
| `AntennaHolds` | `Spec => []AntennaFollowsFreq` |
| `TracksHolds` | `Spec => []TracksLo` |
| `SynthesisesHolds` | `Spec => []SynthesisesLo` |
| `SettingsHold` | `Spec => []SettingsAsAsked` |

An operation is a tree of shadowed writes, each of which is skipped, goes through or
fails. So the lemmas are about an arbitrary outcome t of an operation on an arbitrary
driver s, from one write (`WriteMask`) over lists (`Run`) to whole calls, and say three
kinds of things: which bits t leaves as they were (`Untouched`), what the bits that it
writes show when it is Ok (`Touches`: the last write of a bit counts), and where chip
and shadow agree (`Follows`). The inductive invariant says what the shadow shows, not
what the chip does: input, LO, filter, gain mode and gain are those asked for (`InputInv`
to `GainInv`), each as long as the call in doubt is not one of its own registers. What
makes this true of the chip is `RepairInv`: wherever chip and shadow differ, the retry
of the failed call would change the shadow (`Owed`), so it is not skipped and sends the
byte again. `Mends` is what each call does for it: Ok, it pays what the same call owed;
failed, it owes no more than its own writes. It would not hold of a `write` that stored
the shadow first: a retry would find nothing to change.

The numbers are proved as well: that the divider of any LO in reach fits `nint` and the
16 bits of `sdm` and is the rounded one (`DividerFits`), that registers spell the number
they were set for (`ByteSpells`, `SpeltBack`), that `find_freq_range_idx` finds the last
range at or below the LO (`RangeFound`), and that the steps of `set_gain` sum to the
gains on offer (`GainTable`, `GainsOffered`) and it stops at the first that reaches the
gain (`GainStepsAre`).

`TraitDrivers_proofs` proves, for the four drivers without a shadow, any frequencies,
bandwidths, gains, stage gains and crystals in the range of `TraitAssumption`, and any
number of faults, every invariant of the run:

| theorem | statement |
|---|---|
| `TypeCorrect` | `Spec => []TypeOK` |
| `TunesHold` | `Spec => []TunesAsAsked` |
| `SettingsHold` | `Spec => []SettingsAsAsked` |

Neither of the last two is inductive: `Closest` and the PLLs map many requests to one
register, and what is true of a register's field is not yet what a later `set_bw` of an
FC001x, which tunes again by the driver's own frequency, needs. The inductive invariant
`IInv` (`Invariance`) says instead of everything asked for which *writes* are in the chip:
`FreqShown`, `WidthShown`, `GainShown`, `ModeShown` and `StageShown`, with the frequency
and the bandwidth that an FC001x keeps being those. Two kinds of lemmas preserve it. Of
each call, that every outcome changes only bits of its own (`Leaves`), a failed one
included, and that an Ok one ends with its writes in the chip (`InChip`, from the last
write of each bit in the list); the FC2580's, whose band registers lie under each other's,
write all that `Fc2580Tuned` reads. Of any two settings, that their bits are apart
(`BitsApart`, `StagesApart`), which is the table of which register holds what.

The other half is about one state: the writes spell what the properties say. `FcIsTuned`:
XDIV's rounding and the 16-bit fraction with its sign (`Rounding`, and `Fraction` for
crystals whose half fits 16 bits), the borrow
of AM from PM (`Registers12`) and the dividers of the tables (their limits). `E4kIsTuned`:
X is the quotient's remainder in 65536ths (`E4kQuotient`), the band follows from the
frequency (`E4kBandIs`) and the filter is a nearest one (`Nearest`). `Fc2580IsTuned`: N and
the rounded K of 20 bits split into four registers, of which the first also holds R
(`NDivides`, `KRounds`,
`CoarseAndFine`), and every register of the band. The long division
`Shifted` is a recursive function; that it divides is one more induction over a set of
naturals (`ShiftedDivides`). For the settings: that the sorted table of the FC0013 gives
the gain above and the steps of the FC0012 the one below (`GainAbove`, `GainBelow`), that
the E4000's LNA and mixer add up to each gain on offer (`ExactRow`), and that an IF stage's
field spells the index of its gain (`StageSpells`, `ByteGain`).

Only model-checked: liveness (`DroppedStreamFrees`, `CancelReturns`, `UnplugEndsStreams`,
`OpenEnds`: fairness and ENABLED are beyond the prover), and the properties of
the runs that expect a violation. Every invariant and every action property of the
passing runs is a theorem.

## 5. Findings

Runs that expect a violation:

* `DetachedIsReattached` (`mod.rs:188`): when `claim_interface` fails after the
  driver was detached, nothing reattaches it.
* `RepeaterOffBetweenCalls` (`sampling.rs:25`, `:47`): `set_direct_sampling` returns
  an error of the tuner with the repeater on, unlike the other setters.
* `DirectReceivesCenterFreq` (`frequency.rs:78`, `:341`): rate and bandwidth
  changes overwrite the IF register, which in direct sampling is the tuned frequency.
* `SwitchesAt345` (`tuner/r82xx/mod.rs:415`): `input` is stored before the write that
  selects it; after a failed write the same `set_freq` returns Ok without switching.

Seen while modelling, without a run of their own. Of the device:

* Drop releases the interface under a worker that still runs, so that a successful
  re-open does not show that the old worker has exited (`tests/live_streaming.rs:207-209`
  concludes so).
* `set_freq_correction`, and `set_xtal_freq` before a rate is set, retune the LO but leave
  the demodulator's IF as it was computed from the old crystal (`mod.rs:401-413`,
  `frequency.rs:159-191`): the signal is off by 3.57 Hz per ppm (357 Hz at 100 ppm) until
  the next rate, bandwidth or mode change.
* `set_direct_sampling(0)` whose calibration does not lock returns the error with the tuner
  awake and `direct_sampling()` still 1 or 2 (`sampling.rs:47`, `r82xx/mod.rs:253-260`).
* After a standby write to register 5 that reached the chip and returned an error, the
  shadow still has the old gain: the same `set_tuner_gain` is skipped as equal and returns
  Ok with the LNA at its lowest step (`r82xx/i2c.rs:63`, `:115`).
* The resampler's ratio keeps 28 bits (`frequency.rs:30`, `:60`). With a crystal of 28.799
  MHz (allowed: within 1 kHz of 28.8) the ratio for 299,990 S/s loses its highest, and the
  rate that is cached and runs is 899,972, outside the valid ranges of `frequency.rs:19`. A
  later change of the crystal sets that rate again and is refused.
* Without a tuner driver, a rate can be refused after it is cached and written: in
  direct sampling with offset tuning on, the trailing `set_offset_tuning` refuses
  (`frequency.rs:121`), and the check in front (`:40-59`) looks only at the floor. Hence
  the `HasDriver` in `RejectedIsNoOp`; without it, its proof fails at this step.
* A bias tee on GPIO 5 of a Blog V4 and its upconverter are one pin: each `set_freq` into
  another band sets it.
* A failed close of the repeater skips the update of the cached frequency
  (`frequency.rs:143`); after a half-failed correction, setting the old value again is
  a no-op that returns Ok (`frequency.rs:163`).
* `mod.rs:487-488` says that in AGC mode the tuner ignores `set_tuner_gain`; the R82xx
  driver's `set_gain` switches to manual (`r82xx/mod.rs:501-505`).
* Leaving direct sampling writes IF 0 while `offs_freq` keeps its value
  (`sampling.rs:57`), and restores no gain.
* At exactly 28.8 MHz a Blog V4 takes the upconverter's input and is not shifted.
* A transient Pipe or Io error marks a present dongle as lost.
* `set_bias_tee_gpio` for pins 8 to 15 returns Ok and does nothing; from 16 on the
  shift overflows.
* The probe pulls GPIO 4 low on the way to the last two tuners: a bias tee on pin 4
  goes off when a dongle with an FC2580, an FC0012 or an unknown tuner is opened.
* One lost answer of the probe makes a dongle one of Unknown tuner (direct sampling);
  a Blog V4 whose strings cannot be read is a standard R828D.
* A dongle that cannot be read has the serial "", and is what `.serial("")` finds.

Of the drivers that are not created yet:

* FC0012 and FC0013: the quotient wraps in a byte before it is checked
  (`fc0012.rs:415-421`), so that some frequencies around 1.81 to 1.87 GHz are accepted
  with a quotient that is 256 too low. `set_bw` can return PllProgrammingFailed (the
  trait's doc names only the FC2580). The power-down of `exit` is undone by a later
  `set_freq` or `set_bw`. Odd crystals can overflow XDIV's 16 bits. With
  crystals above 131 MHz the remainder is cut (`fc0012.rs:438`, `fc0013.rs:591-595`): at 140
  MHz and 1609 MHz, 66000 becomes 464, and `set_freq` is Ok with a wrong fraction. The FC0013 refuses
  about 948.6 to 950 MHz.
* E4000: 1.2 to 2.2 GHz is accepted with the default divider (for instance 1575 MHz),
  where the comment at `e4k.rs:774-787` expects PllProgrammingFailed; a stage beyond
  255 wraps (`stage as u8`, comment at `:1328-1330`).
* FC2580: `set_freq` replaces the filter of `set_bw`; registers of other bands, and
  0x4b, are never set back; N is checked after most of the writes.

## 6. Not modelled

* What has no state: the encodings of control transfers, FIR packing, logging, Debug
  and Display, errors, constants; `get_device_name`, `read_eeprom`, `closest_gain_in`
  (pure, with unit tests).
* `reset_buffer`, two register writes that nothing reads back; `usb_handle`, through
  which a caller can bypass the guard and which is documented as such. They keep Bulk
  streaming and USB register access at "partly".
* Code that nothing calls, under `allow(dead_code)`: the E4000's enhancement gain and
  DC offset (`e4k.rs:1003-1027`, `:1062-1116`) and the FC0013's RC calibration
  (`fc0013.rs:665-705`).
* Timing: sleeps, timeouts as durations, and what a tuner needs to settle.

## 7. Plan

Done, in this order: the streaming core, the life of the device, the control surface
with the algorithms it needs, the R82xx driver, the four other drivers, enumeration
with the calls past every cache; the proofs of section 4, of which those of
TraitDrivers came last. What is left:

1. Larger instances: two faults or more frequencies and bandwidths in `control`, a fault on each chip in `r82xx_driver`,
   three dongles.
