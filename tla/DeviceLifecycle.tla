-------------------------- MODULE DeviceLifecycle --------------------------
(***************************************************************************)
(* The life of RtlSdrDevice values on one dongle: RtlSdrDevice::open with  *)
(* its early returns, a stream worker that holds its own reference to the  *)
(* USB handle, and Drop. An opener is one call of open and the device it   *)
(* returns; openers run in one process or in several, and share only the   *)
(* dongle and the operating system's state for its interface 0.            *)
(*                                                                         *)
(* Every step of open and Drop that can fail on its own is an action, so   *)
(* that openers interleave between them. Tuner traffic is reduced to what  *)
(* the order of these steps can get wrong: whether the demodulator and the *)
(* tuner are powered, and whether the I2C repeater is on.                  *)
(***************************************************************************)
EXTENDS FiniteSets

CONSTANTS Openers, None

ASSUME LifecycleAssumption == None \notin Openers

VARIABLES
    present,       \* the dongle is plugged in
    driver,        \* a kernel driver is bound to interface 0
    claim,         \* the opener that has interface 0 claimed, or None
    demod,         \* the demodulator is powered on
    tunerUp,       \* the tuner is initialised (not in standby)
    repeater,      \* the I2C repeater is on
    pc,            \* where each opener is
    driverActive,  \* driver_active of the opener's open
    devLost,       \* dev_lost
    tuner,         \* tuner is Some(driver)
    worker,        \* the opener's stream worker
    stream,        \* the consumer still holds the stream
    trouble        \* history: what went wrong so far

os == <<driver, claim>>
chip == <<demod, tunerUp, repeater>>
handle == <<driverActive, devLost, tuner>>
streaming == <<worker, stream>>
vars == <<present, os, chip, pc, handle, streaming, trouble>>

Opening == {"opened", "checked", "detached", "claimed", "tested", "based",
            "probing", "probed", "configured"}
Dropping == {"drop", "exit", "deinit", "release", "attach"}
PCs == {"idle", "ready", "closed"} \cup Opening \cup Dropping
Workers == {"none", "between", "reading", "gone"}
Troubles == {"overlap", "fault", "claim", "attach", "crash"}

Active(o) == pc[o] \in Opening \cup Dropping \cup {"ready"}
Goto(o, label) == pc' = [pc EXCEPT ![o] = label]
Note(t) == trouble' = trouble \cup {t}

Init ==
    /\ present = TRUE /\ driver \in BOOLEAN /\ claim = None
    /\ demod = FALSE /\ tunerUp = FALSE /\ repeater = FALSE
    /\ pc = [o \in Openers |-> "idle"]
    /\ driverActive = [o \in Openers |-> FALSE]
    /\ devLost = [o \in Openers |-> TRUE]
    /\ tuner = [o \in Openers |-> FALSE]
    /\ worker = [o \in Openers |-> "none"]
    /\ stream = [o \in Openers |-> FALSE]
    /\ trouble = {}

---------------------------------------------------------------------------
(* open: from the device list to the claimed interface. An error returns   *)
(* before the RtlSdrDevice exists, so that no Drop runs.                   *)

OpenHandle(o) ==
    /\ pc[o] = "idle"
    /\ Goto(o, IF present THEN "opened" ELSE "closed")
    /\ IF \E p \in Openers : Active(p) THEN Note("overlap") ELSE UNCHANGED trouble
    /\ UNCHANGED <<present, os, chip, handle, streaming>>

(* kernel_driver_active(0).unwrap_or(false)                                *)
CheckDriver(o) ==
    /\ pc[o] = "opened"
    /\ driverActive' = [driverActive EXCEPT ![o] = driver /\ present]
    /\ Goto(o, "checked")
    /\ UNCHANGED <<present, os, chip, devLost, tuner, streaming, trouble>>

(* detach_kernel_driver(0), whose error is ignored.                        *)
DetachDriver(o) ==
    /\ pc[o] = "checked"
    /\ driver' = (driver /\ ~(driverActive[o] /\ present))
    /\ Goto(o, "detached")
    /\ UNCHANGED <<present, claim, chip, handle, streaming, trouble>>

(* Mutant: the claim is not exclusive between handles.                     *)
ClaimSharedly(o) ==
    /\ pc[o] = "detached" /\ present
    /\ claim' = o
    /\ Goto(o, "claimed")
    /\ UNCHANGED <<present, driver, chip, handle, streaming, trouble>>

ClaimOk(o) ==
    /\ pc[o] = "detached" /\ present /\ claim = None /\ ~driver
    /\ claim' = o
    /\ Goto(o, "claimed")
    /\ UNCHANGED <<present, driver, chip, handle, streaming, trouble>>

(* Mutant: the device value exists before the claim, so that its Drop runs *)
(* when the claim fails.                                                   *)
ClaimFailsIntoDrop(o) ==
    /\ pc[o] = "detached"
    /\ ~present \/ claim # None \/ driver
    /\ Goto(o, "deinit")
    /\ Note("claim")
    /\ UNCHANGED <<present, os, chip, handle, streaming>>

(* claim_interface(0)? : another handle or a driver has the interface.     *)
ClaimFails(o) ==
    /\ pc[o] = "detached"
    /\ ~present \/ claim # None \/ driver
    /\ Goto(o, "closed")
    /\ Note("claim")
    /\ UNCHANGED <<present, os, chip, handle, streaming>>

---------------------------------------------------------------------------
(* open: the device exists; an error drops it.                             *)

(* The dummy write; when it fails the dongle is reset, if that works.      *)
DummyWrite(o) ==
    /\ pc[o] = "claimed"
    /\ Goto(o, "tested")
    /\ \/ UNCHANGED <<chip, trouble>>
       \/ demod' = FALSE /\ tunerUp' = FALSE /\ repeater' = FALSE /\ Note("fault")
    /\ UNCHANGED <<present, os, handle, streaming>>

(* Mutant: dev_lost keeps its initial value.                               *)
InitBasebandStillLost(o) ==
    /\ pc[o] = "tested" /\ present
    /\ demod' = TRUE
    /\ Goto(o, "based")
    /\ UNCHANGED <<present, os, tunerUp, repeater, handle, streaming, trouble>>

(* init_baseband succeeds: the device is no longer taken for lost.         *)
InitBaseband(o) ==
    /\ pc[o] = "tested" /\ present
    /\ demod' = TRUE
    /\ devLost' = [devLost EXCEPT ![o] = FALSE]
    /\ Goto(o, "based")
    /\ UNCHANGED <<present, os, tunerUp, repeater, driverActive, tuner, streaming, trouble>>

(* Mutant: a failed initialisation is tried again instead of returned.     *)
InitBasebandRetries(o) ==
    /\ pc[o] = "tested"
    /\ Goto(o, "claimed")
    /\ Note("fault")
    /\ UNCHANGED <<present, os, chip, handle, streaming>>

(* init_baseband fails somewhere, before or after the power-on write. The  *)
(* drop that follows finds dev_lost still TRUE.                            *)
InitBasebandFails(o) ==
    /\ pc[o] = "tested"
    /\ demod' \in (IF present THEN {demod, TRUE} ELSE {demod})
    /\ Goto(o, "drop")
    /\ Note("fault")
    /\ UNCHANGED <<present, os, tunerUp, repeater, handle, streaming>>

RepeaterOn(o) ==
    /\ pc[o] = "based" /\ present
    /\ repeater' = TRUE
    /\ Goto(o, "probing")
    /\ UNCHANGED <<present, os, demod, tunerUp, handle, streaming, trouble>>

(* probe_tuner: an R82xx gets a driver, the other tuners and a failed      *)
(* probe get none. For an unknown tuner set_direct_sampling(1) follows,    *)
(* whose result is ignored.                                                *)
ProbeTuner(o) ==
    /\ pc[o] = "probing"
    /\ tuner' \in {tuner, [tuner EXCEPT ![o] = present]}
    /\ Goto(o, "probed")
    /\ UNCHANGED <<present, os, chip, driverActive, devLost, streaming, trouble>>

(* The tuner-specific demodulator writes and tuner.init.                   *)
InitTuner(o) ==
    /\ pc[o] = "probed" /\ present
    /\ tunerUp' = (tunerUp \/ tuner[o])
    /\ Goto(o, "configured")
    /\ UNCHANGED <<present, os, demod, repeater, handle, streaming, trouble>>

RepeaterOff(o) ==
    /\ pc[o] = "configured" /\ present
    /\ repeater' = FALSE
    /\ Goto(o, "ready")
    /\ UNCHANGED <<present, os, demod, tunerUp, handle, streaming, trouble>>

(* One of the fallible steps after init_baseband fails: its writes may     *)
(* have reached the chip all the same.                                     *)
OpenFails(o) ==
    /\ pc[o] \in {"based", "probed", "configured"}
    /\ tunerUp' \in {tunerUp, tunerUp \/ (pc[o] = "probed" /\ present /\ tuner[o])}
    /\ repeater' \in {repeater, present /\ (repeater \/ pc[o] = "based") /\ pc[o] # "configured"}
    /\ Goto(o, "drop")
    /\ Note("fault")
    /\ UNCHANGED <<present, os, demod, handle, streaming>>

---------------------------------------------------------------------------
(* A stream worker with its own Arc of the handle and of dev_lost.         *)

(* Mutant: the stream is returned although no worker was spawned for it.   *)
SpawnNothing(o) ==
    /\ pc[o] = "ready" /\ worker[o] \in {"none", "gone"}
    /\ stream' = [stream EXCEPT ![o] = TRUE]
    /\ UNCHANGED <<present, os, chip, pc, handle, worker, trouble>>

SpawnWorker(o) ==
    /\ pc[o] = "ready" /\ worker[o] \in {"none", "gone"}
    /\ worker' = [worker EXCEPT ![o] = "between"]
    /\ stream' = [stream EXCEPT ![o] = TRUE]
    /\ UNCHANGED <<present, os, chip, pc, handle, trouble>>

WorkerRead(o) ==
    /\ worker[o] = "between"
    /\ worker' = [worker EXCEPT ![o] = IF stream[o] THEN "reading" ELSE "gone"]
    /\ UNCHANGED <<present, os, chip, pc, handle, stream, trouble>>

(* The transfer brings data, which is sent or shows the stream is gone.    *)
WorkerData(o) ==
    /\ worker[o] = "reading" /\ present /\ claim = o /\ demod
    /\ worker' = [worker EXCEPT ![o] = IF stream[o] THEN "between" ELSE "gone"]
    /\ UNCHANGED <<present, os, chip, pc, handle, stream, trouble>>

(* It ends empty or with a timeout: the worker returns.                    *)
WorkerEmpty(o) ==
    /\ worker[o] = "reading" /\ present
    /\ worker' = [worker EXCEPT ![o] = "gone"]
    /\ UNCHANGED <<present, os, chip, pc, handle, stream, trouble>>

(* It fails with NoDevice, Pipe or Io: the worker marks the device lost.   *)
WorkerLost(o) ==
    /\ worker[o] = "reading"
    /\ worker' = [worker EXCEPT ![o] = "gone"]
    /\ devLost' = [devLost EXCEPT ![o] = TRUE]
    /\ Note("fault")
    /\ UNCHANGED <<present, os, chip, pc, driverActive, tuner, stream>>

DropStream(o) ==
    /\ stream[o]
    /\ stream' = [stream EXCEPT ![o] = FALSE]
    /\ UNCHANGED <<present, os, chip, pc, handle, worker, trouble>>

---------------------------------------------------------------------------
(* Drop for RtlSdrDevice. Nothing it calls can stop it.                    *)

BeginDrop(o) ==
    /\ pc[o] = "ready"
    /\ Goto(o, "drop")
    /\ UNCHANGED <<present, os, chip, handle, streaming, trouble>>

(* The one look at dev_lost.                                               *)
CheckLost(o) ==
    /\ pc[o] = "drop"
    /\ Goto(o, IF devLost[o] THEN "release" ELSE IF tuner[o] THEN "exit" ELSE "deinit")
    /\ UNCHANGED <<present, os, chip, handle, streaming, trouble>>

(* Repeater on, tuner.exit, repeater off: each may fail.                   *)
ExitTuner(o) ==
    /\ pc[o] = "exit"
    /\ Goto(o, "deinit")
    /\ \/ present /\ tunerUp' = FALSE /\ repeater' = FALSE /\ UNCHANGED trouble
       \/ /\ tunerUp' \in {tunerUp, tunerUp /\ ~present}
          /\ repeater' \in {repeater, repeater \/ present}
          /\ Note("fault")
    /\ UNCHANGED <<present, os, demod, handle, streaming>>

(* deinit_baseband.                                                        *)
DeinitBaseband(o) ==
    /\ pc[o] = "deinit"
    /\ Goto(o, "release")
    /\ \/ present /\ demod' = FALSE /\ UNCHANGED trouble
       \/ demod' \in {demod, demod /\ ~present} /\ Note("fault")
    /\ UNCHANGED <<present, os, tunerUp, repeater, handle, streaming>>

(* Mutant: the release is skipped for a lost device, with the cleanup.     *)
ReleaseUnlessLost(o) ==
    /\ pc[o] = "release"
    /\ claim' = IF claim = o /\ ~devLost[o] THEN None ELSE claim
    /\ Goto(o, "attach")
    /\ UNCHANGED <<present, driver, chip, handle, streaming, trouble>>

ReleaseInterface(o) ==
    /\ pc[o] = "release"
    /\ claim' = IF claim = o THEN None ELSE claim
    /\ Goto(o, "attach")
    /\ UNCHANGED <<present, driver, chip, handle, streaming, trouble>>

(* Mutant: the reattachment is skipped for a lost device, with the cleanup.*)
AttachDriverUnlessLost(o) ==
    /\ pc[o] = "attach"
    /\ Goto(o, "closed")
    /\ driver' = (driver \/ (driverActive[o] /\ ~devLost[o] /\ present /\ claim = None))
    /\ UNCHANGED <<present, claim, chip, handle, streaming, trouble>>

(* attach_kernel_driver(0) when driver_active: refused while another       *)
(* handle has the interface.                                               *)
AttachDriver(o) ==
    /\ pc[o] = "attach"
    /\ Goto(o, "closed")
    /\ IF ~driverActive[o] THEN UNCHANGED <<driver, trouble>>
       ELSE IF present /\ claim = None
       THEN driver' = TRUE /\ UNCHANGED trouble
       ELSE UNCHANGED driver /\ Note("attach")
    /\ UNCHANGED <<present, claim, chip, handle, streaming>>

(* The process dies without running Drop; the operating system closes the  *)
(* handle, which gives the interface back and nothing else.                *)
Crash(o) ==
    /\ Active(o)
    /\ Goto(o, "closed")
    /\ claim' = IF claim = o THEN None ELSE claim
    /\ worker' = [worker EXCEPT ![o] = IF @ = "none" THEN @ ELSE "gone"]
    /\ stream' = [stream EXCEPT ![o] = FALSE]
    /\ Note("crash")
    /\ UNCHANGED <<present, driver, chip, handle>>

Unplug ==
    /\ present
    /\ present' = FALSE /\ driver' = FALSE
    /\ demod' = FALSE /\ tunerUp' = FALSE /\ repeater' = FALSE
    /\ Note("fault")
    /\ UNCHANGED <<claim, pc, handle, streaming>>

Over(o) == pc[o] = "closed" /\ worker[o] \in {"none", "gone"}
AllOver == (\A o \in Openers : Over(o)) /\ UNCHANGED vars

---------------------------------------------------------------------------
Open(o) ==
    \/ OpenHandle(o) \/ CheckDriver(o) \/ DetachDriver(o) \/ ClaimOk(o) \/ ClaimFails(o)
    \/ DummyWrite(o) \/ InitBaseband(o) \/ InitBasebandFails(o) \/ RepeaterOn(o)
    \/ ProbeTuner(o) \/ InitTuner(o) \/ RepeaterOff(o) \/ OpenFails(o)

Drop(o) ==
    \/ CheckLost(o) \/ ExitTuner(o) \/ DeinitBaseband(o) \/ ReleaseInterface(o)
    \/ AttachDriver(o)

Worker(o) == WorkerRead(o) \/ WorkerData(o) \/ WorkerEmpty(o) \/ WorkerLost(o)

Next ==
    \/ \E o \in Openers : \/ Open(o) \/ BeginDrop(o) \/ Drop(o)
                          \/ SpawnWorker(o) \/ Worker(o) \/ DropStream(o)
                          \/ Crash(o)
    \/ Unplug \/ AllOver

Spec == Init /\ [][Next]_vars

(* Code that is running goes on: open and Drop have no loop or wait of     *)
(* their own.                                                              *)
FairSpec == Spec /\ \A o \in Openers : WF_vars(Open(o) /\ pc[o] # "idle") /\ WF_vars(Drop(o))

---------------------------------------------------------------------------
(* Properties                                                              *)

AllClosed == \A o \in Openers : pc[o] \in {"idle", "closed"}

(* The type invariant. A stream exists only where a worker was spawned.    *)
TypeOK ==
    /\ present \in BOOLEAN /\ driver \in BOOLEAN /\ claim \in Openers \cup {None}
    /\ demod \in BOOLEAN /\ tunerUp \in BOOLEAN /\ repeater \in BOOLEAN
    /\ pc \in [Openers -> PCs]
    /\ driverActive \in [Openers -> BOOLEAN] /\ devLost \in [Openers -> BOOLEAN]
    /\ tuner \in [Openers -> BOOLEAN] /\ stream \in [Openers -> BOOLEAN]
    /\ worker \in [Openers -> Workers]
    /\ \A o \in Openers : stream[o] => worker[o] # "none"
    /\ trouble \subseteq Troubles

(* No early return of open and no failure inside Drop leaves the interface *)
(* claimed: it belongs only to a device that is being opened past its      *)
(* claim, is in use or is being dropped.                                   *)
ClaimReturned ==
    claim # None =>
        pc[claim] \in (Opening \ {"opened", "checked", "detached"}) \cup {"ready"}
                      \cup (Dropping \ {"attach"})

(* The code past the claim runs under it: two devices never initialise, use*)
(* or shut down the chip at the same time.                                 *)
ChipOwned ==
    \A o \in Openers :
        pc[o] \in {"claimed", "tested", "based", "probing", "probed", "configured",
                  "ready", "drop", "exit", "deinit", "release"} => claim = o

(* A device that open returned stays powered and tuned, with the I2C       *)
(* repeater off, until its own Drop: the shutdown of an earlier device,    *)
(* a failed open of a second one and what a crash left behind included.    *)
ReadyIsPowered ==
    \A o \in Openers :
        pc[o] = "ready" /\ "fault" \notin trouble =>
            demod /\ ~repeater /\ (tuner[o] => tunerUp)

(* When every device is closed, and no transfer failed, the demodulator is *)
(* off, the tuner in standby and the repeater off.                         *)
CloseIsPowerDown ==
    AllClosed /\ trouble \cap {"fault", "crash"} = {}
        => ~demod /\ ~tunerUp /\ ~repeater

(* The kernel driver that open detached is back once every device is       *)
(* closed, whether open failed half way or the device was taken for lost,  *)
(* as long as openers do not overlap and every claim succeeded.            *)
DriverRestored ==
    AllClosed /\ present /\ trouble \subseteq {"fault"}
    /\ (\E o \in Openers : driverActive[o]) => driver

(* An open and a Drop always come to their end, whatever fails in them.    *)
OpenEnds ==
    \A o \in Openers : (pc[o] \in Opening \cup Dropping) ~> (pc[o] \in {"ready", "closed"})

(* What the comment in Drop says of the kernel driver ("Reattach kernel    *)
(* driver if we detached it"), for every end of an open that detached it.  *)
DetachedIsReattached ==
    AllClosed /\ present /\ trouble \cap {"attach", "crash", "fault"} = {}
    /\ (\E o \in Openers : driverActive[o]) => driver
===========================================================================
