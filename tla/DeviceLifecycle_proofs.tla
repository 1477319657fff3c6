----------------------- MODULE DeviceLifecycle_proofs -----------------------
(***************************************************************************)
(* Proofs about DeviceLifecycle for any number of openers: every safety    *)
(* property of the module. Nothing is assumed of how they interleave, of   *)
(* which step fails, or of when a process dies or the dongle is unplugged. *)
(***************************************************************************)
EXTENDS DeviceLifecycle, TLAPS

LEMMA TypeStep == TypeOK /\ [Next]_vars => TypeOK'
<1> SUFFICES ASSUME TypeOK, [Next]_vars
             PROVE  TypeOK'
    OBVIOUS
<1> USE DEF TypeOK, PCs, Opening, Dropping, Workers, Troubles, Goto, Note,
            os, chip, handle, streaming
<1>1. ASSUME NEW o \in Openers, Open(o)
      PROVE  TypeOK'
  <2>1. CASE OpenHandle(o)
        BY <2>1 DEF OpenHandle
  <2>2. CASE CheckDriver(o)
        BY <2>2 DEF CheckDriver
  <2>3. CASE DetachDriver(o)
        BY <2>3 DEF DetachDriver
  <2>4. CASE ClaimOk(o)
        BY <2>4 DEF ClaimOk
  <2>5. CASE ClaimFails(o)
        BY <2>5 DEF ClaimFails
  <2>6. CASE DummyWrite(o)
        BY <2>6 DEF DummyWrite
  <2>7. CASE InitBaseband(o)
        BY <2>7 DEF InitBaseband
  <2>8. CASE InitBasebandFails(o)
        BY <2>8 DEF InitBasebandFails
  <2>9. CASE RepeaterOn(o)
        BY <2>9 DEF RepeaterOn
  <2>10. CASE ProbeTuner(o)
        BY <2>10 DEF ProbeTuner
  <2>11. CASE InitTuner(o)
        BY <2>11 DEF InitTuner
  <2>12. CASE RepeaterOff(o)
        BY <2>12 DEF RepeaterOff
  <2>13. CASE OpenFails(o)
        BY <2>13 DEF OpenFails
  <2> QED BY <1>1, <2>1, <2>2, <2>3, <2>4, <2>5, <2>6, <2>7, <2>8, <2>9,
             <2>10, <2>11, <2>12, <2>13 DEF Open
<1>2. ASSUME NEW o \in Openers, BeginDrop(o) \/ Drop(o)
      PROVE  TypeOK'
  <2>1. CASE BeginDrop(o)
        BY <2>1 DEF BeginDrop
  <2>2. CASE CheckLost(o)
        BY <2>2 DEF CheckLost
  <2>3. CASE ExitTuner(o)
        BY <2>3 DEF ExitTuner
  <2>4. CASE DeinitBaseband(o)
        BY <2>4 DEF DeinitBaseband
  <2>5. CASE ReleaseInterface(o)
        BY <2>5 DEF ReleaseInterface
  <2>6. CASE AttachDriver(o)
        BY <2>6 DEF AttachDriver
  <2> QED BY <1>2, <2>1, <2>2, <2>3, <2>4, <2>5, <2>6 DEF Drop
<1>3. ASSUME NEW o \in Openers, SpawnWorker(o) \/ Worker(o) \/ DropStream(o)
      PROVE  TypeOK'
  <2>1. CASE SpawnWorker(o)
        BY <2>1 DEF SpawnWorker
  <2>2. CASE WorkerRead(o)
        BY <2>2 DEF WorkerRead
  <2>3. CASE WorkerData(o)
        BY <2>3 DEF WorkerData
  <2>4. CASE WorkerEmpty(o)
        BY <2>4 DEF WorkerEmpty
  <2>5. CASE WorkerLost(o)
        BY <2>5 DEF WorkerLost
  <2>6. CASE DropStream(o)
        BY <2>6 DEF DropStream
  <2> QED BY <1>3, <2>1, <2>2, <2>3, <2>4, <2>5, <2>6 DEF Worker
<1>4. ASSUME NEW o \in Openers, Crash(o)
      PROVE  TypeOK'
      BY <1>4 DEF Crash
<1>5. CASE Unplug
      BY <1>5 DEF Unplug
<1>6. CASE AllOver \/ UNCHANGED vars
      BY <1>6 DEF AllOver, vars
<1> QED BY <1>1, <1>2, <1>3, <1>4, <1>5, <1>6 DEF Next

LEMMA TypeInit == Init => TypeOK
<1> SUFFICES ASSUME Init
             PROVE  TypeOK
    OBVIOUS
<1>1. /\ present \in BOOLEAN /\ driver \in BOOLEAN /\ claim = None
      /\ demod \in BOOLEAN /\ tunerUp \in BOOLEAN /\ repeater \in BOOLEAN
      /\ trouble = {}
      BY DEF Init
<1>2. pc \in [Openers -> PCs]
      BY DEF Init, PCs
<1>3. /\ driverActive \in [Openers -> BOOLEAN] /\ devLost \in [Openers -> BOOLEAN]
      /\ tuner \in [Openers -> BOOLEAN]
      BY DEF Init
<1>4. /\ stream \in [Openers -> BOOLEAN] /\ worker \in [Openers -> Workers]
      /\ \A o \in Openers : ~stream[o]
      BY DEF Init, Workers
<1> QED BY <1>1, <1>2, <1>3, <1>4 DEF TypeOK

(* Every reachable state is well typed, and a stream was never handed out  *)
(* without a worker behind it.                                             *)
THEOREM TypeCorrect == Spec => []TypeOK
<1>1. Init => TypeOK
      BY TypeInit
<1>2. TypeOK /\ [Next]_vars => TypeOK'
      BY TypeStep
<1> QED BY <1>1, <1>2, PTL DEF Spec

---------------------------------------------------------------------------
(* Ownership: the places of the code at which an opener has interface 0    *)
(* claimed are these, and an opener has it claimed at no other.            *)

Owned == {"claimed", "tested", "based", "probing", "probed", "configured",
          "ready", "drop", "exit", "deinit", "release"}

OwnerAtPC == \A o \in Openers : pc[o] \in Owned <=> claim = o

OwnerInv == TypeOK /\ OwnerAtPC

(* A step from one such place to another, and one from outside to outside. *)
LEMMA OwnerKept ==
    ASSUME NEW o \in Openers, NEW label, OwnerInv, Goto(o, label), claim' = claim,
           label \in Owned <=> pc[o] \in Owned
    PROVE  OwnerAtPC'
BY DEF OwnerInv, OwnerAtPC, TypeOK, Goto

(* The way out, through Drop or a crash, whether or not o is the owner.    *)
LEMMA OwnerLeaves ==
    ASSUME NEW o \in Openers, NEW label, OwnerInv, Goto(o, label), label \notin Owned,
           claim' = IF claim = o THEN None ELSE claim
    PROVE  OwnerAtPC'
BY LifecycleAssumption DEF OwnerInv, OwnerAtPC, TypeOK, Goto

LEMMA OwnerStep == OwnerInv /\ [Next]_vars => OwnerAtPC'
<1> SUFFICES ASSUME OwnerInv, [Next]_vars
             PROVE  OwnerAtPC'
    OBVIOUS
<1> USE DEF os, chip, handle, streaming, Owned
<1>1. ASSUME NEW o \in Openers, ClaimOk(o)
      PROVE  OwnerAtPC'
      BY <1>1, LifecycleAssumption DEF ClaimOk, OwnerInv, OwnerAtPC, TypeOK, Goto
<1>2. ASSUME NEW o \in Openers, ReleaseInterface(o) \/ Crash(o)
      PROVE  OwnerAtPC'
      BY <1>2, OwnerLeaves DEF ReleaseInterface, Crash
<1>3. ASSUME NEW o \in Openers, NEW label, Goto(o, label), claim' = claim,
             {pc[o], label} \subseteq Owned \/ {pc[o], label} \cap Owned = {}
      PROVE  OwnerAtPC'
      BY <1>3, OwnerKept
<1>4. ASSUME NEW o \in Openers,
             \/ OpenHandle(o) \/ CheckDriver(o) \/ DetachDriver(o) \/ ClaimFails(o)
             \/ AttachDriver(o)
      PROVE  OwnerAtPC'
      BY <1>3, <1>4 DEF OpenHandle, CheckDriver, DetachDriver, ClaimFails, AttachDriver
<1>5. ASSUME NEW o \in Openers,
             \/ DummyWrite(o) \/ InitBaseband(o) \/ InitBasebandFails(o) \/ RepeaterOn(o)
             \/ ProbeTuner(o) \/ InitTuner(o) \/ RepeaterOff(o) \/ OpenFails(o)
      PROVE  OwnerAtPC'
      BY <1>3, <1>5 DEF DummyWrite, InitBaseband, InitBasebandFails, RepeaterOn,
                        ProbeTuner, InitTuner, RepeaterOff, OpenFails
<1>6. ASSUME NEW o \in Openers,
             BeginDrop(o) \/ CheckLost(o) \/ ExitTuner(o) \/ DeinitBaseband(o)
      PROVE  OwnerAtPC'
      BY <1>3, <1>6 DEF BeginDrop, CheckLost, ExitTuner, DeinitBaseband
<1>7. ASSUME UNCHANGED <<pc, claim>>
      PROVE  OwnerAtPC'
      BY <1>7 DEF OwnerInv, OwnerAtPC
<1>8. ASSUME NEW o \in Openers, SpawnWorker(o) \/ Worker(o) \/ DropStream(o)
      PROVE  OwnerAtPC'
      BY <1>7, <1>8 DEF SpawnWorker, Worker, WorkerRead, WorkerData, WorkerEmpty,
                        WorkerLost, DropStream
<1>9. CASE Unplug \/ AllOver \/ UNCHANGED vars
      BY <1>7, <1>9 DEF Unplug, AllOver, vars
<1> QED BY <1>1, <1>2, <1>4, <1>5, <1>6, <1>8, <1>9 DEF Next, Open, Drop

LEMMA OwnerInvariant == Spec => []OwnerInv
<1>1. Init => OwnerInv
  <2>1. Init => OwnerAtPC
        BY LifecycleAssumption DEF Init, OwnerAtPC, Owned
  <2> QED BY <2>1, TypeInit DEF OwnerInv
<1>2. OwnerInv /\ [Next]_vars => OwnerInv'
      BY TypeStep, OwnerStep DEF OwnerInv
<1> QED BY <1>1, <1>2, PTL DEF Spec

(* No early return of open and no failure inside Drop leaves the interface *)
(* claimed.                                                                *)
THEOREM InterfaceReturned == Spec => []ClaimReturned
<1>1. OwnerInv => ClaimReturned
      BY DEF OwnerInv, OwnerAtPC, Owned, TypeOK, ClaimReturned, Opening, Dropping
<1> QED BY <1>1, OwnerInvariant, PTL

(* The code past the claim runs under it, so that at most one opener, of   *)
(* any number, initialises, uses or shuts down the chip.                   *)
THEOREM OneChipOwner == Spec => []ChipOwned
<1>1. OwnerInv => ChipOwned
      BY DEF OwnerInv, OwnerAtPC, Owned, ChipOwned
<1> QED BY <1>1, OwnerInvariant, PTL

---------------------------------------------------------------------------
(* Power: while no transfer has failed, how far the owner has got says     *)
(* what is powered. Of the others nothing has to be known: by OwnerAtPC    *)
(* they are at places where no conjunct speaks of them.                    *)

PowerAtPC ==
    "fault" \notin trouble =>
        \A o \in Openers :
            /\ pc[o] \in Owned \ {"claimed", "tested", "release"} => demod
            /\ pc[o] \in {"configured", "ready", "drop", "exit"} => (tuner[o] => tunerUp)
            /\ pc[o] = "ready" => ~repeater

LEMMA SoleOwner ==
    ASSUME OwnerInv, NEW o \in Openers, NEW p \in Openers,
           pc[o] \in Owned, pc[p] \in Owned
    PROVE  o = p
BY DEF OwnerInv, OwnerAtPC

LEMMA PowerStep == OwnerInv /\ PowerAtPC /\ [Next]_vars => PowerAtPC'
<1> SUFFICES ASSUME OwnerInv, PowerAtPC, [Next]_vars, "fault" \notin trouble'
             PROVE  \A o \in Openers :
                        /\ pc'[o] \in Owned \ {"claimed", "tested", "release"} => demod'
                        /\ pc'[o] \in {"configured", "ready", "drop", "exit"} =>
                               (tuner'[o] => tunerUp')
                        /\ pc'[o] = "ready" => ~repeater'
    BY DEF PowerAtPC
<1> USE SoleOwner DEF PowerAtPC, Owned, Goto, Note, OwnerInv, TypeOK, os, chip, handle, streaming
<1>1. ASSUME NEW o \in Openers,
             OpenHandle(o) \/ CheckDriver(o) \/ DetachDriver(o) \/ ClaimOk(o) \/ ClaimFails(o)
      PROVE  PowerAtPC'
  <2>1. CASE OpenHandle(o)
        BY <2>1 DEF OpenHandle
  <2>2. CASE CheckDriver(o) \/ DetachDriver(o)
        BY <2>2 DEF CheckDriver, DetachDriver
  <2>3. CASE ClaimOk(o)
        BY <2>3 DEF ClaimOk
  <2>4. CASE ClaimFails(o)
        BY <2>4 DEF ClaimFails
  <2> QED BY <1>1, <2>1, <2>2, <2>3, <2>4
<1>2. ASSUME NEW o \in Openers,
             DummyWrite(o) \/ InitBaseband(o) \/ InitBasebandFails(o) \/ OpenFails(o)
      PROVE  PowerAtPC'
  <2>1. CASE DummyWrite(o)
        BY <2>1 DEF DummyWrite
  <2>2. CASE InitBaseband(o) \/ InitBasebandFails(o)
        BY <2>2 DEF InitBaseband, InitBasebandFails
  <2>3. CASE OpenFails(o)
        BY <2>3 DEF OpenFails
  <2> QED BY <1>2, <2>1, <2>2, <2>3
<1>3. ASSUME NEW o \in Openers, RepeaterOn(o) \/ ProbeTuner(o) \/ InitTuner(o) \/ RepeaterOff(o)
      PROVE  PowerAtPC'
  <2>1. CASE RepeaterOn(o)
        BY <2>1 DEF RepeaterOn
  <2>2. CASE ProbeTuner(o)
        BY <2>2 DEF ProbeTuner
  <2>3. CASE InitTuner(o)
        BY <2>3 DEF InitTuner
  <2>4. CASE RepeaterOff(o)
        BY <2>4 DEF RepeaterOff
  <2> QED BY <1>3, <2>1, <2>2, <2>3, <2>4
<1>4. ASSUME NEW o \in Openers, BeginDrop(o) \/ Drop(o)
      PROVE  PowerAtPC'
  <2>1. CASE BeginDrop(o) \/ CheckLost(o)
        BY <2>1 DEF BeginDrop, CheckLost
  <2>2. CASE ExitTuner(o) \/ DeinitBaseband(o)
        BY <2>2 DEF ExitTuner, DeinitBaseband
  <2>3. CASE ReleaseInterface(o) \/ AttachDriver(o)
        BY <2>3 DEF ReleaseInterface, AttachDriver
  <2> QED BY <1>4, <2>1, <2>2, <2>3 DEF Drop
<1>5. ASSUME NEW o \in Openers, SpawnWorker(o) \/ Worker(o) \/ DropStream(o)
      PROVE  PowerAtPC'
      BY <1>5 DEF SpawnWorker, Worker, WorkerRead, WorkerData, WorkerEmpty,
                  WorkerLost, DropStream
<1>6. ASSUME NEW o \in Openers, Crash(o)
      PROVE  PowerAtPC'
      BY <1>6 DEF Crash
<1>7. CASE Unplug
      BY <1>7 DEF Unplug
<1>8. CASE AllOver \/ UNCHANGED vars
      BY <1>8 DEF AllOver, vars
<1>9. PowerAtPC'
      BY <1>1, <1>2, <1>3, <1>4, <1>5, <1>6, <1>7, <1>8 DEF Next, Open
<1> QED BY <1>9 DEF PowerAtPC

(* A device that open returned stays powered and tuned, with the I2C       *)
(* repeater off, until its own Drop, as long as no transfer fails.         *)
THEOREM ReadyStaysPowered == Spec => []ReadyIsPowered
<1>1. Init => PowerAtPC
      BY DEF Init, PowerAtPC, Owned
<1>2. OwnerInv /\ OwnerInv' /\ PowerAtPC /\ [Next]_vars => PowerAtPC'
      BY PowerStep
<1>3. PowerAtPC => ReadyIsPowered
      BY DEF PowerAtPC, Owned, ReadyIsPowered
<1> QED BY <1>1, <1>2, <1>3, OwnerInvariant, PTL DEF Spec

---------------------------------------------------------------------------
(* Shutdown: while no transfer failed and no process died, an interface    *)
(* nobody has claimed means that everything is off, and the steps of Drop  *)
(* lead back there. It rests on dev_lost being clear when Drop looks.      *)

Clean(t) == t \cap {"fault", "crash"} = {}

OffAtPC ==
    Clean(trouble) =>
        /\ claim = None => ~demod /\ ~tunerUp /\ ~repeater
        /\ \A o \in Openers :
            /\ pc[o] \in {"claimed", "tested", "release"} => ~demod
            /\ pc[o] \in {"claimed", "tested", "based", "probing", "probed", "deinit", "release"} =>
                   ~tunerUp
            /\ pc[o] \in {"configured", "ready", "drop", "exit"} => (tunerUp => tuner[o])
            /\ pc[o] \in Owned \ {"probing", "probed", "configured"} => ~repeater
            /\ pc[o] \in Owned \ {"claimed", "tested"} => ~devLost[o]

LEMMA OffStep == OwnerInv /\ OwnerInv' /\ OffAtPC /\ [Next]_vars => OffAtPC'
<1> SUFFICES ASSUME OwnerInv, OwnerInv', OffAtPC, [Next]_vars, Clean(trouble')
             PROVE  OffAtPC'
    BY DEF OffAtPC
<1> USE SoleOwner, LifecycleAssumption
    DEF OffAtPC, Owned, Clean, Goto, Note, OwnerInv, OwnerAtPC, TypeOK, os, chip, handle, streaming
<1>1. ASSUME NEW o \in Openers,
             OpenHandle(o) \/ CheckDriver(o) \/ DetachDriver(o) \/ ClaimOk(o) \/ ClaimFails(o)
      PROVE  OffAtPC'
  <2>1. CASE OpenHandle(o)
        BY <2>1 DEF OpenHandle
  <2>2. CASE CheckDriver(o) \/ DetachDriver(o)
        BY <2>2 DEF CheckDriver, DetachDriver
  <2>3. CASE ClaimOk(o)
        BY <2>3 DEF ClaimOk
  <2>4. CASE ClaimFails(o)
        BY <2>4 DEF ClaimFails
  <2> QED BY <1>1, <2>1, <2>2, <2>3, <2>4
<1>2. ASSUME NEW o \in Openers,
             DummyWrite(o) \/ InitBaseband(o) \/ InitBasebandFails(o) \/ OpenFails(o)
      PROVE  OffAtPC'
  <2>1. CASE DummyWrite(o)
        BY <2>1 DEF DummyWrite
  <2>2. CASE InitBaseband(o)
        BY <2>2 DEF InitBaseband
  <2>3. CASE InitBasebandFails(o) \/ OpenFails(o)
        BY <2>3 DEF InitBasebandFails, OpenFails
  <2> QED BY <1>2, <2>1, <2>2, <2>3
<1>3. ASSUME NEW o \in Openers, RepeaterOn(o) \/ ProbeTuner(o) \/ InitTuner(o) \/ RepeaterOff(o)
      PROVE  OffAtPC'
  <2>1. CASE RepeaterOn(o)
        BY <2>1 DEF RepeaterOn
  <2>2. CASE ProbeTuner(o)
        BY <2>2 DEF ProbeTuner
  <2>3. CASE InitTuner(o)
        BY <2>3 DEF InitTuner
  <2>4. CASE RepeaterOff(o)
        BY <2>4 DEF RepeaterOff
  <2> QED BY <1>3, <2>1, <2>2, <2>3, <2>4
<1>4. ASSUME NEW o \in Openers, BeginDrop(o) \/ Drop(o)
      PROVE  OffAtPC'
  <2>1. CASE BeginDrop(o)
        BY <2>1 DEF BeginDrop
  <2>2. CASE CheckLost(o)
        BY <2>2 DEF CheckLost
  <2>3. CASE ExitTuner(o)
        BY <2>3 DEF ExitTuner
  <2>4. CASE DeinitBaseband(o)
        BY <2>4 DEF DeinitBaseband
  <2>5. CASE ReleaseInterface(o)
        BY <2>5 DEF ReleaseInterface
  <2>6. CASE AttachDriver(o)
        BY <2>6 DEF AttachDriver
  <2> QED BY <1>4, <2>1, <2>2, <2>3, <2>4, <2>5, <2>6 DEF Drop
<1>5. ASSUME NEW o \in Openers, SpawnWorker(o) \/ Worker(o) \/ DropStream(o)
      PROVE  OffAtPC'
      BY <1>5 DEF SpawnWorker, Worker, WorkerRead, WorkerData, WorkerEmpty,
                  WorkerLost, DropStream
<1>6. ASSUME NEW o \in Openers, Crash(o)
      PROVE  OffAtPC'
      BY <1>6 DEF Crash
<1>7. CASE Unplug
      BY <1>7 DEF Unplug
<1>8. CASE AllOver \/ UNCHANGED vars
      BY <1>8 DEF AllOver, vars
<1> QED BY <1>1, <1>2, <1>3, <1>4, <1>5, <1>6, <1>7, <1>8 DEF Next, Open

(* When every device is closed, and no transfer failed and no process      *)
(* died, the demodulator is off, the tuner in standby, the repeater off.   *)
THEOREM ClosedIsOff == Spec => []CloseIsPowerDown
<1>1. Init => OffAtPC
      BY DEF Init, OffAtPC, Owned
<1>2. OwnerInv /\ OwnerInv' /\ OffAtPC /\ [Next]_vars => OffAtPC'
      BY OffStep
<1>3. OwnerInv /\ OffAtPC => CloseIsPowerDown
      BY LifecycleAssumption
      DEF OwnerInv, OwnerAtPC, TypeOK, OffAtPC, Owned, Clean, CloseIsPowerDown, AllClosed
<1> QED BY <1>1, <1>2, <1>3, OwnerInvariant, PTL DEF Spec

---------------------------------------------------------------------------
(* The kernel driver: while nothing went wrong but transfers, openers come *)
(* one after the other, and a driver that one of them ever found is bound  *)
(* or is owed by the opener that is at work.                               *)

DriverOwed ==
    trouble \subseteq {"fault"} =>
        /\ \A o, p \in Openers : Active(o) /\ Active(p) => o = p
        /\ present /\ (\E p \in Openers : driverActive[p]) =>
               driver \/ \E o \in Openers : Active(o) /\ pc[o] # "opened" /\ driverActive[o]

LEMMA DriverStep == OwnerInv /\ DriverOwed /\ [Next]_vars => DriverOwed'
<1> SUFFICES ASSUME OwnerInv, DriverOwed, [Next]_vars, trouble' \subseteq {"fault"}
             PROVE  DriverOwed'
    BY DEF DriverOwed
<1> USE DEF DriverOwed, Active, Opening, Dropping, Goto, Note, OwnerInv, TypeOK,
            os, chip, handle, streaming
<1>1. ASSUME NEW o \in Openers, OpenHandle(o)
      PROVE  DriverOwed'
  <2>1. trouble' = trouble /\ \A p \in Openers : ~Active(p)
        BY <1>1 DEF OpenHandle
  <2>2. present /\ (\E p \in Openers : driverActive[p]) => driver
        BY <2>1
  <2>3. \A p \in Openers : Active(p)' => p = o
        BY <1>1, <2>1 DEF OpenHandle
  <2>4. UNCHANGED <<present, driver, driverActive>>
        BY <1>1 DEF OpenHandle
  <2> QED BY <2>2, <2>3, <2>4
<1>2. ASSUME NEW o \in Openers, CheckDriver(o)
      PROVE  DriverOwed'
      BY <1>2 DEF CheckDriver
<1>3. ASSUME NEW o \in Openers, DetachDriver(o)
      PROVE  DriverOwed'
      BY <1>3 DEF DetachDriver
<1>4. ASSUME NEW o \in Openers, AttachDriver(o)
      PROVE  DriverOwed'
      BY <1>4 DEF AttachDriver
<1>5. ASSUME NEW o \in Openers, NEW label, Goto(o, label), Active(o),
             label \in Opening \cup Dropping \cup {"ready"}, label # "opened",
             UNCHANGED <<present, driver, driverActive>>, trouble \subseteq trouble'
      PROVE  DriverOwed'
      BY <1>5
<1>6. ASSUME NEW o \in Openers,
             \/ ClaimOk(o) \/ DummyWrite(o) \/ InitBaseband(o) \/ InitBasebandFails(o)
             \/ RepeaterOn(o) \/ ProbeTuner(o) \/ InitTuner(o) \/ RepeaterOff(o) \/ OpenFails(o)
      PROVE  DriverOwed'
      BY <1>5, <1>6 DEF ClaimOk, DummyWrite, InitBaseband, InitBasebandFails, RepeaterOn,
                        ProbeTuner, InitTuner, RepeaterOff, OpenFails
<1>7. ASSUME NEW o \in Openers,
             BeginDrop(o) \/ CheckLost(o) \/ ExitTuner(o) \/ DeinitBaseband(o) \/ ReleaseInterface(o)
      PROVE  DriverOwed'
      BY <1>5, <1>7 DEF BeginDrop, CheckLost, ExitTuner, DeinitBaseband, ReleaseInterface
<1>8. ASSUME NEW o \in Openers, ClaimFails(o) \/ Crash(o)
      PROVE  DriverOwed'
      BY <1>8 DEF ClaimFails, Crash
<1>9. ASSUME NEW o \in Openers, SpawnWorker(o) \/ Worker(o) \/ DropStream(o)
      PROVE  DriverOwed'
  <2>1. /\ UNCHANGED <<present, driver, driverActive, pc>>
        /\ trouble' = trouble \/ trouble' = trouble \cup {"fault"}
        BY <1>9 DEF SpawnWorker, Worker, WorkerRead, WorkerData, WorkerEmpty,
                    WorkerLost, DropStream
  <2>2. trouble \subseteq {"fault"}
        BY <2>1
  <2> QED BY <2>1, <2>2
<1>10. CASE Unplug
      BY <1>10 DEF Unplug
<1>11. CASE AllOver \/ UNCHANGED vars
      BY <1>11 DEF AllOver, vars
<1> QED BY <1>1, <1>2, <1>3, <1>4, <1>6, <1>7, <1>8, <1>9, <1>10, <1>11 DEF Next, Open, Drop

(* The kernel driver that open detached is back once every device is       *)
(* closed, whatever transfer failed, as long as openers do not overlap and *)
(* every claim and attachment succeeds.                                    *)
THEOREM DriverComesBack == Spec => []DriverRestored
<1>1. Init => DriverOwed
      BY DEF Init, DriverOwed, Active, Opening, Dropping
<1>2. OwnerInv /\ DriverOwed /\ [Next]_vars => DriverOwed'
      BY DriverStep
<1>3. OwnerInv /\ DriverOwed => DriverRestored
      BY DEF DriverOwed, Active, Opening, Dropping, DriverRestored, AllClosed
<1> QED BY <1>1, <1>2, <1>3, OwnerInvariant, PTL DEF Spec
=============================================================================
