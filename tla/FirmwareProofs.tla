--------------------------- MODULE FirmwareProofs ----------------------------
(***************************************************************************)
(* What holds of the firmware for every number of joints and every set of  *)
(* times in which handling a frame takes no longer than the watchdog's.    *)
(*                                                                         *)
(* The argument: a command is stamped before anything it asks for is done, *)
(* so from the stamp to the last store the silence is at most the time     *)
(* spent on the frame, and the watchdog cannot trip between those stores.  *)
(* It can trip anywhere else, and there the pins agree.                    *)
(***************************************************************************)
EXTENDS Firmware, TLAPS

Applying == pc \in {"switch", "zero", "set", "pin", "read_on", "store", "outputs"}

\* The clocks: how long the drivers may still be on, how old a command can be
\* while it is carried out.
TimeInv ==
    /\ enabled \/ powered => age + timer <= WATCHDOG_MS + PERIOD_MS
    /\ pc = "stamp" => read_age <= busy
    /\ pc = "latch" \/ Applying => age <= busy

\* The pins at each point of the main thread.
PinInv ==
    /\ pc = "pin" => enabled = want
    /\ pc # "pin" => powered = enabled
    /\ pc \in {"read_on", "store", "outputs"} => enabled = want
    /\ pc = "store" => was_on = enabled
    /\ pc = "zero" => ~want /\ enabled /\ \A j \in Joints : j < joint => j \notin moving
    /\ pc = "set" /\ ~want => moving = {}
    /\ pc = "set" => enabled # want
    /\ ~enabled => moving = {}
    /\ outputs => enabled \/ pc \in {"pin", "read_on", "store", "outputs"}

\* The latch: nothing is being applied while it is set.
LatchInv == wd_tripped => ~Applying /\ ~enabled /\ ~outputs

IInv == TypeOK /\ TimeInv /\ PinInv /\ LatchInv

-----------------------------------------------------------------------------

LEMMA Sizes ==
    /\ NJ \in Nat /\ NJ > 0 /\ 0 \in Joints
    /\ WATCHDOG_MS \in Nat /\ WATCHDOG_MS > 0
    /\ PERIOD_MS \in Nat /\ PERIOD_MS > 0
    /\ BUSY_MS \in Nat /\ BUSY_MS <= WATCHDOG_MS
    /\ AgeCap \in Nat /\ AgeCap = WATCHDOG_MS + PERIOD_MS + 1
BY SizesAssumption, BusyAssumption DEF Joints, AgeCap

\* The frames the main loop can find.
LEMMA FrameFields ==
    ASSUME NEW f \in Frames
    PROVE  f.ok \in BOOLEAN /\ f.enable \in BOOLEAN /\ f.outputs \in BOOLEAN
           /\ f.moves \subseteq Joints
<1>1. CASE f = Bad
  BY <1>1 DEF Bad
<1>2. CASE f \in Good
  BY <1>2 DEF Good
<1>3. QED
  BY <1>1, <1>2 DEF Frames

\* Ages stay below their cap, and grow by at most one.
LEMMA CappedAge ==
    ASSUME NEW n \in 0 .. AgeCap
    PROVE  /\ Capped(n + 1) \in 0 .. AgeCap
           /\ Capped(n + 1) = n \/ Capped(n + 1) = n + 1
BY Sizes DEF Capped

LEMMA InvInit == Init => IInv
<1> SUFFICES ASSUME Init PROVE IInv
  OBVIOUS
<1>1. rx \in Frames /\ tx \in Status /\ pc \in PCs
  BY DEF Init, Frames, Status, PCs
<1>2. TypeOK
  <2>1. age \in 0 .. AgeCap /\ timer \in 0 .. PERIOD_MS /\ joint \in Joints
        /\ read_age \in 0 .. AgeCap /\ busy \in 0 .. BUSY_MS
    BY Sizes DEF Init
  <2>2. QED
    BY <1>1, <2>1 DEF Init, TypeOK
<1>3. TimeInv
  BY Sizes DEF Init, TimeInv, Applying
<1>4. PinInv /\ LatchInv
  BY DEF Init, PinInv, LatchInv
<1>5. QED
  BY <1>2, <1>3, <1>4 DEF IInv

LEMMA InvStep == IInv /\ [Next]_vars => IInv'
<1> SUFFICES ASSUME IInv, [Next]_vars PROVE IInv'
  OBVIOUS
<1> USE Sizes
<1>0. TypeOK /\ TimeInv /\ PinInv /\ LatchInv
  BY DEF IInv
<1>1. CASE Millisecond
  <2>1. /\ age' \in 0 .. AgeCap /\ (age' = age \/ age' = age + 1)
        /\ read_age' \in 0 .. AgeCap
        /\ read_age' = read_age \/ read_age' = read_age + 1
    BY <1>0, <1>1, CappedAge DEF Millisecond, TypeOK
  <2>2. /\ timer' \in 0 .. PERIOD_MS /\ timer' = timer - 1
        /\ busy' \in 0 .. BUSY_MS
        /\ pc # "receive" => busy' = busy + 1
    BY <1>0, <1>1 DEF Millisecond, TypeOK
  <2>3. UNCHANGED <<pins, latch, locals, pc, tx>>
    BY <1>1 DEF Millisecond
  <2>4. TypeOK'
    BY <1>0, <2>1, <2>2, <2>3 DEF TypeOK, pins, latch, locals
  <2>5. TimeInv'
    <3>1. age \in Int /\ read_age \in Int /\ timer \in Int /\ busy \in Int
      BY <1>0 DEF TypeOK
    <3>2. pc' = pc /\ enabled' = enabled /\ powered' = powered
      BY <2>3 DEF pins
    <3>3. ASSUME enabled \/ powered
          PROVE  age' + timer' <= WATCHDOG_MS + PERIOD_MS
      <4>1. age + timer <= WATCHDOG_MS + PERIOD_MS
        BY <1>0, <3>3 DEF TimeInv
      <4>2. timer' = timer - 1 /\ (age' = age \/ age' = age + 1)
        BY <2>1, <2>2
      <4>3. CASE age' = age
        BY <3>1, <4>1, <4>2, <4>3
      <4>4. CASE age' = age + 1
        BY <3>1, <4>1, <4>2, <4>4
      <4>5. QED
        BY <4>2, <4>3, <4>4
    <3>4. pc = "latch" \/ Applying => pc # "receive"
      BY DEF Applying
    <3>5. (pc = "stamp" => read_age <= busy)'
      BY <1>0, <2>1, <2>2, <3>1, <3>2 DEF TimeInv
    <3>6. (pc = "latch" \/ Applying => age <= busy)'
      BY <1>0, <2>1, <2>2, <3>1, <3>2, <3>4 DEF TimeInv, Applying
    <3>7. QED
      BY <3>2, <3>3, <3>5, <3>6 DEF TimeInv
  <2>6. PinInv' /\ LatchInv'
    BY <1>0, <2>3 DEF PinInv, LatchInv, Applying, pins, latch, locals
  <2>7. QED
    BY <2>4, <2>5, <2>6 DEF IInv
<1>2. CASE WatchdogTrips
  <2>1. ~Applying /\ pc # "latch"
    BY <1>0, <1>2 DEF WatchdogTrips, TimeInv, TypeOK
  <2>2. TypeOK'
    <3>1. /\ timer' \in 0 .. PERIOD_MS /\ enabled' = FALSE /\ powered' = FALSE
          /\ moving' = {} /\ outputs' = FALSE /\ wd_tripped' = TRUE
          /\ UNCHANGED <<crc_seen, age, read_age, busy, locals, pc, tx>>
      BY <1>2 DEF WatchdogTrips
    <3>2. QED
      BY <1>0, <3>1 DEF TypeOK, locals
  <2>3. TimeInv' /\ PinInv' /\ LatchInv'
    BY <1>0, <1>2, <2>1
    DEF WatchdogTrips, TimeInv, PinInv, LatchInv, Applying, locals
  <2>4. QED
    BY <2>2, <2>3 DEF IInv
<1>3. CASE WatchdogRests
  <2>1. /\ TypeOK' /\ PinInv' /\ LatchInv'
    BY <1>0, <1>3 DEF WatchdogRests, TypeOK, PinInv, LatchInv, Applying, pins,
                      latch, locals
  <2>2. enabled \/ powered => age <= WATCHDOG_MS
    <3>1. powered => enabled \/ age <= WATCHDOG_MS
      <4>1. CASE pc = "pin"
        BY <1>0, <4>1 DEF TimeInv, TypeOK, Applying
      <4>2. CASE pc # "pin"
        BY <1>0, <4>2 DEF PinInv
      <4>3. QED
        BY <4>1, <4>2
    <3>2. QED
      BY <1>0, <1>3, <3>1 DEF WatchdogRests, TypeOK
  <2>3. TimeInv'
    BY <1>0, <1>3, <2>2
    DEF WatchdogRests, TimeInv, TypeOK, Applying, pins, locals
  <2>4. QED
    BY <2>1, <2>3 DEF IInv
<1>4. ASSUME NEW f \in Frames, Receive(f) PROVE IInv'
  <2>1. TypeOK'
    BY <1>0, <1>4 DEF Receive, Goto, TypeOK, pins, latch, PCs
  <2>2. TimeInv' /\ PinInv' /\ LatchInv'
    BY <1>0, <1>4
    DEF Receive, Goto, TimeInv, PinInv, LatchInv, Applying, pins, latch
  <2>3. QED
    BY <2>1, <2>2 DEF IInv
<1>5. CASE CheckBad \/ ReadUptime \/ Stamp
  <2>1. TypeOK'
    <3>1. pc' \in PCs
      BY <1>5 DEF CheckBad, ReadUptime, Stamp, Goto, PCs
    <3>2. /\ UNCHANGED <<pins, wd_tripped, timer, busy, rx, joint, was_on, tx>>
          /\ crc_seen' \in BOOLEAN
      BY <1>0, <1>5
      DEF CheckBad, ReadUptime, Stamp, TypeOK, latch, clocks, locals
    <3>3. age' \in 0 .. AgeCap /\ read_age' \in 0 .. AgeCap
      BY <1>0, <1>5 DEF CheckBad, ReadUptime, Stamp, TypeOK, clocks
    <3>4. want' \in BOOLEAN
      BY <1>0, <1>5, FrameFields
      DEF CheckBad, ReadUptime, Stamp, TypeOK, locals
    <3>5. QED
      BY <1>0, <3>1, <3>2, <3>3, <3>4 DEF TypeOK, pins
  <2>2. TimeInv'
    BY <1>0, <1>5
    DEF CheckBad, ReadUptime, Stamp, Goto, TypeOK, TimeInv, Applying, pins,
        clocks
  <2>3. PinInv' /\ LatchInv'
    BY <1>0, <1>5
    DEF CheckBad, ReadUptime, Stamp, Goto, PinInv, LatchInv, Applying, pins,
        latch, locals
  <2>4. QED
    BY <2>1, <2>2, <2>3 DEF IInv
<1>6. CASE LatchHolds \/ LatchClears \/ NotLatched
  <2>1. TypeOK'
    BY <1>0, <1>6
    DEF LatchHolds, LatchClears, NotLatched, Goto, TypeOK, pins, latch, clocks,
        locals, PCs
  <2>2. TimeInv' /\ PinInv' /\ LatchInv'
    BY <1>0, <1>6
    DEF LatchHolds, LatchClears, NotLatched, Goto, TimeInv, PinInv, LatchInv,
        Applying, pins, latch, clocks, locals
  <2>3. QED
    BY <2>1, <2>2 DEF IInv
<1>7. CASE Switch
  <2>1. TypeOK'
    BY <1>0, <1>7 DEF Switch, TypeOK, pins, latch, clocks, PCs
  <2>2. TimeInv' /\ LatchInv'
    BY <1>0, <1>7
    DEF Switch, TypeOK, TimeInv, LatchInv, Applying, pins, latch, clocks
  <2>3. PinInv'
    BY <1>0, <1>7 DEF Switch, TypeOK, PinInv, Joints, pins
  <2>4. QED
    BY <2>1, <2>2, <2>3 DEF IInv
<1>8. CASE ZeroIncr
  <2>1. joint' \in Joints /\ pc' \in {"zero", "set"}
    BY <1>0, <1>8 DEF ZeroIncr, Goto, NextJoint, LastJoint, TypeOK, Joints
  <2>2. TypeOK'
    BY <1>0, <1>8, <2>1 DEF ZeroIncr, TypeOK, latch, clocks, PCs
  <2>3. TimeInv' /\ LatchInv'
    BY <1>0, <1>8, <2>1
    DEF ZeroIncr, Goto, TimeInv, LatchInv, Applying, latch, clocks
  <2>4. \A j \in Joints : pc' = "set" \/ j < joint' => j \notin moving'
    BY <1>0, <1>8
    DEF ZeroIncr, Goto, NextJoint, LastJoint, PinInv, TypeOK, Joints
  <2>5. pc' = "set" => moving' = {}
    BY <2>2, <2>4 DEF TypeOK
  <2>6. PinInv'
    BY <1>0, <1>8, <2>1, <2>4, <2>5 DEF ZeroIncr, Goto, PinInv
  <2>7. QED
    BY <2>2, <2>3, <2>6 DEF IInv
<1>9. CASE SetEnabled
  <2>1. TypeOK'
    BY <1>0, <1>9 DEF SetEnabled, Goto, TypeOK, latch, clocks, locals, PCs
  <2>2. TimeInv'
    BY <1>0, <1>9 DEF SetEnabled, Goto, TypeOK, TimeInv, Applying, clocks
  <2>3. PinInv' /\ LatchInv'
    BY <1>0, <1>9
    DEF SetEnabled, Goto, PinInv, LatchInv, Applying, latch, locals
  <2>4. QED
    BY <2>1, <2>2, <2>3 DEF IInv
<1>10. CASE WritePin
  <2>1. TypeOK'
    BY <1>0, <1>10 DEF WritePin, Goto, TypeOK, latch, clocks, locals, PCs
  <2>2. TimeInv'
    BY <1>0, <1>10
    DEF WritePin, Goto, TypeOK, TimeInv, PinInv, Applying, clocks
  <2>3. PinInv' /\ LatchInv'
    BY <1>0, <1>10
    DEF WritePin, Goto, PinInv, LatchInv, Applying, latch, locals
  <2>4. QED
    BY <2>1, <2>2, <2>3 DEF IInv
<1>11. CASE ReadEnabled
  <2>1. TypeOK'
    BY <1>0, <1>11 DEF ReadEnabled, Goto, TypeOK, pins, latch, clocks, PCs
  <2>2. TimeInv' /\ PinInv' /\ LatchInv'
    BY <1>0, <1>11
    DEF ReadEnabled, Goto, TimeInv, PinInv, LatchInv, Applying, pins, latch,
        clocks
  <2>3. QED
    BY <2>1, <2>2 DEF IInv
<1>12. CASE StoreIncr
  <2>1. joint' \in Joints /\ pc' \in {"read_on", "outputs"}
    BY <1>0, <1>12 DEF StoreIncr, Goto, NextJoint, LastJoint, TypeOK, Joints
  <2>2. TypeOK'
    BY <1>0, <1>12, <2>1 DEF StoreIncr, TypeOK, latch, clocks, PCs
  <2>3. ~enabled => moving' = {}
    BY <1>0, <1>12 DEF StoreIncr, Goto, PinInv
  <2>4. TimeInv' /\ PinInv' /\ LatchInv'
    BY <1>0, <1>12, <2>1, <2>3
    DEF StoreIncr, Goto, TimeInv, PinInv, LatchInv, Applying, latch, clocks
  <2>5. QED
    BY <2>2, <2>4 DEF IInv
<1>13. CASE SetOutputs
  <2>1. TypeOK'
    BY <1>0, <1>13, FrameFields
    DEF SetOutputs, Goto, TypeOK, latch, clocks, locals, PCs
  <2>2. TimeInv'
    BY <1>0, <1>13 DEF SetOutputs, Goto, TimeInv, Applying, clocks
  <2>3. /\ pc = "outputs" /\ pc' = "status" /\ (outputs' => want)
        /\ enabled = want /\ ~wd_tripped
        /\ UNCHANGED <<enabled, moving, powered, latch, locals>>
    BY <1>0, <1>13 DEF SetOutputs, Goto, PinInv, LatchInv, Applying
  <2>4. PinInv' /\ LatchInv'
    BY <1>0, <2>3 DEF PinInv, LatchInv, latch, locals
  <2>5. QED
    BY <2>1, <2>2, <2>4 DEF IInv
<1>14. CASE StatusEnabled \/ StatusLatch
  <2>1. TypeOK'
    BY <1>0, <1>14
    DEF StatusEnabled, StatusLatch, Goto, TypeOK, Status, pins, latch, clocks,
        locals, PCs
  <2>2. TimeInv' /\ PinInv' /\ LatchInv'
    BY <1>0, <1>14
    DEF StatusEnabled, StatusLatch, Goto, TimeInv, PinInv, LatchInv, Applying,
        pins, latch, clocks, locals
  <2>3. QED
    BY <2>1, <2>2 DEF IInv
<1>15. CASE UNCHANGED vars
  BY <1>0, <1>15
  DEF vars, IInv, TypeOK, TimeInv, PinInv, LatchInv, Applying
<1>16. QED
  BY <1>1, <1>2, <1>3, <1>4, <1>5, <1>6, <1>7, <1>8, <1>9, <1>10, <1>11, <1>12,
     <1>13, <1>14, <1>15
  DEF Next, Watchdog, Handle

LEMMA Invariance == Spec => []IInv
BY InvInit, InvStep, PTL DEF Spec

-----------------------------------------------------------------------------

\* The variables of the main loop keep their types.
THEOREM TypeCorrect == Spec => []TypeOK
BY Invariance, PTL DEF IInv

\* Silence turns the drivers off within the watchdog's time and one period of
\* its timer, wherever watchdog_fn interrupts the main loop.
THEOREM OffInTimeHolds == Spec => []OffInTime
<1>1. IInv => OffInTime
  BY Sizes DEF IInv, TypeOK, TimeInv, OffInTime
<1>2. QED
  BY <1>1, Invariance, PTL

\* No store of the interrupted main loop undoes a trip.
THEOREM TripIsCompleteHolds == Spec => []TripIsComplete
<1>1. IInv => TripIsComplete
  BY DEF IInv, PinInv, LatchInv, Applying, TripIsComplete
<1>2. QED
  BY <1>1, Invariance, PTL

\* set_incr's stale reading of `enabled` never leaves a disabled joint moving.
THEOREM MovesOnlyEnabledHolds == Spec => []MovesOnlyEnabled
<1>1. IInv => MovesOnlyEnabled
  BY DEF IInv, PinInv, MovesOnlyEnabled
<1>2. QED
  BY <1>1, Invariance, PTL

\* Between frames the EN pin, the stepping flag and the outputs agree.
THEOREM PinsAgreeHolds == Spec => []PinsAgree
<1>1. IInv => PinsAgree
  BY DEF IInv, PinInv, PinsAgree
<1>2. QED
  BY <1>1, Invariance, PTL

-----------------------------------------------------------------------------
(* The firmware implements DrivePower: every step is a step of it or leaves *)
(* power, silence and the last request alone.                               *)

PowerNow == IF wd_tripped THEN "latched" ELSE IF powered THEN "on" ELSE "off"

LEMMA PowerStep == IInv /\ [Next]_vars => [Power!Next]_(Power!vars)
<1> SUFFICES ASSUME IInv, [Next]_vars
             PROVE  \/ Power!Next
                    \/ PowerNow' = PowerNow /\ age' = age /\ want' = want
  BY DEF Power!vars, PowerNow
<1>0. TypeOK /\ TimeInv /\ PinInv /\ LatchInv
  BY DEF IInv
<1>1. CASE Millisecond
  <2>1. age' = IF age > Power!Deadline THEN age ELSE age + 1
    BY <1>0, <1>1, Sizes DEF Millisecond, TypeOK, Capped, Power!Deadline
  <2>2. powered => age < Power!Deadline
    <3>1. powered => age + timer <= Power!Deadline
      BY <1>0 DEF TimeInv, Power!Deadline
    <3>2. timer > 0 /\ timer \in Int /\ age \in Int /\ Power!Deadline \in Int
      BY <1>0, <1>1, Sizes DEF Millisecond, TypeOK, Power!Deadline
    <3>3. QED
      BY <3>1, <3>2
  <2>3. PowerNow' = PowerNow /\ want' = want
    BY <1>1 DEF Millisecond, PowerNow, pins, latch, locals
  <2>4. Power!Time
    BY <2>1, <2>2, <2>3 DEF Power!Time, PowerNow
  <2>5. QED
    BY <2>4 DEF Power!Next
<1>2. CASE WatchdogTrips
  <2>1. ~Applying /\ enabled /\ age > WATCHDOG_MS
    BY <1>0, <1>2, Sizes DEF WatchdogTrips, TimeInv, TypeOK
  <2>2. ~wd_tripped /\ powered
    BY <1>0, <2>1 DEF LatchInv, PinInv, Applying
  <2>3. wd_tripped' /\ age' = age /\ want' = want
    BY <1>2 DEF WatchdogTrips, locals
  <2>4. Power!Trip
    BY <2>1, <2>2, <2>3 DEF Power!Trip
  <2>5. QED
    BY <2>4 DEF Power!Next
<1>3. CASE Stamp
  <2>1. age' \in 0 .. WATCHDOG_MS
    BY <1>0, <1>3, Sizes DEF Stamp, Goto, TimeInv, TypeOK
  <2>2. want' \in BOOLEAN
    BY <1>0, <1>3, FrameFields DEF Stamp, TypeOK
  <2>3. PowerNow' = PowerNow
    BY <1>3 DEF Stamp, PowerNow, pins, latch
  <2>4. Power!Command
    BY <2>1, <2>2, <2>3 DEF Power!Command, PowerNow
  <2>5. QED
    BY <2>4 DEF Power!Next
<1>4. CASE LatchClears
  <2>1. wd_tripped /\ ~wd_tripped' /\ ~want
    BY <1>4 DEF LatchClears
  <2>2. ~powered' /\ age' = age /\ want' = want
    BY <1>0, <1>4, <2>1
    DEF LatchClears, LatchInv, PinInv, Applying, pins, clocks, locals
  <2>3. Power!Release
    BY <2>1, <2>2 DEF Power!Release
  <2>4. QED
    BY <2>3 DEF Power!Next
<1>5. CASE WritePin
  <2>1. /\ ~wd_tripped /\ ~wd_tripped' /\ age' = age /\ want' = want
        /\ powered' = want
    BY <1>0, <1>5 DEF WritePin, Goto, LatchInv, Applying, latch, clocks, locals
  <2>2. age <= WATCHDOG_MS
    BY <1>0, <1>5, Sizes DEF WritePin, Goto, TimeInv, TypeOK, Applying
  <2>3. CASE want /\ ~powered
    <3>1. Power!On
      BY <2>1, <2>2, <2>3 DEF Power!On
    <3>2. QED
      BY <3>1 DEF Power!Next
  <2>4. CASE ~want /\ powered
    <3>1. Power!Off
      BY <2>1, <2>4 DEF Power!Off
    <3>2. QED
      BY <3>1 DEF Power!Next
  <2>5. CASE (want /\ powered) \/ (~want /\ ~powered)
    BY <2>1, <2>5 DEF PowerNow
  <2>6. QED
    BY <2>3, <2>4, <2>5
<1>6. CASE \/ WatchdogRests \/ CheckBad \/ ReadUptime \/ LatchHolds \/ NotLatched
           \/ Switch \/ ZeroIncr \/ SetEnabled \/ ReadEnabled \/ StoreIncr
           \/ SetOutputs \/ StatusEnabled \/ StatusLatch
  <2>1. UNCHANGED <<wd_tripped, powered, age, want>>
    BY <1>6
    DEF WatchdogRests, CheckBad, ReadUptime, LatchHolds, NotLatched, Switch,
        ZeroIncr, SetEnabled, ReadEnabled, StoreIncr, SetOutputs,
        StatusEnabled, StatusLatch, pins, latch, clocks, locals
  <2>2. QED
    BY <2>1 DEF PowerNow
<1>7. ASSUME NEW f \in Frames, Receive(f)
      PROVE  PowerNow' = PowerNow /\ age' = age /\ want' = want
  BY <1>7 DEF Receive, PowerNow, pins, latch
<1>8. CASE UNCHANGED vars
  BY <1>8 DEF vars, PowerNow
<1>9. QED
  BY <1>1, <1>2, <1>3, <1>4, <1>5, <1>6, <1>7, <1>8 DEF Next, Watchdog, Handle

\* The firmware never does with the drivers' power what DrivePower does not
\* allow: it latches only after the watchdog's silence, and leaves the latch
\* only for off, at a command without ENABLE (apply_command, watchdog_fn).
THEOREM PowerSafety == Spec => Power!Init /\ [][Power!Next]_(Power!vars)
<1>1. Init => Power!Init
  BY DEF Init, Power!Init
<1>2. QED
  BY <1>1, PowerStep, Invariance, PTL DEF Spec

-----------------------------------------------------------------------------
(* The firmware implements McuFrames: a command takes effect at its stamp,  *)
(* and what is left of it is done before the watchdog can interfere.        *)

\* What is being applied is a good frame; its status is prepared in time too.
FrameInv ==
    /\ pc \in {"stamp", "latch"} \/ Applying => rx.ok
    /\ pc \in {"status", "status2"} /\ rx.ok => age <= busy

LEMMA FrameInit == Init => FrameInv
BY DEF Init, FrameInv, Applying

LEMMA FrameStep == IInv /\ FrameInv /\ [Next]_vars => FrameInv'
<1> SUFFICES ASSUME IInv, FrameInv, [Next]_vars PROVE FrameInv'
  OBVIOUS
<1>0. TypeOK /\ TimeInv
  BY DEF IInv
<1>1. CASE Millisecond
  <2>1. UNCHANGED <<pc, rx>> /\ (age' = age \/ age' = age + 1)
        /\ (pc # "receive" => busy' = busy + 1)
    BY <1>0, <1>1, CappedAge DEF Millisecond, TypeOK, locals
  <2>2. age \in Int /\ busy \in Int
    BY <1>0 DEF TypeOK
  <2>3. QED
    BY <2>1, <2>2 DEF FrameInv, Applying
<1>2. CASE Watchdog
  BY <1>2
  DEF Watchdog, WatchdogTrips, WatchdogRests, FrameInv, Applying, locals
<1>3. ASSUME NEW f \in Frames, Receive(f) PROVE FrameInv'
  BY <1>3 DEF Receive, Goto, FrameInv, Applying
<1>4. CASE \/ CheckBad \/ ReadUptime \/ Stamp \/ LatchHolds \/ LatchClears
           \/ NotLatched \/ SetOutputs \/ StatusEnabled \/ StatusLatch
  BY <1>0, <1>4
  DEF CheckBad, ReadUptime, Stamp, LatchHolds, LatchClears, NotLatched,
      SetOutputs, StatusEnabled, StatusLatch, Goto, FrameInv, TimeInv,
      Applying, clocks, locals
<1>5. CASE \/ Switch \/ ZeroIncr \/ SetEnabled \/ WritePin \/ ReadEnabled
           \/ StoreIncr
  <2>1. Applying /\ pc' \notin {"status", "status2"} /\ rx' = rx
    BY <1>5
    DEF Switch, ZeroIncr, SetEnabled, WritePin, ReadEnabled, StoreIncr, Goto,
        Applying, locals
  <2>2. QED
    BY <2>1 DEF FrameInv
<1>6. CASE UNCHANGED vars
  BY <1>6 DEF vars, FrameInv, Applying
<1>7. QED
  BY <1>1, <1>2, <1>3, <1>4, <1>5, <1>6 DEF Next, Handle

LEMMA McuStep == IInv /\ FrameInv /\ [Next]_vars => [Mcu!McuNext]_(Mcu!mcuVars)
<1> SUFFICES ASSUME IInv, FrameInv, [Next]_vars
             PROVE  \/ Mcu!McuNext
                    \/ UNCHANGED <<DriversOn, Latched, Told, age, timer>>
  BY DEF Mcu!mcuVars
<1>0. TypeOK /\ TimeInv /\ PinInv /\ LatchInv
  BY DEF IInv
<1>1. CASE Millisecond
  <2>1. UNCHANGED <<DriversOn, Latched, Told>>
    BY <1>1
    DEF Millisecond, DriversOn, Latched, Told, Stamped, pins, latch, locals
  <2>2. /\ timer > 0 /\ timer' = timer - 1
        /\ age' = Mcu!Capped(age + 1, Mcu!AgeCap)
    BY <1>1 DEF Millisecond, Capped, AgeCap, Mcu!Capped, Mcu!AgeCap
  <2>3. Mcu!Elapse
    BY <2>1, <2>2 DEF Mcu!Elapse, Mcu!power
  <2>4. QED
    BY <2>3 DEF Mcu!McuNext
<1>2. CASE WatchdogTrips
  <2>1. ~Stamped /\ ~Applying
    BY <1>0, <1>2, Sizes
    DEF WatchdogTrips, Stamped, TimeInv, FrameInv, TypeOK, Applying
  <2>2. /\ DriversOn = enabled /\ DriversOn' = FALSE
        /\ Latched' = TRUE /\ Told' = Told
    BY <1>2, <2>1
    DEF WatchdogTrips, DriversOn, Latched, Told, Stamped, Applying, locals
  <2>3. Mcu!Expires
    BY <1>2, <2>2 DEF WatchdogTrips, Mcu!Expires
  <2>4. QED
    BY <2>3 DEF Mcu!McuNext
<1>3. CASE WatchdogRests
  <2>1. UNCHANGED <<DriversOn, Latched, Told, age>>
    BY <1>3
    DEF WatchdogRests, DriversOn, Latched, Told, Stamped, pins, latch, locals
  <2>2. ~(DriversOn /\ age > WATCHDOG_MS)
    BY <1>0, <1>3, Sizes
    DEF WatchdogRests, DriversOn, TimeInv, Applying, TypeOK
  <2>3. Mcu!Expires
    BY <1>3, <2>1, <2>2 DEF WatchdogRests, Mcu!Expires, Mcu!power
  <2>4. QED
    BY <2>3 DEF Mcu!McuNext
<1>4. CASE Stamp
  <2>1. rx.enable \in BOOLEAN /\ age' \in 0 .. BUSY_MS
    BY <1>0, <1>4, Sizes, FrameFields DEF Stamp, Goto, TimeInv, TypeOK
  <2>2. /\ DriversOn' = (rx.enable /\ ~wd_tripped)
        /\ Latched' = (wd_tripped /\ rx.enable) /\ Told' = Latched'
        /\ Latched = wd_tripped
    <3>1. /\ pc = "stamp" /\ pc' = "latch" /\ want' = rx.enable
          /\ wd_tripped' = wd_tripped
      BY <1>4 DEF Stamp, Goto, latch
    <3>2. wd_tripped \in BOOLEAN
      BY <1>0 DEF TypeOK
    <3>3. QED
      BY <2>1, <3>1, <3>2 DEF DriversOn, Latched, Told, Stamped
  <2>3. Mcu!Accept(rx.enable)
    BY <1>4, <2>1, <2>2 DEF Stamp, Mcu!Accept, Mcu!Prepared
  <2>4. QED
    BY <2>1, <2>3 DEF Mcu!McuNext
<1>5. CASE StatusLatch
  <2>1. UNCHANGED <<DriversOn, Latched, age, timer>>
    BY <1>5 DEF StatusLatch, Goto, DriversOn, Latched, pins, latch, clocks,
                locals
  <2>2. Told' = Latched
    BY <1>0, <1>5
    DEF StatusLatch, Goto, Told, Stamped, Latched, TypeOK, Status, locals
  <2>3. CASE rx.ok
    BY <1>5, <2>1, <2>2, <2>3 DEF StatusLatch, Goto, Told, Stamped
  <2>4. CASE ~rx.ok
    <3>1. Mcu!Reject
      BY <2>1, <2>2 DEF Mcu!Reject, Mcu!Prepared, Mcu!power
    <3>2. QED
      BY <3>1 DEF Mcu!McuNext
  <2>5. QED
    BY <2>3, <2>4
<1>6. CASE CheckBad \/ ReadUptime \/ StatusEnabled
  BY <1>0, <1>6
  DEF CheckBad, ReadUptime, StatusEnabled, Goto, DriversOn, Latched, Told,
      Stamped, TypeOK, Status, pins, latch, clocks, locals
<1>7. CASE LatchHolds \/ LatchClears \/ NotLatched
  <2>1. /\ pc = "latch" /\ UNCHANGED <<enabled, age, timer, rx, want, tx>>
        /\ wd_tripped \in BOOLEAN /\ want \in BOOLEAN /\ enabled \in BOOLEAN
        /\ rx.ok
    BY <1>0, <1>7
    DEF LatchHolds, LatchClears, NotLatched, Goto, TypeOK, FrameInv, pins,
        clocks, locals
  <2>2. CASE LatchHolds
    <3>1. pc' = "status" /\ wd_tripped /\ want /\ wd_tripped' /\ ~enabled
      BY <1>0, <2>2 DEF LatchHolds, Goto, LatchInv, latch
    <3>2. QED
      BY <2>1, <3>1 DEF DriversOn, Latched, Told, Stamped
  <2>3. CASE LatchClears
    <3>1. pc' = "switch" /\ wd_tripped /\ ~want /\ ~wd_tripped'
      BY <2>3 DEF LatchClears, Goto
    <3>2. QED
      BY <2>1, <3>1 DEF DriversOn, Latched, Told, Stamped
  <2>4. CASE NotLatched
    <3>1. pc' = "switch" /\ ~wd_tripped /\ ~wd_tripped'
      BY <2>4 DEF NotLatched, Goto, latch
    <3>2. QED
      BY <2>1, <3>1 DEF DriversOn, Latched, Told, Stamped
  <2>5. QED
    BY <1>7, <2>2, <2>3, <2>4
<1>8. CASE Switch \/ ZeroIncr \/ SetEnabled \/ WritePin
  BY <1>8
  DEF Switch, ZeroIncr, SetEnabled, WritePin, Goto, DriversOn, Latched, Told,
      Stamped, pins, latch, clocks, locals
<1>9. CASE ReadEnabled \/ StoreIncr \/ SetOutputs
  BY <1>9
  DEF ReadEnabled, StoreIncr, SetOutputs, Goto, DriversOn, Latched, Told,
      Stamped, FrameInv, Applying, pins, latch, clocks, locals
<1>10. ASSUME NEW f \in Frames, Receive(f)
       PROVE  UNCHANGED <<DriversOn, Latched, Told, age, timer>>
  BY <1>10 DEF Receive, Goto, DriversOn, Latched, Told, Stamped, pins, latch
<1>11. CASE UNCHANGED vars
  BY <1>11 DEF vars, DriversOn, Latched, Told, Stamped
<1>12. QED
  BY <1>1, <1>2, <1>3, <1>4, <1>5, <1>6, <1>7, <1>8, <1>9, <1>10, <1>11
  DEF Next, Watchdog, Handle

\* Frame by frame, the main loop preempted anywhere by watchdog_fn does what
\* McuFrames allows: Link may take the MCU one frame at a time.
THEOREM McuSafety == Spec => Mcu!McuInit /\ [][Mcu!McuNext]_(Mcu!mcuVars)
<1>1. Init => Mcu!McuInit
  BY DEF Init, Bad, Mcu!McuInit, DriversOn, Latched, Told, Stamped
<1>2. Spec => [](IInv /\ FrameInv)
  BY InvInit, InvStep, FrameInit, FrameStep, PTL DEF Spec
<1>3. QED
  BY <1>1, <1>2, McuStep, PTL DEF Spec
=============================================================================
