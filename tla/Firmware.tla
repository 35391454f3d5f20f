------------------------------ MODULE Firmware -------------------------------
(***************************************************************************)
(* The MCU side of the link: the main loop of firmware/qstep-fw/src/main.c *)
(* and the watchdog timer that preempts it, with the calls both make into  *)
(* stepgen.c.                                                              *)
(*                                                                         *)
(* The main thread is modelled store by store (pc is its control location):*)
(* the watchdog runs in interrupt context, so it may run whole between any *)
(* two of those stores and never the other way round.  Time is in          *)
(* milliseconds, as k_uptime_get() is.  The sequence number and the step    *)
(* counts a status carries are left to the modules about the host.         *)
(***************************************************************************)
EXTENDS Integers

CONSTANTS
    NJ,           \* QSTEP_JOINTS
    WATCHDOG_MS,  \* silence after which the watchdog trips (20)
    PERIOD_MS,    \* period of the watchdog timer (5)
    BUSY_MS       \* longest the main thread takes to handle a frame

ASSUME SizesAssumption ==
    /\ NJ \in Nat \ {0}
    /\ WATCHDOG_MS \in Nat \ {0}
    /\ PERIOD_MS \in Nat \ {0}
    /\ BUSY_MS \in Nat

\* Handling a frame is a CRC and a few stores; it does not last a watchdog.
ASSUME BusyAssumption == BUSY_MS <= WATCHDOG_MS

Joints == 0 .. NJ - 1
AgeCap == WATCHDOG_MS + PERIOD_MS + 1   \* ages are not told apart beyond it

\* What the main loop finds in rx: a frame with good magic and CRC, or not.
\* A command moves some joints or none; its outputs are on or off.
Bad == [ok |-> FALSE, enable |-> FALSE, outputs |-> FALSE, moves |-> {}]
Good == [ok : {TRUE}, enable : BOOLEAN, outputs : BOOLEAN, moves : {{}, Joints}]
Frames == Good \cup {Bad}

VARIABLES
    enabled,      \* stepgen.c: stepping allowed
    moving,       \* stepgen.c: joints whose incr is not 0
    powered,      \* the active-low EN pin is low
    outputs,      \* some digital output is on
    wd_tripped, crc_seen,
    age,          \* k_uptime_get() - last_frame_ms, up to AgeCap
    timer,        \* ms until the watchdog timer expires
    pc,           \* where the main thread is; "receive": RDY high, SPI armed
    rx,           \* the frame received last
    want,         \* apply_command's local: the command asks for the drivers
    joint,        \* loop variable of stepgen_enable and stepgen_set_incr
    was_on,       \* set_incr's reading of `enabled`, until it stores
    read_age,     \* ms since apply_command read k_uptime_get(), up to AgeCap
    busy,         \* ms the main thread has spent on this frame
    tx            \* the status prepared for the next transfer

pins == <<enabled, moving, powered, outputs>>
latch == <<wd_tripped, crc_seen>>
clocks == <<age, timer, read_age, busy>>
locals == <<rx, want, joint, was_on>>
vars == <<enabled, moving, powered, outputs, wd_tripped, crc_seen, age, timer,
          pc, rx, want, joint, was_on, read_age, busy, tx>>

Status == [enabled : BOOLEAN, watchdog : BOOLEAN, crc : BOOLEAN]

PCs == {"receive", "check", "stamp", "latch", "clear", "switch",
        "zero", "set", "pin", "read_on", "store", "outputs", "status",
        "status2"}

\* main(): drivers off, watchdog started, the first status prepared.
Init ==
    /\ enabled = FALSE /\ moving = {} /\ powered = FALSE /\ outputs = FALSE
    /\ wd_tripped = FALSE /\ crc_seen = FALSE
    /\ age = 0 /\ timer = PERIOD_MS
    /\ pc = "receive" /\ rx = Bad /\ want = FALSE /\ joint = 0 /\ was_on = FALSE
    /\ read_age = 0 /\ busy = 0
    /\ tx = [enabled |-> FALSE, watchdog |-> FALSE, crc |-> FALSE]

-----------------------------------------------------------------------------
(* Time and the watchdog timer. *)

Capped(n) == IF n > AgeCap THEN AgeCap ELSE n

\* A millisecond passes: never past the timer's expiry, and never past BUSY_MS
\* on one frame.
Millisecond ==
    /\ timer > 0
    /\ pc # "receive" => busy < BUSY_MS
    /\ timer' = timer - 1
    /\ age' = Capped(age + 1)
    /\ read_age' = Capped(read_age + 1)
    /\ busy' = IF pc = "receive" THEN 0 ELSE busy + 1
    /\ UNCHANGED <<pins, latch, locals, pc, tx>>

\* Mutations of the trip: the EN pin forgotten, the outputs forgotten, the
\* latch forgotten.
TripsKeepingPower ==
    /\ timer = 0
    /\ enabled /\ age > WATCHDOG_MS
    /\ enabled' = FALSE /\ moving' = {} /\ outputs' = FALSE
    /\ wd_tripped' = TRUE /\ timer' = PERIOD_MS
    /\ UNCHANGED <<powered, crc_seen, age, read_age, busy, locals, pc, tx>>

TripsKeepingOutputs ==
    /\ timer = 0
    /\ enabled /\ age > WATCHDOG_MS
    /\ enabled' = FALSE /\ moving' = {} /\ powered' = FALSE
    /\ wd_tripped' = TRUE /\ timer' = PERIOD_MS
    /\ UNCHANGED <<outputs, crc_seen, age, read_age, busy, locals, pc, tx>>

TripsUnlatched ==
    /\ timer = 0
    /\ enabled /\ age > WATCHDOG_MS
    /\ enabled' = FALSE /\ moving' = {} /\ powered' = FALSE /\ outputs' = FALSE
    /\ timer' = PERIOD_MS
    /\ UNCHANGED <<latch, age, read_age, busy, locals, pc, tx>>

\* watchdog_fn, in interrupt context.
WatchdogTrips ==
    /\ timer = 0
    /\ enabled /\ age > WATCHDOG_MS
    /\ enabled' = FALSE /\ moving' = {} /\ powered' = FALSE
    /\ outputs' = FALSE
    /\ wd_tripped' = TRUE
    /\ timer' = PERIOD_MS
    /\ UNCHANGED <<crc_seen, age, read_age, busy, locals, pc, tx>>

WatchdogRests ==
    /\ timer = 0
    /\ ~(enabled /\ age > WATCHDOG_MS)
    /\ timer' = PERIOD_MS
    /\ UNCHANGED <<pins, latch, age, read_age, busy, locals, pc, tx>>

Watchdog == WatchdogTrips \/ WatchdogRests

-----------------------------------------------------------------------------
(* The main thread. *)

Goto(from, to) == pc = from /\ pc' = to

\* spi_transceive returns: the host clocked a frame through.
Receive(f) ==
    /\ Goto("receive", "check")
    /\ rx' = f
    /\ busy' = 0
    /\ UNCHANGED <<pins, latch, age, timer, read_age, want, joint, was_on, tx>>

\* Mutation: a damaged frame counts as a sign of life too.
CheckBadStamps ==
    /\ Goto("check", "status") /\ ~rx.ok
    /\ crc_seen' = TRUE /\ age' = 0
    /\ UNCHANGED <<pins, wd_tripped, timer, read_age, busy, locals, tx>>

CheckBad ==
    /\ Goto("check", "status") /\ ~rx.ok
    /\ crc_seen' = TRUE
    /\ UNCHANGED <<pins, wd_tripped, clocks, locals, tx>>

\* apply_command: k_uptime_get() is read ...
ReadUptime ==
    /\ Goto("check", "stamp") /\ rx.ok
    /\ read_age' = 0
    /\ UNCHANGED <<pins, latch, age, timer, busy, locals, tx>>

\* ... and stored in last_frame_ms, before the latch is looked at.
Stamp ==
    /\ Goto("stamp", "latch")
    /\ age' = read_age
    /\ want' = rx.enable
    /\ UNCHANGED <<pins, latch, timer, read_age, busy, rx, joint, was_on, tx>>

\* Stay off until the host acknowledges with enable=0.
LatchHolds ==
    /\ Goto("latch", "status") /\ wd_tripped /\ want
    /\ UNCHANGED <<pins, latch, clocks, locals, tx>>

LatchClears ==
    /\ Goto("latch", "switch") /\ wd_tripped /\ ~want
    /\ wd_tripped' = FALSE
    /\ UNCHANGED <<pins, crc_seen, clocks, locals, tx>>

NotLatched ==
    /\ Goto("latch", "switch") /\ ~wd_tripped
    /\ UNCHANGED <<pins, latch, clocks, locals, tx>>

\* if (want != stepgen_enabled()) stepgen_enable(want)
Switch ==
    /\ pc = "switch"
    /\ pc' = IF want = enabled THEN "read_on"
             ELSE IF want THEN "set" ELSE "zero"
    /\ joint' = 0
    /\ UNCHANGED <<pins, latch, clocks, rx, want, was_on, tx>>

\* The loops over the joints.
LastJoint == joint = NJ - 1
NextJoint == joint' = IF LastJoint THEN 0 ELSE joint + 1

\* stepgen_enable(false): incr[j] = 0
ZeroIncr ==
    /\ Goto("zero", IF LastJoint THEN "set" ELSE "zero")
    /\ moving' = moving \ {joint}
    /\ NextJoint
    /\ UNCHANGED <<enabled, powered, outputs, latch, clocks, rx, want, was_on,
                   tx>>

SetEnabled ==
    /\ Goto("set", "pin")
    /\ enabled' = want
    /\ UNCHANGED <<moving, powered, outputs, latch, clocks, locals, tx>>

WritePin ==
    /\ Goto("pin", "read_on")
    /\ powered' = want
    /\ UNCHANGED <<enabled, moving, outputs, latch, clocks, locals, tx>>

\* stepgen_set_incr: incr[j] = enabled ? in[j] : 0, a load and a store.
ReadEnabled ==
    /\ Goto("read_on", "store")
    /\ was_on' = enabled
    /\ UNCHANGED <<pins, latch, clocks, rx, want, joint, tx>>

\* Mutation: the increment is stored whatever `enabled` was.
StoreIncrAlways ==
    /\ Goto("store", IF LastJoint THEN "outputs" ELSE "read_on")
    /\ moving' = IF joint \in rx.moves THEN moving \cup {joint}
                                       ELSE moving \ {joint}
    /\ NextJoint
    /\ UNCHANGED <<enabled, powered, outputs, latch, clocks, rx, want, was_on,
                   tx>>

StoreIncr ==
    /\ Goto("store", IF LastJoint THEN "outputs" ELSE "read_on")
    /\ moving' = IF was_on /\ joint \in rx.moves THEN moving \cup {joint}
                                                 ELSE moving \ {joint}
    /\ NextJoint
    /\ UNCHANGED <<enabled, powered, outputs, latch, clocks, rx, want, was_on,
                   tx>>

\* Mutation: the outputs are those of the command, enabled or not.
SetOutputsAlways ==
    /\ Goto("outputs", "status")
    /\ outputs' = rx.outputs
    /\ UNCHANGED <<enabled, moving, powered, latch, clocks, locals, tx>>

\* io_set_outputs(want ? c->outputs : 0)
SetOutputs ==
    /\ Goto("outputs", "status")
    /\ outputs' = (want /\ rx.outputs)
    /\ UNCHANGED <<enabled, moving, powered, latch, clocks, locals, tx>>

\* prepare_status reads `enabled`, then wd_tripped and crc_seen.
StatusEnabled ==
    /\ Goto("status", "status2")
    /\ tx' = [tx EXCEPT !.enabled = enabled]
    /\ UNCHANGED <<pins, latch, clocks, locals>>

StatusLatch ==
    /\ Goto("status2", "receive")
    /\ tx' = [tx EXCEPT !.watchdog = wd_tripped, !.crc = crc_seen]
    /\ UNCHANGED <<pins, latch, clocks, locals>>

Handle ==
    \/ CheckBad \/ ReadUptime \/ Stamp
    \/ LatchHolds \/ LatchClears \/ NotLatched
    \/ Switch \/ ZeroIncr \/ SetEnabled \/ WritePin
    \/ ReadEnabled \/ StoreIncr \/ SetOutputs
    \/ StatusEnabled \/ StatusLatch

Next ==
    \/ Millisecond
    \/ Watchdog
    \/ \E f \in Frames : Receive(f)
    \/ Handle

\* Time passes, the timer interrupt is served, the main thread (the highest
\* priority thread) runs; nothing says the host ever sends a frame.
Fairness == WF_vars(Millisecond) /\ WF_vars(Watchdog) /\ WF_vars(Handle)

Spec == Init /\ [][Next]_vars /\ Fairness

-----------------------------------------------------------------------------

\* The values the variables take.
TypeOK ==
    /\ enabled \in BOOLEAN /\ moving \subseteq Joints /\ powered \in BOOLEAN
    /\ outputs \in BOOLEAN /\ wd_tripped \in BOOLEAN /\ crc_seen \in BOOLEAN
    /\ age \in 0 .. AgeCap /\ timer \in 0 .. PERIOD_MS
    /\ pc \in PCs /\ rx \in Frames /\ want \in BOOLEAN
    /\ joint \in Joints /\ was_on \in BOOLEAN
    /\ read_age \in 0 .. AgeCap /\ busy \in 0 .. BUSY_MS
    /\ tx \in Status

\* The drivers are off at most a timer period after WATCHDOG_MS of silence,
\* wherever the watchdog caught the main thread.
OffInTime == powered \/ enabled => age <= WATCHDOG_MS + PERIOD_MS

\* What the comment in rtapi_app_exit says: off within WATCHDOG_MS.  Does not
\* hold: see README.md.
OffWithinWatchdog == powered => age <= WATCHDOG_MS

\* While the trip is latched the drivers are off, no joint has an increment and
\* the outputs are off: no store of the preempted main thread undoes the trip.
TripIsComplete == wd_tripped => ~enabled /\ ~powered /\ moving = {} /\ ~outputs

\* A joint has an increment only while stepping is enabled, although set_incr
\* decides with a value of `enabled` it read earlier.
MovesOnlyEnabled == moving # {} => enabled

\* Between frames the EN pin, the stepping flag and the outputs agree.
PinsAgree == pc = "receive" => powered = enabled /\ (outputs => powered)

\* A host that falls silent, or whose frames all arrive damaged, finds the
\* drivers off: they never stay on for ever without another good command.
SilenceTurnsOff == powered ~> (~powered \/ pc = "latch")

\* The drivers' power as DrivePower sees it: the firmware keeps that promise.
Power == INSTANCE DrivePower WITH
    power <- IF wd_tripped THEN "latched" ELSE IF powered THEN "on" ELSE "off",
    silence <- age,
    wants <- want

PowerContract == Power!Spec

\* From the stamp on, a command counts as carried out: what it leaves to do
\* happens before the watchdog can trip.
Stamped == pc \in {"latch", "switch", "zero", "set", "pin", "read_on", "store",
                   "outputs"} \/ (pc \in {"status", "status2"} /\ rx.ok)
Latched == wd_tripped /\ (pc = "latch" => want)
DriversOn == IF pc = "latch" THEN want /\ ~wd_tripped
             ELSE IF pc \in {"switch", "zero", "set"} THEN want ELSE enabled
Told == IF Stamped THEN Latched ELSE tx.watchdog

\* The MCU as the link sees it, a frame at a time: what module Link composes
\* with the host is what the main loop and the watchdog do together.
Mcu == INSTANCE McuFrames WITH
    on <- DriversOn, wd_tripped <- Latched, told <- Told, frame_age <- age

McuContract == Mcu!McuSpec
=============================================================================
