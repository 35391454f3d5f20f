------------------------------ MODULE McuFrames ------------------------------
(***************************************************************************)
(* The MCU as the link sees it (firmware/qstep-fw/src/main.c), one step per *)
(* frame: a command takes effect as a whole, a damaged frame has none, and *)
(* the watchdog's timer runs beside them.  Module Firmware models the same *)
(* code store by store and implements this one (Firmware!McuContract);     *)
(* module Link composes it with the host.                                  *)
(***************************************************************************)
EXTENDS Integers

CONSTANTS
    WATCHDOG_MS, PERIOD_MS,  \* of the watchdog: 20 and 5
    BUSY_MS                  \* longest the MCU takes to handle a frame

ASSUME McuAssumption ==
    /\ WATCHDOG_MS \in Nat \ {0} /\ PERIOD_MS \in Nat \ {0}
    /\ BUSY_MS \in Nat /\ BUSY_MS <= WATCHDOG_MS

VARIABLES
    on,           \* the drivers are enabled
    wd_tripped,   \* the watchdog's latch
    told,         \* the latch as the status for the next transfer shows it
    frame_age,    \* ms since the last good command, up to AgeCap
    timer         \* ms until the watchdog's timer expires

power == <<on, wd_tripped>>
mcuVars == <<on, wd_tripped, told, frame_age, timer>>

AgeCap == WATCHDOG_MS + PERIOD_MS + 1
Capped(n, cap) == IF n > cap THEN cap ELSE n

McuInit ==
    /\ on = FALSE /\ wd_tripped = FALSE /\ told = FALSE
    /\ frame_age = 0 /\ timer = PERIOD_MS

\* prepare_status.  Mutation: QSTEP_ST_WATCHDOG is never set.
PreparedBlind(wd) == told' = FALSE
Prepared(wd) == told' = wd

\* A good command, stamped with the time at which its handling began.  While
\* the trip is latched one with ENABLE changes nothing else.
Accept(enable) ==
    /\ frame_age' \in 0 .. BUSY_MS
    /\ wd_tripped' = (wd_tripped /\ enable)
    /\ on' = (enable /\ ~wd_tripped)
    /\ Prepared(wd_tripped')
    /\ UNCHANGED timer

\* A damaged frame: the status is prepared again.  Mutation: it counts as a
\* sign of life.
RejectStamps ==
    /\ Prepared(wd_tripped)
    /\ frame_age' = 0
    /\ UNCHANGED <<power, timer>>

Reject ==
    /\ Prepared(wd_tripped)
    /\ UNCHANGED <<power, frame_age, timer>>

\* watchdog_fn, every PERIOD_MS.
Expires ==
    /\ timer = 0
    /\ timer' = PERIOD_MS
    /\ IF on /\ frame_age > WATCHDOG_MS
       THEN on' = FALSE /\ wd_tripped' = TRUE
       ELSE UNCHANGED power
    /\ UNCHANGED <<told, frame_age>>

\* A millisecond passes.
Elapse ==
    /\ timer > 0
    /\ timer' = timer - 1
    /\ frame_age' = Capped(frame_age + 1, AgeCap)
    /\ UNCHANGED <<power, told>>

McuNext ==
    \/ \E enable \in BOOLEAN : Accept(enable)
    \/ Reject \/ Expires \/ Elapse

\* Time passes and the timer is served; nothing says that frames arrive.
McuSpec ==
    /\ McuInit /\ [][McuNext]_mcuVars
    /\ WF_mcuVars(Elapse) /\ WF_mcuVars(Expires)

McuTypeOK ==
    /\ on \in BOOLEAN /\ wd_tripped \in BOOLEAN /\ told \in BOOLEAN
    /\ frame_age \in 0 .. AgeCap /\ timer \in 0 .. PERIOD_MS
=============================================================================
