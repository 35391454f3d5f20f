------------------------------- MODULE StepGen -------------------------------
(***************************************************************************)
(* The DDS step generator of firmware/qstep-fw/src/stepgen.c.              *)
(*                                                                         *)
(* Two parties touch its state: the TIM6 interrupt (100 kHz, the highest   *)
(* priority, never preempted: one atomic action, Tick), and the code that   *)
(* calls stepgen_set_incr and stepgen_enable, which the interrupt preempts *)
(* between any two of its stores (the actions named after the stores, in   *)
(* the order of the source; op and nxt are that code's control location).  *)
(*                                                                         *)
(* A joint is a joint with a STEP pin; the ISR skips the others.           *)
(* The 32-bit accumulator is scaled: it wraps at M = 2 * INCR_MAX, as      *)
(* 2^32 is 2 * 0x80000000 in the source.                                   *)
(***************************************************************************)
EXTENDS Integers

CONSTANTS
    NJ,         \* QSTEP_JOINTS, the joints that have a STEP pin
    INCR_MAX,   \* 2^31 in the source: half the accumulator's range
    RAMP,       \* largest change of a joint's increment between two commands
    CmdGap      \* fewest ticks between two commands (100 at a 1 ms period)

ASSUME SizesAssumption ==
    /\ NJ \in Nat \ {0}
    /\ INCR_MAX \in Nat \ {0}
    /\ RAMP \in Nat

\* A reversal is at most a quarter of the tick rate (25 kHz on the board).
ASSUME RampAssumption == 2 * RAMP <= INCR_MAX

\* A 64-byte frame alone takes 2.6 ticks on the wire at 20 MHz, its CRC twice
\* that; two frames are never closer than this.
ASSUME GapAssumption == CmdGap \in Nat /\ CmdGap >= 4

M == 2 * INCR_MAX
Joints == 0 .. NJ - 1
Int32 == -INCR_MAX .. INCR_MAX - 1
DIR_HOLD_TICKS == 2

VARIABLES
    incr,       \* signed increment per joint, written by the thread
    pos,        \* signed step count per joint (wraps like an int32_t)
    enabled,    \* stepping allowed
    acc,        \* phase accumulator per joint
    cur_dir,    \* level of the DIR pin per joint: 1 or -1
    hold,       \* ticks a joint still waits after a DIR change
    pending,    \* a step is owed to the joint
    raised,     \* joints whose STEP pin is high
    powered,    \* the active-low EN pin is low: the drivers hold the motors
    op,         \* where the calling code is in stepgen_set_incr/stepgen_enable
    nxt,        \* its loop variable
    gap,        \* history: ticks since the joint's last command, up to CmdGap
    dir_age     \* history: ticks since the DIR pin moved, up to DIR_HOLD_TICKS

isrVars == <<pos, acc, cur_dir, hold, pending, raised, dir_age>>
vars == <<incr, pos, enabled, acc, cur_dir, hold, pending, raised, powered,
          op, nxt, gap, dir_age>>

Ops == {"idle", "set_incr", "zero_incr", "set_off", "set_on", "write_pin"}

\* stepgen_init: EN high, STEP low, DIR high; the statics as initialised.
Init ==
    /\ incr = [j \in Joints |-> 0]
    /\ pos = [j \in Joints |-> 0]
    /\ enabled = FALSE
    /\ acc = [j \in Joints |-> 0]
    /\ cur_dir = [j \in Joints |-> 1]
    /\ hold = [j \in Joints |-> 0]
    /\ pending = [j \in Joints |-> FALSE]
    /\ raised = {}
    /\ powered = FALSE
    /\ op = "idle"
    /\ nxt = 0
    /\ gap = [j \in Joints |-> CmdGap]
    /\ dir_age = [j \in Joints |-> DIR_HOLD_TICKS]

-----------------------------------------------------------------------------
(* One tick of the interrupt, joint by joint. *)

Abs(i) == IF i < 0 THEN -i ELSE i
Capped(i, bound) == IF i > bound THEN bound ELSE i

Mag(j) == Capped(Abs(incr[j]), INCR_MAX)
Dir(j) == IF incr[j] < 0 THEN -1 ELSE IF incr[j] > 0 THEN 1 ELSE cur_dir[j]
Reverses(j) == Dir(j) # cur_dir[j]
Overflows(j) == acc[j] + Mag(j) >= M
\* The hold of a joint in this tick.  The three variants are mutations of it: a
\* hold one tick short, one twice as long, one re-armed for ever.
HoldShort(j) == IF Reverses(j) THEN DIR_HOLD_TICKS - 1 ELSE hold[j]
HoldLong(j) == IF Reverses(j) THEN 2 * DIR_HOLD_TICKS ELSE hold[j]
HoldStuck(j) == IF Reverses(j) \/ hold[j] > 0 THEN DIR_HOLD_TICKS ELSE 0
HoldNow(j) == IF Reverses(j) THEN DIR_HOLD_TICKS ELSE hold[j]
Owed(j) == pending[j] \/ Overflows(j)
Steps(j) == HoldNow(j) = 0 /\ Owed(j)

\* pos[j] += cur_dir[j] on an int32_t.
Moved(p, d) ==
    IF p + d >= INCR_MAX THEN p + d - M
    ELSE IF p + d < -INCR_MAX THEN p + d + M
    ELSE p + d

AgeGap == gap' = [j \in Joints |-> Capped(gap[j] + 1, CmdGap)]

\* stepgen_isr with stepping allowed: end the last pulses, then advance each
\* joint and raise the STEP pins of those that step.
TickRunning ==
    /\ enabled
    /\ raised' = {j \in Joints : Steps(j)}
    /\ acc' = [j \in Joints |-> IF Overflows(j) THEN acc[j] + Mag(j) - M
                                              ELSE acc[j] + Mag(j)]
    /\ cur_dir' = [j \in Joints |-> Dir(j)]
    /\ hold' = [j \in Joints |-> IF HoldNow(j) > 0 THEN HoldNow(j) - 1 ELSE 0]
    /\ pending' = [j \in Joints |-> Owed(j) /\ ~Steps(j)]
    /\ pos' = [j \in Joints |-> IF Steps(j) THEN Moved(pos[j], Dir(j))
                                            ELSE pos[j]]
    /\ dir_age' = [j \in Joints |-> IF Reverses(j) THEN 0
                                    ELSE Capped(dir_age[j] + 1, DIR_HOLD_TICKS)]
    /\ AgeGap
    /\ UNCHANGED <<incr, enabled, powered, op, nxt>>

\* stepgen_isr with stepping off: it only ends the last pulses.
TickIdle ==
    /\ ~enabled
    /\ raised' = {}
    /\ dir_age' = [j \in Joints |-> Capped(dir_age[j] + 1, DIR_HOLD_TICKS)]
    /\ AgeGap
    /\ UNCHANGED <<incr, pos, enabled, acc, cur_dir, hold, pending, powered,
                   op, nxt>>

Tick == TickRunning \/ TickIdle

-----------------------------------------------------------------------------
(* The calling code.  A command reaches a joint no sooner than CmdGap ticks *)
(* after the previous one.                                                  *)

Rested == \A j \in Joints : gap[j] = CmdGap

CallSetIncr ==
    /\ op = "idle" /\ Rested
    /\ op' = "set_incr" /\ nxt' = 0
    /\ UNCHANGED <<incr, enabled, powered, gap, isrVars>>

\* Mutation: the increment is stored whether or not stepping is enabled.
SetIncrAlways(v) ==
    /\ op = "set_incr"
    /\ incr' = [incr EXCEPT ![nxt] = v]
    /\ gap' = [gap EXCEPT ![nxt] = 0]
    /\ nxt' = IF nxt = NJ - 1 THEN 0 ELSE nxt + 1
    /\ op' = IF nxt = NJ - 1 THEN "idle" ELSE op
    /\ UNCHANGED <<enabled, powered, isrVars>>

\* incr[j] = enabled ? in[j] : 0
SetIncr(v) ==
    /\ op = "set_incr"
    /\ incr' = [incr EXCEPT ![nxt] = IF enabled THEN v ELSE 0]
    /\ gap' = [gap EXCEPT ![nxt] = 0]
    /\ nxt' = IF nxt = NJ - 1 THEN 0 ELSE nxt + 1
    /\ op' = IF nxt = NJ - 1 THEN "idle" ELSE op
    /\ UNCHANGED <<enabled, powered, isrVars>>

\* stepgen_enable(false) stops the joints, then the interrupt, then the drivers.
CallDisable ==
    /\ op = "idle" /\ Rested
    /\ op' = "zero_incr" /\ nxt' = 0
    /\ UNCHANGED <<incr, enabled, powered, gap, isrVars>>

ZeroIncr ==
    /\ op = "zero_incr"
    /\ incr' = [incr EXCEPT ![nxt] = 0]
    /\ nxt' = IF nxt = NJ - 1 THEN 0 ELSE nxt + 1
    /\ op' = IF nxt = NJ - 1 THEN "set_off" ELSE op
    /\ UNCHANGED <<enabled, powered, gap, isrVars>>

CallEnable ==
    /\ op = "idle"
    /\ op' = "set_on"
    /\ UNCHANGED <<incr, enabled, powered, nxt, gap, isrVars>>

SetEnabled ==
    /\ op \in {"set_off", "set_on"}
    /\ enabled' = (op = "set_on")
    /\ op' = "write_pin"
    /\ UNCHANGED <<incr, powered, nxt, gap, isrVars>>

WritePin ==
    /\ op = "write_pin"
    /\ powered' = enabled
    /\ op' = "idle"
    /\ UNCHANGED <<incr, enabled, nxt, gap, isrVars>>

Switch == CallDisable \/ ZeroIncr \/ CallEnable \/ SetEnabled \/ WritePin

\* The host limits the acceleration (unoq.N.maxaccel > 0), except that a joint
\* that is disabled is commanded 0 at once.
RampedSetIncr ==
    \E v \in Int32 : (v = 0 \/ Abs(v - incr[nxt]) <= RAMP) /\ SetIncr(v)

Next == Tick \/ CallSetIncr \/ RampedSetIncr \/ Switch

Spec == Init /\ [][Next]_vars /\ WF_vars(Tick)

\* The host as its parameters default: maxaccel = 0, no limit.
NextNoRamp == Tick \/ CallSetIncr \/ (\E v \in Int32 : SetIncr(v)) \/ Switch

SpecNoRamp == Init /\ [][NextNoRamp]_vars /\ WF_vars(Tick)

-----------------------------------------------------------------------------

\* The values the variables take.
TypeOK ==
    /\ incr \in [Joints -> Int32]
    /\ pos \in [Joints -> Int32]
    /\ enabled \in BOOLEAN
    /\ acc \in [Joints -> 0 .. M - 1]
    /\ cur_dir \in [Joints -> {-1, 1}]
    /\ hold \in [Joints -> 0 .. DIR_HOLD_TICKS - 1]
    /\ pending \in [Joints -> BOOLEAN]
    /\ raised \subseteq Joints
    /\ powered \in BOOLEAN
    /\ op \in Ops
    /\ nxt \in Joints
    /\ gap \in [Joints -> 0 .. CmdGap]
    /\ dir_age \in [Joints -> 0 .. DIR_HOLD_TICKS]

\* A STEP edge never comes within DIR_HOLD_TICKS of a DIR edge of its joint,
\* whatever is enabled, disabled or commanded in between (the hold of
\* stepgen_isr gives the driver its direction setup time).
DirSetup == \A j \in raised : dir_age[j] >= DIR_HOLD_TICKS

\* A step held back by a DIR change never outlives a machine-off: pending is
\* not reset by stepgen_enable, so only the order of events keeps a stale step
\* from being made when the drivers come back.
NoStaleStep == ~enabled => \A j \in Joints : ~pending[j] /\ incr[j] = 0

\* A step the interrupt counts in pos is made with the drivers on, although
\* stepgen_enable(true) lets the interrupt step before it writes the EN pin.
StepsAreDriven == [][raised' \ raised # {} => powered]_vars

\* "A joint steps at most every other tick": no STEP pin is raised by two ticks
\* in a row, so it is low for at least one whole tick.
EveryOtherTick == [][Tick => raised \cap raised' = {}]_vars

\* "An overflow is one step": an accumulator never overflows while its joint is
\* still owed the step of an earlier overflow, which would be lost.
OverflowIsOneStep ==
    [][TickRunning => \A j \in Joints : ~(pending[j] /\ Overflows(j))]_vars

\* A step that is owed is made, unless stepping is turned off first: repeated
\* reversals cannot hold it back for ever.
OwedStepIsMade ==
    \A j \in Joints : pending[j] ~> (~pending[j] \/ ~enabled)
=============================================================================
