---------------------------- MODULE PositionLoop ----------------------------
(***************************************************************************)
(* The position loop of unoq.update (one joint) with the motor it drives,   *)
(* on a link that works: every command takes effect in its own period and  *)
(* the reply to it arrives in the next, so that counts were sampled when   *)
(* the command before the last took effect (module Estimator shows what     *)
(* becomes of the estimate when that fails).                               *)
(*                                                                         *)
(* Lengths are in units of a UNIT-th of a step, times in servo periods.    *)
(* The code computes in doubles and rounds the increment it sends last; so *)
(* does the model, with halves of a unit (for the gain of 1/2) before.      *)
(*                                                                         *)
(* Names carry a prefix where Handoff and Estimator have the same ones.     *)
(***************************************************************************)
EXTENDS Integers

CONSTANTS
    UNIT,       \* parts of a step: 2^32 in the accumulator of stepgen.c
    Limits,     \* settings <<maxvel, maxaccel * dt>> of the joint: units per
                \* period, 0 for no limit (the default of both)
    RATE_MAX,   \* STEP_RATE_MAX: units per period
    DEADBAND,   \* deadband: units
    Feeds,      \* bound of the model: movements of the command in a period
    TRAVEL,     \* bound of the model: the command stays within +-TRAVEL
    SETTLE      \* periods in which the motor comes to rest

ASSUME PositionLoopAssumption ==
    /\ UNIT \in Nat \ {0} /\ Limits \subseteq Nat \X Nat
    /\ RATE_MAX \in Nat /\ RATE_MAX > 1 /\ DEADBAND \in Nat /\ 2 * DEADBAND >= UNIT
    /\ Feeds \subseteq Int /\ TRAVEL \in Nat /\ SETTLE \in Nat

VARIABLES
    maxvel, maxaccel,
    cmd,        \* position_cmd
    old_cmd,    \* st.old_cmd
    enable,     \* the joint's enable, and drivers_on
    was_enabled,
    recent,     \* v_ring's newest entries: velocities of the last command
                \* and of the one before
    counts,     \* steps when the command before the last took effect
    stat,       \* steps when the last command took effect: the next counts
    pos,        \* steps now
    acc,        \* the DDS accumulator of the MCU
    rest        \* history: periods for which the command has been at rest for
                \* good with the joint enabled, up to SETTLE; 0 before

loopVars == <<maxvel, maxaccel, cmd, old_cmd, enable, was_enabled, recent,
              counts, stat, pos, acc, rest>>

Abs(x) == IF x < 0 THEN -x ELSE x
Sign(x) == IF x < 0 THEN -1 ELSE 1

\* copysign(limit, x) where fabs(x) > limit; a limit of 0 is none.
Limited(x, limit) == IF limit > 0 /\ Abs(x) > limit THEN Sign(x) * limit ELSE x

\* rint(h / 2): a tie goes to the even neighbour.
HalfToEven(h) == CASE h % 4 = 1 -> (h - 1) \div 2
                   [] h % 4 = 3 -> (h + 1) \div 2
                   [] OTHER -> h \div 2

-----------------------------------------------------------------------------
(* unoq.update. *)

\* est_steps (Estimator!Predicted with two commands in the window).
\* Mutation: the newest command is left out.
EstShort == counts * UNIT + recent.before
Est == counts * UNIT + recent.before + recent.last

\* ff.  Mutation: old_cmd is used although the joint was off.
FeedStale == cmd - old_cmd
Feed == IF was_enabled THEN cmd - old_cmd ELSE 0

\* err.  Mutation: without the deadband.
ErrFull == cmd - Est
Err == IF Feed = 0 /\ Abs(cmd - Est) <= DEADBAND THEN 0 ELSE cmd - Est

\* v in halves of a unit: ff + pgain * err within maxvel, and within maxaccel of
\* the velocity before.  Mutation: without maxvel.
WantedUnlimited == 2 * Feed + Err
Wanted == Limited(2 * Feed + Err, 2 * maxvel)

Ramped == LET v_prev == 2 * recent.last
          IN  v_prev + Limited(Wanted - v_prev, 2 * maxaccel)

\* incr: at the rate limit, 2^31, the conversion saturates one below (and
\* INT32_MIN is moved there).
Increment ==
    IF enable
    THEN Limited(HalfToEven(Limited(Ramped, 2 * RATE_MAX)), RATE_MAX - 1)
    ELSE 0

\* The motor: |v| is added to the accumulator and what overflows is stepped in
\* the direction of v (stepgen_isr, a period of ticks at once).
LoopUpdate ==
    LET v == Increment IN
    /\ recent' = [last |-> v, before |-> recent.last]
    /\ pos' = pos + Sign(v) * ((acc + Abs(v)) \div UNIT)
    /\ acc' = (acc + Abs(v)) % UNIT
    /\ counts' = stat /\ stat' = pos
    /\ old_cmd' = cmd /\ was_enabled' = enable
    /\ UNCHANGED <<maxvel, maxaccel>>

LoopInit ==
    /\ \E l \in Limits : maxvel = l[1] /\ maxaccel = l[2]
    /\ cmd = 0 /\ old_cmd = 0 /\ enable = FALSE /\ was_enabled = FALSE
    /\ recent = [last |-> 0, before |-> 0]
    /\ counts = 0 /\ stat = 0 /\ pos = 0 /\ acc \in 0 .. UNIT - 1
    /\ rest = 0

\* LinuxCNC moves the command and switches the joint before each update ...
Move ==
    /\ rest = 0 /\ UNCHANGED rest
    /\ cmd' \in {cmd + f : f \in Feeds} \cap (-TRAVEL .. TRAVEL)
    /\ enable' \in BOOLEAN

\* ... until the command comes to rest.
Rest ==
    /\ enable
    /\ rest' = IF rest < SETTLE THEN rest + 1 ELSE rest
    /\ UNCHANGED <<cmd, enable>>

LoopNext == LoopUpdate /\ (Move \/ Rest)

LoopSpec == LoopInit /\ [][LoopNext]_loopVars

-----------------------------------------------------------------------------

\* No velocity exceeds the limits.
Allowed == LET most == IF maxvel > 0 THEN maxvel ELSE RATE_MAX - 1
           IN  -most .. most

LoopTypeOK ==
    /\ <<maxvel, maxaccel>> \in Limits
    /\ cmd \in -TRAVEL .. TRAVEL /\ old_cmd \in -TRAVEL .. TRAVEL
    /\ enable \in BOOLEAN /\ was_enabled \in BOOLEAN
    /\ recent \in [last : Allowed, before : Allowed]
    /\ counts \in Int /\ stat \in Int /\ pos \in Int /\ acc \in 0 .. UNIT - 1
    /\ rest \in 0 .. SETTLE

\* Where the loop believes the motor to be is less than a step, and what the
\* velocity may change in a period, from where it will be when the command it
\* computes takes effect, although the counts are two commands old and the
\* accumulator's fraction, which changes sides with the direction, is not known to
\* the host.  Without an acceleration limit it is less than two steps.
EstimateWithinStep ==
    Abs(Est - pos * UNIT) <
        UNIT + (IF 0 < maxaccel /\ maxaccel < UNIT THEN maxaccel ELSE UNIT)

\* Once the command rests, the motor stops within SETTLE periods, at most the
\* deadband away, and never moves again: it does not dither between the
\* neighbouring steps of a target between them.
Settles ==
    rest = SETTLE =>
        recent = [last |-> 0, before |-> 0] /\ Abs(cmd - pos * UNIT) <= DEADBAND

\* A joint that is switched on starts towards its command, however the command
\* moved while it was off.
StartsTowards == [][~was_enabled => recent'.last * (cmd - Est) >= 0]_loopVars
=============================================================================
