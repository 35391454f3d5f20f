------------------------------ MODULE Estimator ------------------------------
(***************************************************************************)
(* The position estimate of hal/unoq_spi.c (one joint, machine on): the     *)
(* host adds to the counts of the newest status what the commands since    *)
(* then should have moved, and so predicts where the motor is when the     *)
(* command it is about to send takes effect.                               *)
(*                                                                         *)
(* A step of time is a servo period, in which the motor moves by the       *)
(* velocity in effect (whole steps; module StepGen makes them).  Two things *)
(* are kept as differences.  A command is known by its age, the number of  *)
(* commands after it, so the rings are indexed by age and the wrap of seq, *)
(* with the counter `stalled` that guards against it, is left to module    *)
(* Freshness.  Counts are kept as how far the motor has moved since they   *)
(* were sampled, so count_offset and the wrap of the counts cancel.  The   *)
(* velocities are any: module PositionLoop chooses them.                   *)
(***************************************************************************)
EXTENDS Integers

CONSTANTS
    MAX_FB_AGE,   \* 16: a status of a command this old is not fresh
    DUR_MAX,      \* 255: where the uint8_t of dur_ring saturates
    WATCHDOG,     \* silent periods after which the MCU's watchdog may trip
    Velocities    \* bound of the model: steps per period

ASSUME EstimatorAssumption ==
    /\ MAX_FB_AGE \in Nat \ {0} /\ WATCHDOG \in Nat /\ DUR_MAX \in Nat
    /\ MAX_FB_AGE < WATCHDOG /\ WATCHDOG < DUR_MAX
    /\ Velocities \subseteq Int /\ 0 \in Velocities

VARIABLES
    counts_seq,   \* host: age of the command st.counts was sampled after
    since_counts, \* host: movement since then
    have_fb,
    v_ring,       \* host: velocity of each command
    dur_ring,     \* host: periods each is taken to have been in effect
    job,          \* mailbox: "none", "posted", "back" (exchanged, but the
                  \* worker is not awake yet), "done"
    tx_enable,    \* the frame in the mailbox asks for the drivers
    reply,        \* what came back for it
    last_seq,     \* MCU: age of the last good command
    enabled,      \* MCU: stepping allowed
    incr,         \* MCU: velocity in effect
    wd_tripped,   \* MCU: the watchdog's latch
    silence,      \* MCU: periods since the last good command, up to WATCHDOG
    since_stat,   \* MCU: movement since the prepared status was sampled
    fair,         \* from now on every transfer succeeds within its period
    fate          \* history: what became of each command: "ran" when it was in
                  \* effect from its period on, "late", or "lost" if it did not
                  \* take effect, or the watchdog ended it

hostVars == <<counts_seq, since_counts, have_fb, v_ring, dur_ring>>
mailbox == <<job, tx_enable, reply>>
mcuVars == <<last_seq, enabled, incr, wd_tripped, silence, since_stat>>
vars == <<hostVars, mailbox, mcuVars, fair, fate>>

Ages == 0 .. MAX_FB_AGE
Older(age) == IF age < MAX_FB_AGE THEN age + 1 ELSE age
Ring(oldest) == [a \in 0 .. MAX_FB_AGE - 1 |-> oldest]
\* A movement since counts that are too old to be used is forgotten.
Since(age, steps) == IF age < MAX_FB_AGE THEN steps ELSE 0
NoReply == [ok |-> FALSE, seq_echo |-> MAX_FB_AGE, since |-> 0]

Init ==
    /\ counts_seq = MAX_FB_AGE /\ since_counts = 0 /\ have_fb = FALSE
    /\ v_ring = Ring(0) /\ dur_ring = Ring(0)
    /\ job = "none" /\ tx_enable = FALSE /\ reply = NoReply
    /\ last_seq = MAX_FB_AGE /\ enabled = FALSE /\ incr = 0
    /\ wd_tripped = FALSE /\ silence = WATCHDOG /\ since_stat = 0
    /\ fair = FALSE /\ fate = Ring("ran")

-----------------------------------------------------------------------------
(* unoq.update. *)

Got == job = "done" /\ reply.ok
Echo == IF Got THEN reply.seq_echo ELSE counts_seq
SinceCounts == IF Got THEN reply.since ELSE since_counts
Fresh == (have_fb \/ Got) /\ Echo < MAX_FB_AGE

\* The commands the loop `for (uint8_t s = st.counts_seq;; s++)` visits.
Window == 0 .. Echo

\* What the commands up to each age moved the motor by: the loop's sum.
Travel(v, dur) ==
    LET sum[a \in 0 .. MAX_FB_AGE - 1] ==
            v[a] * dur[a] + (IF a = 0 THEN 0 ELSE sum[a - 1])
    IN  sum

\* est_steps - st.counts.  Mutation: the newest command is left out.
PredictedShort == Travel(v_ring, dur_ring)[Echo] - v_ring[0] * dur_ring[0]
Predicted == Travel(v_ring, dur_ring)[Echo]

\* A ring with the entry of the next command.  The entries the loop will not
\* reach any more before they are written again are forgotten.
Push(ring, new, none) ==
    [a \in DOMAIN ring |-> CASE a = 0 -> new
                             [] a \in 1 .. Older(Echo) -> ring[a - 1]
                             [] OTHER -> none]

\* The uint8_t saturates.  Mutation: a late period is not charged at all.
ChargedNot(periods) == periods
Charged(periods) == IF periods < DUR_MAX THEN periods + 1 ELSE periods

\* The previous transfer is still running: the last command is charged with
\* another period.
UpdateLate ==
    /\ job \in {"posted", "back"}
    /\ since_counts' = Since(counts_seq, since_counts + incr)
    /\ reply' = [reply EXCEPT !.since = Since(reply.seq_echo, @ + incr)]
    /\ dur_ring' = [dur_ring EXCEPT ![0] = Charged(@)]
    /\ fate' = IF job = "posted" THEN [fate EXCEPT ![0] = "late"] ELSE fate
    /\ UNCHANGED <<counts_seq, have_fb, v_ring, job, tx_enable, last_seq>>

\* The reply is taken and the next command goes out; without drivers_on its
\* velocity is 0.
UpdatePost(v) ==
    /\ job \in {"none", "done"}
    /\ ~Fresh => v = 0
    /\ have_fb' = (have_fb \/ Got)
    /\ counts_seq' = Older(Echo) /\ since_counts' = Since(Older(Echo), SinceCounts + incr)
    /\ v_ring' = Push(v_ring, v, 0) /\ dur_ring' = Push(dur_ring, 1, 0)
    /\ job' = "posted" /\ tx_enable' = Fresh /\ reply' = NoReply
    /\ last_seq' = Older(last_seq) /\ fate' = Push(fate, "ran", "ran")

\* A servo period ends, in which the motor moved: unoq.update.  A command
\* still on its way has missed its period.  After WATCHDOG periods of silence
\* the watchdog has tripped.
Update ==
    /\ fair => job \in {"none", "done"}
    /\ silence = WATCHDOG => ~enabled
    /\ UpdateLate \/ \E v \in Velocities : UpdatePost(v)
    /\ since_stat' = Since(last_seq', since_stat + incr)
    /\ silence' = IF silence < WATCHDOG THEN silence + 1 ELSE silence
    /\ UNCHANGED <<enabled, incr, wd_tripped, fair>>

-----------------------------------------------------------------------------
(* The transfer and the MCU. *)

\* The reply is the status prepared after the previous frame.
Answer(toHost) ==
    IF toHost THEN [ok |-> TRUE, seq_echo |-> last_seq, since |-> since_stat]
    ELSE NoReply

\* A good frame: apply_command ignores it if it asks for the drivers of a
\* tripped MCU; one that does not ask stops the motor.  prepare_status then
\* samples the counts.
Accept(toHost) ==
    /\ job = "posted" /\ job' = "back"
    /\ reply' = Answer(toHost)
    /\ last_seq' = 0 /\ silence' = 0 /\ since_stat' = 0
    /\ wd_tripped' = (wd_tripped /\ tx_enable)
    /\ enabled' = (tx_enable /\ ~wd_tripped)
    /\ incr' = IF enabled' THEN v_ring[0] ELSE 0
    /\ fate' = [fate EXCEPT ![0] = IF wd_tripped' THEN "lost" ELSE @]
    /\ UNCHANGED <<hostVars, tx_enable, fair>>

\* A damaged frame: prepare_status samples the counts again.
Reject(toHost) ==
    /\ ~fair
    /\ job = "posted" /\ job' = "back"
    /\ reply' = Answer(toHost)
    /\ since_stat' = 0
    /\ fate' = [fate EXCEPT ![0] = "lost"]
    /\ UNCHANGED <<hostVars, tx_enable, last_seq, enabled, incr, wd_tripped,
                   silence, fair>>

\* The ioctl fails, or the MCU is not armed.
Fail ==
    /\ ~fair
    /\ job = "posted" /\ job' = "done"
    /\ reply' = NoReply
    /\ fate' = [fate EXCEPT ![0] = "lost"]
    /\ UNCHANGED <<hostVars, tx_enable, mcuVars, fair>>

\* The worker wakes up and stores `done`.
Return ==
    /\ job = "back" /\ job' = "done"
    /\ UNCHANGED <<hostVars, tx_enable, reply, mcuVars, fair, fate>>

Foul ==
    \/ ~fair /\ Accept(FALSE)
    \/ \E toHost \in BOOLEAN : Reject(toHost)
    \/ Fail

\* watchdog_fn, some time after WATCHDOG periods of silence.
Trip ==
    /\ silence = WATCHDOG /\ enabled
    /\ wd_tripped' = TRUE /\ enabled' = FALSE /\ incr' = 0
    /\ fate' = [a \in DOMAIN fate |-> IF a = last_seq THEN "lost" ELSE fate[a]]
    /\ UNCHANGED <<hostVars, mailbox, last_seq, silence, since_stat, fair>>

WeatherClears ==
    /\ ~fair /\ fair' = TRUE
    /\ UNCHANGED <<hostVars, mailbox, mcuVars, fate>>

Next ==
    \/ Update \/ Accept(TRUE) \/ Foul \/ Return \/ Trip
    \/ WeatherClears

Spec ==
    /\ Init /\ [][Next]_vars
    /\ WF_vars(Update) /\ WF_vars(Accept(TRUE)) /\ WF_vars(Return)
    /\ WF_vars(Trip)

-----------------------------------------------------------------------------

TypeOK ==
    /\ counts_seq \in Ages /\ since_counts \in Int /\ have_fb \in BOOLEAN
    /\ v_ring \in [0 .. MAX_FB_AGE - 1 -> Velocities]
    /\ dur_ring \in [0 .. MAX_FB_AGE - 1 -> 0 .. DUR_MAX]
    /\ job \in {"none", "posted", "back", "done"} /\ tx_enable \in BOOLEAN
    /\ reply \in [ok : BOOLEAN, seq_echo : Ages, since : Int]
    /\ last_seq \in Ages /\ enabled \in BOOLEAN /\ incr \in Velocities
    /\ wd_tripped \in BOOLEAN /\ silence \in 0 .. WATCHDOG /\ since_stat \in Int
    /\ fair \in BOOLEAN
    /\ fate \in [0 .. MAX_FB_AGE - 1 -> {"ran", "late", "lost"}]

\* The next update computes an estimate and drives the motor by it.
Estimates == job = "done" /\ Fresh

\* The estimate less the motor's position at that update.
Error == Predicted - (SinceCounts + incr)

\* The estimate is the motor's position, to the step, as long as every command
\* since the counts were sampled took effect in its own period: replies that are
\* lost, and a worker that wakes up periods too late, cost nothing.
EstimateIsExact ==
    Estimates /\ (\A a \in Window : fate[a] = "ran") => Error = 0

\* Whatever went wrong before, two commands in a row that took effect in their
\* periods, and a reply to the second, are enough for the estimate to be exact.
EstimateIsBack ==
    Estimates /\ Got /\ fate[0] = "ran" /\ fate[1] = "ran" => Error = 0

\* BRINGUP_LOG.md: "a late transfer is accounted for exactly".  Does not hold
\* (see README.md) when the frame itself is late and changes the velocity: UpdateLate charges the
\* period to the new command while the MCU still runs the one before.
LateIsExact ==
    Estimates /\ (\A a \in Window : fate[a] # "lost") => Error = 0

\* The header of unoq_spi.c: "every status frame carries the step counts sampled
\* right after the MCU applied command seq_echo".  What follows from it does not
\* hold (see README.md): after a damaged frame the MCU
\* samples them again under the old seq_echo, and even at a constant velocity the
\* estimate is off by what the motor moved in between.
SteadyIsExact ==
    Estimates /\ (\A a \in Window : fate[a] # "late" /\ v_ring[a] = incr)
        => Error = 0

\* Whatever was lost, damaged, late or stopped by the watchdog, the estimate is
\* exact again, and stays so, once frames get through to an MCU whose latch is
\* clear: no error is carried from one status into the next.
EstimateRecovers ==
    <>[](fair /\ ~wd_tripped) => <>[](Estimates => Error = 0)
=============================================================================
