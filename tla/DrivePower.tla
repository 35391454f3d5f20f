----------------------------- MODULE DrivePower ------------------------------
(***************************************************************************)
(* What the firmware promises about the drivers' power, as its header      *)
(* comment (firmware/qstep-fw/src/main.c, "Safety") and qstep_proto.h say  *)
(* it: the drivers are on only at a recent command's request; silence of   *)
(* more than WATCHDOG_MS turns them off and latches; only a command that   *)
(* does not ask for them releases the latch.                               *)
(***************************************************************************)
EXTENDS Integers

CONSTANTS WATCHDOG_MS, PERIOD_MS

VARIABLES
    power,      \* "off", "on" or "latched"
    silence,    \* ms since the last command was taken, up to the cap
    wants       \* what the last command taken asked for

vars == <<power, silence, wants>>

Deadline == WATCHDOG_MS + PERIOD_MS

Init == power = "off" /\ silence = 0 /\ wants = FALSE

\* A command is taken; how old it is by then is bounded by the watchdog's time.
Command ==
    /\ silence' \in 0 .. WATCHDOG_MS
    /\ wants' \in BOOLEAN
    /\ UNCHANGED power

On == /\ power = "off" /\ wants /\ silence <= WATCHDOG_MS
      /\ power' = "on"
      /\ UNCHANGED <<silence, wants>>

Off == /\ power = "on" /\ ~wants
       /\ power' = "off"
       /\ UNCHANGED <<silence, wants>>

Trip == /\ power = "on" /\ silence > WATCHDOG_MS
        /\ power' = "latched"
        /\ UNCHANGED <<silence, wants>>

Release == /\ power = "latched" /\ ~wants
           /\ power' = "off"
           /\ UNCHANGED <<silence, wants>>

\* Time passes, but not past the deadline with the drivers on.
Time == /\ silence' = IF silence > Deadline THEN silence ELSE silence + 1
        /\ power = "on" => silence < Deadline
        /\ UNCHANGED <<power, wants>>

Next == Command \/ On \/ Off \/ Trip \/ Release \/ Time

\* Silence is noticed, and a command to turn the drivers off is obeyed.
Fairness == WF_vars(Time) /\ WF_vars(Off) /\ WF_vars(Trip)

Spec == Init /\ [][Next]_vars /\ Fairness
=============================================================================
