----------------------------- MODULE TripHistory -----------------------------
(***************************************************************************)
(* Link with a memory of what happened since the MCU's watchdog tripped,    *)
(* for the statements the sources make about how a trip ends.              *)
(***************************************************************************)
EXTENDS Link

VARIABLES
    machine_off,  \* the machine was off, or the component unloaded
    shown         \* unoq.watchdog was set

\* The component is loaded and not being unloaded.
InUse == loaded /\ job # "exit"

Trips == ~wd_tripped /\ wd_tripped'

Remember ==
    /\ machine_off' = (~(req /\ InUse)' \/ (machine_off /\ ~Trips))
    /\ shown' = (watchdog' \/ (shown /\ ~Trips))

\* A restart of the MCU, which forgets the latch, is not a way for a trip to end
\* that the statements below are about.
HistoryNext == Next /\ ~Restart /\ Remember
historyVars == <<vars, machine_off, shown>>

HistorySpec ==
    /\ Init /\ machine_off = TRUE /\ shown = FALSE
    /\ [][HistoryNext]_historyVars
    /\ Fairness

\* "The trip latches until ... LinuxCNC goes through machine-off"
\* (firmware/qstep-fw/src/main.c): the drivers come back no sooner.
LatchNeedsMachineOff == [][~on /\ on' => machine_off]_historyVars

\* "unoq.watchdog: MCU link watchdog tripped" (hal/unoq_spi.c): the drivers do
\* not come back from a trip that nobody was shown.  Does not hold either: see
\* README.md.
TripIsShown == [][~on /\ on' => machine_off \/ shown]_historyVars
=============================================================================
