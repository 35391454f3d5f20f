-------------------------------- MODULE Link ---------------------------------
(***************************************************************************)
(* The whole link: LinuxCNC's component (UnoqSpi), one SPI transfer per     *)
(* millisecond, and the MCU frame by frame (McuFrames).                     *)
(*                                                                         *)
(* In fair weather the servo thread runs once a millisecond and every      *)
(* transfer succeeds within it.  In foul weather all of that may happen    *)
(* too, but the servo thread may miss periods or make up for them in a     *)
(* burst, and transfers may hang for up to MAX_HANG ms, fail, or lose      *)
(* either direction or both, and the MCU may restart.  The weather clears   *)
(* up at most once, for good.                                              *)
(***************************************************************************)
EXTENDS UnoqSpi, McuFrames

CONSTANT MAX_HANG      \* bound of the model: longest transfer, in ms

ASSUME LinkAssumption == MAX_HANG \in Nat

VARIABLES
    last_seq,     \* MCU: seq of the last good command, seq_echo of the status
    fair,         \* the weather
    due,          \* the servo thread has to run in this millisecond
    hang,         \* ms the current transfer has lasted
    off_for,      \* history: ms since the machine was turned off
    streak        \* history: ENABLE frames in a row that lost nothing, up to 2

linkVars == <<fair, due, hang, off_for>>
vars == <<hostVars, mcuVars, last_seq, linkVars, streak>>

\* A frame posted just before machine-off may hang; the last frame the MCU
\* accepts is then followed by the watchdog.
StopTime == MAX_HANG + WATCHDOG_MS + PERIOD_MS

Init ==
    /\ Loaded /\ req = FALSE
    /\ McuInit /\ last_seq = 0
    /\ fair = FALSE /\ due = TRUE /\ hang = 0
    /\ off_for = 0 /\ streak = 0

-----------------------------------------------------------------------------
(* The transfer: full duplex, so the reply is the status prepared before.   *)

GoodReply == [ok |-> TRUE, stat |-> [seq_echo |-> last_seq, watchdog |-> told]]

Transfer(toMcu, toHost) ==
    /\ Finish(IF toHost THEN GoodReply ELSE NoReply)
    /\ IF toMcu THEN Accept(tx_enable) /\ last_seq' = seq
                ELSE Reject /\ UNCHANGED last_seq
    /\ hang' = 0
    /\ streak' = IF job = "posted" /\ tx_enable /\ toMcu /\ toHost
                 THEN Capped(streak + 1, 2) ELSE 0
    /\ UNCHANGED <<fair, due, off_for>>

\* The ioctl fails, or the MCU has not armed its SPI: it receives no frame.
TransferFails ==
    /\ ~fair
    /\ Finish(NoReply)
    /\ hang' = 0 /\ streak' = 0
    /\ UNCHANGED <<mcuVars, last_seq, fair, due, off_for>>

FairTransfer == Transfer(TRUE, TRUE)

FoulTransfer ==
    \/ ~fair /\ \E toMcu, toHost \in BOOLEAN : Transfer(toMcu, toHost)
    \/ TransferFails

-----------------------------------------------------------------------------
(* The MCU's timer, and its restart: main() starts with the drivers off. *)

Watchdog ==
    /\ Expires
    /\ streak' = IF wd_tripped' # wd_tripped THEN 0 ELSE streak
    /\ UNCHANGED <<hostVars, last_seq, linkVars>>

\* Mutation: the drivers stay on through a restart.
RestartOn ==
    /\ ~fair
    /\ UNCHANGED on /\ wd_tripped' = FALSE /\ told' = FALSE
    /\ frame_age' = 0 /\ timer' = PERIOD_MS /\ last_seq' = 0
    /\ streak' = 0
    /\ UNCHANGED <<hostVars, linkVars>>

Restart ==
    /\ ~fair
    /\ on' = FALSE /\ wd_tripped' = FALSE /\ told' = FALSE
    /\ frame_age' = 0 /\ timer' = PERIOD_MS /\ last_seq' = 0
    /\ streak' = 0
    /\ UNCHANGED <<hostVars, linkVars>>

-----------------------------------------------------------------------------
(* The servo thread, time and the user. *)

Runs == loaded /\ job # "exit" /\ (due \/ ~fair)

\* unoq.update, and the servo period it is due in.
Update ==
    /\ Runs
    /\ UpdateLate \/ UpdatePost
    /\ due' = FALSE
    /\ UNCHANGED <<mcuVars, last_seq, fair, hang, off_for, streak>>

InTransfer == job \in {"posted", "exit"}

\* A millisecond passes.
Millisecond ==
    /\ Elapse
    /\ fair => ~InTransfer /\ (loaded => ~due)
    /\ InTransfer => hang < MAX_HANG
    /\ hang' = IF InTransfer THEN hang + 1 ELSE 0
    /\ due' = loaded
    /\ off_for' = IF req /\ loaded /\ job # "exit" THEN 0
                  ELSE Capped(off_for + 1, StopTime + 1)
    /\ UNCHANGED <<hostVars, last_seq, fair, streak>>

WeatherClears ==
    /\ ~fair /\ fair' = TRUE
    /\ UNCHANGED <<hostVars, mcuVars, last_seq, due, hang, off_for, streak>>

Toggle ==
    /\ Request
    /\ off_for' = 0
    /\ UNCHANGED <<mcuVars, last_seq, fair, due, hang, streak>>

Unload ==
    /\ Exit
    /\ UNCHANGED <<mcuVars, last_seq, fair, due, hang, off_for, streak>>

Reload ==
    /\ Load
    /\ due' = TRUE
    /\ off_for' = IF req THEN 0 ELSE off_for
    /\ UNCHANGED <<mcuVars, last_seq, fair, hang, streak>>

Next ==
    \/ Watchdog \/ Restart \/ Millisecond
    \/ Update \/ FairTransfer \/ FoulTransfer
    \/ WeatherClears \/ Toggle \/ Unload \/ Reload

\* Time passes, the MCU's timer is served, the worker and the servo thread run
\* once the weather lets them; nothing is assumed of the weather or the user.
Fairness ==
    /\ WF_vars(Millisecond) /\ WF_vars(Watchdog)
    /\ WF_vars(FairTransfer) /\ WF_vars(due /\ Update)

Spec == Init /\ [][Next]_vars /\ Fairness

-----------------------------------------------------------------------------

\* The values the variables take.
TypeOK ==
    /\ HostTypeOK
    /\ McuTypeOK /\ last_seq \in Seqs
    /\ fair \in BOOLEAN /\ due \in BOOLEAN /\ hang \in 0 .. MAX_HANG
    /\ off_for \in 0 .. StopTime + 1 /\ streak \in 0 .. 2

\* The drivers are off at most StopTime after the machine is turned off or the
\* component unloaded, and stay off, whatever the link does to the frames.
MachineOffStops == on => off_for <= StopTime

\* When two ENABLE frames and their replies have come through since anything
\* was lost, the MCU tripped or it restarted, and the second reply has been
\* read, unoq.watchdog says exactly why the drivers are off: the drivers are
\* off if and only if it is set.
LatchIsShown == streak = 2 /\ job = "posted" => (on <=> ~watchdog)

\* In fair weather with the machine on, the drivers come on, or unoq.watchdog
\* tells the user that the MCU's latch keeps them off.
StuckIsShown ==
    <>[](fair /\ loaded /\ job # "exit" /\ req)
        => <>[]on \/ <>[](~on /\ watchdog)
=============================================================================
