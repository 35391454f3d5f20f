------------------------------- MODULE UnoqSpi -------------------------------
(***************************************************************************)
(* The host's side of the link, hal/unoq_spi.c: what unoq.update decides   *)
(* each servo period from the reply of the last transfer, and the mailbox  *)
(* it shares with the SPI worker.  The position loop (velocities, step     *)
(* counts) is left out, with the pins that only copy a status' fields: a    *)
(* frame is its sequence number and its ENABLE flag.                        *)
(*                                                                         *)
(* Module Link puts the wire, the MCU and time around these actions.       *)
(***************************************************************************)
EXTENDS Integers

CONSTANTS
    SEQS,        \* sequence numbers: 256 in the source (uint8_t)
    MAX_FB_AGE,  \* 16: a status older than this many commands is not fresh
    MAX_LATE     \* 16: periods an unfinished transfer may stay pending

\* The counters saturate below the wrap of the sequence numbers.
ASSUME HostAssumption ==
    /\ SEQS \in Nat /\ MAX_FB_AGE \in Nat \ {0} /\ MAX_LATE \in Nat \ {0}
    /\ MAX_FB_AGE < SEQS

VARIABLES
    loaded,      \* the component is loaded
    req,         \* pin unoq.enable: LinuxCNC's machine-on
    seq,         \* sequence number posted last
    counts_seq,  \* seq_echo of the last good reply
    have_fb,     \* some good reply was collected
    stalled,     \* periods without a new counts_seq, saturating
    late_run,    \* consecutive periods the worker was still busy, saturating
    connected, watchdog,  \* output pins
    job,         \* mailbox: "none" posted yet, "posted", "done", "exit"
    tx_enable,   \* the ENABLE flag of the frame in the mailbox
    reply        \* what came back for it

pins == <<connected, watchdog>>
feedback == <<counts_seq, have_fb, stalled>>
mailbox == <<job, tx_enable, reply>>
hostVars == <<loaded, req, seq, counts_seq, have_fb, stalled, late_run,
              connected, watchdog, job, tx_enable, reply>>

Seqs == 0 .. SEQS - 1
Statuses == [seq_echo : Seqs, watchdog : BOOLEAN]

\* A reply is a status frame with good magic, CRC and version, or it is not.
NoReply == [ok |-> FALSE, stat |-> [seq_echo |-> 0, watchdog |-> FALSE]]
Replies == {NoReply} \cup [ok : {TRUE}, stat : Statuses]

\* rtapi_app_main: the statics are zero, the pins too.
Loaded ==
    /\ loaded = TRUE
    /\ seq = 0 /\ counts_seq = 0 /\ have_fb = FALSE
    /\ stalled = 0 /\ late_run = 0
    /\ connected = FALSE /\ watchdog = FALSE
    /\ job = "none" /\ tx_enable = FALSE /\ reply = NoReply

-----------------------------------------------------------------------------
(* unoq.update. *)

Busy == job = "posted"

\* collect_reply's 0: the reply to the last frame is a good status.
Got == job = "done" /\ reply.ok

Echo == IF Got THEN reply.stat.seq_echo ELSE counts_seq
NewEcho == Got /\ Echo # counts_seq

\* Periods without a new echo.  Mutation: they are never counted back.
StalledOnce ==
    IF stalled < MAX_FB_AGE THEN stalled + 1 ELSE stalled
Stalled ==
    IF NewEcho THEN 0
    ELSE IF stalled < MAX_FB_AGE THEN stalled + 1 ELSE stalled

\* (uint8_t)(st.seq - st.counts_seq)
Age == (seq - Echo) % SEQS

\* Mutation: the 8-bit age alone decides.
FreshByAge == (have_fb \/ Got) /\ Age < MAX_FB_AGE
Fresh == (have_fb \/ Got) /\ Age < MAX_FB_AGE /\ Stalled < MAX_FB_AGE

\* int drivers_on = *h->enable && fresh.  Mutation: freshness is not asked for.
DriversOnAsked == req
DriversOn == req /\ Fresh

\* st.seq + 1 in a uint8_t.
NextSeq == (seq + 1) % SEQS

\* The previous transfer is still running: nothing is sent this period.
\* Mutation: a transfer that never finishes leaves `connected` alone.
UpdateLateConnected ==
    /\ Busy
    /\ late_run' = IF late_run < MAX_LATE THEN late_run + 1 ELSE late_run
    /\ UNCHANGED <<pins, loaded, req, seq, feedback, mailbox>>

UpdateLate ==
    /\ Busy
    /\ late_run' = IF late_run < MAX_LATE THEN late_run + 1 ELSE late_run
    /\ connected' = (connected /\ late_run < MAX_LATE)
    /\ UNCHANGED <<watchdog, loaded, req, seq, feedback, mailbox>>

\* The reply is collected and the next frame handed to the worker.
UpdatePost ==
    /\ ~Busy
    /\ late_run' = 0
    /\ counts_seq' = Echo /\ have_fb' = (have_fb \/ Got) /\ stalled' = Stalled
    /\ watchdog' = IF Got THEN reply.stat.watchdog ELSE watchdog
    /\ connected' = (Fresh /\ Got)
    /\ seq' = NextSeq
    /\ job' = "posted" /\ tx_enable' = DriversOn /\ reply' = NoReply
    /\ UNCHANGED <<loaded, req>>

-----------------------------------------------------------------------------
(* The worker, and loading and unloading the component. *)

\* The ioctl returned with reply r; the last frame of rtapi_app_exit is followed
\* by the component's end.
Finish(r) ==
    /\ job \in {"posted", "exit"}
    /\ loaded' = (job = "posted")
    /\ job' = IF job = "posted" THEN "done" ELSE "none"
    /\ reply' = IF job = "posted" THEN r ELSE NoReply
    /\ UNCHANGED <<pins, req, seq, feedback, late_run, tx_enable>>

\* rtapi_app_exit: the worker is stopped (a frame it had not started is dropped)
\* and one frame without ENABLE is sent.
Exit ==
    /\ loaded /\ job # "exit"
    /\ job' = "exit" /\ tx_enable' = FALSE /\ reply' = NoReply
    /\ seq' = NextSeq
    /\ UNCHANGED <<pins, loaded, req, feedback, late_run>>

Load ==
    /\ ~loaded
    /\ loaded' = TRUE
    /\ seq' = 0 /\ counts_seq' = 0 /\ have_fb' = FALSE
    /\ stalled' = 0 /\ late_run' = 0
    /\ connected' = FALSE /\ watchdog' = FALSE
    /\ job' = "none" /\ tx_enable' = FALSE /\ reply' = NoReply
    /\ UNCHANGED req

\* LinuxCNC turns the machine on or off.
Request ==
    /\ req' = ~req
    /\ UNCHANGED <<pins, loaded, seq, feedback, late_run, mailbox>>

HostTypeOK ==
    /\ loaded \in BOOLEAN /\ req \in BOOLEAN
    /\ seq \in Seqs /\ counts_seq \in Seqs /\ have_fb \in BOOLEAN
    /\ stalled \in 0 .. MAX_FB_AGE /\ late_run \in 0 .. MAX_LATE
    /\ connected \in BOOLEAN /\ watchdog \in BOOLEAN
    /\ job \in {"none", "posted", "done", "exit"}
    /\ tx_enable \in BOOLEAN /\ reply \in Replies
=============================================================================
