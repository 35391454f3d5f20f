------------------------------ MODULE Freshness ------------------------------
(***************************************************************************)
(* What unoq.connected is worth: the host of UnoqSpi with a wire that      *)
(* loses either direction, fails or hangs, and an MCU that may restart and  *)
(* of which only the sequence number it echoes matters.  A step is a servo  *)
(* period or the end of a transfer; milliseconds and the drivers' power are *)
(* in module Link.                                                         *)
(***************************************************************************)
EXTENDS UnoqSpi

\* Half of the sequence numbers and more are too old to be fresh; the command
\* before the last, which a reply echoes at best, is not.
ASSUME FreshnessAssumption == 2 * MAX_FB_AGE < SEQS /\ MAX_FB_AGE >= 2

VARIABLES
    last_seq,  \* the MCU's: sequence number of the last good command
    fair,      \* from now on every transfer succeeds within its period
    unheard,   \* history: frames posted since the MCU last accepted one
    misread,   \* history: the newest echo reached the host when the MCU had
               \* accepted nothing of this load, or since its restart, or
               \* nothing for about SEQS frames: an 8-bit age cannot tell how
               \* old it is
    missed,    \* history: periods the current transfer has made late
    newborn,   \* history: the MCU accepted nothing since it started, so that
               \* it echoes the 0 it started with
    hollow,    \* history: that is the echo in the mailbox, and the frame
               \* sent for it was not accepted either
    streak     \* history: transfers in a row that lost nothing, up to STREAK

historyVars == <<unheard, misread, missed, newborn, hollow, streak>>
vars == <<hostVars, last_seq, fair, historyVars>>

UnheardCap == SEQS - MAX_FB_AGE   \* counts are not told apart beyond these
MissedCap == MAX_LATE + 1
STREAK == 3
Capped(n, cap) == IF n > cap THEN cap ELSE n

Init ==
    /\ Loaded /\ req = FALSE
    /\ last_seq = 0 /\ fair = FALSE
    /\ unheard = UnheardCap /\ misread = TRUE /\ missed = 0
    /\ newborn = TRUE /\ hollow = FALSE /\ streak = 0

Late ==
    /\ loaded /\ ~fair /\ UpdateLate
    /\ missed' = Capped(missed + 1, MissedCap)
    /\ UNCHANGED <<last_seq, fair, unheard, misread, newborn, hollow, streak>>

Post ==
    /\ loaded /\ job # "exit" /\ UpdatePost
    /\ unheard' = Capped(unheard + 1, UnheardCap)
    /\ misread' = IF NewEcho THEN unheard = UnheardCap \/ hollow ELSE misread
    /\ UNCHANGED <<last_seq, fair, missed, newborn, hollow, streak>>

\* A frame is exchanged: the reply is the status prepared before it.  The MCU
\* accepts the frame or finds it damaged.
Exchange(toMcu, toHost) ==
    /\ Finish(IF toHost
              THEN [ok |-> TRUE,
                    stat |-> [seq_echo |-> last_seq, watchdog |-> FALSE]]
              ELSE NoReply)
    /\ last_seq' = IF toMcu THEN seq ELSE last_seq
    /\ unheard' = IF toMcu THEN 0 ELSE unheard
    /\ newborn' = (newborn /\ ~toMcu) /\ hollow' = newborn'
    /\ streak' = IF job = "posted" /\ toMcu /\ toHost
                 THEN Capped(streak + 1, STREAK) ELSE 0
    /\ missed' = 0
    /\ UNCHANGED <<fair, misread>>

FairExchange == Exchange(TRUE, TRUE)
FoulExchange == ~fair /\ \E toMcu, toHost \in BOOLEAN : Exchange(toMcu, toHost)

\* main() of the MCU: last_seq is 0 again.
Restart ==
    /\ ~fair
    /\ last_seq' = 0 /\ newborn' = TRUE /\ streak' = 0
    /\ UNCHANGED <<hostVars, fair, unheard, misread, missed, hollow>>

WeatherClears ==
    /\ ~fair /\ fair' = TRUE
    /\ UNCHANGED <<hostVars, last_seq, historyVars>>

Toggle == Request /\ UNCHANGED <<last_seq, fair, historyVars>>

Unload ==
    /\ Exit
    /\ missed' = 0 /\ streak' = 0
    /\ UNCHANGED <<last_seq, fair, unheard, misread, newborn, hollow>>

Reload ==
    /\ Load
    /\ unheard' = UnheardCap /\ misread' = TRUE /\ missed' = 0
    /\ UNCHANGED <<last_seq, fair, newborn, hollow, streak>>

Next ==
    \/ Late \/ Post \/ FairExchange \/ FoulExchange \/ Restart
    \/ WeatherClears \/ Toggle \/ Unload \/ Reload

\* The servo thread runs every period and the worker waits for every transfer.
Spec == Init /\ [][Next]_vars /\ WF_vars(Late \/ Post) /\ WF_vars(FairExchange)

-----------------------------------------------------------------------------

\* The values the variables take.
TypeOK ==
    /\ HostTypeOK
    /\ last_seq \in Seqs /\ fair \in BOOLEAN
    /\ unheard \in 0 .. UnheardCap /\ misread \in BOOLEAN
    /\ missed \in 0 .. MissedCap
    /\ newborn \in BOOLEAN /\ hollow \in BOOLEAN /\ streak \in 0 .. STREAK

\* unoq.connected is neither left set nor set again while the MCU takes no
\* command: it accepted one of the last MAX_FB_AGE frames, and the transfer in
\* progress is at most MAX_LATE periods late, whatever was lost, failed or hung,
\* whenever the MCU restarted and wherever the 8-bit sequence number wrapped.
\* (Only the first echo after loading, of an MCU that restarted, or after an outage
\* of about SEQS frames in both directions, can be taken for a recent one, and then
\* for MAX_FB_AGE transfers.)
ConnectedIsRecent ==
    connected /\ ~misread => unheard <= MAX_FB_AGE /\ missed <= MAX_LATE

\* A frame asks for the drivers only on an MCU that was heard recently, so that
\* a host that hears nothing stops asking before the MCU is back.
EnableNeedsFreshness ==
    job = "posted" /\ tx_enable /\ ~misread => unheard <= MAX_FB_AGE

\* And the converse: after STREAK transfers in a row that lost nothing the next
\* update sets unoq.connected, whatever was stale, wrapped or restarted before, and
\* it stays set unless the next transfer is too late.
ConnectedComesBack ==
    job = "posted" /\ streak = STREAK => connected \/ missed > MAX_LATE

\* Once the weather is fair and the component stays loaded, `connected` comes
\* back and stays, whatever state the outage left both sides in.
LinkComesBack == <>[](fair /\ loaded /\ job # "exit") => <>[]connected
=============================================================================
