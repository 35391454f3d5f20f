-------------------------- MODULE FreshnessProofs ---------------------------
(***************************************************************************)
(* What unoq.connected is worth, for every width of the sequence number    *)
(* and every pair of limits.                                               *)
(*                                                                         *)
(* The age of the newest echo, seq - counts_seq, is only known up to SEQS. *)
(* Two facts make up for it.  Right after a new echo either the MCU has    *)
(* just accepted a frame, or the echo is as old as the MCU's silence,      *)
(* which was too short to wrap.  From then on both grow by at most one a   *)
(* frame, and before the age can wrap `stalled` has run out.               *)
(***************************************************************************)
EXTENDS Freshness, TLAPS

\* update runs and its counters mean what their names say.
Runs == loaded /\ job # "exit"

SeqAge(s) == (seq - s) % SEQS

\* The MCU accepted a frame since the newest echo arrived, or just before.
HeardSince == unheard <= stalled + 1

\* The newest echo is not younger than the MCU's silence, and it is too early
\* for its age to have wrapped.
EchoIsOld ==
    /\ unheard <= SeqAge(counts_seq)
    /\ SeqAge(counts_seq) <= UnheardCap + stalled

\* What the MCU echoes next is as old as its silence.
McuInv ==
    /\ Runs /\ unheard < UnheardCap /\ ~newborn => SeqAge(last_seq) = unheard
    /\ Runs /\ job = "done" /\ reply.ok /\ unheard < UnheardCap /\ ~hollow
           => unheard = 0 \/ SeqAge(reply.stat.seq_echo) = unheard

EchoInv == Runs /\ ~misread /\ stalled < MAX_FB_AGE => HeardSince \/ EchoIsOld

LateInv ==
    /\ job = "posted" => loaded /\ (missed <= late_run \/ late_run = MAX_LATE)
    /\ job # "posted" => missed = 0
    /\ connected => missed <= MAX_LATE

\* The two properties, and what the host decided when it posted the frame.
PinInv ==
    /\ connected /\ ~misread => unheard <= MAX_FB_AGE
    /\ job = "posted" /\ tx_enable /\ ~misread => unheard <= MAX_FB_AGE

\* What transfers in a row that lost nothing leave on both sides: a reply echoes
\* the command before the last, and the host has seen it change.
StreakInv ==
    /\ streak > 0 => Runs /\ job \in {"posted", "done"}
    /\ streak > 0 /\ job = "posted" => SeqAge(last_seq) = 1
    /\ streak > 0 /\ job = "done" => last_seq = seq /\ reply.ok
    /\ streak > 1 /\ job = "done" => SeqAge(reply.stat.seq_echo) = 1
    /\ (streak > 1 /\ job = "posted") \/ streak > 2 => SeqAge(counts_seq) = 2
    /\ streak > 2 /\ job = "posted" => connected \/ missed > MAX_LATE
    /\ job = "posted" => late_run <= missed

IInv == TypeOK /\ McuInv /\ EchoInv /\ LateInv /\ PinInv /\ StreakInv
-----------------------------------------------------------------------------

LEMMA Sizes ==
    /\ SEQS \in Nat /\ SEQS > 0 /\ 0 \in Seqs
    /\ MAX_FB_AGE \in Nat /\ MAX_FB_AGE > 1 /\ SEQS > 4 /\ MAX_LATE \in Nat /\ MAX_LATE > 0
    /\ UnheardCap \in Nat /\ UnheardCap = SEQS - MAX_FB_AGE
    /\ MAX_FB_AGE < UnheardCap
    /\ MissedCap \in Nat /\ MissedCap = MAX_LATE + 1
BY HostAssumption, FreshnessAssumption DEF Seqs, UnheardCap, MissedCap

LEMMA Mod ==
    ASSUME NEW x \in Int, -SEQS <= x, x <= SEQS
    PROVE  x % SEQS = IF x < 0 THEN x + SEQS ELSE IF x < SEQS THEN x ELSE 0
<1>1. CASE x < 0
  BY <1>1, Sizes
<1>2. CASE 0 <= x /\ x < SEQS
  BY <1>2, Sizes
<1>3. CASE x = SEQS
  BY <1>3, Sizes
<1>4. QED
  BY <1>1, <1>2, <1>3, Sizes

\* The age of a sequence number, now and after the next frame.
LEMMA Ages ==
    ASSUME NEW q \in Seqs, NEW s \in Seqs
    PROVE  /\ (q - s) % SEQS \in 0 .. SEQS - 1
           /\ q = s => (q - s) % SEQS = 0
           /\ (((q + 1) % SEQS) - s) % SEQS =
                  IF (q - s) % SEQS = SEQS - 1 THEN 0 ELSE ((q - s) % SEQS) + 1
<1>1. q \in Int /\ s \in Int /\ 0 <= q /\ q < SEQS /\ 0 <= s /\ s < SEQS
  BY Sizes DEF Seqs
<1>2. (q - s) % SEQS = IF q < s THEN q - s + SEQS ELSE q - s
  BY <1>1, Mod, Sizes
<1>3. (q + 1) % SEQS = IF q + 1 < SEQS THEN q + 1 ELSE 0
  BY <1>1, Mod, Sizes
<1>4. CASE q + 1 < SEQS
  <2>1. ((q + 1) - s) % SEQS = IF q + 1 < s THEN q + 1 - s + SEQS ELSE q + 1 - s
    BY <1>1, <1>4, Mod, Sizes
  <2>2. QED
    BY <1>1, <1>2, <1>3, <1>4, <2>1, Sizes
<1>5. CASE q + 1 = SEQS
  <2>1. (0 - s) % SEQS = IF s = 0 THEN 0 ELSE SEQS - s
    BY <1>1, Mod, Sizes
  <2>2. QED
    BY <1>1, <1>2, <1>3, <1>5, <2>1, Sizes
<1>6. QED
  BY <1>1, <1>4, <1>5, Sizes

\* Seqs as the lemmas below use it.
LEMMA HostTypes ==
    ASSUME HostTypeOK
    PROVE  /\ seq \in Seqs /\ counts_seq \in Seqs /\ NextSeq \in Seqs
           /\ Echo \in Seqs /\ (Got => reply.stat.watchdog \in BOOLEAN)
<1>1. Got => reply.stat.seq_echo \in Seqs /\ reply.stat.watchdog \in BOOLEAN
  <2>1. CASE reply = NoReply
    BY <2>1 DEF Got, NoReply
  <2>2. CASE reply \in [ok : {TRUE}, stat : Statuses]
    BY <2>2 DEF Statuses
  <2>3. QED
    BY <2>1, <2>2 DEF HostTypeOK, Replies
<1>2. NextSeq \in Seqs
  BY Sizes DEF HostTypeOK, Seqs, NextSeq
<1>3. QED
  BY <1>1, <1>2 DEF HostTypeOK, Echo

LEMMA CappedCounts ==
    /\ \A n \in 0 .. UnheardCap :
           /\ Capped(n + 1, UnheardCap) \in 0 .. UnheardCap
           /\ Capped(n + 1, UnheardCap) <= n + 1
           /\ Capped(n + 1, UnheardCap) < UnheardCap
                  => Capped(n + 1, UnheardCap) = n + 1 /\ n < UnheardCap
    /\ \A n \in 0 .. MissedCap :
           /\ Capped(n + 1, MissedCap) \in 0 .. MissedCap
           /\ Capped(n + 1, MissedCap) <= n + 1
BY Sizes DEF Capped

LEMMA TypeStep == TypeOK /\ [Next]_vars => TypeOK'
<1> SUFFICES ASSUME TypeOK, [Next]_vars PROVE TypeOK'
  OBVIOUS
<1>0. HostTypeOK /\ NoReply \in Replies
  BY DEF TypeOK, Replies
<1>t. newborn' \in BOOLEAN /\ hollow' \in BOOLEAN /\ streak' \in 0 .. STREAK
  <2>1. /\ newborn' \in {newborn, TRUE} \/ \E b \in BOOLEAN : newborn' = (newborn /\ b)
        /\ hollow' \in {hollow, newborn'}
        /\ streak' \in {streak, 0, Capped(streak + 1, STREAK)}
    BY DEF Next, Late, Post, FairExchange, FoulExchange, Exchange, Restart,
           WeatherClears, Toggle, Unload, Reload, historyVars, vars
  <2>2. newborn' \in BOOLEAN
    BY <2>1 DEF TypeOK
  <2>3. hollow' \in BOOLEAN
    BY <2>1, <2>2 DEF TypeOK
  <2>4. streak' \in 0 .. STREAK
    BY <2>1 DEF TypeOK, Capped, STREAK
  <2>5. QED
    BY <2>2, <2>3, <2>4
<1>1. CASE Late
  <2>1. late_run' \in 0 .. MAX_LATE /\ connected' \in BOOLEAN
    BY <1>0, <1>1, Sizes DEF Late, UpdateLate, HostTypeOK
  <2>2. missed' \in 0 .. MissedCap
    BY <1>1, CappedCounts DEF Late, TypeOK
  <2>3. UNCHANGED <<watchdog, loaded, req, seq, feedback, mailbox, last_seq, fair,
                    unheard, misread>>
    BY <1>1 DEF Late, UpdateLate
  <2>4. QED
    BY <1>t, <2>1, <2>2, <2>3 DEF TypeOK, HostTypeOK, feedback, mailbox
<1>2. CASE Post
  <2>1. /\ counts_seq' \in Seqs /\ have_fb' \in BOOLEAN /\ seq' \in Seqs
        /\ watchdog' \in BOOLEAN /\ connected' \in BOOLEAN /\ tx_enable' \in BOOLEAN
    BY <1>0, <1>2, HostTypes
    DEF Post, UpdatePost, HostTypeOK, Fresh, Got, DriversOn
  <2>2. stalled' \in 0 .. MAX_FB_AGE /\ late_run' \in 0 .. MAX_LATE
    BY <1>0, <1>2, Sizes DEF Post, UpdatePost, HostTypeOK, Stalled
  <2>3. unheard' \in 0 .. UnheardCap /\ misread' \in BOOLEAN
    BY <1>2, CappedCounts DEF Post, TypeOK
  <2>4. /\ job' = "posted" /\ reply' \in Replies
        /\ UNCHANGED <<loaded, req, last_seq, fair, missed>>
    BY <1>0, <1>2 DEF Post, UpdatePost
  <2>5. QED
    BY <1>t, <2>1, <2>2, <2>3, <2>4 DEF TypeOK, HostTypeOK
<1>3. ASSUME NEW toMcu \in BOOLEAN, NEW toHost \in BOOLEAN,
             Exchange(toMcu, toHost)
      PROVE  TypeOK'
  <2>1. [ok |-> TRUE, stat |-> [seq_echo |-> last_seq, watchdog |-> FALSE]]
            \in Replies
    BY DEF TypeOK, Replies, Statuses
  <2>2. loaded' \in BOOLEAN /\ job' \in {"done", "none"} /\ reply' \in Replies
    BY <1>0, <1>3, <2>1 DEF Exchange, Finish
  <2>3. UNCHANGED <<pins, req, seq, feedback, late_run, tx_enable, fair, misread>>
    BY <1>3 DEF Exchange, Finish
  <2>4. /\ last_seq' \in Seqs /\ missed' \in 0 .. MissedCap
        /\ unheard' \in 0 .. UnheardCap
    BY <1>0, <1>3, Sizes, HostTypes DEF Exchange, TypeOK
  <2>5. QED
    BY <1>t, <2>2, <2>3, <2>4 DEF TypeOK, HostTypeOK, pins, feedback
<1>4. CASE WeatherClears \/ Toggle
  <2>1. /\ req' \in BOOLEAN /\ fair' \in BOOLEAN
        /\ UNCHANGED <<pins, loaded, seq, feedback, late_run, mailbox, last_seq,
                       historyVars>>
    BY <1>0, <1>4
    DEF WeatherClears, Toggle, Request, TypeOK, HostTypeOK, hostVars, pins,
        feedback, mailbox
  <2>2. QED
    BY <1>t, <2>1 DEF TypeOK, HostTypeOK, pins, feedback, mailbox, historyVars
<1>5. CASE Unload
  <2>1. /\ job' = "exit" /\ tx_enable' = FALSE /\ reply' \in Replies
        /\ seq' \in Seqs /\ missed' \in 0 .. MissedCap
    BY <1>0, <1>5, Sizes, HostTypes DEF Unload, Exit
  <2>2. UNCHANGED <<pins, loaded, req, feedback, late_run, last_seq, fair, unheard,
                    misread>>
    BY <1>5 DEF Unload, Exit
  <2>3. QED
    BY <1>t, <2>1, <2>2 DEF TypeOK, HostTypeOK, pins, feedback
<1>6. CASE Reload
  <2>1. /\ seq' \in Seqs /\ counts_seq' \in Seqs /\ stalled' \in 0 .. MAX_FB_AGE
        /\ late_run' \in 0 .. MAX_LATE /\ unheard' \in 0 .. UnheardCap
        /\ missed' \in 0 .. MissedCap
    BY <1>6, Sizes DEF Reload, Load
  <2>2. /\ loaded' = TRUE /\ have_fb' = FALSE /\ connected' = FALSE
        /\ watchdog' = FALSE /\ job' = "none" /\ tx_enable' = FALSE
        /\ reply' \in Replies /\ misread' = TRUE /\ UNCHANGED <<req, last_seq, fair>>
    BY <1>0, <1>6 DEF Reload, Load
  <2>3. QED
    BY <1>t, <2>1, <2>2 DEF TypeOK, HostTypeOK
<1>7. CASE UNCHANGED vars
  BY <1>7, <1>t DEF vars, TypeOK, HostTypeOK, hostVars, historyVars
<1>8. CASE Restart
  <2>1. last_seq' \in Seqs /\ UNCHANGED <<hostVars, fair, unheard, misread, missed>>
    BY <1>8, Sizes DEF Restart
  <2>2. QED
    BY <1>t, <2>1 DEF TypeOK, HostTypeOK, hostVars
<1>9. QED
  BY <1>1, <1>2, <1>3, <1>4, <1>5, <1>6, <1>7, <1>8
  DEF Next, FairExchange, FoulExchange

-----------------------------------------------------------------------------

\* What update finds when a status is not yet too long ago.
LEMMA PostedEcho ==
    ASSUME IInv, Post, ~misread', Stalled < MAX_FB_AGE
    PROVE  \/ unheard' <= Stalled + 1
           \/ /\ unheard' <= SeqAge(Echo) + 1
              /\ SeqAge(Echo) + 1 <= UnheardCap + Stalled
              /\ SeqAge(Echo) + 1 < SEQS
<1>1. /\ unheard \in 0 .. UnheardCap /\ unheard' <= unheard + 1
      /\ unheard' \in Int
  BY CappedCounts, Sizes DEF Post, IInv, TypeOK
<1>2. /\ Runs /\ stalled \in 0 .. MAX_FB_AGE
      /\ misread' = (IF NewEcho THEN unheard = UnheardCap \/ hollow ELSE misread)
  BY DEF Post, Runs, IInv, TypeOK, HostTypeOK
<1>3. CASE NewEcho
  <2>1. Stalled = 0 /\ unheard # UnheardCap /\ ~hollow
    BY <1>2, <1>3 DEF Stalled
  <2>2. unheard = 0 \/ SeqAge(Echo) = unheard
    BY <1>1, <1>2, <1>3, <2>1, Sizes DEF NewEcho, Got, Echo, IInv, McuInv
  <2>3. QED
    BY <1>1, <2>1, <2>2, Sizes
<1>4. CASE ~NewEcho
  <2>1. Echo = counts_seq /\ ~misread
    BY <1>2, <1>4 DEF NewEcho, Echo
  <2>2. stalled < MAX_FB_AGE /\ Stalled = stalled + 1
    BY <1>2, <1>4, Sizes DEF Stalled
  <2>3. SeqAge(counts_seq) \in 0 .. SEQS - 1
    BY Ages DEF SeqAge, IInv, TypeOK, HostTypeOK
  <2>4. HeardSince \/ EchoIsOld
    BY <1>2, <2>1, <2>2 DEF IInv, EchoInv
  <2>5. QED
    BY <1>1, <1>2, <2>1, <2>2, <2>3, <2>4, Sizes DEF HeardSince, EchoIsOld
<1>5. QED
  BY <1>3, <1>4

LEMMA McuStep == IInv /\ [Next]_vars => McuInv'
<1> SUFFICES ASSUME IInv, [Next]_vars PROVE McuInv'
  OBVIOUS
<1>0. TypeOK /\ McuInv /\ seq \in Seqs /\ last_seq \in Seqs
  BY DEF IInv, TypeOK, HostTypeOK
<1>1. CASE Late
  BY <1>0, <1>1 DEF Late, UpdateLate, McuInv, Runs, SeqAge, mailbox, Busy
<1>2. CASE Post
  <2>1. job' = "posted" /\ seq' = NextSeq /\ UNCHANGED <<loaded, last_seq, newborn>> /\ Runs
    BY <1>2 DEF Post, UpdatePost, Runs
  <2>2. unheard' < UnheardCap => unheard' = unheard + 1 /\ unheard < UnheardCap
    BY <1>0, <1>2, CappedCounts DEF Post, TypeOK
  <2>3. SeqAge(last_seq)' = IF SeqAge(last_seq) = SEQS - 1 THEN 0
                            ELSE SeqAge(last_seq) + 1
    BY <1>0, <2>1, Ages DEF SeqAge, NextSeq
  <2>4. unheard' < UnheardCap /\ ~newborn => SeqAge(last_seq)' = unheard'
    BY <1>0, <2>1, <2>2, <2>3, Sizes DEF McuInv, TypeOK
  <2>5. QED
    BY <2>1, <2>4 DEF McuInv
<1>3. ASSUME NEW toMcu \in BOOLEAN, NEW toHost \in BOOLEAN,
             Exchange(toMcu, toHost)
      PROVE  McuInv'
  <2>1. CASE job = "exit"
    BY <1>3, <2>1 DEF Exchange, Finish, McuInv, Runs
  <2>2. CASE job = "posted"
    <3>1. job' = "done" /\ loaded' = TRUE /\ seq' = seq
      BY <1>3, <2>2 DEF Exchange, Finish
    <3>2. CASE toMcu
      <4>1. unheard' = 0 /\ last_seq' = seq
        BY <1>3, <3>2 DEF Exchange
      <4>2. QED
        BY <1>0, <3>1, <4>1, Ages DEF McuInv, SeqAge
    <3>3. CASE ~toMcu
      <4>1. /\ unheard' = unheard /\ last_seq' = last_seq
            /\ newborn' = newborn /\ hollow' = newborn
        BY <1>0, <1>3, <3>3 DEF Exchange, TypeOK
      <4>2. reply'.ok => reply'.stat.seq_echo = last_seq
        BY <1>3, <2>2 DEF Exchange, Finish, NoReply
      <4>3. /\ SeqAge(last_seq)' = SeqAge(last_seq)
            /\ reply'.ok => SeqAge(reply.stat.seq_echo)' = SeqAge(last_seq)
        BY <3>1, <4>1, <4>2 DEF SeqAge
      <4>4. loaded
        BY <2>2 DEF IInv, LateInv
      <4>5. QED
        BY <1>0, <2>2, <3>1, <4>1, <4>2, <4>3, <4>4 DEF McuInv, Runs
    <3>4. QED
      BY <3>2, <3>3
  <2>3. QED
    BY <1>3, <2>1, <2>2 DEF Exchange, Finish
<1>4. CASE WeatherClears \/ Toggle
  BY <1>0, <1>4
  DEF WeatherClears, Toggle, Request, McuInv, Runs, SeqAge, hostVars, mailbox,
      historyVars
<1>5. CASE Unload
  BY <1>5 DEF Unload, Exit, McuInv, Runs
<1>6. CASE Reload
  BY <1>6, Sizes DEF Reload, Load, McuInv
<1>7. CASE UNCHANGED vars
  BY <1>0, <1>7 DEF vars, historyVars, McuInv, Runs, SeqAge, hostVars
<1>8. CASE Restart
  BY <1>0, <1>8 DEF Restart, McuInv, Runs, SeqAge, hostVars
<1>9. QED
  BY <1>1, <1>2, <1>3, <1>4, <1>5, <1>6, <1>7, <1>8
  DEF Next, FairExchange, FoulExchange

LEMMA EchoStep == IInv /\ [Next]_vars => EchoInv'
<1> SUFFICES ASSUME IInv, [Next]_vars PROVE EchoInv'
  OBVIOUS
<1>0. /\ TypeOK /\ EchoInv /\ seq \in Seqs /\ counts_seq \in Seqs
      /\ stalled \in 0 .. MAX_FB_AGE
  BY DEF IInv, TypeOK, HostTypeOK
<1>1. CASE Late
  BY <1>0, <1>1
  DEF Late, UpdateLate, EchoInv, HeardSince, EchoIsOld, Runs, SeqAge, feedback,
      mailbox
<1>2. CASE Post
  <2>1. seq' = NextSeq /\ counts_seq' = Echo /\ stalled' = Stalled
    BY <1>2 DEF Post, UpdatePost
  <2>2. Echo \in Seqs
    BY <1>0, HostTypes DEF TypeOK
  <2>3. SeqAge(counts_seq)' = IF SeqAge(Echo) = SEQS - 1 THEN 0
                              ELSE SeqAge(Echo) + 1
    BY <1>0, <2>1, <2>2, Ages DEF SeqAge, NextSeq
  <2>4. SUFFICES ASSUME ~misread', Stalled < MAX_FB_AGE
                 PROVE  HeardSince' \/ EchoIsOld'
    BY <2>1 DEF EchoInv
  <2>5. \/ unheard' <= Stalled + 1
        \/ /\ unheard' <= SeqAge(Echo) + 1
           /\ SeqAge(Echo) + 1 <= UnheardCap + Stalled
           /\ SeqAge(Echo) + 1 < SEQS
    BY <1>2, <2>4, PostedEcho
  <2>6. SeqAge(Echo) \in 0 .. SEQS - 1
    BY <1>0, <2>2, Ages DEF SeqAge
  <2>7. UnheardCap' = UnheardCap
    BY DEF UnheardCap
  <2>8. QED
    BY <2>1, <2>3, <2>5, <2>6, <2>7, Sizes DEF HeardSince, EchoIsOld
<1>3. ASSUME NEW toMcu \in BOOLEAN, NEW toHost \in BOOLEAN,
             Exchange(toMcu, toHost)
      PROVE  EchoInv'
  <2>1. UNCHANGED <<seq, counts_seq, stalled, misread>>
    BY <1>3 DEF Exchange, Finish, feedback
  <2>2. (unheard' = unheard \/ unheard' = 0) /\ (Runs' => Runs)
    <3>1. unheard' = unheard \/ unheard' = 0
      BY <1>3 DEF Exchange
    <3>2. CASE job = "posted"
      BY <3>1, <3>2 DEF IInv, LateInv, Runs
    <3>3. CASE job = "exit"
      BY <1>3, <3>1, <3>3 DEF Exchange, Finish, Runs
    <3>4. QED
      BY <1>3, <3>1, <3>2, <3>3 DEF Exchange, Finish
  <2>3. SeqAge(counts_seq)' = SeqAge(counts_seq) /\ UnheardCap' = UnheardCap
    BY <2>1 DEF SeqAge, UnheardCap
  <2>4. QED
    BY <1>0, <2>1, <2>2, <2>3, Sizes DEF EchoInv, HeardSince, EchoIsOld
<1>4. CASE WeatherClears \/ Toggle
  BY <1>0, <1>4
  DEF WeatherClears, Toggle, Request, EchoInv, HeardSince, EchoIsOld, Runs,
      SeqAge, hostVars, feedback, mailbox, historyVars
<1>5. CASE Unload
  BY <1>5 DEF Unload, Exit, EchoInv, Runs
<1>6. CASE Reload
  BY <1>6 DEF Reload, EchoInv
<1>7. CASE UNCHANGED vars
  BY <1>0, <1>7
  DEF vars, historyVars, EchoInv, HeardSince, EchoIsOld, Runs, SeqAge, hostVars
<1>8. CASE Restart
  BY <1>0, <1>8 DEF Restart, EchoInv, HeardSince, EchoIsOld, Runs, SeqAge, hostVars
<1>9. QED
  BY <1>1, <1>2, <1>3, <1>4, <1>5, <1>6, <1>7, <1>8
  DEF Next, FairExchange, FoulExchange


LEMMA LateStep == IInv /\ [Next]_vars => LateInv'
<1> SUFFICES ASSUME IInv, [Next]_vars PROVE LateInv'
  OBVIOUS
<1>0. /\ LateInv /\ missed \in 0 .. MissedCap /\ late_run \in 0 .. MAX_LATE
      /\ connected \in BOOLEAN
  BY DEF IInv, TypeOK, HostTypeOK
<1>1. CASE Late
  <2>1. /\ job = "posted" /\ job' = job /\ loaded' = loaded
        /\ late_run' = (IF late_run < MAX_LATE THEN late_run + 1 ELSE late_run)
        /\ connected' => late_run < MAX_LATE
    BY <1>1 DEF Late, UpdateLate, Busy, mailbox
  <2>2. missed' \in Int /\ missed' <= missed + 1
    BY <1>0, <1>1, CappedCounts, Sizes DEF Late
  <2>3. loaded /\ (missed <= late_run \/ late_run = MAX_LATE)
    BY <1>0, <2>1 DEF LateInv
  <2>4. missed' <= late_run' \/ late_run' = MAX_LATE
    BY <1>0, <2>1, <2>2, <2>3, Sizes
  <2>5. connected' => missed' <= MAX_LATE
    BY <1>0, <2>1, <2>2, <2>3, Sizes
  <2>6. QED
    BY <2>1, <2>3, <2>4, <2>5 DEF LateInv
<1>2. CASE Post
  <2>1. missed = 0
    BY <1>0, <1>2 DEF Post, UpdatePost, Busy, LateInv
  <2>2. job' = "posted" /\ late_run' = 0 /\ missed' = missed /\ loaded'
    BY <1>2 DEF Post, UpdatePost
  <2>3. QED
    BY <2>1, <2>2, Sizes DEF LateInv
<1>3. ASSUME NEW toMcu \in BOOLEAN, NEW toHost \in BOOLEAN,
             Exchange(toMcu, toHost)
      PROVE  LateInv'
  <2>1. job' # "posted" /\ missed' = 0
    BY <1>3 DEF Exchange, Finish
  <2>2. QED
    BY <2>1, Sizes DEF LateInv
<1>4. CASE WeatherClears \/ Toggle
  BY <1>0, <1>4
  DEF WeatherClears, Toggle, Request, LateInv, hostVars, pins, mailbox, historyVars
<1>5. CASE Unload
  BY <1>5, Sizes DEF Unload, Exit, LateInv
<1>6. CASE Reload
  BY <1>6, Sizes DEF Reload, Load, LateInv
<1>7. CASE UNCHANGED vars
  BY <1>0, <1>7 DEF vars, historyVars, LateInv, hostVars
<1>8. CASE Restart
  BY <1>0, <1>8 DEF Restart, LateInv, hostVars
<1>9. QED
  BY <1>1, <1>2, <1>3, <1>4, <1>5, <1>6, <1>7, <1>8
  DEF Next, FairExchange, FoulExchange

LEMMA PinStep == IInv /\ [Next]_vars => PinInv'
<1> SUFFICES ASSUME IInv, [Next]_vars PROVE PinInv'
  OBVIOUS
<1>0. PinInv /\ unheard \in 0 .. UnheardCap
  BY DEF IInv, TypeOK
<1>1. CASE Late
  BY <1>0, <1>1 DEF Late, UpdateLate, PinInv, mailbox
<1>2. CASE Post
  <2>1. SUFFICES ASSUME ~misread', Fresh PROVE unheard' <= MAX_FB_AGE
    BY <1>2 DEF Post, UpdatePost, DriversOn, PinInv
  <2>2. SeqAge(Echo) < MAX_FB_AGE /\ Stalled < MAX_FB_AGE
    BY <2>1 DEF Fresh, Age, SeqAge
  <2>3. Stalled \in Int /\ SeqAge(Echo) \in Int
    <3>1. seq \in Seqs /\ Echo \in Seqs /\ stalled \in 0 .. MAX_FB_AGE
      BY HostTypes DEF IInv, TypeOK, HostTypeOK
    <3>2. QED
      BY <3>1, Ages, Sizes DEF Stalled, SeqAge
  <2>4. unheard' \in Int
    BY <1>0, <1>2, CappedCounts, Sizes DEF Post
  <2>5. unheard' <= Stalled + 1 \/ unheard' <= SeqAge(Echo) + 1
    BY <1>2, <2>1, <2>2, PostedEcho
  <2>6. QED
    BY <2>2, <2>3, <2>4, <2>5, Sizes
<1>3. ASSUME NEW toMcu \in BOOLEAN, NEW toHost \in BOOLEAN,
             Exchange(toMcu, toHost)
      PROVE  PinInv'
  <2>1. /\ unheard' = unheard \/ unheard' = 0
        /\ job' # "posted" /\ UNCHANGED <<connected, misread>>
    BY <1>3 DEF Exchange, Finish, pins
  <2>2. QED
    BY <1>0, <2>1, Sizes DEF PinInv
<1>4. CASE WeatherClears \/ Toggle
  BY <1>0, <1>4
  DEF WeatherClears, Toggle, Request, PinInv, hostVars, pins, mailbox, historyVars
<1>5. CASE Unload
  BY <1>0, <1>5 DEF Unload, Exit, PinInv, pins
<1>6. CASE Reload
  BY <1>6 DEF Reload, PinInv
<1>7. CASE UNCHANGED vars
  BY <1>0, <1>7 DEF vars, historyVars, PinInv, hostVars
<1>8. CASE Restart
  BY <1>0, <1>8 DEF Restart, PinInv, hostVars
<1>9. QED
  BY <1>1, <1>2, <1>3, <1>4, <1>5, <1>6, <1>7, <1>8
  DEF Next, FairExchange, FoulExchange

LEMMA StreakStep == IInv /\ [Next]_vars => StreakInv'
<1> SUFFICES ASSUME IInv, [Next]_vars PROVE StreakInv'
  OBVIOUS
<1>0. /\ StreakInv /\ TypeOK /\ seq \in Seqs /\ last_seq \in Seqs /\ counts_seq \in Seqs
      /\ streak \in 0 .. 3 /\ late_run \in 0 .. MAX_LATE /\ missed \in 0 .. MissedCap
      /\ connected \in BOOLEAN
  BY DEF IInv, TypeOK, HostTypeOK, STREAK
<1>1. CASE Late
  <2>1. /\ job = "posted" /\ UNCHANGED <<loaded, seq, counts_seq, job, reply, last_seq,
                                        streak>>
        /\ late_run' = (IF late_run < MAX_LATE THEN late_run + 1 ELSE late_run)
        /\ connected' = (connected /\ late_run < MAX_LATE)
    BY <1>1 DEF Late, UpdateLate, Busy, feedback, mailbox
  <2>2. /\ missed' \in Int /\ missed' >= missed
        /\ missed' = missed + 1 \/ (missed > MAX_LATE /\ missed' > MAX_LATE)
    BY <1>0, <1>1, Sizes DEF Late, Capped
  <2>3. late_run' <= missed'
    BY <1>0, <2>1, <2>2, Sizes DEF StreakInv
  <2>4. connected \/ missed > MAX_LATE => connected' \/ missed' > MAX_LATE
    BY <1>0, <2>1, <2>2, Sizes DEF StreakInv
  <2>5. QED
    BY <1>0, <2>1, <2>3, <2>4 DEF StreakInv, Runs, SeqAge
<1>2. CASE Post
  <2>1. /\ job \in {"none", "done"} /\ job' = "posted" /\ loaded' /\ loaded
        /\ seq' = NextSeq /\ counts_seq' = Echo /\ stalled' = Stalled
        /\ connected' = (Fresh /\ Got) /\ late_run' = 0
        /\ UNCHANGED <<last_seq, missed, streak>>
    BY <1>2 DEF Post, UpdatePost, Busy, IInv, TypeOK, HostTypeOK
  <2>2. \A s \in Seqs : /\ SeqAge(s) \in 0 .. SEQS - 1
                        /\ (seq' - s) % SEQS = IF SeqAge(s) = SEQS - 1 THEN 0
                                               ELSE SeqAge(s) + 1
    BY <1>0, <2>1, Ages DEF SeqAge, NextSeq
  <2>3. Echo \in Seqs
    BY HostTypes DEF IInv, TypeOK
  <2>4. late_run' <= missed'
    BY <1>0, <2>1
  <2>5. ASSUME streak > 0
        PROVE  Got /\ job = "done" /\ SeqAge(last_seq)' = 1
    <3>1. job = "done" /\ last_seq = seq /\ reply.ok
      BY <1>0, <2>1, <2>5 DEF StreakInv
    <3>2. SeqAge(last_seq) = 0
      BY <1>0, <3>1, Ages DEF SeqAge
    <3>3. SeqAge(last_seq)' = (seq' - last_seq) % SEQS
      BY <2>1 DEF SeqAge
    <3>4. QED
      BY <1>0, <2>2, <3>1, <3>2, <3>3, Sizes DEF Got, Seqs
  <2>6. ASSUME streak > 1
        PROVE  SeqAge(Echo) = 1 /\ SeqAge(counts_seq)' = 2
    <3>1. SeqAge(Echo) = 1
      BY <1>0, <2>5, <2>6 DEF StreakInv, Echo
    <3>2. SeqAge(counts_seq)' = (seq' - Echo) % SEQS
      BY <2>1 DEF SeqAge
    <3>3. QED
      BY <2>2, <2>3, <3>1, <3>2, Sizes
  <2>7. ASSUME streak > 2 PROVE connected'
    <3>1. Got /\ SeqAge(Echo) = 1 /\ SeqAge(counts_seq) = 2
      BY <1>0, <2>5, <2>6, <2>7 DEF StreakInv
    <3>2. NewEcho
      BY <3>1 DEF NewEcho
    <3>3. Stalled = 0 /\ Age = 1
      BY <3>1, <3>2 DEF Stalled, Age, SeqAge
    <3>4. Fresh
      BY <3>1, <3>3, Sizes DEF Fresh
    <3>5. QED
      BY <2>1, <3>1, <3>4
  <2>8. QED
    BY <1>0, <2>1, <2>4, <2>5, <2>6, <2>7 DEF StreakInv, Runs
<1>3. ASSUME NEW toMcu \in BOOLEAN, NEW toHost \in BOOLEAN,
             Exchange(toMcu, toHost)
      PROVE  StreakInv'
  <2>1. CASE ~(job = "posted" /\ toMcu /\ toHost)
    <3>1. streak' = 0 /\ job' # "posted"
      BY <1>3, <2>1 DEF Exchange, Finish
    <3>2. QED
      BY <3>1 DEF StreakInv
  <2>2. CASE job = "posted" /\ toMcu /\ toHost
    <3>1. /\ job' = "done" /\ loaded' /\ last_seq' = seq
          /\ UNCHANGED <<seq, counts_seq>>
          /\ reply'.ok /\ reply'.stat.seq_echo = last_seq
      BY <1>3, <2>2 DEF Exchange, Finish, feedback
    <3>0. streak' = (IF streak = 3 THEN 3 ELSE streak + 1)
      <4>1. streak' = Capped(streak + 1, STREAK)
        BY <1>3, <2>2 DEF Exchange
      <4>2. QED
        BY <1>0, <4>1 DEF Capped, STREAK
    <3>2. streak' > 1 => SeqAge(reply.stat.seq_echo)' = 1
      BY <1>0, <2>2, <3>0, <3>1 DEF StreakInv, SeqAge
    <3>3. streak' > 2 => SeqAge(counts_seq)' = 2
      BY <1>0, <2>2, <3>0, <3>1 DEF StreakInv, SeqAge
    <3>4. QED
      BY <1>0, <3>0, <3>1, <3>2, <3>3 DEF StreakInv, Runs
  <2>3. QED
    BY <2>1, <2>2
<1>4. CASE WeatherClears \/ Toggle
  BY <1>0, <1>4
  DEF WeatherClears, Toggle, Request, StreakInv, Runs, SeqAge, hostVars, pins,
      feedback, mailbox, historyVars
<1>5. CASE Unload \/ Restart
  BY <1>0, <1>5
  DEF Unload, Exit, Restart, StreakInv, hostVars
<1>6. CASE Reload
  <2>1. streak = 0
    BY <1>0, <1>6 DEF Reload, Load, StreakInv, Runs
  <2>2. QED
    BY <1>6, <2>1 DEF Reload, Load, StreakInv
<1>7. CASE UNCHANGED vars
  BY <1>0, <1>7 DEF vars, historyVars, StreakInv, Runs, SeqAge, hostVars
<1>8. QED
  BY <1>1, <1>2, <1>3, <1>4, <1>5, <1>6, <1>7
  DEF Next, FairExchange, FoulExchange

LEMMA InvInit == Init => IInv
<1> SUFFICES ASSUME Init PROVE IInv
  OBVIOUS
<1>1. HostTypeOK
  <2>1. /\ seq \in Seqs /\ counts_seq \in Seqs /\ stalled = 0 /\ late_run = 0
    BY Sizes DEF Init, Loaded
  <2>2. /\ loaded \in BOOLEAN /\ req \in BOOLEAN /\ have_fb \in BOOLEAN
        /\ connected \in BOOLEAN /\ watchdog \in BOOLEAN
        /\ job = "none" /\ tx_enable \in BOOLEAN /\ reply \in Replies
    BY DEF Init, Loaded, Replies
  <2>3. QED
    BY <2>1, <2>2, Sizes DEF HostTypeOK
<1>2. TypeOK
  <2>1. last_seq \in Seqs /\ unheard = UnheardCap /\ missed = 0
    BY Sizes DEF Init
  <2>2. fair \in BOOLEAN /\ misread \in BOOLEAN
    BY DEF Init
  <2>3. newborn \in BOOLEAN /\ hollow \in BOOLEAN
    BY DEF Init
  <2>4. streak \in 0 .. STREAK
    BY DEF Init, STREAK
  <2>5. QED
    BY <1>1, <2>1, <2>2, <2>3, <2>4, Sizes DEF TypeOK
<1>3. McuInv /\ EchoInv /\ LateInv /\ PinInv /\ StreakInv
  BY Sizes DEF Init, Loaded, McuInv, EchoInv, LateInv, PinInv, StreakInv
<1>4. QED
  BY <1>2, <1>3 DEF IInv

LEMMA Invariance == Spec => []IInv
<1>1. IInv /\ [Next]_vars => IInv'
  BY TypeStep, McuStep, EchoStep, LateStep, PinStep, StreakStep DEF IInv
<1>2. QED
  BY <1>1, InvInit, PTL DEF Spec

-----------------------------------------------------------------------------

\* The variables of host, wire and MCU keep their types.
THEOREM TypeCorrect == Spec => []TypeOK
BY Invariance, PTL DEF IInv

\* unoq.connected (unoq_spi.c's update) is set only while the MCU takes commands:
\* it accepted one of the last MAX_FB_AGE frames and the transfer in progress is
\* at most MAX_LATE periods late, however often the sequence number wrapped.
THEOREM ConnectedIsRecentHolds == Spec => []ConnectedIsRecent
<1>1. IInv => ConnectedIsRecent
  BY DEF IInv, PinInv, LateInv, ConnectedIsRecent
<1>2. QED
  BY <1>1, Invariance, PTL

\* And it is set whenever it ought to be: three transfers in a row that lost nothing
\* bring unoq.connected back, from whatever state, and it drops only for a late one.
THEOREM ConnectedComesBackHolds == Spec => []ConnectedComesBack
<1>1. IInv => ConnectedComesBack
  <2> SUFFICES ASSUME IInv, job = "posted", streak = 3
               PROVE  connected \/ missed > MAX_LATE
    BY DEF ConnectedComesBack, STREAK
  <2>1. QED
    BY DEF IInv, StreakInv
<1>2. QED
  BY <1>1, Invariance, PTL

\* update asks for the drivers (drivers_on) only on an MCU heard recently.
THEOREM EnableNeedsFreshnessHolds == Spec => []EnableNeedsFreshness
<1>1. IInv => EnableNeedsFreshness
  BY DEF IInv, PinInv, EnableNeedsFreshness
<1>2. QED
  BY <1>1, Invariance, PTL
=============================================================================
