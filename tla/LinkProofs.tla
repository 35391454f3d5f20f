----------------------------- MODULE LinkProofs ------------------------------
(***************************************************************************)
(* What holds of the whole link for every width of the sequence number and *)
(* every set of times.                                                     *)
(*                                                                         *)
(* Why the drivers stop: a frame with ENABLE was posted while the machine  *)
(* was on, so the machine has been off for no longer than that frame has   *)
(* been in transfer; and drivers that are on have heard such a frame no    *)
(* longer ago than the watchdog allows.                                    *)
(*                                                                         *)
(* Why the pin tells the truth: the first ENABLE frame that comes through   *)
(* makes the drivers follow the latch, the second brings the latch back    *)
(* in its reply, and the servo period that posts the third has read it.    *)
(***************************************************************************)
EXTENDS Link, TLAPS

On == req /\ loaded /\ job # "exit"

\* The frame in the mailbox asks for the drivers only on the user's behalf.
MailInv ==
    /\ On => off_for = 0
    /\ job \in {"posted", "exit"} => loaded
    /\ job = "exit" => ~tx_enable
    /\ job = "posted" /\ tx_enable => off_for <= hang

\* Drivers that are on heard such a frame, and not long ago.
DriveInv ==
    /\ on => frame_age + timer <= WATCHDOG_MS + PERIOD_MS
    /\ on => off_for <= MAX_HANG + frame_age

\* How far the latch has come on its way to the pin: into the status the MCU
\* will send next, into the reply to a frame, into unoq.watchdog.
ShownInv ==
    streak > 0 =>
        /\ loaded /\ job # "none"
        /\ on = ~wd_tripped /\ told = wd_tripped
        /\ streak > 1 /\ job = "done" =>
               reply.ok /\ reply.stat.watchdog = wd_tripped
        /\ streak > 1 /\ job = "posted" => watchdog = wd_tripped

IInv == TypeOK /\ MailInv /\ DriveInv /\ ShownInv

-----------------------------------------------------------------------------

LEMMA Sizes ==
    /\ SEQS \in Nat /\ SEQS > 0 /\ 0 \in Seqs
    /\ MAX_FB_AGE \in Nat /\ MAX_FB_AGE > 0 /\ MAX_LATE \in Nat /\ MAX_LATE > 0
    /\ WATCHDOG_MS \in Nat /\ WATCHDOG_MS > 0
    /\ PERIOD_MS \in Nat /\ PERIOD_MS > 0
    /\ BUSY_MS \in Nat /\ BUSY_MS <= WATCHDOG_MS /\ MAX_HANG \in Nat
    /\ AgeCap \in Nat /\ AgeCap = WATCHDOG_MS + PERIOD_MS + 1
    /\ StopTime \in Nat /\ StopTime = MAX_HANG + WATCHDOG_MS + PERIOD_MS
BY HostAssumption, McuAssumption, LinkAssumption DEF Seqs, AgeCap, StopTime

\* The ages stay below their caps, and grow by at most one.
LEMMA CappedAge ==
    ASSUME NEW n \in 0 .. AgeCap
    PROVE  /\ Capped(n + 1, AgeCap) \in 0 .. AgeCap
           /\ Capped(n + 1, AgeCap) = IF n = AgeCap THEN n ELSE n + 1
BY Sizes DEF Capped

LEMMA CappedOff ==
    ASSUME NEW n \in 0 .. StopTime + 1
    PROVE  /\ Capped(n + 1, StopTime + 1) \in 0 .. StopTime + 1
           /\ Capped(n + 1, StopTime + 1) <= n + 1
BY Sizes DEF Capped

LEMMA SeqSteps ==
    ASSUME seq \in Seqs
    PROVE  NextSeq \in Seqs
BY Sizes DEF Seqs, NextSeq

LEMMA ReplyTypes ==
    /\ NoReply \in Replies
    /\ told \in BOOLEAN /\ last_seq \in Seqs => GoodReply \in Replies
BY DEF Replies, NoReply, GoodReply, Statuses

\* What the worker and the servo thread write.
LEMMA FinishTypes ==
    ASSUME HostTypeOK, NEW r \in Replies, Finish(r)
    PROVE  HostTypeOK'
<1>1. /\ loaded' \in BOOLEAN /\ job' \in {"done", "none"} /\ reply' \in Replies
  BY ReplyTypes DEF Finish
<1>2. UNCHANGED <<pins, req, seq, feedback, late_run, tx_enable>>
  BY DEF Finish
<1>3. QED
  BY <1>1, <1>2 DEF HostTypeOK, pins, feedback

LEMMA UpdateTypes ==
    ASSUME HostTypeOK, UpdateLate \/ UpdatePost
    PROVE  HostTypeOK'
<1>1. CASE UpdateLate
  <2>1. late_run' \in 0 .. MAX_LATE /\ connected' \in BOOLEAN
    BY <1>1, Sizes DEF UpdateLate, HostTypeOK
  <2>2. UNCHANGED <<watchdog, loaded, req, seq, feedback, mailbox>>
    BY <1>1 DEF UpdateLate
  <2>3. QED
    BY <2>1, <2>2 DEF HostTypeOK, feedback, mailbox
<1>2. CASE UpdatePost
  <2>1. Got => reply.stat.seq_echo \in Seqs /\ reply.stat.watchdog \in BOOLEAN
    <3>1. CASE reply = NoReply
      BY <3>1 DEF Got, NoReply
    <3>2. CASE reply \in [ok : {TRUE}, stat : Statuses]
      BY <3>2 DEF Statuses
    <3>3. QED
      BY <3>1, <3>2 DEF HostTypeOK, Replies
  <2>2. /\ counts_seq' \in Seqs /\ have_fb' \in BOOLEAN
        /\ watchdog' \in BOOLEAN /\ connected' \in BOOLEAN
    BY <1>2, <2>1 DEF UpdatePost, HostTypeOK, Echo, Fresh, Got
  <2>3. stalled' \in 0 .. MAX_FB_AGE /\ late_run' \in 0 .. MAX_LATE
    BY <1>2, Sizes DEF UpdatePost, HostTypeOK, Stalled
  <2>4. seq' \in Seqs /\ tx_enable' \in BOOLEAN
    BY <1>2, SeqSteps DEF UpdatePost, HostTypeOK, DriversOn, Fresh
  <2>5. job' = "posted" /\ reply' \in Replies /\ UNCHANGED <<loaded, req>>
    BY <1>2, ReplyTypes DEF UpdatePost
  <2>6. QED
    BY <2>2, <2>3, <2>4, <2>5 DEF HostTypeOK
<1>3. QED
  BY <1>1, <1>2

\* A frame reaches the MCU or does not.
LEMMA FrameTypes ==
    ASSUME McuTypeOK, tx_enable \in BOOLEAN, Accept(tx_enable) \/ Reject
    PROVE  McuTypeOK'
<1>1. CASE Accept(tx_enable)
  BY <1>1, Sizes DEF Accept, Prepared, McuTypeOK
<1>2. CASE Reject
  BY <1>2 DEF Reject, Prepared, McuTypeOK, power
<1>3. QED
  BY <1>1, <1>2

LEMMA TypeStep == TypeOK /\ [Next]_vars => TypeOK'
<1> SUFFICES ASSUME TypeOK, [Next]_vars PROVE TypeOK'
  OBVIOUS
<1>0. HostTypeOK /\ McuTypeOK
  BY DEF TypeOK
<1>1. ASSUME NEW toMcu \in BOOLEAN, NEW toHost \in BOOLEAN,
             Transfer(toMcu, toHost)
      PROVE  TypeOK'
  <2>1. HostTypeOK'
    BY <1>0, <1>1, ReplyTypes, FinishTypes DEF Transfer, TypeOK, McuTypeOK
  <2>2. McuTypeOK' /\ last_seq' \in Seqs
    BY <1>0, <1>1, FrameTypes DEF Transfer, TypeOK, HostTypeOK
  <2>3. hang' = 0 /\ UNCHANGED <<fair, due, off_for>>
    BY <1>1 DEF Transfer
  <2>4. streak' \in 0 .. 2
    BY <1>1 DEF Transfer, TypeOK, Capped
  <2>5. QED
    BY <2>1, <2>2, <2>3, <2>4, Sizes DEF TypeOK
<1>2. CASE TransferFails
  <2>1. HostTypeOK'
    BY <1>0, <1>2, ReplyTypes, FinishTypes DEF TransferFails
  <2>2. /\ hang' = 0 /\ streak' = 0
        /\ UNCHANGED <<mcuVars, last_seq, fair, due, off_for>>
    BY <1>2 DEF TransferFails
  <2>3. QED
    BY <2>1, <2>2, Sizes DEF TypeOK, McuTypeOK, mcuVars
<1>3. CASE Watchdog \/ Restart
  <2>1. UNCHANGED <<hostVars, linkVars>> /\ streak' \in 0 .. 2
    BY <1>3 DEF Watchdog, Restart, TypeOK
  <2>2. McuTypeOK' /\ last_seq' \in Seqs
    <3>1. timer' = PERIOD_MS /\ (frame_age' = frame_age \/ frame_age' = 0)
      BY <1>3 DEF Watchdog, Restart, Expires
    <3>2. on' \in BOOLEAN /\ wd_tripped' \in BOOLEAN /\ told' \in BOOLEAN
      BY <1>0, <1>3 DEF Watchdog, Restart, Expires, McuTypeOK, power
    <3>3. last_seq' \in Seqs
      BY <1>3, Sizes DEF Watchdog, Restart, TypeOK
    <3>4. QED
      BY <1>0, <3>1, <3>2, <3>3, Sizes DEF McuTypeOK
  <2>3. QED
    BY <2>1, <2>2 DEF TypeOK, HostTypeOK, hostVars, linkVars
<1>4. CASE Update
  <2>1. /\ due' = FALSE
        /\ UNCHANGED <<mcuVars, last_seq, fair, hang, off_for, streak>>
    BY <1>4 DEF Update
  <2>2. QED
    BY <1>0, <1>4, <2>1, UpdateTypes DEF Update, TypeOK, McuTypeOK, mcuVars
<1>5. CASE Millisecond
  <2>1. frame_age' \in 0 .. AgeCap /\ timer' \in 0 .. PERIOD_MS
    <3>1. timer' = timer - 1 /\ timer > 0
      BY <1>5 DEF Millisecond, Elapse
    <3>2. frame_age' = Capped(frame_age + 1, AgeCap)
      BY <1>5 DEF Millisecond, Elapse
    <3>3. QED
      BY <1>0, <3>1, <3>2, Sizes, CappedAge DEF McuTypeOK
  <2>2. off_for' \in 0 .. StopTime + 1 /\ hang' \in 0 .. MAX_HANG
    BY <1>5, Sizes, CappedOff DEF Millisecond, TypeOK
  <2>3. due' \in BOOLEAN /\ UNCHANGED <<power, told, hostVars, last_seq, fair, streak>>
    BY <1>0, <1>5 DEF Millisecond, Elapse, HostTypeOK
  <2>4. QED
    BY <2>1, <2>2, <2>3 DEF TypeOK, HostTypeOK, McuTypeOK, hostVars, power
<1>6. CASE WeatherClears
  BY <1>6 DEF WeatherClears, TypeOK, HostTypeOK, McuTypeOK, hostVars, mcuVars
<1>7. CASE Toggle
  <2>1. req' \in BOOLEAN /\ off_for' \in 0 .. StopTime + 1
        /\ UNCHANGED <<pins, loaded, seq, feedback, late_run, mailbox, mcuVars,
                       last_seq, fair, due, hang, streak>>
    BY <1>7, Sizes DEF Toggle, Request, TypeOK, HostTypeOK
  <2>2. QED
    BY <2>1 DEF TypeOK, HostTypeOK, McuTypeOK, pins, feedback, mailbox, mcuVars
<1>8. CASE Unload
  <2>1. /\ job' = "exit" /\ tx_enable' = FALSE /\ reply' \in Replies
        /\ seq' \in Seqs
    BY <1>0, <1>8, ReplyTypes, SeqSteps DEF Unload, Exit, HostTypeOK
  <2>2. UNCHANGED <<pins, loaded, req, feedback, late_run, mcuVars, last_seq,
                    fair, due, hang, off_for, streak>>
    BY <1>8 DEF Unload, Exit
  <2>3. QED
    BY <2>1, <2>2 DEF TypeOK, HostTypeOK, McuTypeOK, pins, feedback, mcuVars
<1>9. CASE Reload
  <2>1. HostTypeOK'
    <3>1. /\ seq' \in Seqs /\ counts_seq' \in Seqs
          /\ stalled' = 0 /\ late_run' = 0
      BY <1>9, Sizes DEF Reload, Load
    <3>2. /\ loaded' \in BOOLEAN /\ req' \in BOOLEAN /\ have_fb' \in BOOLEAN
          /\ connected' \in BOOLEAN /\ watchdog' \in BOOLEAN
          /\ job' = "none" /\ tx_enable' \in BOOLEAN /\ reply' \in Replies
      BY <1>0, <1>9, ReplyTypes DEF Reload, Load, HostTypeOK
    <3>3. QED
      BY <3>1, <3>2, Sizes DEF HostTypeOK
  <2>2. due' \in BOOLEAN /\ off_for' \in 0 .. StopTime + 1
        /\ UNCHANGED <<mcuVars, last_seq, fair, hang, streak>>
    BY <1>9, Sizes DEF Reload, TypeOK
  <2>3. QED
    BY <2>1, <2>2 DEF TypeOK, McuTypeOK, mcuVars
<1>10. CASE UNCHANGED vars
  BY <1>10
  DEF vars, TypeOK, HostTypeOK, McuTypeOK, hostVars, mcuVars, linkVars
<1>11. QED
  BY <1>1, <1>2, <1>3, <1>4, <1>5, <1>6, <1>7, <1>8, <1>9, <1>10
  DEF Next, FairTransfer, FoulTransfer

LEMMA MailStep == IInv /\ [Next]_vars => MailInv'
<1> SUFFICES ASSUME IInv, [Next]_vars PROVE MailInv'
  OBVIOUS
<1>0. TypeOK /\ MailInv
  BY DEF IInv
<1>1. ASSUME NEW r \in Replies, Finish(r), UNCHANGED off_for PROVE MailInv'
  BY <1>0, <1>1 DEF Finish, MailInv, On
<1>2. ASSUME NEW toMcu \in BOOLEAN, NEW toHost \in BOOLEAN,
             Transfer(toMcu, toHost)
      PROVE  MailInv'
  BY <1>0, <1>1, <1>2, ReplyTypes DEF Transfer, TypeOK, McuTypeOK
<1>3. CASE TransferFails
  BY <1>1, <1>3, ReplyTypes DEF TransferFails
<1>4. CASE Watchdog \/ Restart \/ WeatherClears
  <2>1. UNCHANGED <<hostVars, hang, off_for>>
    BY <1>4 DEF Watchdog, Restart, WeatherClears, linkVars
  <2>2. QED
    BY <1>0, <2>1 DEF MailInv, On, hostVars
<1>5. CASE Update
  <2>1. UNCHANGED <<loaded, req, hang, off_for>> /\ loaded /\ job # "exit"
    BY <1>5 DEF Update, Runs, UpdateLate, UpdatePost
  <2>2. CASE UpdateLate
    BY <1>0, <2>1, <2>2 DEF UpdateLate, MailInv, On, mailbox
  <2>3. CASE UpdatePost
    <3>1. job' = "posted" /\ (tx_enable' => req)
      BY <2>3 DEF UpdatePost, DriversOn
    <3>2. hang >= 0
      BY <1>0 DEF TypeOK
    <3>3. QED
      BY <1>0, <2>1, <3>1, <3>2 DEF MailInv, On
  <2>4. QED
    BY <1>5, <2>2, <2>3 DEF Update
<1>6. CASE Millisecond
  <2>1. UNCHANGED hostVars
    BY <1>6 DEF Millisecond
  <2>2. off_for' = IF On THEN 0 ELSE Capped(off_for + 1, StopTime + 1)
    BY <1>6 DEF Millisecond, On
  <2>3. job = "posted" => hang' = hang + 1
    BY <1>6 DEF Millisecond, InTransfer
  <2>4. off_for' <= off_for + 1
    BY <1>0, <2>2, Sizes, CappedOff DEF TypeOK
  <2>5. QED
    BY <1>0, <2>1, <2>2, <2>3, <2>4, Sizes DEF MailInv, On, hostVars, TypeOK
<1>7. CASE Toggle
  BY <1>0, <1>7 DEF Toggle, Request, MailInv, On, TypeOK, mailbox
<1>8. CASE Unload
  BY <1>8 DEF Unload, Exit, MailInv, On
<1>9. CASE Reload
  BY <1>0, <1>9 DEF Reload, Load, MailInv, On
<1>10. CASE UNCHANGED vars
  BY <1>0, <1>10 DEF vars, MailInv, On, hostVars, linkVars
<1>11. QED
  BY <1>2, <1>3, <1>4, <1>5, <1>6, <1>7, <1>8, <1>9, <1>10
  DEF Next, FairTransfer, FoulTransfer

LEMMA DriveStep == IInv /\ [Next]_vars => DriveInv'
<1> SUFFICES ASSUME IInv, [Next]_vars PROVE DriveInv'
  OBVIOUS
<1>0. TypeOK /\ MailInv /\ DriveInv
  BY DEF IInv
<1>1. ASSUME NEW toMcu \in BOOLEAN, NEW toHost \in BOOLEAN,
             Transfer(toMcu, toHost)
      PROVE  DriveInv'
  <2>1. off_for' = off_for /\ job \in {"posted", "exit"}
    BY <1>1 DEF Transfer, Finish
  <2>2. CASE toMcu
    <3>1. /\ frame_age' \in 0 .. BUSY_MS /\ timer' = timer
          /\ on' => tx_enable
      BY <1>1, <2>2 DEF Transfer, Accept
    <3>2. on' => off_for <= MAX_HANG
      BY <1>0, <2>1, <3>1, Sizes DEF MailInv, TypeOK
    <3>3. PICK a \in 0 .. BUSY_MS : frame_age' = a
      BY <3>1
    <3>4. a + timer <= WATCHDOG_MS + PERIOD_MS
      BY <1>0, Sizes DEF TypeOK, McuTypeOK
    <3>5. on' => off_for <= MAX_HANG + a
      BY <1>0, <3>2, Sizes DEF TypeOK
    <3>6. frame_age' + timer' <= WATCHDOG_MS + PERIOD_MS
      BY <3>1, <3>3, <3>4, Zenon
    <3>7. on' => off_for' <= MAX_HANG + frame_age'
      BY <2>1, <3>3, <3>5, Zenon
    <3>8. QED
      BY <3>6, <3>7 DEF DriveInv
  <2>3. CASE ~toMcu
    BY <1>0, <1>1, <2>1, <2>3 DEF Transfer, Reject, DriveInv, power
  <2>4. QED
    BY <2>2, <2>3
<1>2. CASE TransferFails \/ Update \/ WeatherClears \/ Unload
  <2>1. UNCHANGED <<mcuVars, off_for>>
    BY <1>2 DEF TransferFails, Update, WeatherClears, Unload
  <2>2. QED
    BY <1>0, <2>1 DEF DriveInv, mcuVars
<1>3. CASE Watchdog
  BY <1>0, <1>3, Sizes
  DEF Watchdog, Expires, DriveInv, TypeOK, McuTypeOK, linkVars, power
<1>4. CASE Restart
  BY <1>4 DEF Restart, DriveInv
<1>5. CASE Millisecond
  <2>1. timer > 0 /\ timer' = timer - 1 /\ on' = on
    BY <1>5 DEF Millisecond, Elapse, power
  <2>2. on => frame_age' = frame_age + 1
    <3>1. frame_age' = IF frame_age = AgeCap THEN frame_age ELSE frame_age + 1
      BY <1>0, <1>5, Sizes, CappedAge
      DEF Millisecond, Elapse, TypeOK, McuTypeOK
    <3>2. on => frame_age # AgeCap
      BY <1>0, <2>1, Sizes DEF DriveInv, TypeOK, McuTypeOK
    <3>3. QED
      BY <3>1, <3>2
  <2>3. off_for' <= off_for + 1
    BY <1>0, <1>5, Sizes, CappedOff DEF Millisecond, TypeOK
  <2>4. off_for' \in Int /\ off_for \in Int /\ frame_age \in Int
        /\ timer \in Int
    BY <1>0, <1>5, Sizes, CappedOff DEF Millisecond, TypeOK, McuTypeOK
  <2>5. QED
    BY <1>0, <2>1, <2>2, <2>3, <2>4, Sizes DEF DriveInv
<1>6. CASE Toggle \/ Reload
  <2>1. UNCHANGED mcuVars /\ (off_for' = 0 \/ off_for' = off_for)
    BY <1>6 DEF Toggle, Reload
  <2>2. QED
    BY <1>0, <2>1, Sizes DEF DriveInv, mcuVars, TypeOK, McuTypeOK
<1>7. CASE UNCHANGED vars
  BY <1>0, <1>7 DEF vars, DriveInv, mcuVars, linkVars
<1>8. QED
  BY <1>1, <1>2, <1>3, <1>4, <1>5, <1>6, <1>7
  DEF Next, FairTransfer, FoulTransfer

LEMMA ShownStep == IInv /\ [Next]_vars => ShownInv'
<1> SUFFICES ASSUME IInv, [Next]_vars PROVE ShownInv'
  OBVIOUS
<1>0. TypeOK /\ ShownInv
  BY DEF IInv
<1>1. ASSUME NEW toMcu \in BOOLEAN, NEW toHost \in BOOLEAN,
             Transfer(toMcu, toHost)
      PROVE  ShownInv'
  <2>1. CASE job = "posted" /\ tx_enable /\ toMcu /\ toHost
    <3>0. streak' > 1 => streak > 0
      <4>1. streak' = Capped(streak + 1, 2)
        BY <1>1, <2>1 DEF Transfer
      <4>2. QED
        BY <1>0, <4>1 DEF Capped, TypeOK
    <3>1. loaded' /\ job' = "done" /\ reply' = GoodReply
      BY <1>1, <2>1 DEF Transfer, Finish
    <3>2. wd_tripped' = wd_tripped /\ on' = ~wd_tripped' /\ told' = wd_tripped'
      BY <1>0, <1>1, <2>1 DEF Transfer, Accept, Prepared, TypeOK, McuTypeOK
    <3>3. reply'.ok /\ reply'.stat.watchdog = told
      BY <3>1 DEF GoodReply
    <3>4. QED
      BY <1>0, <3>0, <3>1, <3>2, <3>3 DEF ShownInv
  <2>2. CASE ~(job = "posted" /\ tx_enable /\ toMcu /\ toHost)
    <3>1. streak' = 0
      BY <1>1, <2>2 DEF Transfer
    <3>2. QED
      BY <3>1 DEF ShownInv
  <2>3. QED
    BY <2>1, <2>2
<1>2. CASE TransferFails \/ Restart
  BY <1>2 DEF TransferFails, Restart, ShownInv
<1>3. CASE Watchdog
  <2>1. UNCHANGED <<hostVars, told>>
    BY <1>3 DEF Watchdog, Expires
  <2>2. ASSUME streak' > 0 PROVE streak' = streak /\ UNCHANGED power
    <3>1. streak' = streak /\ wd_tripped' = wd_tripped
      BY <1>3, <2>2 DEF Watchdog
    <3>2. on = ~wd_tripped
      BY <1>0, <2>2, <3>1 DEF ShownInv
    <3>3. QED
      BY <1>3, <3>1, <3>2 DEF Watchdog, Expires, power
  <2>3. QED
    BY <1>0, <2>1, <2>2 DEF ShownInv, hostVars, power
<1>4. CASE Update
  <2>1. /\ loaded /\ job # "exit" /\ loaded' = loaded
        /\ UNCHANGED <<mcuVars, streak>>
    BY <1>4 DEF Update, Runs, UpdateLate, UpdatePost
  <2>2. CASE UpdateLate
    BY <1>0, <2>1, <2>2 DEF UpdateLate, ShownInv, mailbox, mcuVars
  <2>3. CASE UpdatePost
    <3>1. job' = "posted" /\ job # "posted"
      BY <2>3 DEF UpdatePost, Busy
    <3>2. ASSUME streak > 1 PROVE watchdog' = wd_tripped
      <4>1. job = "done"
        BY <1>0, <2>1, <3>1, <3>2 DEF ShownInv, TypeOK, HostTypeOK
      <4>2. Got /\ reply.stat.watchdog = wd_tripped
        BY <1>0, <3>2, <4>1 DEF ShownInv, Got, TypeOK
      <4>3. QED
        BY <2>3, <4>2 DEF UpdatePost
    <3>3. QED
      BY <1>0, <2>1, <3>1, <3>2 DEF ShownInv, mcuVars
  <2>4. QED
    BY <1>4, <2>2, <2>3 DEF Update
<1>5. CASE Millisecond \/ WeatherClears
  <2>1. UNCHANGED <<hostVars, power, told, streak>>
    BY <1>5 DEF Millisecond, WeatherClears, Elapse, mcuVars, power
  <2>2. QED
    BY <1>0, <2>1 DEF ShownInv, hostVars, power
<1>6. CASE Toggle
  <2>1. UNCHANGED <<pins, loaded, mailbox, mcuVars, streak>>
    BY <1>6 DEF Toggle, Request
  <2>2. QED
    BY <1>0, <2>1 DEF ShownInv, pins, mailbox, mcuVars
<1>7. CASE Unload
  <2>1. loaded' /\ job' = "exit" /\ UNCHANGED <<mcuVars, streak>>
    BY <1>7 DEF Unload, Exit
  <2>2. QED
    BY <1>0, <2>1 DEF ShownInv, mcuVars
<1>8. CASE Reload
  <2>1. ~loaded /\ streak' = streak
    BY <1>8 DEF Reload, Load
  <2>2. QED
    BY <1>0, <2>1 DEF ShownInv
<1>9. CASE UNCHANGED vars
  BY <1>0, <1>9 DEF vars, ShownInv, hostVars, mcuVars
<1>10. QED
  BY <1>1, <1>2, <1>3, <1>4, <1>5, <1>6, <1>7, <1>8, <1>9
  DEF Next, FairTransfer, FoulTransfer

LEMMA InvInit == Init => IInv
<1> SUFFICES ASSUME Init PROVE IInv
  OBVIOUS
<1>1. HostTypeOK
  <2>1. /\ seq \in Seqs /\ counts_seq \in Seqs /\ stalled = 0 /\ late_run = 0
    BY Sizes DEF Init, Loaded
  <2>2. /\ loaded \in BOOLEAN /\ req \in BOOLEAN /\ have_fb \in BOOLEAN
        /\ connected \in BOOLEAN /\ watchdog \in BOOLEAN
        /\ job = "none" /\ tx_enable \in BOOLEAN /\ reply \in Replies
    BY ReplyTypes DEF Init, Loaded
  <2>3. QED
    BY <2>1, <2>2, Sizes DEF HostTypeOK
<1>2. McuTypeOK /\ last_seq \in Seqs
  <2>1. frame_age = 0 /\ timer = PERIOD_MS /\ last_seq \in Seqs
    BY Sizes DEF Init, McuInit
  <2>2. on \in BOOLEAN /\ wd_tripped \in BOOLEAN /\ told \in BOOLEAN
    BY DEF Init, McuInit
  <2>3. QED
    BY <2>1, <2>2, Sizes DEF McuTypeOK
<1>3. TypeOK
  <2>1. /\ fair \in BOOLEAN /\ due \in BOOLEAN
        /\ hang = 0 /\ off_for = 0 /\ streak = 0
    BY DEF Init
  <2>2. QED
    BY <1>1, <1>2, <2>1, Sizes DEF TypeOK
<1>4. MailInv /\ DriveInv /\ ShownInv
  BY DEF Init, Loaded, McuInit, MailInv, DriveInv, ShownInv, On
<1>5. QED
  BY <1>3, <1>4 DEF IInv

LEMMA Invariance == Spec => []IInv
<1>1. IInv /\ [Next]_vars => IInv'
  BY TypeStep, MailStep, DriveStep, ShownStep DEF IInv
<1>2. QED
  BY <1>1, InvInit, PTL DEF Spec

-----------------------------------------------------------------------------

\* The variables of host, wire and MCU keep their types.
THEOREM TypeCorrect == Spec => []TypeOK
BY Invariance, PTL DEF IInv

\* Turning the machine off (or unloading the component) stops the drivers
\* within the longest transfer and the watchdog's time, whatever frames and
\* replies are lost and whenever the MCU restarts (unoq_spi.c's update and
\* rtapi_app_exit, main.c's apply_command and watchdog_fn).
THEOREM MachineOffStopsHolds == Spec => []MachineOffStops
<1>1. IInv => MachineOffStops
  <2> SUFFICES ASSUME IInv, on PROVE off_for <= StopTime
    BY DEF MachineOffStops
  <2>1. off_for \in Int /\ frame_age \in Int /\ timer \in Nat
    BY DEF IInv, TypeOK, McuTypeOK
  <2>2. QED
    BY <2>1, Sizes DEF IInv, DriveInv
<1>2. QED
  BY <1>1, Invariance, PTL

\* Two ENABLE frames in a row that lose nothing are enough: once the second
\* reply is read, unoq.watchdog is set exactly when the drivers are off
\* (main.c's apply_command and prepare_status, unoq_spi.c's update).
THEOREM LatchIsShownHolds == Spec => []LatchIsShown
<1>1. IInv => LatchIsShown
  <2> SUFFICES ASSUME IInv, streak = 2, job = "posted"
               PROVE  on <=> ~watchdog
    BY DEF LatchIsShown
  <2>1. on = ~wd_tripped /\ watchdog = wd_tripped
    <3>1. streak > 0 /\ streak > 1
      OBVIOUS
    <3>2. QED
      BY <3>1, Zenon DEF IInv, ShownInv
  <2>2. QED
    BY <2>1
<1>2. QED
  BY <1>1, Invariance, PTL
=============================================================================
