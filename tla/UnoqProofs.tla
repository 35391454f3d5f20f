----------------------------- MODULE UnoqProofs -----------------------------
(***************************************************************************)
(* Proofs about the three parts of the HAL component hal/unoq_spi.c that    *)
(* have modules of their own: the mailbox (Handoff), the position loop      *)
(* (PositionLoop) and the estimate (Estimator), for every value of their    *)
(* constants.  The three theories share nothing but this module.            *)
(***************************************************************************)
EXTENDS Handoff, PositionLoop, Estimator, TLAPS, WellFoundedInduction

-----------------------------------------------------------------------------
(* The mailbox.  At any time either every posted frame has been transferred *)
(* and answered (Quiet) or exactly one is under way (Flight); MailInv says   *)
(* which of the two holds at each place of the two threads.                 *)

Quiet == done = posted /\ sent = posted /\ rx = posted

Flight ==
    /\ posted = After(done) /\ tx = posted /\ ever
    /\ worker = "store" => sent = posted /\ rx = posted
    /\ worker # "store" => sent = done /\ rx = done

\* Where the servo thread works in the mailbox the worker sleeps.
ServoInv ==
    /\ servo \in {"collect", "fill", "bump"} => Quiet
    /\ servo = "bump" => tx = After(posted)
    /\ servo = "post" => Flight
    /\ servo \in {"collect", "fill", "bump", "post"} => worker = "wait" /\ go = 0

\* Where the worker works in the mailbox a frame is under way.
WorkerInv ==
    /\ worker \in {"load", "ioctl", "store"} => Flight
    /\ worker \in {"ioctl", "store"} => n = posted

IdleInv ==
    /\ servo = "idle" /\ Quiet => worker = "wait" /\ go = 0
    /\ servo = "idle" /\ Flight => go = IF worker = "wait" THEN 1 ELSE 0

ExitInv ==
    /\ stop <=> servo \in {"exit", "join", "last", "unloaded"}
    /\ worker = "ended" => stop
    /\ servo = "exit" => go <= 1
    /\ servo \in {"last", "unloaded"} => worker = "ended"

MailInv ==
    /\ MailTypeOK
    /\ Quiet \/ Flight
    /\ ServoInv /\ WorkerInv /\ IdleInv /\ ExitInv

\* The next count is a count and another one.
LEMMA AfterIsAnother ==
    ASSUME NEW c \in Counts
    PROVE  After(c) \in Counts /\ After(c) # c
  BY WrapAssumption DEF After, Counts

LEMMA MailInitInv == MailInit => MailInv
<1> SUFFICES ASSUME MailInit PROVE MailInv
  OBVIOUS
<1>0. 0 \in Counts /\ 0 \in 0 .. 2
  BY WrapAssumption DEF Counts
<1>1. MailTypeOK
  BY <1>0, Zenon DEF MailInit, MailTypeOK, ServoPCs, WorkerPCs
<1>2. Quiet /\ ~Flight
  BY WrapAssumption DEF MailInit, Quiet, Flight, After
<1>3. ServoInv /\ WorkerInv /\ IdleInv
  BY <1>2 DEF MailInit, ServoInv, WorkerInv, IdleInv
<1>4. ExitInv
  BY DEF MailInit, ExitInv
<1> QED
  BY <1>1, <1>2, <1>3, <1>4 DEF MailInv

\* Every step of either thread keeps MailInv.
LEMMA MailStep == MailInv /\ [MailNext]_mailVars => MailInv'
<1> SUFFICES ASSUME MailInv, [MailNext]_mailVars PROVE MailInv'
  OBVIOUS
<1> USE DEF Quiet, Flight, ServoInv, WorkerInv, IdleInv, ExitInv
<1>0. MailTypeOK /\ (Quiet \/ Flight) /\ ServoInv /\ WorkerInv /\ IdleInv /\ ExitInv
  BY DEF MailInv
<1>a. posted \in Counts /\ done \in Counts
  BY <1>0 DEF MailTypeOK
<1>b. After(posted) \in Counts /\ After(posted) # posted
  BY <1>a, AfterIsAnother
<1>c. After(done) \in Counts /\ After(done) # done
  BY <1>a, AfterIsAnother
<1> DEFINE Inv == /\ Quiet \/ Flight
                  /\ ServoInv /\ WorkerInv /\ IdleInv /\ ExitInv
<1>1. CASE ReadDone
  <2>1. MailTypeOK' BY <1>0, <1>1 DEF ReadDone, Goto, MailTypeOK, ServoPCs, buffers
  <2>2. Inv' BY <1>0, <1>1, <1>c DEF ReadDone, Goto, MailTypeOK, After, buffers
  <2> QED BY <2>1, <2>2 DEF MailInv
<1>2. CASE CopyReply
  <2>1. MailTypeOK' BY <1>0, <1>2 DEF CopyReply, Goto, MailTypeOK, ServoPCs, buffers
  <2>2. Inv' BY <1>0, <1>2, <1>c DEF CopyReply, Goto, MailTypeOK, After, buffers
  <2> QED BY <2>1, <2>2 DEF MailInv
<1>3. CASE FillFrame
  <2>1. MailTypeOK' BY <1>0, <1>3, <1>b DEF FillFrame, Goto, MailTypeOK, ServoPCs
  <2>2. Inv' BY <1>0, <1>3, <1>c DEF FillFrame, Goto, MailTypeOK, After
  <2> QED BY <2>1, <2>2 DEF MailInv
<1>4. CASE Bump
  <2>1. MailTypeOK' BY <1>0, <1>4, <1>b DEF Bump, Goto, MailTypeOK, ServoPCs, buffers
  <2>2. Inv' BY <1>0, <1>4, <1>b DEF Bump, Goto, MailTypeOK, After, buffers
  <2> QED BY <2>1, <2>2 DEF MailInv
<1>5. CASE Post
  <2>1. MailTypeOK' BY <1>0, <1>5 DEF Post, Goto, MailTypeOK, ServoPCs, buffers
  <2>2. Inv' BY <1>0, <1>5, <1>c DEF Post, Goto, MailTypeOK, After, buffers
  <2> QED BY <2>1, <2>2 DEF MailInv
<1>6. CASE ExitStop
  <2>1. MailTypeOK' BY <1>0, <1>6 DEF ExitStop, Goto, MailTypeOK, ServoPCs, buffers
  <2>2. Inv' BY <1>0, <1>6, <1>c DEF ExitStop, Goto, MailTypeOK, After, buffers
  <2> QED BY <2>1, <2>2 DEF MailInv
<1>7. CASE ExitPost
  <2>1. MailTypeOK' BY <1>0, <1>7 DEF ExitPost, Goto, MailTypeOK, ServoPCs, buffers
  <2>2. Inv' BY <1>0, <1>7, <1>c DEF ExitPost, Goto, MailTypeOK, After, buffers
  <2> QED BY <2>1, <2>2 DEF MailInv
<1>8. CASE Join
  <2>1. MailTypeOK' BY <1>0, <1>8 DEF Join, Goto, MailTypeOK, ServoPCs, buffers
  <2>2. Inv' BY <1>0, <1>8, <1>c DEF Join, Goto, MailTypeOK, After, buffers
  <2> QED BY <2>1, <2>2 DEF MailInv
<1>9. CASE LastFrame
  <2>1. MailTypeOK' BY <1>0, <1>9 DEF LastFrame, Goto, MailTypeOK, ServoPCs, buffers
  <2>2. Inv' BY <1>0, <1>9, <1>c DEF LastFrame, Goto, MailTypeOK, After, buffers
  <2> QED BY <2>1, <2>2 DEF MailInv
<1>10. CASE SemWait
  <2>1. MailTypeOK' BY <1>0, <1>10 DEF SemWait, Step, MailTypeOK, WorkerPCs, servoVars, buffers
  <2>2. Inv' BY <1>0, <1>10, <1>c DEF SemWait, Step, MailTypeOK, After, servoVars, buffers
  <2> QED BY <2>1, <2>2 DEF MailInv
<1>11. CASE TestStop
  <2>1. MailTypeOK' BY <1>0, <1>11 DEF TestStop, Step, MailTypeOK, WorkerPCs, servoVars, buffers
  <2>2. Inv' BY <1>0, <1>11, <1>c DEF TestStop, Step, MailTypeOK, ServoPCs, After, servoVars, buffers
  <2> QED BY <2>1, <2>2 DEF MailInv
<1>12. CASE LoadPosted
  <2>1. MailTypeOK' BY <1>0, <1>12 DEF LoadPosted, Step, MailTypeOK, WorkerPCs, servoVars, buffers
  <2>2. Inv' BY <1>0, <1>12, <1>c DEF LoadPosted, Step, MailTypeOK, After, servoVars, buffers
  <2> QED BY <2>1, <2>2 DEF MailInv
<1>13. CASE Transfer
  <2>1. MailTypeOK' BY <1>0, <1>13 DEF Transfer, Step, MailTypeOK, WorkerPCs, servoVars
  <2>2. Inv' BY <1>0, <1>13, <1>c DEF Transfer, Step, MailTypeOK, After, servoVars
  <2> QED BY <2>1, <2>2 DEF MailInv
<1>14. CASE StoreDone
  <2>1. MailTypeOK' BY <1>0, <1>14 DEF StoreDone, Step, MailTypeOK, WorkerPCs, servoVars, buffers
  <2>2. Inv' BY <1>0, <1>14, <1>b, <1>c DEF StoreDone, Step, MailTypeOK, After, servoVars, buffers
  <2> QED BY <2>1, <2>2 DEF MailInv
<1>15. CASE UNCHANGED mailVars
  BY <1>0, <1>15 DEF MailInv, MailTypeOK, mailVars
<1> QED
  BY <1>1, <1>2, <1>3, <1>4, <1>5, <1>6, <1>7, <1>8, <1>9, <1>10, <1>11,
     <1>12, <1>13, <1>14, <1>15
  DEF MailNext, Servo, Worker, ReadBusy, Terminated

LEMMA MailInvariance == MailSpec => []MailInv
  BY MailInitInv, MailStep, PTL DEF MailSpec

\* The variables keep their types, for every WRAP.
THEOREM MailTypeCorrect == MailSpec => []MailTypeOK
<1>1. MailInv => MailTypeOK BY DEF MailInv
<1> QED BY MailInvariance, <1>1, PTL

\* The servo thread and the worker are never in the buffers together, and the
\* exit's ioctl never meets the worker's.
THEOREM NoBufferRaceHolds == MailSpec => []NoBufferRace
<1>1. MailInv => NoBufferRace
  BY DEF MailInv, NoBufferRace, ServoInv, ExitInv
<1> QED BY MailInvariance, <1>1, PTL

\* The reply collected answers the frame posted last.
THEOREM ReplyIsCurrentHolds == MailSpec => []ReplyIsCurrent
<1>1. MailInv => ReplyIsCurrent
  BY DEF MailInv, ReplyIsCurrent, ServoInv, Quiet
<1> QED BY MailInvariance, <1>1, PTL

\* Frames are transferred once each, in the order they were posted.
THEOREM InOrderHolds == MailSpec => InOrder
<1>1. MailInv /\ [MailNext]_mailVars => [Transfer => tx = After(sent)]_mailVars
  BY DEF MailInv, WorkerInv, Flight, Transfer, Step
<1> QED BY MailInvariance, <1>1, PTL DEF MailSpec, InOrder

\* Where a frame is under way and the servo thread waits for it, the worker is
\* awake or will be woken: at the exit too, and then it ends.
NoLostWakeUp ==
    /\ servo = "idle" /\ done # posted => worker # "wait" \/ go > 0
    /\ servo = "join" => worker \in {"woken", "ended"} \/ go > 0

\* sem_post and the flag: no wake-up of the worker is lost, so that neither the
\* servo thread's next frame nor pthread_join waits for a worker that sleeps.
THEOREM NoLostWakeUpHolds == MailSpec => []NoLostWakeUp
<1> DEFINE Waking == servo = "join" => worker \in {"woken", "ended"} \/ go > 0
<1>1. MailInit => Waking
  BY DEF MailInit
<1>2. MailInv /\ Waking /\ [MailNext]_mailVars => Waking'
  <2> SUFFICES ASSUME MailInv, Waking, [MailNext]_mailVars, servo' = "join"
               PROVE  worker' \in {"woken", "ended"} \/ go' > 0
    OBVIOUS
  <2>0. go \in 0 .. 2 /\ (servo = "join" => stop)
    BY DEF MailInv, MailTypeOK, ExitInv
  <2>1. CASE ExitPost
    BY <2>0, <2>1 DEF ExitPost
  <2>2. CASE SemWait
    BY <2>2 DEF SemWait, Step
  <2>3. CASE TestStop
    BY <2>0, <2>3 DEF TestStop, Step, servoVars
  <2>4. CASE LoadPosted \/ Transfer \/ StoreDone
    <3>1. UNCHANGED <<servo, go>> /\ worker \notin {"woken", "ended"}
      BY <2>4 DEF LoadPosted, Transfer, StoreDone, Step, servoVars
    <3> QED BY <3>1
  <2>5. CASE UNCHANGED mailVars
    BY <2>5 DEF mailVars
  <2>6. CASE \/ ReadDone \/ CopyReply \/ FillFrame \/ Bump \/ Post \/ ExitStop
             \/ Join \/ LastFrame \/ ReadBusy \/ Terminated
    BY <2>6 DEF ReadDone, CopyReply, FillFrame, Bump, Post, ExitStop, Join, LastFrame,
                ReadBusy, Terminated, Goto, mailVars
  <2> QED
    BY <2>1, <2>2, <2>3, <2>4, <2>5, <2>6 DEF MailNext, Servo, Worker
<1>3. MailInv /\ Waking => NoLostWakeUp
  BY DEF MailInv, IdleInv, Flight, Quiet, NoLostWakeUp
<1> QED
  BY <1>1, <1>2, <1>3, MailInvariance, PTL DEF MailSpec

\* The two threads are a mailbox: what a step does to the counters, the buffers and
\* the semaphore is a step of module Mailbox, or nothing to it.
LEMMA BoxStep == MailInv /\ [MailNext]_mailVars => [Box!Next]_(Box!vars)
<1> SUFFICES ASSUME MailInv, [MailNext]_mailVars
             PROVE  Box!Next \/ (Job' = Job /\ posted' = posted /\ rx' = rx)
  BY DEF Box!vars, Job
<1> USE DEF Quiet, Flight, ServoInv, WorkerInv, ExitInv
<1>0. /\ posted \in Counts /\ done \in Counts /\ After(posted) # posted
      /\ After(done) # done
      /\ (Quiet \/ Flight) /\ ServoInv /\ WorkerInv /\ ExitInv
  BY AfterIsAnother DEF MailInv, MailTypeOK
<1>1. CASE Bump
  <2>1. Job \in {"none", "done"} /\ Job' = "posted"
    BY <1>0, <1>1 DEF Bump, Goto, Job
  <2>2. posted' = (posted + 1) % WRAP /\ rx' = rx
    BY <1>0, <1>1, WrapAssumption DEF Bump, After, Counts, buffers
  <2> QED BY <2>1, <2>2 DEF Box!Next, Box!Post
<1>2. CASE Transfer
  <2>1. Job = "posted" /\ Job' = "back" /\ rx' = posted /\ posted' = posted
    BY <1>0, <1>2 DEF Transfer, Step, servoVars, Job
  <2> QED BY <2>1 DEF Box!Next, Box!Exchange
<1>3. CASE StoreDone
  <2>1. Job = "back" /\ Job' = "done" /\ rx' = rx /\ posted' = posted
    BY <1>0, <1>3 DEF StoreDone, Step, servoVars, buffers, Job
  <2> QED BY <2>1 DEF Box!Next, Box!Return
<1>4. CASE Join
  <2>1. Job \in {"none", "posted", "done"} /\ Job' = "exit" /\ rx' = rx
        /\ posted' = posted
    BY <1>0, <1>4 DEF Join, Goto, buffers, Job
  <2> QED BY <2>1 DEF Box!Next, Box!Close
<1>5. CASE LastFrame
  <2>1. Job = "exit" /\ Job' = "gone" /\ rx' = rx /\ posted' = posted
    BY <1>5 DEF LastFrame, Goto, buffers, Job
  <2> QED BY <2>1 DEF Box!Next, Box!Last
<1>6. CASE \/ ReadDone \/ CopyReply \/ FillFrame \/ Post \/ ExitStop \/ ExitPost
  BY <1>6 DEF ReadDone, CopyReply, FillFrame, Post, ExitStop, ExitPost, Goto,
              buffers, Job
<1>7. CASE SemWait \/ TestStop \/ LoadPosted
  BY <1>7 DEF SemWait, TestStop, LoadPosted, Step, servoVars, buffers, Job
<1>8. CASE ReadBusy \/ Terminated \/ UNCHANGED mailVars
  BY <1>8 DEF ReadBusy, Terminated, mailVars, Job
<1> QED
  BY <1>1, <1>2, <1>3, <1>4, <1>5, <1>6, <1>7, <1>8 DEF MailNext, Servo, Worker

\* spi_worker and unoq.update implement the mailbox the other modules of the host
\* (UnoqSpi, Estimator) take for granted.
THEOREM MailboxContractHolds == MailSpec => MailboxContract
<1>1. MailInit => Box!Init
  BY DEF MailInit, Box!Init, Job
<1> QED
  BY <1>1, BoxStep, MailInvariance, PTL DEF MailSpec, MailboxContract, Box!Spec

-----------------------------------------------------------------------------
(* The position loop.  The counts, the next counts and the position are two *)
(* moves of the motor by the two velocities the estimate adds, so all it     *)
(* does not know is what was in the accumulator.                            *)

\* q and b are where v moves the motor and its accumulator from p and a.
Moved(p, a, v, q, b) ==
    /\ q = p + Sign(v) * ((a + Abs(v)) \div UNIT)
    /\ b = (a + Abs(v)) % UNIT

\* A joint that was off is at rest.
OffInv == ~was_enabled => recent.last = 0

\* The converter's range; and the velocity changes by maxaccel unless the joint
\* was switched off.
RateInv ==
    /\ Abs(recent.last) < RATE_MAX
    /\ maxaccel > 0 /\ recent.last # 0
           => Abs(recent.last - recent.before) <= maxaccel

\* The counts, the next counts and the position are two moves of the motor, by
\* the two velocities the estimate adds to the counts.
MoveInv ==
    \E a0, a1 \in 0 .. UNIT - 1 :
        /\ Moved(counts, a0, recent.before, stat, a1)
        /\ Moved(stat, a1, recent.last, pos, acc)

LoopInv == LoopTypeOK /\ OffInv /\ RateInv /\ MoveInv

LEMMA LimitedIs ==
    ASSUME NEW x \in Int, NEW limit \in Nat
    PROVE  /\ Limited(x, limit) \in Int
           /\ x >= 0 => 0 <= Limited(x, limit) /\ Limited(x, limit) <= x
           /\ x <= 0 => x <= Limited(x, limit) /\ Limited(x, limit) <= 0
           /\ limit > 0 => -limit <= Limited(x, limit) /\ Limited(x, limit) <= limit
  BY DEF Limited, Abs, Sign

LEMMA HalfToEvenIs ==
    ASSUME NEW h \in Int
    PROVE  /\ HalfToEven(h) \in Int
           /\ h - 1 <= 2 * HalfToEven(h) /\ 2 * HalfToEven(h) <= h + 1
           /\ \A m \in Int : 2 * m <= h => m <= HalfToEven(h)
           /\ \A m \in Int : h <= 2 * m => HalfToEven(h) <= m
<1>1. HalfToEven(h) \in Int
  BY DEF HalfToEven
<1>2. h - 1 <= 2 * HalfToEven(h) /\ 2 * HalfToEven(h) <= h + 1
  BY DEF HalfToEven
<1> QED
  BY <1>1, <1>2

LEMMA DivMod ==
    ASSUME NEW x \in Nat
    PROVE  /\ x \div UNIT \in Nat /\ x % UNIT \in 0 .. UNIT - 1
           /\ x = UNIT * (x \div UNIT) + (x % UNIT)
           /\ x < UNIT => x \div UNIT = 0 /\ x % UNIT = x
           /\ UNIT <= x /\ x < 2 * UNIT => x % UNIT = x - UNIT
<1>0. UNIT \in Nat /\ UNIT > 0
  BY PositionLoopAssumption
<1>1. x \div UNIT \in Int /\ x % UNIT \in 0 .. UNIT - 1
      /\ x = UNIT * (x \div UNIT) + (x % UNIT)
  BY <1>0
<1> DEFINE k == x \div UNIT
<1>2. k \in Int
  BY <1>1
<1>3. k < 0 => UNIT * k <= -UNIT
  BY <1>0, <1>2
<1>4. k >= 1 => UNIT * k >= UNIT
  BY <1>0, <1>2
<1>5. k >= 2 => UNIT * k >= 2 * UNIT
  BY <1>0, <1>2
<1>6. (k = 0 => UNIT * k = 0) /\ (k = 1 => UNIT * k = UNIT)
  BY <1>0
<1>7. x = UNIT * k + (x % UNIT) /\ x % UNIT \in 0 .. UNIT - 1
  BY <1>1
<1>8. UNIT * k \in Int
  BY <1>0, <1>2
<1> HIDE DEF k
<1>9. k >= 0
  BY <1>0, <1>2, <1>3, <1>7, <1>8
<1>10. x < UNIT => k = 0
  BY <1>0, <1>2, <1>4, <1>9, <1>7, <1>8
<1>11. UNIT <= x /\ x < 2 * UNIT => k = 1
  BY <1>0, <1>2, <1>5, <1>6, <1>9, <1>7, <1>8
<1>12. (x < UNIT => x % UNIT = x) /\ (UNIT <= x /\ x < 2 * UNIT => x % UNIT = x - UNIT)
  BY <1>0, <1>6, <1>7, <1>8, <1>10, <1>11
<1> QED
  BY <1>1, <1>2, <1>9, <1>10, <1>12 DEF k

LEMMA MovedExactly ==
    ASSUME NEW p \in Int, NEW a \in 0 .. UNIT - 1, NEW v \in Int,
           NEW q, NEW b, Moved(p, a, v, q, b)
    PROVE  /\ q \in Int /\ b \in 0 .. UNIT - 1
           /\ v >= 0 => q * UNIT = p * UNIT + v + a - b
           /\ v <= 0 => q * UNIT = p * UNIT + v - a + b
           /\ v = 0 => b = a
           /\ Abs(v) < UNIT => b = a + Abs(v) \/ b = a + Abs(v) - UNIT
<1> DEFINE x == a + Abs(v)
           k == x \div UNIT
<1>0. UNIT \in Nat /\ UNIT > 0
  BY PositionLoopAssumption
<1>1. Abs(v) \in Nat /\ x \in Nat /\ Sign(v) \in {-1, 1}
  BY <1>0 DEF Abs, Sign
<1>2. /\ k \in Nat /\ b \in 0 .. UNIT - 1
      /\ x = UNIT * k + b
      /\ x < UNIT => b = x
      /\ UNIT <= x /\ x < 2 * UNIT => b = x - UNIT
  BY <1>1, DivMod DEF Moved
<1>3. q = p + Sign(v) * k
  BY DEF Moved
<1> HIDE DEF k
<1>4. (v >= 0 => q = p + k) /\ (v < 0 => q = p - k)
  BY <1>2, <1>3 DEF Sign
<1>5. q \in Int /\ b \in 0 .. UNIT - 1
  BY <1>2, <1>4
<1>6. v >= 0 => q * UNIT = p * UNIT + v + a - b
  <2> SUFFICES ASSUME v >= 0 PROVE q * UNIT = p * UNIT + v + a - b
    OBVIOUS
  <2>1. q * UNIT = p * UNIT + UNIT * k
    BY <1>0, <1>2, <1>4
  <2>2. UNIT * k = a + v - b
    BY <1>0, <1>2, <1>5 DEF Abs
  <2> QED BY <2>1, <2>2, <1>0, <1>5
<1>7. v < 0 => q * UNIT = p * UNIT + v - a + b
  <2> SUFFICES ASSUME v < 0 PROVE q * UNIT = p * UNIT + v - a + b
    OBVIOUS
  <2>1. q * UNIT = p * UNIT - UNIT * k
    BY <1>0, <1>2, <1>4
  <2>2. UNIT * k = a - v - b
    BY <1>0, <1>2, <1>5 DEF Abs
  <2> QED BY <2>1, <2>2, <1>0, <1>5
<1>8. v = 0 => b = a
  BY <1>0, <1>2 DEF Abs
<1>9. Abs(v) < UNIT => b = a + Abs(v) \/ b = a + Abs(v) - UNIT
  BY <1>0, <1>1, <1>2
<1> QED
  BY <1>0, <1>5, <1>6, <1>7, <1>8, <1>9

\* The converter's velocity is within the limits.
LEMMA IncrementIs ==
    ASSUME LoopTypeOK, RateInv
    PROVE  /\ Increment \in Allowed /\ Increment \in Int
           /\ Abs(Increment) < RATE_MAX
           /\ maxaccel > 0 /\ Increment # 0
                  => Abs(Increment - recent.last) <= maxaccel
<1>0. /\ maxvel \in Nat /\ maxaccel \in Nat /\ RATE_MAX \in Nat /\ RATE_MAX > 1
      /\ cmd \in Int /\ old_cmd \in Int /\ counts \in Int
      /\ UNIT \in Nat
  BY PositionLoopAssumption DEF LoopTypeOK
<1> DEFINE most == IF maxvel > 0 THEN maxvel ELSE RATE_MAX - 1
           old == recent.last
<1>1. /\ most \in Nat /\ old \in Int /\ recent.before \in Int
      /\ -most <= old /\ old <= most /\ -RATE_MAX < old /\ old < RATE_MAX
  <2>1. Allowed = -most .. most
    BY DEF Allowed
  <2>2. recent.last \in -most .. most /\ recent.before \in -most .. most
    BY <2>1 DEF LoopTypeOK
  <2> QED BY <1>0, <2>2 DEF RateInv, Abs
<1>2. Wanted \in Int /\ (maxvel > 0 => -(2 * maxvel) <= Wanted /\ Wanted <= 2 * maxvel)
  <2>1. Est \in Int
    BY <1>0, <1>1 DEF Est
  <2>2. Err \in Int /\ Feed \in Int
    BY <1>0, <2>1 DEF Err, Feed
  <2>3. 2 * Feed + Err \in Int /\ 2 * maxvel \in Nat
    BY <1>0, <2>2
  <2> DEFINE x == 2 * Feed + Err
             top == 2 * maxvel
  <2>4. Wanted = Limited(x, top) /\ x \in Int /\ top \in Nat
    BY <2>3 DEF Wanted
  <2> HIDE DEF x
  <2> QED
    BY <1>0, <2>4, LimitedIs
<1> DEFINE gap == Wanted - 2 * old
           step == Limited(gap, 2 * maxaccel)
<1>3. /\ step \in Int
      /\ gap >= 0 => 0 <= step /\ step <= gap
      /\ gap <= 0 => gap <= step /\ step <= 0
      /\ maxaccel > 0 => -(2 * maxaccel) <= step /\ step <= 2 * maxaccel
  <2>1. gap \in Int /\ 2 * maxaccel \in Nat
    BY <1>0, <1>1, <1>2
  <2> HIDE DEF gap
  <2> QED BY <1>0, <2>1, LimitedIs
<1>4. Ramped = 2 * old + step
  BY DEF Ramped
<1> HIDE DEF step
<1>5. /\ Ramped \in Int
      /\ maxvel > 0 => -(2 * maxvel) <= Ramped /\ Ramped <= 2 * maxvel
      /\ maxaccel > 0 => /\ 2 * (old - maxaccel) <= Ramped
                         /\ Ramped <= 2 * (old + maxaccel)
  BY <1>0, <1>1, <1>2, <1>3, <1>4
<1> DEFINE h == Limited(Ramped, 2 * RATE_MAX)
<1>6. /\ h \in Int
      /\ maxvel > 0 => 2 * (-maxvel) <= h /\ h <= 2 * maxvel
      /\ maxaccel > 0 => 2 * (old - maxaccel) <= h /\ h <= 2 * (old + maxaccel)
  BY <1>0, <1>1, <1>5 DEF Limited, Abs, Sign
<1> DEFINE r == HalfToEven(h)
<1> HIDE DEF h
<1>7. /\ r \in Int
      /\ maxvel > 0 => -maxvel <= r /\ r <= maxvel
      /\ maxaccel > 0 => old - maxaccel <= r /\ r <= old + maxaccel
  <2>1. /\ HalfToEven(h) \in Int
        /\ \A m \in Int : 2 * m <= h => m <= HalfToEven(h)
        /\ \A m \in Int : h <= 2 * m => HalfToEven(h) <= m
    BY <1>6, HalfToEvenIs
  <2>2. {-maxvel, maxvel, old - maxaccel, old + maxaccel} \subseteq Int
    BY <1>0, <1>1
  <2> QED BY <2>1, <2>2, <1>6
<1>8. Increment = IF enable THEN Limited(r, RATE_MAX - 1) ELSE 0
  BY DEF Increment, h
<1> HIDE DEF r
<1>9. /\ Limited(r, RATE_MAX - 1) \in Int
      /\ Abs(Limited(r, RATE_MAX - 1)) < RATE_MAX
      /\ maxvel > 0 => /\ -maxvel <= Limited(r, RATE_MAX - 1)
                       /\ Limited(r, RATE_MAX - 1) <= maxvel
      /\ maxaccel > 0 => Abs(Limited(r, RATE_MAX - 1) - old) <= maxaccel
  BY <1>0, <1>1, <1>7 DEF Limited, Abs, Sign
<1>10. Increment \in Int /\ -most <= Increment /\ Increment <= most
  BY <1>0, <1>1, <1>8, <1>9 DEF Abs
<1> QED
  BY <1>0, <1>8, <1>9, <1>10 DEF Allowed, Abs

\* A joint that was off starts towards its command.
LEMMA StartIs ==
    ASSUME LoopTypeOK, RateInv, OffInv, ~was_enabled
    PROVE  Increment * (cmd - Est) >= 0
<1>0. /\ maxvel \in Nat /\ maxaccel \in Nat /\ RATE_MAX \in Nat /\ RATE_MAX > 1
      /\ cmd \in Int /\ counts \in Int /\ UNIT \in Nat
  BY PositionLoopAssumption DEF LoopTypeOK
<1>1. recent.last = 0 /\ recent.before \in Int
  <2>1. Allowed \subseteq Int
    BY <1>0 DEF Allowed
  <2> QED BY <2>1 DEF LoopTypeOK, OffInv
<1> DEFINE err == cmd - Est
           Toward(v) == /\ v \in Int
                        /\ err >= 0 => v >= 0
                        /\ err <= 0 => v <= 0
<1>2. err \in Int
  BY <1>0, <1>1 DEF Est
<1>3. Feed = 0 /\ Toward(2 * Feed + Err)
  BY <1>2 DEF Feed, Err
<1> HIDE DEF err
<1>4. \A x \in Int, limit \in Nat : Toward(x) => Toward(Limited(x, limit))
  BY <1>2, LimitedIs
<1>5. Toward(Wanted)
  <2> DEFINE x == 2 * Feed + Err
  <2>1. Wanted = Limited(x, 2 * maxvel) /\ Toward(x) /\ 2 * maxvel \in Nat
    BY <1>0, <1>3 DEF Wanted
  <2> HIDE DEF x
  <2> QED BY <2>1, <1>4
<1>6. Toward(Ramped)
  <2> DEFINE x == Wanted - 2 * recent.last
  <2>1. /\ Ramped = 2 * recent.last + Limited(x, 2 * maxaccel)
        /\ Toward(x) /\ 2 * maxaccel \in Nat
    BY <1>0, <1>1, <1>5 DEF Ramped
  <2> HIDE DEF x
  <2>2. Toward(Limited(x, 2 * maxaccel))
    BY <2>1, <1>4
  <2> QED BY <1>1, <2>1, <2>2
<1> DEFINE h == Limited(Ramped, 2 * RATE_MAX)
<1>7. Toward(h)
  <2>1. 2 * RATE_MAX \in Nat
    BY <1>0
  <2> QED BY <1>4, <1>6, <2>1
<1> HIDE DEF h
<1>8. Toward(HalfToEven(h))
  <2>1. 0 <= h => 0 <= HalfToEven(h)
    BY <1>7, HalfToEvenIs
  <2>2. h <= 0 => HalfToEven(h) <= 0
    BY <1>7, HalfToEvenIs
  <2> QED BY <1>7, <2>1, <2>2, HalfToEvenIs
<1> DEFINE r == HalfToEven(h)
<1>9. Increment = IF enable THEN Limited(r, RATE_MAX - 1) ELSE 0
  BY DEF Increment, h
<1> HIDE DEF r
<1>10. Toward(Increment)
  <2>1. RATE_MAX - 1 \in Nat
    BY <1>0
  <2>2. Toward(r)
    BY <1>8 DEF r
  <2>3. Toward(Limited(r, RATE_MAX - 1))
    BY <1>4, <2>1, <2>2
  <2> QED BY <1>2, <1>9, <2>3
<1>11. \A v, e \in Int : (v >= 0 /\ e >= 0) \/ (v <= 0 /\ e <= 0) => v * e >= 0
  OBVIOUS
<1>12. Increment * err >= 0
  <2>1. (Increment >= 0 /\ err >= 0) \/ (Increment <= 0 /\ err <= 0)
    BY <1>2, <1>10
  <2> QED BY <1>2, <1>10, <1>11, <2>1
<1> QED
  BY <1>12 DEF err

LEMMA LoopInitInv == LoopInit => LoopInv
<1> SUFFICES ASSUME LoopInit PROVE LoopInv
  OBVIOUS
<1>0. /\ UNIT \in Nat /\ UNIT > 0 /\ RATE_MAX \in Nat /\ RATE_MAX > 1
      /\ TRAVEL \in Nat /\ SETTLE \in Nat /\ Limits \subseteq Nat \X Nat
  BY PositionLoopAssumption
<1>1. PICK l \in Limits : maxvel = l[1] /\ maxaccel = l[2]
  BY DEF LoopInit
<1>2. <<maxvel, maxaccel>> \in Limits /\ maxvel \in Nat /\ maxaccel \in Nat
  <2>1. l \in Nat \X Nat /\ l = <<l[1], l[2]>>
    BY <1>0, <1>1
  <2> QED BY <1>1, <2>1
<1>3. 0 \in Allowed
  BY <1>0, <1>2 DEF Allowed
<1>4. LoopTypeOK
  <2>1. recent \in [last : Allowed, before : Allowed]
    BY <1>3 DEF LoopInit
  <2>2. cmd \in -TRAVEL .. TRAVEL /\ old_cmd \in -TRAVEL .. TRAVEL /\ rest \in 0 .. SETTLE
    BY <1>0 DEF LoopInit
  <2>3. enable \in BOOLEAN /\ was_enabled \in BOOLEAN
    BY Zenon DEF LoopInit
  <2>4. counts \in Int /\ stat \in Int /\ pos \in Int /\ acc \in 0 .. UNIT - 1
    BY DEF LoopInit
  <2> QED
    BY <1>2, <2>1, <2>2, <2>3, <2>4 DEF LoopTypeOK
<1>5. OffInv /\ RateInv
  BY <1>0 DEF LoopInit, OffInv, RateInv, Abs
<1>6. Moved(0, acc, 0, 0, acc)
  <2>1. acc \in Nat /\ acc < UNIT
    BY <1>0 DEF LoopInit
  <2>2. acc \div UNIT = 0 /\ acc % UNIT = acc
    BY <2>1, DivMod
  <2>3. acc + Abs(0) = acc /\ Sign(0) = 1
    BY <2>1 DEF Abs, Sign
  <2> QED BY <2>2, <2>3 DEF Moved
<1>7. MoveInv
  BY <1>6 DEF LoopInit, MoveInv
<1> QED
  BY <1>4, <1>5, <1>7 DEF LoopInv

\* Every step keeps LoopInv.
LEMMA LoopStep == LoopInv /\ [LoopNext]_loopVars => LoopInv'
<1> SUFFICES ASSUME LoopInv, LoopNext PROVE LoopInv'
  <2>1. LoopInv /\ UNCHANGED loopVars => LoopInv'
    BY DEF LoopInv, LoopTypeOK, Allowed, OffInv, RateInv, MoveInv, Moved, loopVars
  <2> QED BY <2>1
<1>0. LoopTypeOK /\ OffInv /\ RateInv /\ MoveInv
  BY DEF LoopInv
<1>1. LoopUpdate /\ (Move \/ Rest)
  BY DEF LoopNext
<1>2. /\ Increment \in Allowed /\ Increment \in Int
      /\ Abs(Increment) < RATE_MAX
      /\ maxaccel > 0 /\ Increment # 0
             => Abs(Increment - recent.last) <= maxaccel
  BY <1>0, IncrementIs
<1>3. /\ recent' = [last |-> Increment, before |-> recent.last]
      /\ Moved(pos, acc, Increment, pos', acc')
      /\ counts' = stat /\ stat' = pos /\ old_cmd' = cmd /\ was_enabled' = enable
      /\ maxvel' = maxvel /\ maxaccel' = maxaccel
  BY <1>1 DEF LoopUpdate, Moved
<1> HIDE DEF LoopNext
<1>4. Allowed' = Allowed
  BY <1>3 DEF Allowed
<1>5. pos' \in Int /\ acc' \in 0 .. UNIT - 1
  BY <1>0, <1>2, <1>3, MovedExactly DEF LoopTypeOK
<1>6. /\ cmd' \in -TRAVEL .. TRAVEL /\ enable' \in BOOLEAN
      /\ rest' \in 0 .. SETTLE
  <2>1. CASE Move
    BY <1>0, <2>1 DEF Move, LoopTypeOK
  <2>2. CASE Rest
    BY <1>0, <2>2, PositionLoopAssumption DEF Rest, LoopTypeOK
  <2> QED BY <1>1, <2>1, <2>2
<1>7. LoopTypeOK'
  <2>1. recent' \in [last : Allowed', before : Allowed']
    BY <1>0, <1>2, <1>3, <1>4 DEF LoopTypeOK
  <2> QED
    BY <1>0, <1>3, <1>5, <1>6, <2>1 DEF LoopTypeOK
<1>8. OffInv'
  BY <1>3 DEF OffInv, Increment
<1>9. RateInv'
  BY <1>2, <1>3 DEF RateInv
<1>10. MoveInv'
  <2>1. PICK a0, a1 \in 0 .. UNIT - 1 :
           /\ Moved(counts, a0, recent.before, stat, a1)
           /\ Moved(stat, a1, recent.last, pos, acc)
    BY <1>0 DEF MoveInv
  <2>2. Moved(counts', a1, recent'.before, stat', acc)
    BY <1>3, <2>1
  <2>3. Moved(stat', acc, recent'.last, pos', acc')
    BY <1>3
  <2>4. acc \in 0 .. UNIT - 1
    BY <1>0 DEF LoopTypeOK
  <2>5. \E b0, b1 \in 0 .. UNIT - 1 :
           /\ Moved(counts', b0, recent'.before, stat', b1)
           /\ Moved(stat', b1, recent'.last, pos', acc')
    BY <2>2, <2>3, <2>4
  <2> QED BY <2>5 DEF MoveInv, Moved
<1> QED
  BY <1>7, <1>8, <1>9, <1>10 DEF LoopInv

\* Two moves later the counts are off by the fractions of the accumulator only.
LEMMA EstimateIsClose == LoopInv => EstimateWithinStep
<1> SUFFICES ASSUME LoopInv PROVE EstimateWithinStep
  OBVIOUS
<1> DEFINE b == recent.before
           l == recent.last
<1>0. /\ UNIT \in Nat /\ UNIT > 0 /\ maxaccel \in Nat /\ maxvel \in Nat
      /\ counts \in Int /\ stat \in Int /\ acc \in 0 .. UNIT - 1
  BY PositionLoopAssumption DEF LoopInv, LoopTypeOK
<1>1. b \in Int /\ l \in Int
  <2>1. Allowed \subseteq Int
    BY <1>0, PositionLoopAssumption DEF Allowed
  <2> QED BY <2>1 DEF LoopInv, LoopTypeOK
<1>2. maxaccel > 0 /\ l # 0 => Abs(l - b) <= maxaccel
  BY DEF LoopInv, RateInv
<1>3. PICK a0, a1 \in 0 .. UNIT - 1 :
          Moved(counts, a0, b, stat, a1) /\ Moved(stat, a1, l, pos, acc)
  BY DEF LoopInv, MoveInv
<1> HIDE DEF b, l
<1> DEFINE C == counts * UNIT
           S == stat * UNIT
           P == pos * UNIT
<1>4. /\ b >= 0 => S = C + b + a0 - a1
      /\ b <= 0 => S = C + b - a0 + a1
      /\ b = 0 => a1 = a0
      /\ Abs(b) < UNIT => a1 = a0 + Abs(b) \/ a1 = a0 + Abs(b) - UNIT
  BY <1>0, <1>1, <1>3, MovedExactly
<1>5. /\ pos \in Int
      /\ l >= 0 => P = S + l + a1 - acc
      /\ l <= 0 => P = S + l - a1 + acc
      /\ l = 0 => acc = a1
      /\ Abs(l) < UNIT => acc = a1 + Abs(l) \/ acc = a1 + Abs(l) - UNIT
  BY <1>0, <1>1, <1>3, MovedExactly
<1>6. Est = C + b + l
  BY DEF Est, b, l
<1>7. C \in Int /\ S \in Int /\ P \in Int
  BY <1>0, <1>5
<1> HIDE DEF C, S, P
<1>8. Abs(Est - P) < 2 * UNIT
  BY <1>0, <1>1, <1>3, <1>4, <1>5, <1>6, <1>7 DEF Abs
<1>9. ASSUME 0 < maxaccel, maxaccel < UNIT
      PROVE  Abs(Est - P) < UNIT + maxaccel
  <2>1. CASE (b >= 0 /\ l >= 0) \/ (b <= 0 /\ l <= 0)
    BY <1>0, <1>1, <1>3, <1>4, <1>5, <1>6, <1>7, <1>9, <2>1 DEF Abs
  <2>2. CASE b > 0 /\ l < 0
    BY <1>0, <1>1, <1>2, <1>3, <1>4, <1>5, <1>6, <1>7, <1>9, <2>2 DEF Abs
  <2>3. CASE b < 0 /\ l > 0
    BY <1>0, <1>1, <1>2, <1>3, <1>4, <1>5, <1>6, <1>7, <1>9, <2>3 DEF Abs
  <2> QED BY <1>1, <2>1, <2>2, <2>3
<1>10. CASE 0 < maxaccel /\ maxaccel < UNIT
  BY <1>9, <1>10 DEF EstimateWithinStep, P
<1>11. CASE ~(0 < maxaccel /\ maxaccel < UNIT)
  <2>1. Abs(Est - P) < UNIT + UNIT
    BY <1>0, <1>8
  <2> QED BY <1>11, <2>1 DEF EstimateWithinStep, P
<1> QED
  BY <1>10, <1>11

LEMMA LoopInvariance == LoopSpec => []LoopInv
  BY LoopInitInv, LoopStep, PTL DEF LoopSpec

\* The loop's variables keep their types: no increment beyond the velocity limit
\* of `unoq.maxvel` or the saturation of the 32-bit increment, for any UNIT.
THEOREM LoopTypeCorrect == LoopSpec => []LoopTypeOK
<1>1. LoopInv => LoopTypeOK
  BY DEF LoopInv
<1> QED BY LoopInvariance, <1>1, PTL

\* Counts two commands old and the two velocities sent since tell the host where
\* the motor is to less than a step and the velocity's change of a period, at most
\* a step, although the accumulator's fraction changes sides with the direction.
THEOREM EstimateWithinStepHolds == LoopSpec => []EstimateWithinStep
  BY LoopInvariance, EstimateIsClose, PTL

\* The period after a joint is enabled moves it towards its command or not at all,
\* wherever the command went while the joint was off: old_cmd is no feed then.
THEOREM StartsTowardsHolds == LoopSpec => StartsTowards
<1>1. LoopInv /\ [LoopNext]_loopVars
          => [~was_enabled => recent'.last * (cmd - Est) >= 0]_loopVars
  <2> SUFFICES ASSUME LoopInv, LoopNext, ~was_enabled
               PROVE  recent'.last * (cmd - Est) >= 0
    OBVIOUS
  <2>1. Increment * (cmd - Est) >= 0
    BY StartIs DEF LoopInv
  <2>2. recent'.last = Increment
    BY DEF LoopNext, LoopUpdate
  <2> QED BY <2>1, <2>2
<1> QED BY LoopInvariance, <1>1, PTL DEF LoopSpec, StartsTowards

\* At rest the estimate is the motor's position: two commands of 0 left the
\* accumulator alone.
LEMMA RestIsKnown ==
    ASSUME LoopInv, recent.last = 0, recent.before = 0
    PROVE  Est = pos * UNIT
<1>0. /\ UNIT \in Nat /\ counts \in Int /\ stat \in Int /\ pos \in Int
      /\ acc \in 0 .. UNIT - 1
  BY PositionLoopAssumption DEF LoopInv, LoopTypeOK
<1>1. PICK a0, a1 \in 0 .. UNIT - 1 :
          Moved(counts, a0, 0, stat, a1) /\ Moved(stat, a1, 0, pos, acc)
  BY DEF LoopInv, MoveInv
<1>2. stat * UNIT = counts * UNIT + 0 + a0 - a1 /\ a1 = a0
  BY <1>0, <1>1, MovedExactly
<1>3. pos * UNIT = stat * UNIT + 0 + a1 - acc /\ acc = a1
  BY <1>0, <1>1, MovedExactly
<1>4. stat * UNIT = counts * UNIT /\ pos * UNIT = stat * UNIT
  BY <1>0, <1>2, <1>3
<1> QED BY <1>0, <1>4 DEF Est

\* At rest on a target the loop accepts: no velocity, no feed, the error within
\* the deadband.
Stopped ==
    /\ recent = [last |-> 0, before |-> 0] /\ Feed = 0
    /\ Abs(cmd - pos * UNIT) <= DEADBAND

\* The half of Settles that needs no bound: a motor at rest on its target does
\* not move again before the command does, so it never dithers between the
\* neighbouring steps of a target between them.
THEOREM RestIsFinal ==
    LoopSpec => [][Stopped /\ cmd' = cmd => Stopped' /\ pos' = pos]_loopVars
<1>1. LoopInv /\ [LoopNext]_loopVars
          => [Stopped /\ cmd' = cmd => Stopped' /\ pos' = pos]_loopVars
  <2> SUFFICES ASSUME LoopInv, LoopNext, Stopped, cmd' = cmd
               PROVE  Stopped' /\ pos' = pos
    OBVIOUS
  <2>0. /\ UNIT \in Nat /\ UNIT > 0 /\ RATE_MAX \in Nat /\ RATE_MAX > 1
        /\ cmd \in Int /\ counts \in Int /\ stat \in Int /\ acc \in 0 .. UNIT - 1
        /\ maxvel \in Nat /\ maxaccel \in Nat /\ DEADBAND \in Nat
    BY PositionLoopAssumption DEF LoopInv, LoopTypeOK
  <2>1. recent.last = 0 /\ recent.before = 0
    BY DEF Stopped
  <2>2. Est = pos * UNIT
    BY <2>1, RestIsKnown
  <2>3. Feed = 0 /\ Err = 0
    BY <2>2 DEF Stopped, Err
  <2>4. Increment = 0
    <3>1. Wanted = 0
      BY <2>3, <2>0 DEF Wanted, Limited, Abs
    <3>2. Ramped = 0
      BY <3>1, <2>1, <2>0 DEF Ramped, Limited, Abs
    <3>3. HalfToEven(0) = 0
      BY HalfToEvenIs
    <3>4. Limited(0, 2 * RATE_MAX) = 0 /\ Limited(0, RATE_MAX - 1) = 0
      BY <2>0 DEF Limited, Abs
    <3> QED BY <3>2, <3>3, <3>4 DEF Increment
  <2>5. /\ recent' = [last |-> 0, before |-> 0]
        /\ Moved(pos, acc, 0, pos', acc') /\ old_cmd' = cmd
    BY <2>1, <2>4 DEF LoopNext, LoopUpdate, Moved
  <2>6. pos' = pos
    <3>1. acc \in Nat /\ acc < UNIT
      BY <2>0
    <3>2. acc \div UNIT = 0 /\ acc + Abs(0) = acc /\ Sign(0) = 1 /\ pos \in Int
      BY <3>1, DivMod DEF Abs, Sign, LoopInv, LoopTypeOK
    <3> QED BY <2>5, <3>2 DEF Moved
  <2>7. Feed' = 0
    BY <2>0, <2>5 DEF Feed
  <2> QED BY <2>5, <2>6, <2>7 DEF Stopped
<1> QED BY LoopInvariance, <1>1, PTL DEF LoopSpec

\* A velocity a limit lets through is not taken to 0 by it.
LEMMA LimitedFar ==
    ASSUME NEW x \in Int, NEW limit \in Nat, NEW least \in Nat, least > 0,
           Abs(x) >= least, limit = 0 \/ limit >= least
    PROVE  Limited(x, limit) \in Int /\ Abs(Limited(x, limit)) >= least
  BY DEF Limited, Abs, Sign

\* The other half: under a resting command an enabled motor stays where it is only
\* on its target.  No limit, no rounding of the increment and no fraction in the
\* accumulator stops it anywhere else.
THEOREM RestsOnTargetOnly ==
    LoopSpec => [][recent = [last |-> 0, before |-> 0] /\ enable /\ Feed = 0
                       /\ recent'.last = 0
                   => Abs(cmd - pos * UNIT) <= DEADBAND]_loopVars
<1>1. LoopInv /\ [LoopNext]_loopVars
          => [recent = [last |-> 0, before |-> 0] /\ enable /\ Feed = 0
                  /\ recent'.last = 0
              => Abs(cmd - pos * UNIT) <= DEADBAND]_loopVars
  <2> SUFFICES ASSUME LoopInv, LoopNext, recent = [last |-> 0, before |-> 0], enable,
                      Feed = 0, ~(Abs(cmd - pos * UNIT) <= DEADBAND)
               PROVE  recent'.last # 0
    OBVIOUS
  <2>0. /\ UNIT \in Nat /\ UNIT > 0 /\ RATE_MAX \in Nat /\ RATE_MAX > 1
        /\ cmd \in Int /\ pos \in Int
        /\ maxvel \in Nat /\ maxaccel \in Nat /\ DEADBAND \in Nat
        /\ 2 * DEADBAND >= UNIT
    BY PositionLoopAssumption DEF LoopInv, LoopTypeOK
  <2>1. recent.last = 0 /\ recent.before = 0
    OBVIOUS
  <2>2. Est = pos * UNIT
    BY <2>1, RestIsKnown
  <2> DEFINE e == cmd - pos * UNIT
  <2>3. e \in Int /\ Abs(e) >= 2
    BY <2>0 DEF Abs
  <2>4. Err = e
    BY <2>2 DEF Err
  <2> HIDE DEF e
  <2>5. 2 * maxvel \in Nat /\ (2 * maxvel = 0 \/ 2 * maxvel >= 2)
    BY <2>0
  <2>6. 2 * maxaccel \in Nat /\ (2 * maxaccel = 0 \/ 2 * maxaccel >= 2)
    BY <2>0
  <2>7. 2 * RATE_MAX \in Nat /\ 2 * RATE_MAX >= 2
    BY <2>0
  <2>8. RATE_MAX - 1 \in Nat /\ RATE_MAX - 1 >= 1
    BY <2>0
  <2>9. Wanted \in Int /\ Abs(Wanted) >= 2
    <3>1. Wanted = Limited(e, 2 * maxvel)
      BY <2>3, <2>4 DEF Wanted
    <3> QED BY <2>3, <2>5, <3>1, LimitedFar
  <2>10. Ramped \in Int /\ Abs(Ramped) >= 2
    <3>1. Limited(Wanted, 2 * maxaccel) \in Int /\ Abs(Limited(Wanted, 2 * maxaccel)) >= 2
      BY <2>6, <2>9, LimitedFar
    <3>2. Ramped = Limited(Wanted, 2 * maxaccel)
      BY <2>1, <2>9, <3>1 DEF Ramped
    <3> QED BY <3>1, <3>2
  <2> DEFINE h == Limited(Ramped, 2 * RATE_MAX)
  <2>11. h \in Int /\ Abs(h) >= 2
    BY <2>7, <2>10, LimitedFar
  <2> HIDE DEF h
  <2>12. HalfToEven(h) \in Int /\ Abs(HalfToEven(h)) >= 1
    <3>1. HalfToEven(h) \in Int /\ h - 1 <= 2 * HalfToEven(h) /\ 2 * HalfToEven(h) <= h + 1
      BY <2>11, HalfToEvenIs
    <3> QED BY <2>11, <3>1 DEF Abs
  <2>13. Abs(Limited(HalfToEven(h), RATE_MAX - 1)) >= 1
    BY <2>8, <2>12, LimitedFar
  <2>14. Increment # 0
    <3>1. Increment = Limited(HalfToEven(h), RATE_MAX - 1)
      BY DEF Increment, h
    <3>2. Abs(0) = 0
      BY DEF Abs
    <3> QED BY <2>13, <3>1, <3>2
  <2> QED
    BY <2>14 DEF LoopNext, LoopUpdate
<1> QED BY LoopInvariance, <1>1, PTL DEF LoopSpec

\* The fastest the joint may go, and how far the host believes the motor to be from
\* its command.
TopSpeed == IF 0 < maxvel /\ maxvel < RATE_MAX THEN maxvel ELSE RATE_MAX - 1
OffTarget == Abs(cmd - Est)

\* Without an acceleration limit a resting command is approached at half the error a
\* period, rounded, or at full speed.
LEMMA SpeedIs ==
    ASSUME LoopTypeOK, enable, Feed = 0, maxaccel = 0, Err # 0
    PROVE  /\ Increment \in Int
           /\ OffTarget <= 2 * TopSpeed =>
                  cmd - Est - 1 <= 2 * Increment /\ 2 * Increment <= cmd - Est + 1
           /\ cmd - Est > 2 * TopSpeed => Increment = TopSpeed
           /\ cmd - Est < -(2 * TopSpeed) => Increment = -TopSpeed
<1> DEFINE d == cmd - Est
           old == recent.last
<1>0. /\ maxvel \in Nat /\ RATE_MAX \in Nat /\ RATE_MAX > 1 /\ UNIT \in Nat
      /\ cmd \in Int /\ counts \in Int
  BY PositionLoopAssumption DEF LoopTypeOK
<1>1. old \in Int /\ recent.before \in Int
  <2>1. Allowed \subseteq Int
    BY <1>0 DEF Allowed
  <2> QED BY <2>1 DEF LoopTypeOK
<1>2. d \in Int /\ Err = d
  BY <1>0, <1>1 DEF Err, Est
<1> HIDE DEF d, old
<1>3. Wanted = Limited(d, 2 * maxvel) /\ Wanted \in Int
  <2>1. Wanted = Limited(d, 2 * maxvel)
    BY <1>2 DEF Wanted
  <2> QED BY <1>0, <1>2, <2>1, LimitedIs
<1>4. Ramped = Wanted
  BY <1>1, <1>3 DEF Ramped, Limited, old
<1> DEFINE h == Limited(Wanted, 2 * RATE_MAX)
           r == HalfToEven(h)
<1>5. h \in Int /\ Increment = Limited(r, RATE_MAX - 1)
  <2>1. h \in Int
    BY <1>0, <1>3, LimitedIs
  <2> QED BY <1>4, <2>1 DEF Increment
<1>6. /\ Abs(d) <= 2 * TopSpeed => h = d
      /\ d > 2 * TopSpeed => h >= 2 * TopSpeed
      /\ d < -(2 * TopSpeed) => h <= -(2 * TopSpeed)
      /\ TopSpeed \in Nat /\ TopSpeed < RATE_MAX
      /\ TopSpeed < RATE_MAX - 1 => -(2 * TopSpeed) <= h /\ h <= 2 * TopSpeed
  BY <1>0, <1>2, <1>3 DEF Limited, Abs, Sign, TopSpeed
<1> HIDE DEF h
<1>7. /\ r \in Int /\ h - 1 <= 2 * r /\ 2 * r <= h + 1
      /\ h >= 2 * TopSpeed => r >= TopSpeed
      /\ h <= 2 * TopSpeed => r <= TopSpeed
      /\ h <= 2 * (-TopSpeed) => r <= -TopSpeed
      /\ h >= 2 * (-TopSpeed) => r >= -TopSpeed
  <2>1. /\ HalfToEven(h) \in Int
        /\ h - 1 <= 2 * HalfToEven(h) /\ 2 * HalfToEven(h) <= h + 1
        /\ \A m \in Int : 2 * m <= h => m <= HalfToEven(h)
        /\ \A m \in Int : h <= 2 * m => HalfToEven(h) <= m
    BY <1>5, HalfToEvenIs, Zenon
  <2>2. TopSpeed \in Int /\ -TopSpeed \in Int
    BY <1>6
  <2> QED BY <2>1, <2>2
<1> HIDE DEF r
<1>8. Limited(r, RATE_MAX - 1) \in Int
  BY <1>0, <1>7, LimitedIs
<1>9. ASSUME Abs(d) <= 2 * TopSpeed
      PROVE  d - 1 <= 2 * Increment /\ 2 * Increment <= d + 1
  <2>1. h = d /\ -TopSpeed <= r /\ r <= TopSpeed
    BY <1>2, <1>6, <1>7, <1>9 DEF Abs
  <2>2. Limited(r, RATE_MAX - 1) = r
    BY <1>0, <1>6, <1>7, <2>1 DEF Limited, Abs
  <2> QED BY <1>5, <1>7, <2>1, <2>2
<1>10. ASSUME d > 2 * TopSpeed PROVE Increment = TopSpeed
  BY <1>0, <1>5, <1>6, <1>7, <1>10 DEF Limited, Abs, Sign, TopSpeed
<1>11. ASSUME d < -(2 * TopSpeed) PROVE Increment = -TopSpeed
  BY <1>0, <1>5, <1>6, <1>7, <1>11 DEF Limited, Abs, Sign, TopSpeed
<1> QED
  BY <1>5, <1>8, <1>9, <1>10, <1>11 DEF OffTarget, d

\* How fast the loop comes near its target without an acceleration limit (the
\* component's default): each period of a resting command takes off half of the
\* error, or what the top speed can do, up to the step the counts may be off by.
\* Only the end of Settles, within about two steps of the target, is beyond it.
THEOREM Approaches ==
    LoopSpec =>
        [][enable /\ Feed = 0 /\ maxaccel = 0 /\ Err # 0 /\ cmd' = cmd
           => /\ OffTarget <= 2 * TopSpeed => 2 * OffTarget' < OffTarget + 2 * UNIT
              /\ OffTarget > 2 * TopSpeed => OffTarget' < OffTarget - TopSpeed + UNIT
          ]_loopVars
<1>1. ASSUME LoopInv, LoopNext, enable, Feed = 0, maxaccel = 0, Err # 0, cmd' = cmd
      PROVE  /\ OffTarget <= 2 * TopSpeed => 2 * OffTarget' < OffTarget + 2 * UNIT
             /\ OffTarget > 2 * TopSpeed => OffTarget' < OffTarget - TopSpeed + UNIT
  <2>0. /\ UNIT \in Nat /\ UNIT > 0 /\ counts \in Int /\ stat \in Int /\ cmd \in Int
        /\ maxvel \in Nat /\ RATE_MAX \in Nat /\ RATE_MAX > 1 /\ LoopTypeOK
    BY <1>1, PositionLoopAssumption DEF LoopInv, LoopTypeOK
  <2> DEFINE b == recent.before
             l == recent.last
             v == Increment
             C == counts * UNIT
             S == stat * UNIT
             d == cmd - Est
  <2>1. b \in Int /\ l \in Int
    <3>1. Allowed \subseteq Int
      BY <2>0 DEF Allowed
    <3> QED BY <2>0, <3>1 DEF LoopTypeOK
  <2>2. /\ v \in Int
        /\ Abs(d) <= 2 * TopSpeed => d - 1 <= 2 * v /\ 2 * v <= d + 1
        /\ d > 2 * TopSpeed => v = TopSpeed
        /\ d < -(2 * TopSpeed) => v = -TopSpeed
    BY <1>1, <2>0, SpeedIs DEF OffTarget
  <2>3. /\ Est = C + b + l /\ (cmd - Est)' = cmd - (S + l + v)
        /\ OffTarget = Abs(d) /\ OffTarget' = Abs((cmd - Est)')
    BY <1>1 DEF Est, LoopNext, LoopUpdate, OffTarget, Abs
  <2>4. PICK a0, a1 \in 0 .. UNIT - 1 : Moved(counts, a0, b, stat, a1)
    BY <1>1 DEF LoopInv, MoveInv
  <2> HIDE DEF b, l, v
  <2>5. /\ b >= 0 => S = C + b + a0 - a1
        /\ b <= 0 => S = C + b - a0 + a1
    BY <2>0, <2>1, <2>4, MovedExactly
  <2>6. C \in Int /\ S \in Int /\ TopSpeed \in Nat
    BY <2>0 DEF TopSpeed
  <2> HIDE DEF C, S
  <2>7. d \in Int /\ d = cmd - (C + b + l)
    BY <2>0, <2>1, <2>3, <2>6
  <2> DEFINE e == (cmd - Est)'
  <2>8. /\ e \in Int
        /\ d - v - UNIT < e /\ e < d - v + UNIT
    BY <2>0, <2>1, <2>2, <2>3, <2>4, <2>5, <2>6, <2>7
  <2> HIDE DEF d, e
  <2>9. Abs(d) <= 2 * TopSpeed => 2 * Abs(e) < Abs(d) + 2 * UNIT
    BY <2>0, <2>2, <2>6, <2>7, <2>8 DEF Abs
  <2>10. Abs(d) > 2 * TopSpeed => Abs(e) < Abs(d) - TopSpeed + UNIT
    BY <2>0, <2>2, <2>6, <2>7, <2>8 DEF Abs
  <2> QED BY <2>3, <2>9, <2>10 DEF e
<1> QED BY LoopInvariance, <1>1, PTL DEF LoopSpec

-----------------------------------------------------------------------------
(* The estimate.  Its sum is a recursive function, so its laws are proved    *)
(* by induction on the age.                                                 *)

\* Pairs of naturals in order: what the induction descends along.
Below == {pair \in Nat \X Nat : pair[1] < pair[2]}

\* Induction on the naturals, for a set instead of a predicate.
LEMMA SetInduction ==
    ASSUME NEW S, 0 \in S, \A k \in Nat : k \in S => k + 1 \in S
    PROVE  Nat \subseteq S
<1> SUFFICES ASSUME Nat \ S # {} PROVE FALSE
  OBVIOUS
<1>1. IsWellFoundedOn(Below, Nat)
  BY NatLessThanWellFounded DEF OpToRel, Below
<1>2. PICK x \in Nat \ S : \A y \in Nat \ S : ~ (<<y, x>> \in Below)
  BY <1>1, WFMin
<1>3. x \in Nat /\ x # 0 /\ x - 1 \in Nat /\ (x - 1) + 1 = x
  BY <1>2
<1>4. x - 1 \notin S
  BY <1>2, <1>3
<1>5. <<x - 1, x>> \in Below
  <2> DEFINE pair == <<x - 1, x>>
  <2>1. pair \in Nat \X Nat /\ pair[1] = x - 1 /\ pair[2] = x
    BY <1>3
  <2> HIDE DEF pair
  <2>2. pair[1] < pair[2]
    BY <1>3, <2>1
  <2>3. pair \in Below
    BY <2>1, <2>2 DEF Below
  <2> QED BY <2>3 DEF pair
<1> QED
  BY <1>2, <1>3, <1>4, <1>5

Rings == [0 .. MAX_FB_AGE - 1 -> Int]

\* sum adds r up to each age.
Adds(sum, r, last) ==
    sum = [a \in 0 .. last |-> r[a] + (IF a = 0 THEN 0 ELSE sum[a - 1])]

LEMMA SumsExist ==
    ASSUME NEW r \in Rings
    PROVE  \A k \in Nat : k < MAX_FB_AGE =>
               \E sum \in [0 .. k -> Int] : Adds(sum, r, k)
<1> DEFINE S == {k \in Nat : k < MAX_FB_AGE =>
                     \E sum \in [0 .. k -> Int] : Adds(sum, r, k)}
<1>0. MAX_FB_AGE \in Nat /\ MAX_FB_AGE > 0
  BY EstimatorAssumption
<1>1. 0 \in S
  <2> DEFINE sum == [a \in 0 .. 0 |-> r[a]]
  <2>1. sum \in [0 .. 0 -> Int]
    BY <1>0 DEF Rings
  <2>2. Adds(sum, r, 0)
    <3>1. \A a \in 0 .. 0 : a = 0 /\ sum[a] = r[a] /\ r[a] \in Int
      BY <1>0 DEF Rings
    <3>2. \A a \in 0 .. 0 : sum[a] = r[a] + (IF a = 0 THEN 0 ELSE sum[a - 1])
      BY <3>1
    <3> QED BY <3>2 DEF Adds
  <2> QED BY <2>1, <2>2
<1>2. ASSUME NEW k \in Nat, k \in S PROVE k + 1 \in S
  <2> SUFFICES ASSUME k + 1 < MAX_FB_AGE
               PROVE  \E sum \in [0 .. k + 1 -> Int] : Adds(sum, r, k + 1)
    OBVIOUS
  <2>1. PICK s \in [0 .. k -> Int] : Adds(s, r, k)
    BY <1>0, <1>2
  <2> DEFINE sum == [a \in 0 .. k + 1 |->
                        IF a = k + 1 THEN r[a] + s[k] ELSE s[a]]
  <2>2. \A a \in 0 .. k + 1 : r[a] \in Int
    BY <1>0 DEF Rings
  <2>3. sum \in [0 .. k + 1 -> Int]
    BY <2>2
  <2>4. \A a \in 0 .. k : s[a] = r[a] + (IF a = 0 THEN 0 ELSE s[a - 1])
    BY <2>1 DEF Adds
  <2>5. \A a \in 0 .. k + 1 : sum[a] = r[a] + (IF a = 0 THEN 0 ELSE sum[a - 1])
    <3> TAKE a \in 0 .. k + 1
    <3>1. CASE a = k + 1
      BY <3>1
    <3>2. CASE a # k + 1
      <4>1. a \in 0 .. k /\ (a # 0 => a - 1 \in 0 .. k)
        BY <3>2
      <4>2. sum[a] = s[a] /\ (a # 0 => sum[a - 1] = s[a - 1])
        BY <4>1
      <4> QED BY <4>1, <4>2, <2>4
    <3> QED BY <3>1, <3>2
  <2>6. Adds(sum, r, k + 1)
    BY <2>5 DEF Adds
  <2> QED BY <2>3, <2>6
<1> HIDE DEF S
<1>3. Nat \subseteq S
  BY <1>1, <1>2, SetInduction
<1> QED BY <1>3 DEF S

\* The recursion of Travel.
LEMMA TravelIs ==
    ASSUME NEW v \in Rings, NEW dur \in Rings
    PROVE  /\ Travel(v, dur) \in Rings
           /\ \A a \in 0 .. MAX_FB_AGE - 1 :
                  Travel(v, dur)[a] = v[a] * dur[a]
                      + (IF a = 0 THEN 0 ELSE Travel(v, dur)[a - 1])
<1> DEFINE r == [a \in 0 .. MAX_FB_AGE - 1 |-> v[a] * dur[a]]
           Is(sum) == sum = [a \in 0 .. MAX_FB_AGE - 1 |->
                                v[a] * dur[a] + (IF a = 0 THEN 0 ELSE sum[a - 1])]
<1>0. MAX_FB_AGE \in Nat /\ MAX_FB_AGE > 0
  BY EstimatorAssumption
<1>1. r \in Rings
  BY <1>0 DEF Rings
<1>2. PICK sum \in Rings : Adds(sum, r, MAX_FB_AGE - 1)
  <2>1. MAX_FB_AGE - 1 \in Nat /\ MAX_FB_AGE - 1 < MAX_FB_AGE
    BY <1>0
  <2> QED BY <1>1, <2>1, SumsExist DEF Rings
<1>3. Is(sum)
  BY <1>2 DEF Adds
<1>4. Travel(v, dur) = CHOOSE s : Is(s)
  BY DEF Travel
<1>5. Is(Travel(v, dur))
  BY <1>3, <1>4
<1> DEFINE t == Travel(v, dur)
<1> HIDE DEF t
<1>6. \A a \in 0 .. MAX_FB_AGE - 1 :
          t[a] = v[a] * dur[a] + (IF a = 0 THEN 0 ELSE t[a - 1])
  BY <1>5 DEF t
<1>7. t \in Rings
  <2> DEFINE S == {k \in Nat : k < MAX_FB_AGE => t[k] \in Int}
  <2>1. 0 \in S
    BY <1>0, <1>6 DEF Rings
  <2>2. ASSUME NEW k \in Nat, k \in S PROVE k + 1 \in S
    <3> SUFFICES ASSUME k + 1 < MAX_FB_AGE PROVE t[k + 1] \in Int
      OBVIOUS
    <3>1. k + 1 \in 0 .. MAX_FB_AGE - 1 /\ k + 1 # 0 /\ (k + 1) - 1 = k
      BY <1>0
    <3>2. t[k + 1] = v[k + 1] * dur[k + 1] + t[k]
      BY <3>1, <1>6
    <3>3. v[k + 1] \in Int /\ dur[k + 1] \in Int /\ t[k] \in Int
      BY <1>0, <2>2, <3>1 DEF Rings
    <3> QED BY <3>2, <3>3
  <2> HIDE DEF S
  <2>3. Nat \subseteq S
    BY <2>1, <2>2, SetInduction
  <2>4. \A a \in 0 .. MAX_FB_AGE - 1 : t[a] \in Int
    BY <1>0, <2>3 DEF S
  <2>5. t = [a \in 0 .. MAX_FB_AGE - 1 |-> t[a]]
    BY <1>5 DEF t
  <2> QED BY <2>4, <2>5 DEF Rings
<1> QED
  BY <1>6, <1>7 DEF t

\* w holds the entries of v up to age e, each one command older.
Follows(w, v, e) == \A a \in 1 .. e + 1 : w[a] = v[a - 1]

\* A ring that moved on by one command: the new command's movement is added.
LEMMA TravelPushed ==
    ASSUME NEW v \in Rings, NEW dur \in Rings, NEW w \in Rings, NEW pers \in Rings,
           NEW e \in Nat, e + 1 < MAX_FB_AGE,
           Follows(w, v, e), Follows(pers, dur, e)
    PROVE  Travel(w, pers)[e + 1] = w[0] * pers[0] + Travel(v, dur)[e]
<1> DEFINE s == Travel(v, dur)
           t == Travel(w, pers)
           S == {k \in Nat : k <= e => t[k + 1] = w[0] * pers[0] + s[k]}
<1>0. MAX_FB_AGE \in Nat /\ MAX_FB_AGE > 0
  BY EstimatorAssumption
<1>1. /\ \A a \in 0 .. MAX_FB_AGE - 1 :
             s[a] = v[a] * dur[a] + (IF a = 0 THEN 0 ELSE s[a - 1])
      /\ s \in Rings
  BY TravelIs
<1>2. /\ \A a \in 0 .. MAX_FB_AGE - 1 :
             t[a] = w[a] * pers[a] + (IF a = 0 THEN 0 ELSE t[a - 1])
      /\ t \in Rings
  BY TravelIs
<1> HIDE DEF s, t
<1>3. 0 \in S
  <2>1. 0 \in 0 .. MAX_FB_AGE - 1 /\ 1 \in 0 .. MAX_FB_AGE - 1 /\ 1 \in 1 .. e + 1
    BY <1>0
  <2>2. s[0] = v[0] * dur[0] + 0 /\ t[0] = w[0] * pers[0] + 0
    BY <1>1, <1>2, <2>1
  <2>3. t[1] = w[1] * pers[1] + t[0]
    BY <1>2, <2>1
  <2>4. w[1] = v[0] /\ pers[1] = dur[0]
    BY <2>1 DEF Follows
  <2>5. {v[0], dur[0], w[0], pers[0]} \subseteq Int
    BY <2>1 DEF Rings
  <2>6. v[0] * dur[0] \in Int /\ w[0] * pers[0] \in Int
    BY <2>5
  <2>7. t[0 + 1] = w[0] * pers[0] + s[0]
    BY <2>2, <2>3, <2>4, <2>6
  <2> QED BY <2>7
<1>4. ASSUME NEW k \in Nat, k \in S PROVE k + 1 \in S
  <2> SUFFICES ASSUME k + 1 <= e
               PROVE  t[(k + 1) + 1] = w[0] * pers[0] + s[k + 1]
    OBVIOUS
  <2>1. /\ k + 1 \in 0 .. MAX_FB_AGE - 1 /\ k + 1 # 0 /\ (k + 1) - 1 = k
        /\ k + 2 \in 0 .. MAX_FB_AGE - 1 /\ k + 2 # 0 /\ (k + 2) - 1 = k + 1
        /\ k + 2 \in 1 .. e + 1 /\ k \in 0 .. MAX_FB_AGE - 1
        /\ 0 \in 0 .. MAX_FB_AGE - 1
    BY <1>0
  <2>2. s[k + 1] = v[k + 1] * dur[k + 1] + s[k]
    BY <1>1, <2>1
  <2>3. t[k + 2] = w[k + 2] * pers[k + 2] + t[k + 1]
    BY <1>2, <2>1
  <2>4. w[k + 2] = v[k + 1] /\ pers[k + 2] = dur[k + 1]
    BY <2>1 DEF Follows
  <2>5. t[k + 1] = w[0] * pers[0] + s[k]
    BY <1>4, <2>1
  <2>6. {v[k + 1], dur[k + 1], w[0], pers[0], s[k]} \subseteq Int
    BY <1>1, <2>1 DEF Rings
  <2>7. v[k + 1] * dur[k + 1] \in Int /\ w[0] * pers[0] \in Int
    BY <2>6
  <2>8. t[k + 2] = w[0] * pers[0] + s[k + 1]
    BY <2>2, <2>3, <2>4, <2>5, <2>6, <2>7
  <2> QED BY <2>8
<1>5. Nat \subseteq S
  <2> HIDE DEF S
  <2> QED BY <1>3, <1>4, SetInduction
<1>6. t[e + 1] = w[0] * pers[0] + s[e]
  BY <1>5
<1> QED
  BY <1>6 DEF s, t

\* The newest command taken for another number of periods.
LEMMA TravelCharged ==
    ASSUME NEW v \in Rings, NEW dur \in Rings, NEW pers \in Rings,
           \A a \in 1 .. MAX_FB_AGE - 1 : pers[a] = dur[a],
           NEW e \in Nat, e < MAX_FB_AGE
    PROVE  Travel(v, pers)[e] = Travel(v, dur)[e] + v[0] * pers[0] - v[0] * dur[0]
<1> DEFINE s == Travel(v, dur)
           t == Travel(v, pers)
           more == v[0] * pers[0] - v[0] * dur[0]
           S == {k \in Nat : k < MAX_FB_AGE => t[k] = s[k] + more}
<1>0. MAX_FB_AGE \in Nat /\ MAX_FB_AGE > 0
  BY EstimatorAssumption
<1>1. /\ \A a \in 0 .. MAX_FB_AGE - 1 :
             s[a] = v[a] * dur[a] + (IF a = 0 THEN 0 ELSE s[a - 1])
      /\ s \in Rings
  BY TravelIs
<1>2. /\ \A a \in 0 .. MAX_FB_AGE - 1 :
             t[a] = v[a] * pers[a] + (IF a = 0 THEN 0 ELSE t[a - 1])
      /\ t \in Rings
  BY TravelIs
<1> HIDE DEF s, t
<1>3. /\ v[0] * pers[0] \in Int /\ v[0] * dur[0] \in Int /\ 0 \in 0 .. MAX_FB_AGE - 1
  BY <1>0 DEF Rings
<1>4. 0 \in S
  <2>1. s[0] = v[0] * dur[0] + 0 /\ t[0] = v[0] * pers[0] + 0
    BY <1>1, <1>2, <1>3
  <2> QED BY <1>3, <2>1
<1>5. more \in Int
  BY <1>3
<1> HIDE DEF more
<1>6. ASSUME NEW k \in Nat, k \in S PROVE k + 1 \in S
  <2> SUFFICES ASSUME k + 1 < MAX_FB_AGE PROVE t[k + 1] = s[k + 1] + more
    OBVIOUS
  <2>1. /\ k + 1 \in 0 .. MAX_FB_AGE - 1 /\ k + 1 # 0 /\ (k + 1) - 1 = k
        /\ k + 1 \in 1 .. MAX_FB_AGE - 1 /\ k \in 0 .. MAX_FB_AGE - 1
    BY <1>0
  <2>2. s[k + 1] = v[k + 1] * dur[k + 1] + s[k]
    BY <1>1, <2>1
  <2>3. t[k + 1] = v[k + 1] * dur[k + 1] + t[k]
    BY <1>2, <2>1
  <2>4. t[k] = s[k] + more
    BY <1>0, <1>6, <2>1
  <2>5. v[k + 1] * dur[k + 1] \in Int /\ s[k] \in Int
    BY <1>1, <2>1 DEF Rings
  <2> QED BY <1>5, <2>2, <2>3, <2>4, <2>5
<1>7. Nat \subseteq S
  <2> HIDE DEF S
  <2> QED BY <1>4, <1>6, SetInduction
<1>8. t[e] = s[e] + more /\ s[e] \in Int
  BY <1>0, <1>1, <1>7 DEF Rings
<1> QED
  BY <1>3, <1>8 DEF s, t, more

\* The commands up to age e all took effect in their period.
Ran(e) == \A a \in 0 .. e : fate[a] = "ran"

\* The host's counts are no newer than the newest command the MCU took, nor is
\* a reply; a frame in the mailbox was not taken yet.
Order ==
    /\ last_seq <= counts_seq /\ counts_seq >= 1
    /\ reply.ok => last_seq <= reply.seq_echo /\ reply.seq_echo >= 1
    /\ job \in {"none", "posted"} => ~reply.ok
    /\ job = "posted" => last_seq >= 1
    /\ job = "none" => last_seq = MAX_FB_AGE

\* What was sent since the command the MCU took last did not take effect.
SinceLost ==
    \A a \in 0 .. MAX_FB_AGE - 1 :
        /\ a < last_seq /\ last_seq < MAX_FB_AGE
        /\ a >= 1 \/ job # "posted"
        => fate[a] # "ran"

\* So did what was sent between the command a reply names and the command it
\* answers: the MCU had taken none of it when it prepared that status.
EchoLost ==
    reply.ok /\ reply.seq_echo < MAX_FB_AGE =>
        \A a \in 1 .. reply.seq_echo - 1 : fate[a] # "ran"

\* The motor moves by that command's velocity.
InEffect ==
    /\ last_seq < MAX_FB_AGE /\ fate[last_seq] = "ran"
           => incr = v_ring[last_seq]
    /\ ~enabled => incr = 0

\* A command is charged with the periods since the MCU took it: dur_ring does not
\* saturate before the watchdog stops the motor.
InTime ==
    /\ job = "posted" /\ ~tx_enable => v_ring[0] = 0
    /\ job = "posted" /\ fate[0] = "ran" => dur_ring[0] = 1
    /\ job \in {"back", "done"} /\ last_seq = 0 /\ fate[0] = "ran" /\ v_ring[0] # 0
           => dur_ring[0] = silence + 1

\* The movement since counts of age e was s, and is the sum over the window less
\* the period that has not ended.
Exact(e, s) ==
    e < MAX_FB_AGE /\ Ran(e) => s + v_ring[0] = Travel(v_ring, dur_ring)[e]

AllExact ==
    /\ Exact(counts_seq, since_counts)
    /\ Exact(last_seq, since_stat)
    /\ reply.ok => Exact(reply.seq_echo, reply.since)

EstimateInv ==
    TypeOK /\ Order /\ SinceLost /\ EchoLost /\ InEffect /\ InTime /\ AllExact

LEMMA Sizes ==
    /\ MAX_FB_AGE \in Nat /\ MAX_FB_AGE > 0 /\ WATCHDOG \in Nat /\ DUR_MAX \in Nat
    /\ MAX_FB_AGE < WATCHDOG /\ WATCHDOG < DUR_MAX
    /\ Velocities \subseteq Int /\ 0 \in Velocities
  BY EstimatorAssumption

LEMMA OlderIs ==
    ASSUME NEW e \in Ages
    PROVE  /\ Older(e) \in Ages /\ Older(e) >= 1
           /\ Older(e) < MAX_FB_AGE => Older(e) = e + 1
           /\ e = MAX_FB_AGE => Older(e) = MAX_FB_AGE
           /\ \A d \in Ages : d <= e => Older(d) <= Older(e)
  BY Sizes DEF Older, Ages

LEMMA VelocityRings ==
    ASSUME NEW v \in [0 .. MAX_FB_AGE - 1 -> Velocities],
           NEW dur \in [0 .. MAX_FB_AGE - 1 -> 0 .. DUR_MAX]
    PROVE  v \in Rings /\ dur \in Rings
<1>1. \A a \in 0 .. MAX_FB_AGE - 1 : v[a] \in Int /\ dur[a] \in Int
  <2> TAKE a \in 0 .. MAX_FB_AGE - 1
  <2>1. v[a] \in Velocities /\ dur[a] \in 0 .. DUR_MAX
    OBVIOUS
  <2>2. v[a] \in Int
    BY <2>1, Sizes
  <2>3. dur[a] \in Int
    BY <2>1, Sizes
  <2> QED BY <2>2, <2>3
<1>2. /\ v = [a \in 0 .. MAX_FB_AGE - 1 |-> v[a]]
      /\ dur = [a \in 0 .. MAX_FB_AGE - 1 |-> dur[a]]
  OBVIOUS
<1> QED BY <1>1, <1>2 DEF Rings

LEMMA RingsAreRings ==
    ASSUME TypeOK
    PROVE  v_ring \in Rings /\ dur_ring \in Rings
  BY VelocityRings DEF TypeOK

\* The entries of a ring after the next command, up to the age of the counts.
LEMMA PushIs ==
    ASSUME NEW ring, DOMAIN ring = 0 .. MAX_FB_AGE - 1, NEW new, NEW none,
           Echo \in Ages
    PROVE  /\ Push(ring, new, none)[0] = new
           /\ \A a \in 1 .. MAX_FB_AGE - 1 :
                  a <= Older(Echo) => Push(ring, new, none)[a] = ring[a - 1]
<1>0. MAX_FB_AGE \in Nat /\ MAX_FB_AGE > 0 /\ Older(Echo) \in Ages
  BY Sizes, OlderIs
<1>1. 0 \in DOMAIN ring
  BY <1>0
<1>2. Push(ring, new, none)[0] = new
  BY <1>1 DEF Push
<1>3. ASSUME NEW a \in 1 .. MAX_FB_AGE - 1, a <= Older(Echo)
      PROVE  Push(ring, new, none)[a] = ring[a - 1]
  <2>1. a \in DOMAIN ring /\ a \in 1 .. Older(Echo) /\ a # 0
    BY <1>0, <1>3 DEF Ages
  <2> QED BY <2>1 DEF Push
<1> QED
  BY <1>2, <1>3

LEMMA PushTypes ==
    ASSUME NEW T, NEW ring \in [0 .. MAX_FB_AGE - 1 -> T], NEW new \in T, NEW none \in T,
           Echo \in Ages
    PROVE  Push(ring, new, none) \in [0 .. MAX_FB_AGE - 1 -> T]
<1>0. MAX_FB_AGE \in Nat /\ MAX_FB_AGE > 0 /\ Older(Echo) \in Ages
  BY Sizes, OlderIs
<1>1. DOMAIN ring = 0 .. MAX_FB_AGE - 1
  OBVIOUS
<1>2. ASSUME NEW a \in 0 .. MAX_FB_AGE - 1 PROVE Push(ring, new, none)[a] \in T
  <2>1. CASE a = 0
    BY <1>1, <2>1 DEF Push
  <2>2. CASE a \in 1 .. Older(Echo)
    <3>1. a - 1 \in 0 .. MAX_FB_AGE - 1 /\ a # 0
      BY <1>0, <2>2
    <3> QED BY <1>1, <2>2, <3>1 DEF Push
  <2>3. CASE a # 0 /\ a \notin 1 .. Older(Echo)
    BY <1>1, <2>3 DEF Push
  <2> QED BY <2>1, <2>2, <2>3
<1>3. Push(ring, new, none)
          = [a \in 0 .. MAX_FB_AGE - 1 |-> Push(ring, new, none)[a]]
  BY <1>1 DEF Push
<1> QED
  BY <1>2, <1>3

\* Counts of the next update.
LEMMA EchoIs ==
    ASSUME TypeOK, Order
    PROVE  /\ Echo \in Ages /\ Echo >= 1 /\ SinceCounts \in Int
           /\ last_seq <= Echo
           /\ AllExact => Exact(Echo, SinceCounts)
  BY DEF TypeOK, Order, Echo, SinceCounts, Got, AllExact

LEMMA SinceIs ==
    ASSUME NEW age, NEW s \in Int
    PROVE  Since(age, s) \in Int /\ (age < MAX_FB_AGE => Since(age, s) = s)
  BY DEF Since

Fates == {"ran", "late", "lost"}
Replies == [ok : BOOLEAN, seq_echo : Ages, since : Int]

LEMMA AnswerIs ==
    ASSUME TypeOK, NEW toHost \in BOOLEAN
    PROVE  /\ Answer(toHost) \in Replies /\ NoReply \in Replies
           /\ ~NoReply.ok
           /\ Answer(toHost).ok => /\ Answer(toHost).seq_echo = last_seq
                                   /\ Answer(toHost).since = since_stat
<1>1. NoReply \in Replies /\ ~NoReply.ok
  BY Sizes DEF NoReply, Replies, Ages
<1>2. [ok |-> TRUE, seq_echo |-> last_seq, since |-> since_stat] \in Replies
  BY DEF TypeOK, Replies
<1> QED BY <1>1, <1>2 DEF Answer

\* A fate changed by hand is a fate.
LEMMA FateIs ==
    ASSUME TypeOK, NEW f \in Fates
    PROVE  [fate EXCEPT ![0] = f] \in [0 .. MAX_FB_AGE - 1 -> Fates]
  BY DEF TypeOK, Fates

LEMMA ChargedIs ==
    ASSUME NEW periods \in 0 .. DUR_MAX
    PROVE  /\ Charged(periods) \in 0 .. DUR_MAX
           /\ periods < DUR_MAX => Charged(periods) = periods + 1
  BY Sizes DEF Charged

\* unoq.update on a transfer that still runs.
LEMMA LateTypes ==
    ASSUME TypeOK, UpdateLate
    PROVE  /\ since_counts' \in Int /\ reply' \in Replies
           /\ dur_ring' \in [0 .. MAX_FB_AGE - 1 -> 0 .. DUR_MAX]
           /\ fate' \in [0 .. MAX_FB_AGE - 1 -> Fates]
           /\ last_seq' \in Ages
<1>0. /\ incr \in Int /\ since_counts \in Int /\ reply \in Replies
      /\ fate \in [0 .. MAX_FB_AGE - 1 -> Fates] /\ last_seq \in Ages
  BY Sizes DEF TypeOK, Fates, Replies
<1>1. since_counts' \in Int
  BY <1>0, SinceIs DEF UpdateLate
<1>2. reply' \in Replies
  <2>1. reply.since \in Int
    BY <1>0 DEF Replies
  <2>2. Since(reply.seq_echo, reply.since + incr) \in Int
    BY <1>0, <2>1, SinceIs
  <2>3. reply' = [reply EXCEPT !.since = Since(reply.seq_echo, reply.since + incr)]
    BY DEF UpdateLate
  <2> QED BY <1>0, <2>2, <2>3 DEF Replies
<1>3. dur_ring' \in [0 .. MAX_FB_AGE - 1 -> 0 .. DUR_MAX]
  <2>1. dur_ring[0] \in 0 .. DUR_MAX
    BY Sizes DEF TypeOK
  <2>2. Charged(dur_ring[0]) \in 0 .. DUR_MAX
    BY <2>1, ChargedIs
  <2>3. dur_ring' = [dur_ring EXCEPT ![0] = Charged(dur_ring[0])]
    BY DEF UpdateLate
  <2> QED BY <2>2, <2>3 DEF TypeOK
<1>4. fate' \in [0 .. MAX_FB_AGE - 1 -> Fates]
  BY <1>0, FateIs DEF UpdateLate, Fates
<1> QED
  BY <1>0, <1>1, <1>2, <1>3, <1>4 DEF UpdateLate

\* unoq.update with the next command.
LEMMA PostTypes ==
    ASSUME TypeOK, Order, NEW v \in Velocities, UpdatePost(v)
    PROVE  /\ counts_seq' \in Ages /\ since_counts' \in Int /\ have_fb' \in BOOLEAN
           /\ v_ring' \in [0 .. MAX_FB_AGE - 1 -> Velocities]
           /\ dur_ring' \in [0 .. MAX_FB_AGE - 1 -> 0 .. DUR_MAX]
           /\ reply' \in Replies /\ tx_enable' \in BOOLEAN
           /\ fate' \in [0 .. MAX_FB_AGE - 1 -> Fates]
           /\ last_seq' \in Ages
<1>0. Echo \in Ages /\ SinceCounts \in Int /\ incr \in Int /\ last_seq \in Ages
  BY Sizes, EchoIs DEF TypeOK
<1>1. counts_seq' \in Ages /\ since_counts' \in Int
  BY <1>0, OlderIs, SinceIs DEF UpdatePost
<1>2. have_fb' \in BOOLEAN /\ tx_enable' \in BOOLEAN
  BY DEF UpdatePost, TypeOK, Fresh, Got
<1>3. v_ring' \in [0 .. MAX_FB_AGE - 1 -> Velocities]
  BY <1>0, PushTypes, Sizes DEF UpdatePost, TypeOK
<1>4. dur_ring' \in [0 .. MAX_FB_AGE - 1 -> 0 .. DUR_MAX]
  <2>1. 0 \in 0 .. DUR_MAX /\ 1 \in 0 .. DUR_MAX
    BY Sizes
  <2> QED BY <1>0, <2>1, PushTypes DEF UpdatePost, TypeOK
<1>5. fate' \in [0 .. MAX_FB_AGE - 1 -> Fates]
  <2>1. "ran" \in Fates /\ fate \in [0 .. MAX_FB_AGE - 1 -> Fates]
    BY DEF Fates, TypeOK
  <2> QED BY <1>0, <2>1, PushTypes DEF UpdatePost
<1>6. reply' \in Replies
  <2>1. NoReply \in Replies
    BY Sizes DEF NoReply, Replies, Ages
  <2> QED BY <2>1 DEF UpdatePost
<1>7. last_seq' \in Ages
  BY <1>0, OlderIs DEF UpdatePost
<1> QED
  BY <1>1, <1>2, <1>3, <1>4, <1>5, <1>6, <1>7

LEMMA TypeStep == TypeOK /\ Order /\ [Next]_vars => TypeOK'
<1> SUFFICES ASSUME TypeOK, Order, [Next]_vars PROVE TypeOK'
  OBVIOUS
<1>0. /\ incr \in Int /\ since_stat \in Int /\ v_ring[0] \in Velocities
      /\ fate \in [0 .. MAX_FB_AGE - 1 -> Fates] /\ reply \in Replies
  BY Sizes DEF TypeOK, Fates, Replies
<1>1. CASE Update
  <2>1. /\ since_stat' = Since(last_seq', since_stat + incr)
        /\ silence' = IF silence < WATCHDOG THEN silence + 1 ELSE silence
        /\ UNCHANGED <<enabled, incr, wd_tripped, fair>>
    BY <1>1 DEF Update
  <2>2. since_stat' \in Int /\ silence' \in 0 .. WATCHDOG
    BY <1>0, <2>1, SinceIs, Sizes DEF TypeOK
  <2>3. CASE UpdateLate
    <3>1. UNCHANGED <<counts_seq, have_fb, v_ring, job, tx_enable>>
      BY <2>3 DEF UpdateLate
    <3> QED
      BY <2>1, <2>2, <2>3, <3>1, LateTypes, Zenon DEF TypeOK, Fates, Replies
  <2>4. ASSUME NEW v \in Velocities, UpdatePost(v) PROVE TypeOK'
    <3>1. job' = "posted"
      BY <2>4 DEF UpdatePost
    <3> QED
      BY <2>1, <2>2, <2>4, <3>1, PostTypes, Zenon DEF TypeOK, Fates, Replies
  <2> QED
    BY <1>1, <2>3, <2>4 DEF Update
<1>2. ASSUME NEW toHost \in BOOLEAN, Accept(toHost) PROVE TypeOK'
  <2>1. /\ job' = "back" /\ reply' \in Replies /\ last_seq' \in Ages
        /\ silence' \in 0 .. WATCHDOG /\ since_stat' \in Int
        /\ UNCHANGED <<hostVars, tx_enable, fair>>
    BY <1>2, AnswerIs, Sizes DEF Accept, Ages
  <2>2. wd_tripped' \in BOOLEAN /\ enabled' \in BOOLEAN
    BY <1>2, Zenon DEF Accept, TypeOK
  <2>3. incr' \in Velocities
    BY <1>0, <1>2, Sizes DEF Accept
  <2>4. fate' \in [0 .. MAX_FB_AGE - 1 -> Fates]
    BY <1>0, <1>2 DEF Accept, Fates
  <2> QED
    BY <2>1, <2>2, <2>3, <2>4, Zenon DEF TypeOK, hostVars, Fates, Replies
<1>3. ASSUME NEW toHost \in BOOLEAN, Reject(toHost) PROVE TypeOK'
  <2>1. /\ job' = "back" /\ reply' \in Replies /\ since_stat' \in Int
        /\ UNCHANGED <<hostVars, tx_enable, last_seq, enabled, incr, wd_tripped,
                       silence, fair>>
    BY <1>3, AnswerIs DEF Reject
  <2>2. fate' \in [0 .. MAX_FB_AGE - 1 -> Fates]
    BY <1>3, FateIs DEF Reject, Fates
  <2> QED
    BY <2>1, <2>2, Zenon DEF TypeOK, hostVars, Fates, Replies
<1>4. CASE Fail
  <2>1. /\ job' = "done" /\ reply' \in Replies
        /\ UNCHANGED <<hostVars, tx_enable, mcuVars, fair>>
    BY <1>4, AnswerIs DEF Fail
  <2>2. fate' \in [0 .. MAX_FB_AGE - 1 -> Fates]
    BY <1>4, FateIs DEF Fail, Fates
  <2> QED
    BY <2>1, <2>2, Zenon DEF TypeOK, hostVars, mcuVars, Fates, Replies
<1>5. CASE Return
  BY <1>5, Zenon DEF Return, TypeOK, hostVars, mcuVars
<1>6. CASE Trip
  <2>1. /\ wd_tripped' = TRUE /\ enabled' = FALSE /\ incr' \in Velocities
        /\ UNCHANGED <<hostVars, mailbox, last_seq, silence, since_stat, fair>>
    BY <1>6, Sizes DEF Trip
  <2>2. fate' \in [0 .. MAX_FB_AGE - 1 -> Fates]
    BY <1>0, <1>6 DEF Trip, Fates
  <2> QED
    BY <2>1, <2>2, Zenon DEF TypeOK, hostVars, mailbox, Fates, Replies
<1>7. CASE WeatherClears
  BY <1>7, Zenon DEF WeatherClears, TypeOK, hostVars, mailbox, mcuVars
<1>8. CASE UNCHANGED vars
  BY <1>8, Zenon DEF vars, TypeOK, hostVars, mailbox, mcuVars
<1> QED
  BY <1>1, <1>2, <1>3, <1>4, <1>5, <1>6, <1>7, <1>8 DEF Next, Foul

\* The rings after the next command, up to the age of the counts.
LEMMA Pushed ==
    ASSUME TypeOK, Order, NEW v \in Velocities, UpdatePost(v)
    PROVE  /\ v_ring'[0] = v /\ dur_ring'[0] = 1 /\ fate'[0] = "ran"
           /\ \A a \in 1 .. MAX_FB_AGE - 1 : a <= Older(Echo) =>
                  /\ v_ring'[a] = v_ring[a - 1] /\ dur_ring'[a] = dur_ring[a - 1]
                  /\ fate'[a] = fate[a - 1]
<1>0. /\ Echo \in Ages
      /\ DOMAIN v_ring = 0 .. MAX_FB_AGE - 1
      /\ DOMAIN dur_ring = 0 .. MAX_FB_AGE - 1
      /\ DOMAIN fate = 0 .. MAX_FB_AGE - 1
  BY EchoIs DEF TypeOK
<1>1. /\ v_ring' = Push(v_ring, v, 0) /\ dur_ring' = Push(dur_ring, 1, 0)
      /\ fate' = Push(fate, "ran", "ran")
  BY DEF UpdatePost
<1>2. /\ v_ring'[0] = v
      /\ \A a \in 1 .. MAX_FB_AGE - 1 :
             a <= Older(Echo) => v_ring'[a] = v_ring[a - 1]
  <2>1. Push(v_ring, v, 0)[0] = v
    BY <1>0, PushIs
  <2>2. ASSUME NEW a \in 1 .. MAX_FB_AGE - 1, a <= Older(Echo)
        PROVE  Push(v_ring, v, 0)[a] = v_ring[a - 1]
    BY <1>0, <2>2, PushIs, Sizes, OlderIs
  <2> QED BY <1>1, <2>1, <2>2
<1>3. /\ dur_ring'[0] = 1
      /\ \A a \in 1 .. MAX_FB_AGE - 1 :
             a <= Older(Echo) => dur_ring'[a] = dur_ring[a - 1]
  <2>1. Push(dur_ring, 1, 0)[0] = 1
    BY <1>0, PushIs
  <2>2. ASSUME NEW a \in 1 .. MAX_FB_AGE - 1, a <= Older(Echo)
        PROVE  Push(dur_ring, 1, 0)[a] = dur_ring[a - 1]
    BY <1>0, <2>2, PushIs, Sizes, OlderIs
  <2> QED BY <1>1, <2>1, <2>2
<1>4. /\ fate'[0] = "ran"
      /\ \A a \in 1 .. MAX_FB_AGE - 1 :
             a <= Older(Echo) => fate'[a] = fate[a - 1]
  <2>1. Push(fate, "ran", "ran")[0] = "ran"
    BY <1>0, PushIs
  <2>2. ASSUME NEW a \in 1 .. MAX_FB_AGE - 1, a <= Older(Echo)
        PROVE  Push(fate, "ran", "ran")[a] = fate[a - 1]
    BY <1>0, <2>2, PushIs, Sizes, OlderIs
  <2> QED BY <1>1, <2>1, <2>2
<1> QED
  BY <1>2, <1>3, <1>4

\* The fates a step other than a post leaves as they were or takes for worse.
LEMMA FatesOnlyWorsen ==
    ASSUME TypeOK, NEW f \in Fates, f # "ran"
    PROVE  /\ \A a \in 0 .. MAX_FB_AGE - 1 :
                  [fate EXCEPT ![0] = f][a] = IF a = 0 THEN f ELSE fate[a]
           /\ 0 \in 0 .. MAX_FB_AGE - 1
  BY Sizes DEF TypeOK

LEMMA OrderStep == TypeOK /\ Order /\ [Next]_vars => Order'
<1> SUFFICES ASSUME TypeOK, Order, [Next]_vars PROVE Order'
  OBVIOUS
<1>0. /\ last_seq \in Ages /\ counts_seq \in Ages /\ reply.seq_echo \in Ages
      /\ Echo \in Ages /\ last_seq <= Echo /\ reply \in Replies
  BY EchoIs DEF TypeOK, Replies
<1>1. CASE Update
  <2>1. CASE UpdateLate
    <3>1. /\ UNCHANGED <<counts_seq, job, last_seq>>
          /\ reply'.ok = reply.ok /\ reply'.seq_echo = reply.seq_echo
      BY <1>0, <2>1 DEF UpdateLate, Replies
    <3> QED BY <3>1 DEF Order
  <2>2. ASSUME NEW v \in Velocities, UpdatePost(v) PROVE Order'
    <3>1. /\ counts_seq' = Older(Echo) /\ last_seq' = Older(last_seq)
          /\ job' = "posted" /\ ~reply'.ok
      BY <2>2, AnswerIs DEF UpdatePost
    <3> QED BY <1>0, <3>1, OlderIs DEF Order
  <2> QED BY <1>1, <2>1, <2>2 DEF Update
<1>2. ASSUME NEW toHost \in BOOLEAN, Accept(toHost) PROVE Order'
  <2>1. /\ last_seq' = 0 /\ job' = "back" /\ job = "posted" /\ counts_seq' = counts_seq
        /\ reply'.ok => reply'.seq_echo = last_seq
        /\ 0 <= counts_seq /\ 0 <= last_seq
    BY <1>0, <1>2, AnswerIs DEF Accept, hostVars, Ages
  <2> QED BY <2>1 DEF Order
<1>3. ASSUME NEW toHost \in BOOLEAN, Reject(toHost) PROVE Order'
  <2>1. /\ last_seq' = last_seq /\ job' = "back" /\ job = "posted"
        /\ counts_seq' = counts_seq
        /\ reply'.ok => reply'.seq_echo = last_seq
    BY <1>0, <1>3, AnswerIs DEF Reject, hostVars, Ages
  <2> QED BY <1>0, <2>1 DEF Order, Ages
<1>4. CASE Fail
  <2>1. /\ last_seq' = last_seq /\ job' = "done" /\ counts_seq' = counts_seq
        /\ ~reply'.ok
    BY <1>4, AnswerIs DEF Fail, hostVars, mcuVars
  <2> QED BY <2>1 DEF Order
<1>5. CASE Return
  BY <1>5 DEF Return, Order, hostVars, mcuVars
<1>6. CASE Trip \/ WeatherClears \/ UNCHANGED vars
  BY <1>6 DEF Trip, WeatherClears, vars, Order, hostVars, mcuVars, mailbox
<1> QED
  BY <1>1, <1>2, <1>3, <1>4, <1>5, <1>6 DEF Next, Foul

LEMMA LostStep ==
    TypeOK /\ Order /\ SinceLost /\ [Next]_vars => SinceLost'
<1> SUFFICES ASSUME TypeOK, Order, SinceLost, [Next]_vars,
                    NEW a \in 0 .. MAX_FB_AGE - 1,
                    a < last_seq', last_seq' < MAX_FB_AGE,
                    a >= 1 \/ job' # "posted"
             PROVE  fate'[a] # "ran"
  BY DEF SinceLost
<1>0. /\ last_seq \in Ages /\ Echo \in Ages /\ last_seq <= Echo
      /\ MAX_FB_AGE \in Nat /\ MAX_FB_AGE > 0
  BY EchoIs, Sizes DEF TypeOK
<1>1. CASE Update
  <2>1. CASE UpdateLate
    <3>1. /\ job' = job /\ last_seq' = last_seq
          /\ fate' = fate \/ fate' = [fate EXCEPT ![0] = "late"]
      BY <2>1 DEF UpdateLate
    <3>2. "late" \in Fates /\ "late" # "ran"
      BY DEF Fates
    <3>3. fate[a] # "ran"
      BY <3>1 DEF SinceLost
    <3> QED BY <3>1, <3>2, <3>3, FatesOnlyWorsen
  <2>2. ASSUME NEW v \in Velocities, UpdatePost(v) PROVE fate'[a] # "ran"
    <3>1. /\ last_seq' = Older(last_seq) /\ job' = "posted"
          /\ job \in {"none", "done"}
      BY <2>2 DEF UpdatePost
    <3>2. /\ a \in 1 .. MAX_FB_AGE - 1 /\ a - 1 \in 0 .. MAX_FB_AGE - 1
          /\ last_seq' = last_seq + 1 /\ a - 1 < last_seq /\ last_seq < MAX_FB_AGE
      BY <1>0, <3>1, OlderIs DEF Ages
    <3>3. Older(last_seq) <= Older(Echo) /\ Older(Echo) \in Ages
      BY <1>0, OlderIs
    <3>4. a <= Older(Echo)
      BY <1>0, <3>1, <3>2, <3>3 DEF Ages
    <3>5. fate'[a] = fate[a - 1]
      BY <2>2, <3>2, <3>4, Pushed
    <3>6. fate[a - 1] # "ran"
      BY <3>1, <3>2 DEF SinceLost
    <3> QED BY <3>5, <3>6
  <2> QED BY <1>1, <2>1, <2>2 DEF Update
<1>2. ASSUME NEW toHost \in BOOLEAN, Accept(toHost) PROVE fate'[a] # "ran"
  BY <1>0, <1>2 DEF Accept
<1>3. ASSUME last_seq' = last_seq, job = "posted", fate' = [fate EXCEPT ![0] = "lost"]
      PROVE  fate'[a] # "ran"
  <2>1. "lost" \in Fates /\ "lost" # "ran"
    BY DEF Fates
  <2>2. fate'[a] = IF a = 0 THEN "lost" ELSE fate[a]
    BY <1>3, <2>1, FatesOnlyWorsen
  <2>3. a # 0 => fate[a] # "ran"
    BY <1>0, <1>3 DEF SinceLost
  <2> QED BY <2>1, <2>2, <2>3
<1>4. ASSUME NEW toHost \in BOOLEAN, Reject(toHost) PROVE fate'[a] # "ran"
  BY <1>3, <1>4 DEF Reject
<1>5. CASE Fail
  BY <1>3, <1>5 DEF Fail, mcuVars
<1>6. CASE Return
  BY <1>6 DEF Return, SinceLost, mcuVars
<1>7. CASE Trip
  <2>1. /\ last_seq' = last_seq /\ job' = job
        /\ fate'[a] = IF a = last_seq THEN "lost" ELSE fate[a]
    BY <1>7 DEF Trip, mailbox, TypeOK
  <2> QED BY <2>1 DEF SinceLost
<1>8. CASE WeatherClears \/ UNCHANGED vars
  BY <1>8 DEF WeatherClears, vars, SinceLost, mcuVars, mailbox
<1> QED
  BY <1>1, <1>2, <1>4, <1>5, <1>6, <1>7, <1>8 DEF Next, Foul

LEMMA EchoStep ==
    TypeOK /\ Order /\ SinceLost /\ EchoLost /\ [Next]_vars => EchoLost'
<1> SUFFICES ASSUME TypeOK, Order, SinceLost, EchoLost, [Next]_vars,
                    reply'.ok, reply'.seq_echo < MAX_FB_AGE,
                    NEW a \in 1 .. reply'.seq_echo - 1
             PROVE  fate'[a] # "ran"
  BY DEF EchoLost
<1>0. /\ reply.seq_echo \in Ages /\ last_seq \in Ages
      /\ MAX_FB_AGE \in Nat /\ MAX_FB_AGE > 0 /\ ~NoReply.ok
  BY Sizes DEF TypeOK, NoReply
<1>1. ASSUME reply'.ok = reply.ok, reply'.seq_echo = reply.seq_echo
      PROVE  a \in 1 .. MAX_FB_AGE - 1 /\ fate[a] # "ran"
  BY <1>0, <1>1 DEF EchoLost, Ages
<1>2. ASSUME NEW toHost \in BOOLEAN, job = "posted", reply' = Answer(toHost)
      PROVE  a \in 1 .. MAX_FB_AGE - 1 /\ fate[a] # "ran"
  <2>1. reply'.seq_echo = last_seq
    BY <1>0, <1>2 DEF Answer
  <2> QED BY <1>0, <1>2, <2>1 DEF SinceLost, Ages
<1>3. ASSUME NEW f \in Fates, fate' = [fate EXCEPT ![0] = f],
             a \in 1 .. MAX_FB_AGE - 1, fate[a] # "ran"
      PROVE  fate'[a] # "ran"
  BY <1>0, <1>3, FatesOnlyWorsen
<1>4. CASE Update
  <2>1. CASE UpdateLate
    <3>1. reply' = [reply EXCEPT !.since = Since(reply.seq_echo, @ + incr)]
          /\ (fate' = fate \/ fate' = [fate EXCEPT ![0] = "late"])
      BY <2>1 DEF UpdateLate
    <3>2. reply'.ok = reply.ok /\ reply'.seq_echo = reply.seq_echo
      BY <3>1 DEF TypeOK
    <3>3. "late" \in Fates
      BY DEF Fates
    <3> QED BY <1>1, <1>3, <3>1, <3>2, <3>3
  <2>2. CASE \E v \in Velocities : UpdatePost(v)
    BY <1>0, <2>2 DEF UpdatePost
  <2> QED BY <1>4, <2>1, <2>2 DEF Update
<1>5. ASSUME NEW toHost \in BOOLEAN, Accept(toHost) \/ Reject(toHost)
      PROVE  fate'[a] # "ran"
  <2>1. /\ job = "posted" /\ reply' = Answer(toHost)
        /\ \/ fate' = [fate EXCEPT ![0] = "lost"]
           \/ fate' = [fate EXCEPT ![0] = fate[0]]
    BY <1>5 DEF Accept, Reject
  <2>2. "lost" \in Fates /\ fate[0] \in Fates
    BY <1>0 DEF Fates, TypeOK
  <2> QED BY <1>2, <1>3, <2>1, <2>2
<1>6. CASE Fail
  BY <1>0, <1>6 DEF Fail
<1>7. CASE Return \/ WeatherClears \/ UNCHANGED vars
  BY <1>1, <1>7 DEF Return, WeatherClears, vars, mailbox
<1>8. CASE Trip
  <2>1. UNCHANGED reply
        /\ fate' = [b \in DOMAIN fate |-> IF b = last_seq THEN "lost" ELSE fate[b]]
    BY <1>8 DEF Trip, mailbox
  <2>2. a \in 1 .. MAX_FB_AGE - 1 /\ fate[a] # "ran"
    BY <1>1, <2>1
  <2>3. a \in 0 .. MAX_FB_AGE - 1
    BY <1>0, <2>2
  <2>4. DOMAIN fate = 0 .. MAX_FB_AGE - 1
    BY DEF TypeOK
  <2> QED BY <2>1, <2>2, <2>3, <2>4
<1> QED
  BY <1>4, <1>5, <1>6, <1>7, <1>8 DEF Next, Foul

LEMMA EffectStep ==
    TypeOK /\ Order /\ InEffect /\ InTime /\ [Next]_vars => InEffect'
<1> SUFFICES ASSUME TypeOK, Order, InEffect, InTime, [Next]_vars
             PROVE  InEffect'
  OBVIOUS
<1>0. /\ last_seq \in Ages /\ Echo \in Ages /\ last_seq <= Echo
      /\ MAX_FB_AGE \in Nat /\ MAX_FB_AGE > 0
  BY EchoIs, Sizes DEF TypeOK
<1>1. CASE Update
  <2>1. incr' = incr /\ enabled' = enabled
    BY <1>1 DEF Update
  <2>2. CASE UpdateLate
    <3>1. /\ last_seq' = last_seq /\ v_ring' = v_ring
          /\ fate' = fate \/ fate' = [fate EXCEPT ![0] = "late"]
      BY <2>2 DEF UpdateLate
    <3>2. "late" \in Fates /\ "late" # "ran"
      BY DEF Fates
    <3>3. ASSUME last_seq < MAX_FB_AGE, fate'[last_seq] = "ran"
          PROVE  fate[last_seq] = "ran"
      <4>1. last_seq \in 0 .. MAX_FB_AGE - 1
        BY <1>0, <3>3 DEF Ages
      <4> QED BY <3>1, <3>2, <3>3, <4>1, FatesOnlyWorsen
    <3> QED BY <2>1, <3>1, <3>3 DEF InEffect
  <2>3. ASSUME NEW v \in Velocities, UpdatePost(v) PROVE InEffect'
    <3>1. last_seq' = Older(last_seq)
      BY <2>3 DEF UpdatePost
    <3>2. ASSUME last_seq' < MAX_FB_AGE, fate'[last_seq'] = "ran"
          PROVE  incr = v_ring'[last_seq']
      <4>1. /\ last_seq' = last_seq + 1 /\ last_seq < MAX_FB_AGE
            /\ last_seq' \in 1 .. MAX_FB_AGE - 1 /\ last_seq' - 1 = last_seq
            /\ last_seq' <= Older(Echo)
        BY <1>0, <3>1, <3>2, OlderIs DEF Ages
      <4>2. /\ fate'[last_seq'] = fate[last_seq]
            /\ v_ring'[last_seq'] = v_ring[last_seq]
        BY <2>3, <4>1, Pushed
      <4> QED BY <3>2, <4>1, <4>2 DEF InEffect
    <3> QED BY <2>1, <3>2 DEF InEffect
  <2> QED BY <1>1, <2>2, <2>3 DEF Update
<1>2. ASSUME NEW toHost \in BOOLEAN, Accept(toHost) PROVE InEffect'
  <2>1. /\ last_seq' = 0 /\ v_ring' = v_ring /\ job = "posted"
        /\ wd_tripped' = (wd_tripped /\ tx_enable)
        /\ enabled' = (tx_enable /\ ~wd_tripped)
        /\ incr' = IF enabled' THEN v_ring[0] ELSE 0
        /\ fate' = [fate EXCEPT ![0] = IF wd_tripped' THEN "lost" ELSE fate[0]]
    BY <1>2 DEF Accept, hostVars
  <2>2. fate'[0] = "ran" => ~wd_tripped'
    BY <1>0, <2>1 DEF TypeOK
  <2>3. ~enabled' /\ fate'[0] = "ran" => v_ring[0] = 0
    BY <2>1, <2>2 DEF InTime
  <2> QED BY <2>1, <2>3 DEF InEffect
<1>3. ASSUME last_seq' = last_seq, v_ring' = v_ring, incr' = incr, enabled' = enabled,
             fate' = [fate EXCEPT ![0] = "lost"]
      PROVE  InEffect'
  <2>1. "lost" \in Fates /\ "lost" # "ran"
    BY DEF Fates
  <2>2. ASSUME last_seq < MAX_FB_AGE, fate'[last_seq] = "ran"
        PROVE  fate[last_seq] = "ran"
    <3>1. last_seq \in 0 .. MAX_FB_AGE - 1
      BY <1>0, <2>2 DEF Ages
    <3> QED BY <1>3, <2>1, <2>2, <3>1, FatesOnlyWorsen
  <2> QED BY <1>3, <2>2 DEF InEffect
<1>4. ASSUME NEW toHost \in BOOLEAN, Reject(toHost) PROVE InEffect'
  BY <1>3, <1>4 DEF Reject, hostVars
<1>5. CASE Fail
  BY <1>3, <1>5 DEF Fail, hostVars, mcuVars
<1>6. CASE Trip
  <2>1. /\ last_seq' = last_seq /\ incr' = 0
        /\ last_seq < MAX_FB_AGE => fate'[last_seq] = "lost"
    BY <1>0, <1>6 DEF Trip, TypeOK, Ages
  <2> QED BY <2>1 DEF InEffect
<1>7. CASE Return \/ WeatherClears \/ UNCHANGED vars
  BY <1>7 DEF Return, WeatherClears, vars, InEffect, hostVars, mcuVars, mailbox
<1> QED
  BY <1>1, <1>2, <1>4, <1>5, <1>6, <1>7 DEF Next, Foul

LEMMA TimeStep ==
    TypeOK /\ Order /\ InEffect /\ InTime /\ [Next]_vars => InTime'
<1> SUFFICES ASSUME TypeOK, Order, InEffect, InTime, [Next]_vars
             PROVE  InTime'
  OBVIOUS
<1>0. /\ last_seq \in Ages /\ MAX_FB_AGE \in Nat /\ MAX_FB_AGE > 0
      /\ WATCHDOG \in Nat /\ DUR_MAX \in Nat /\ WATCHDOG < DUR_MAX
      /\ silence \in 0 .. WATCHDOG /\ dur_ring[0] \in 0 .. DUR_MAX
      /\ 0 \in 0 .. MAX_FB_AGE - 1
  BY Sizes DEF TypeOK
<1>1. CASE Update
  <2>1. CASE UpdateLate
    <3>1. /\ last_seq' = last_seq /\ v_ring' = v_ring /\ job' = job
          /\ tx_enable' = tx_enable
          /\ fate' = IF job = "posted" THEN [fate EXCEPT ![0] = "late"] ELSE fate
          /\ dur_ring' = [dur_ring EXCEPT ![0] = Charged(dur_ring[0])]
          /\ job \in {"posted", "back"}
      BY <2>1 DEF UpdateLate
    <3>2. job = "posted" => fate'[0] = "late"
      BY <1>0, <3>1 DEF TypeOK
    <3>3. ASSUME job = "back", last_seq = 0, fate'[0] = "ran", v_ring[0] # 0
          PROVE  dur_ring'[0] = silence' + 1
      <4>1. dur_ring[0] = silence + 1 /\ fate[0] = "ran"
        BY <3>1, <3>3 DEF InTime
      <4>2. incr = v_ring[0] /\ enabled
        BY <1>0, <3>3, <4>1 DEF InEffect
      <4>3. silence < WATCHDOG /\ silence' = silence + 1
        BY <1>0, <1>1, <4>2 DEF Update
      <4>4. dur_ring'[0] = dur_ring[0] + 1
        BY <1>0, <3>1, <4>1, <4>3, ChargedIs DEF TypeOK
      <4> QED BY <1>0, <4>1, <4>3, <4>4
    <3> QED BY <3>1, <3>2, <3>3 DEF InTime
  <2>2. ASSUME NEW v \in Velocities, UpdatePost(v) PROVE InTime'
    <3>1. /\ job' = "posted" /\ tx_enable' = Fresh /\ (~Fresh => v = 0)
          /\ v_ring'[0] = v /\ dur_ring'[0] = 1
      BY <2>2, Pushed DEF UpdatePost
    <3> QED BY <3>1 DEF InTime
  <2> QED BY <1>1, <2>1, <2>2 DEF Update
<1>2. ASSUME NEW toHost \in BOOLEAN, Accept(toHost) PROVE InTime'
  <2>1. /\ job' = "back" /\ job = "posted" /\ silence' = 0
        /\ v_ring' = v_ring /\ dur_ring' = dur_ring
        /\ fate' = [fate EXCEPT ![0] = IF wd_tripped' THEN "lost" ELSE fate[0]]
    BY <1>2 DEF Accept, hostVars
  <2>2. fate'[0] = "ran" => fate[0] = "ran"
    BY <1>0, <2>1 DEF TypeOK
  <2> QED BY <2>1, <2>2 DEF InTime
<1>3. ASSUME job' \in {"back", "done"}, fate' = [fate EXCEPT ![0] = "lost"]
      PROVE  InTime'
  <2>1. fate'[0] = "lost"
    BY <1>0, <1>3 DEF TypeOK
  <2> QED BY <1>3, <2>1 DEF InTime
<1>4. ASSUME NEW toHost \in BOOLEAN, Reject(toHost) PROVE InTime'
  BY <1>3, <1>4 DEF Reject
<1>5. CASE Fail
  BY <1>3, <1>5 DEF Fail
<1>6. CASE Return
  <2>1. job = "back" /\ job' = "done" /\ UNCHANGED <<v_ring, dur_ring, last_seq, fate, silence>>
    BY <1>6 DEF Return, hostVars, mcuVars
  <2> QED BY <2>1 DEF InTime
<1>7. CASE Trip
  <2>1. /\ UNCHANGED <<v_ring, dur_ring, job, tx_enable, last_seq, silence>>
        /\ fate'[0] = IF 0 = last_seq THEN "lost" ELSE fate[0]
    BY <1>0, <1>7 DEF Trip, TypeOK, hostVars, mailbox
  <2> QED BY <2>1 DEF InTime
<1>8. CASE WeatherClears \/ UNCHANGED vars
  BY <1>8 DEF WeatherClears, vars, InTime, hostVars, mcuVars, mailbox
<1> QED
  BY <1>1, <1>2, <1>4, <1>5, <1>6, <1>7, <1>8 DEF Next, Foul

\* Counts whose window all took effect in time: the MCU took the newest command,
\* if it is not in the mailbox any more, and moves by its velocity.
LEMMA WindowRan ==
    ASSUME TypeOK, SinceLost, InEffect, job # "posted",
           NEW e \in Ages, last_seq <= e, e < MAX_FB_AGE, Ran(e)
    PROVE  last_seq = 0 /\ incr = v_ring[0] /\ fate[0] = "ran"
<1>0. /\ last_seq \in Ages /\ MAX_FB_AGE \in Nat /\ last_seq < MAX_FB_AGE
      /\ 0 \in 0 .. MAX_FB_AGE - 1 /\ 0 \in 0 .. e
  BY Sizes DEF TypeOK, Ages
<1>1. fate[0] = "ran"
  BY <1>0 DEF Ran
<1>2. last_seq = 0
  BY <1>0, <1>1 DEF SinceLost, Ages
<1>3. incr = v_ring[0]
  BY <1>0, <1>1, <1>2 DEF InEffect
<1> QED
  BY <1>1, <1>2, <1>3

\* Exact of the next state, for values of this one.
ExactNext(e, s) ==
    e < MAX_FB_AGE /\ (\A a \in 0 .. e : fate'[a] = "ran")
        => s + v_ring'[0] = Travel(v_ring', dur_ring')[e]

\* The next command goes out: the period that ended is the one of the window's
\* newest command, and the new command is charged with one.
LEMMA ExactPushed ==
    ASSUME TypeOK, Order, SinceLost, InEffect,
           NEW v \in Velocities, UpdatePost(v),
           NEW e \in Ages, last_seq <= e, e <= Echo, NEW s \in Int, Exact(e, s)
    PROVE  ExactNext(Older(e), Since(Older(e), s + incr))
<1> SUFFICES ASSUME Older(e) < MAX_FB_AGE, \A a \in 0 .. Older(e) : fate'[a] = "ran"
             PROVE  Since(Older(e), s + incr) + v_ring'[0]
                        = Travel(v_ring', dur_ring')[Older(e)]
  BY DEF ExactNext
<1>0. MAX_FB_AGE \in Nat /\ MAX_FB_AGE > 0 /\ Echo \in Ages /\ incr \in Int
  <2>1. incr \in Velocities
    BY DEF TypeOK
  <2> QED BY <2>1, Sizes, EchoIs
<1>1. /\ Older(e) \in Ages /\ Older(e) <= Older(Echo) /\ Older(Echo) \in Ages
      /\ Older(e) = e + 1
  BY <1>0, OlderIs
<1>2. e + 1 < MAX_FB_AGE /\ e < MAX_FB_AGE /\ e \in Nat
  BY <1>0, <1>1 DEF Ages
<1>3. \A a \in 1 .. e + 1 : a \in 1 .. MAX_FB_AGE - 1 /\ a <= Older(Echo)
  BY <1>0, <1>1, <1>2 DEF Ages
<1>4. Ran(e)
  <2> SUFFICES ASSUME NEW a \in 0 .. e PROVE fate[a] = "ran"
    BY DEF Ran
  <2>1. a + 1 \in 1 .. e + 1 /\ a + 1 \in 0 .. Older(e) /\ (a + 1) - 1 = a
    BY <1>1, <1>2
  <2>2. fate'[a + 1] = fate[(a + 1) - 1]
    BY <1>3, <2>1, Pushed
  <2> QED BY <2>1, <2>2
<1>5. incr = v_ring[0]
  <2>1. job # "posted"
    BY DEF UpdatePost
  <2> QED BY <1>2, <1>4, <2>1, WindowRan
<1>6. s + v_ring[0] = Travel(v_ring, dur_ring)[e]
  BY <1>2, <1>4 DEF Exact
<1> DEFINE w == v_ring'
           pers == dur_ring'
<1>7. /\ v_ring \in Rings /\ dur_ring \in Rings /\ w \in Rings /\ pers \in Rings
      /\ w[0] \in Int /\ pers[0] = 1
  <2>1. /\ v_ring' \in [0 .. MAX_FB_AGE - 1 -> Velocities]
        /\ dur_ring' \in [0 .. MAX_FB_AGE - 1 -> 0 .. DUR_MAX]
    BY PostTypes
  <2>2. v_ring'[0] = v /\ dur_ring'[0] = 1
    BY Pushed
  <2> QED BY <2>1, <2>2, Sizes, RingsAreRings, VelocityRings
<1>8. Follows(w, v_ring, e) /\ Follows(pers, dur_ring, e)
  BY <1>3, Pushed DEF Follows
<1> HIDE DEF w, pers
<1>9. Travel(w, pers)[e + 1] = w[0] * pers[0] + Travel(v_ring, dur_ring)[e]
  BY <1>2, <1>7, <1>8, TravelPushed
<1>10. w[0] * pers[0] = w[0]
  BY <1>7
<1>11. Since(e + 1, s + incr) = s + incr
  BY <1>0, <1>2, SinceIs
<1>12. Since(e + 1, s + incr) + w[0] = Travel(w, pers)[e + 1]
  BY <1>0, <1>5, <1>6, <1>7, <1>9, <1>10, <1>11
<1> QED
  BY <1>1, <1>12 DEF w, pers

\* The command is charged with the period that ended while the worker slept.
LEMMA ExactLate ==
    ASSUME TypeOK, Order, SinceLost, InEffect, InTime, Update, UpdateLate,
           NEW e \in Ages, last_seq <= e, NEW s \in Int, Exact(e, s)
    PROVE  ExactNext(e, Since(e, s + incr))
<1> SUFFICES ASSUME e < MAX_FB_AGE, \A a \in 0 .. e : fate'[a] = "ran"
             PROVE  Since(e, s + incr) + v_ring'[0] = Travel(v_ring', dur_ring')[e]
  BY DEF ExactNext
<1>0. /\ MAX_FB_AGE \in Nat /\ MAX_FB_AGE > 0 /\ incr \in Int /\ e \in Nat
      /\ 0 \in 0 .. MAX_FB_AGE - 1 /\ 0 \in 0 .. e
      /\ WATCHDOG \in Nat /\ DUR_MAX \in Nat /\ WATCHDOG < DUR_MAX
      /\ silence \in 0 .. WATCHDOG /\ dur_ring[0] \in 0 .. DUR_MAX
  <2>1. incr \in Velocities
    BY DEF TypeOK
  <2> QED BY <2>1, Sizes DEF Ages, TypeOK
<1>1. job = "back" /\ fate' = fate
  <2>1. CASE job = "posted"
    <3>1. fate' = [fate EXCEPT ![0] = "late"]
      BY <2>1 DEF UpdateLate
    <3>2. fate'[0] = "late"
      BY <1>0, <3>1 DEF TypeOK
    <3> QED BY <1>0, <3>2
  <2> QED BY <2>1 DEF UpdateLate
<1>2. Ran(e)
  BY <1>1 DEF Ran
<1>3. last_seq = 0 /\ incr = v_ring[0] /\ fate[0] = "ran"
  BY <1>1, <1>2, WindowRan
<1>4. s + v_ring[0] = Travel(v_ring, dur_ring)[e]
  BY <1>2 DEF Exact
<1> DEFINE pers == dur_ring'
<1>5. /\ v_ring' = v_ring /\ v_ring \in Rings /\ dur_ring \in Rings /\ pers \in Rings
      /\ \A a \in 1 .. MAX_FB_AGE - 1 : pers[a] = dur_ring[a]
      /\ pers[0] = Charged(dur_ring[0])
  <2>1. /\ v_ring' = v_ring
        /\ dur_ring' = [dur_ring EXCEPT ![0] = Charged(dur_ring[0])]
    BY DEF UpdateLate
  <2>2. dur_ring' \in [0 .. MAX_FB_AGE - 1 -> 0 .. DUR_MAX]
    BY LateTypes
  <2>3. v_ring \in [0 .. MAX_FB_AGE - 1 -> Velocities]
    BY DEF TypeOK
  <2>4. dur_ring' \in Rings
    BY <2>2, <2>3, VelocityRings
  <2>5. /\ \A a \in 1 .. MAX_FB_AGE - 1 : dur_ring'[a] = dur_ring[a]
        /\ dur_ring'[0] = Charged(dur_ring[0])
    <3>1. dur_ring \in [0 .. MAX_FB_AGE - 1 -> 0 .. DUR_MAX]
      BY DEF TypeOK
    <3> QED BY <1>0, <2>1, <3>1
  <2> QED BY <2>1, <2>4, <2>5, RingsAreRings
<1> HIDE DEF pers
<1> DEFINE d == dur_ring[0]
           c == pers[0]
           x == v_ring[0]
<1>6. Travel(v_ring, pers)[e] = Travel(v_ring, dur_ring)[e] + x * c - x * d
  BY <1>0, <1>5, TravelCharged
<1>7. x \in Int /\ d \in Int /\ c \in Int
  BY <1>0, <1>3, <1>5 DEF Rings
<1>8. x = 0 \/ c = d + 1
  <2> SUFFICES ASSUME x # 0 PROVE c = d + 1
    OBVIOUS
  <2>1. d = silence + 1
    BY <1>1, <1>3 DEF InTime
  <2>2. enabled
    BY <1>3 DEF InEffect
  <2>3. silence < WATCHDOG
    BY <1>0, <2>2 DEF Update
  <2> QED BY <1>0, <1>5, <2>1, <2>3, ChargedIs
<1>9. Since(e, s + incr) = s + x
  BY <1>0, <1>3, SinceIs
<1> HIDE DEF d, c, x
<1>10. x * c - x * d = x
  <2>1. CASE x = 0
    <3>1. 0 * c = 0 /\ 0 * d = 0
      BY <1>7
    <3> QED BY <2>1, <3>1
  <2>2. CASE c = d + 1
    BY <1>7, <2>2
  <2> QED BY <1>8, <2>1, <2>2
<1>11. x * c \in Int /\ x * d \in Int /\ s + x = Travel(v_ring, dur_ring)[e]
  BY <1>4, <1>7 DEF x
<1>12. s + x + x = Travel(v_ring, pers)[e]
  BY <1>6, <1>7, <1>10, <1>11
<1> QED
  BY <1>5, <1>7, <1>9, <1>12 DEF pers, x

\* A step in which no window becomes a better one.
LEMMA ExactKept ==
    ASSUME NEW e \in Ages, NEW s \in Int, Exact(e, s), v_ring' = v_ring, dur_ring' = dur_ring,
           \A a \in 0 .. MAX_FB_AGE - 1 : fate'[a] = "ran" => fate[a] = "ran"
    PROVE  ExactNext(e, s)
<1> SUFFICES ASSUME e < MAX_FB_AGE, \A a \in 0 .. e : fate'[a] = "ran"
             PROVE  s + v_ring[0] = Travel(v_ring, dur_ring)[e]
  BY DEF ExactNext
<1>1. Ran(e)
  BY Sizes DEF Ran, Ages
<1> QED
  BY <1>1 DEF Exact

LEMMA ExactLost ==
    ASSUME NEW e \in Ages, NEW s, TypeOK, fate' = [fate EXCEPT ![0] = "lost"]
    PROVE  ExactNext(e, s)
<1>1. fate'[0] = "lost" /\ 0 \in 0 .. e
  BY Sizes DEF TypeOK, Ages
<1> QED
  BY <1>1 DEF ExactNext

LEMMA ExactStep == EstimateInv /\ [Next]_vars => AllExact'
<1> SUFFICES ASSUME EstimateInv, [Next]_vars PROVE AllExact'
  OBVIOUS
<1> USE DEF EstimateInv
<1>0. /\ counts_seq \in Ages /\ last_seq \in Ages /\ reply.seq_echo \in Ages
      /\ Echo \in Ages /\ SinceCounts \in Int /\ since_counts \in Int
      /\ since_stat \in Int /\ reply.since \in Int /\ last_seq <= counts_seq
      /\ last_seq <= Echo /\ last_seq <= last_seq /\ reply \in Replies
      /\ reply.ok => last_seq <= reply.seq_echo
      /\ Exact(Echo, SinceCounts) /\ Exact(counts_seq, since_counts)
      /\ Exact(last_seq, since_stat)
      /\ reply.ok => Exact(reply.seq_echo, reply.since)
      /\ MAX_FB_AGE \in Nat /\ MAX_FB_AGE > 0
  BY EchoIs, Sizes DEF TypeOK, Order, AllExact, Ages, Replies
<1>1. SUFFICES /\ ExactNext(counts_seq', since_counts')
               /\ ExactNext(last_seq', since_stat')
               /\ reply'.ok => ExactNext(reply'.seq_echo, reply'.since)
  BY DEF AllExact, Exact, Ran, ExactNext
<1>2. CASE Update
  <2>1. since_stat' = Since(last_seq', since_stat + incr)
    BY <1>2 DEF Update
  <2>2. CASE UpdateLate
    <3>1. /\ counts_seq' = counts_seq /\ last_seq' = last_seq
          /\ since_counts' = Since(counts_seq, since_counts + incr)
          /\ reply'.ok = reply.ok /\ reply'.seq_echo = reply.seq_echo
          /\ reply'.since = Since(reply.seq_echo, reply.since + incr)
      BY <1>0, <2>2 DEF UpdateLate, Replies
    <3>2. ExactNext(counts_seq, Since(counts_seq, since_counts + incr))
      BY <1>0, <1>2, <2>2, ExactLate
    <3>3. ExactNext(last_seq, Since(last_seq, since_stat + incr))
      BY <1>0, <1>2, <2>2, ExactLate
    <3>4. reply.ok =>
              ExactNext(reply.seq_echo, Since(reply.seq_echo, reply.since + incr))
      BY <1>0, <1>2, <2>2, ExactLate
    <3> QED BY <2>1, <3>1, <3>2, <3>3, <3>4
  <2>3. ASSUME NEW v \in Velocities, UpdatePost(v)
        PROVE  /\ ExactNext(counts_seq', since_counts')
               /\ ExactNext(last_seq', since_stat')
               /\ ~reply'.ok
    <3>1. /\ counts_seq' = Older(Echo) /\ last_seq' = Older(last_seq)
          /\ since_counts' = Since(Older(Echo), SinceCounts + incr)
          /\ ~reply'.ok
      BY <2>3, AnswerIs DEF UpdatePost
    <3>2. ExactNext(Older(Echo), Since(Older(Echo), SinceCounts + incr))
      <4>1. Echo <= Echo
        BY <1>0 DEF Ages
      <4> QED BY <1>0, <2>3, <4>1, ExactPushed
    <3>3. ExactNext(Older(last_seq), Since(Older(last_seq), since_stat + incr))
      BY <1>0, <2>3, ExactPushed
    <3> QED BY <2>1, <3>1, <3>2, <3>3
  <2> QED BY <1>2, <2>2, <2>3 DEF Update
<1>3. ASSUME NEW toHost \in BOOLEAN, Accept(toHost)
      PROVE  /\ ExactNext(counts_seq', since_counts')
             /\ ExactNext(last_seq', since_stat')
             /\ reply'.ok => ExactNext(reply'.seq_echo, reply'.since)
  <2>1. /\ job = "posted" /\ last_seq' = 0 /\ since_stat' = 0
        /\ counts_seq' = counts_seq /\ since_counts' = since_counts
        /\ v_ring' = v_ring /\ dur_ring' = dur_ring
        /\ fate' = [fate EXCEPT ![0] = IF wd_tripped' THEN "lost" ELSE fate[0]]
    BY <1>3 DEF Accept, hostVars
  <2>2. reply'.ok => reply'.seq_echo = last_seq /\ reply'.since = since_stat
    BY <1>3, AnswerIs DEF Accept
  <2>3. \A a \in 0 .. MAX_FB_AGE - 1 : fate'[a] = "ran" => fate[a] = "ran"
    BY <2>1 DEF TypeOK
  <2>4. ExactNext(counts_seq, since_counts) /\ ExactNext(last_seq, since_stat)
    BY <1>0, <2>1, <2>3, ExactKept
  <2>5. ExactNext(0, 0)
    <3> SUFFICES ASSUME \A a \in 0 .. 0 : fate'[a] = "ran"
                 PROVE  0 + v_ring[0] = Travel(v_ring, dur_ring)[0]
      BY <2>1 DEF ExactNext
    <3>1. 0 \in 0 .. 0 /\ 0 \in 0 .. MAX_FB_AGE - 1
      BY <1>0
    <3>2. dur_ring[0] = 1
      BY <2>1, <2>3, <3>1 DEF InTime
    <3>3. Travel(v_ring, dur_ring)[0] = v_ring[0] * dur_ring[0] + 0
      BY <3>1, RingsAreRings, TravelIs
    <3>4. v_ring[0] \in Int
      BY <3>1, RingsAreRings DEF Rings
    <3> QED BY <3>2, <3>3, <3>4
  <2> QED BY <2>1, <2>2, <2>4, <2>5
<1>4. ASSUME NEW toHost \in BOOLEAN, Reject(toHost)
      PROVE  /\ ExactNext(counts_seq', since_counts')
             /\ ExactNext(last_seq', since_stat')
             /\ reply'.ok => ExactNext(reply'.seq_echo, reply'.since)
  <2>1. /\ counts_seq' = counts_seq /\ last_seq' = last_seq
        /\ fate' = [fate EXCEPT ![0] = "lost"]
        /\ reply' = Answer(toHost)
    BY <1>4 DEF Reject, hostVars
  <2>2. reply'.ok => reply'.seq_echo = last_seq
    BY <2>1, AnswerIs
  <2> QED BY <1>0, <2>1, <2>2, ExactLost
<1>5. CASE Fail
  <2>1. /\ counts_seq' = counts_seq /\ last_seq' = last_seq
        /\ fate' = [fate EXCEPT ![0] = "lost"] /\ ~reply'.ok
    BY <1>5, AnswerIs DEF Fail, hostVars, mcuVars
  <2> QED BY <1>0, <2>1, ExactLost
<1>6. CASE Return \/ Trip \/ WeatherClears \/ UNCHANGED vars
  <2>1. UNCHANGED <<counts_seq, since_counts, v_ring, dur_ring, reply, last_seq, since_stat>>
    BY <1>6 DEF Return, Trip, WeatherClears, vars, hostVars, mailbox, mcuVars
  <2>2. \A a \in 0 .. MAX_FB_AGE - 1 : fate'[a] = "ran" => fate[a] = "ran"
    BY <1>6 DEF Return, Trip, WeatherClears, vars, TypeOK
  <2> QED BY <1>0, <2>1, <2>2, ExactKept
<1> QED
  BY <1>2, <1>3, <1>4, <1>5, <1>6 DEF Next, Foul

LEMMA EstimateInitInv == Init => EstimateInv
<1> SUFFICES ASSUME Init PROVE EstimateInv
  OBVIOUS
<1>1. TypeOK
  <2>1. "ran" \in Fates /\ 0 \in 0 .. DUR_MAX /\ MAX_FB_AGE \in Ages /\ 0 \in Velocities
        /\ WATCHDOG \in 0 .. WATCHDOG
    BY Sizes DEF Ages, Fates
  <2>2. /\ v_ring \in [0 .. MAX_FB_AGE - 1 -> Velocities]
        /\ dur_ring \in [0 .. MAX_FB_AGE - 1 -> 0 .. DUR_MAX]
        /\ fate \in [0 .. MAX_FB_AGE - 1 -> {"ran", "late", "lost"}]
    BY <2>1 DEF Init, Ring
  <2>3. reply \in [ok : BOOLEAN, seq_echo : Ages, since : Int]
    BY <2>1 DEF Init, NoReply
  <2>4. /\ silence \in 0 .. WATCHDOG /\ counts_seq \in Ages /\ last_seq \in Ages
        /\ since_counts \in Int /\ since_stat \in Int /\ incr \in Velocities
    BY <2>1 DEF Init
  <2>5. have_fb \in BOOLEAN /\ tx_enable \in BOOLEAN /\ enabled \in BOOLEAN
    BY DEF Init
  <2>6. wd_tripped \in BOOLEAN /\ fair \in BOOLEAN
    BY DEF Init
  <2>7. job \in {"none", "posted", "back", "done"}
    BY DEF Init
  <2> QED BY <2>2, <2>3, <2>4, <2>5, <2>6, <2>7, Zenon DEF TypeOK
<1>2. Order /\ SinceLost /\ EchoLost /\ InEffect /\ InTime /\ AllExact
  BY Sizes DEF Init, NoReply, Order, SinceLost, EchoLost, InEffect, InTime, AllExact, Exact
<1> QED
  BY <1>1, <1>2 DEF EstimateInv

LEMMA EstimateInvariance == Spec => []EstimateInv
<1>1. EstimateInv /\ [Next]_vars => EstimateInv'
  BY TypeStep, OrderStep, LostStep, EchoStep, EffectStep, TimeStep, ExactStep DEF EstimateInv
<1> QED
  BY EstimateInitInv, <1>1, PTL DEF Spec

\* The model's variables stay in their types.
THEOREM EstimateTypeCorrect == Spec => []TypeOK
<1>1. EstimateInv => TypeOK
  BY DEF EstimateInv
<1> QED
  BY <1>1, EstimateInvariance, PTL

LEMMA EstimateIsExactNow == EstimateInv => EstimateIsExact
<1> SUFFICES ASSUME EstimateInv, Estimates, \A a \in Window : fate[a] = "ran"
             PROVE  Error = 0
  BY DEF EstimateIsExact
<1>1. /\ Echo \in Ages /\ Echo < MAX_FB_AGE /\ job = "done" /\ last_seq <= Echo
      /\ SinceCounts \in Int /\ Exact(Echo, SinceCounts)
  BY EchoIs DEF EstimateInv, Estimates, Fresh
<1>2. Ran(Echo)
  BY DEF Ran, Window
<1>3. incr = v_ring[0]
  BY <1>1, <1>2, WindowRan DEF EstimateInv
<1>4. SinceCounts + v_ring[0] = Travel(v_ring, dur_ring)[Echo]
  BY <1>1, <1>2 DEF Exact
<1>5. incr \in Int
  BY Sizes DEF EstimateInv, TypeOK
<1> QED BY <1>1, <1>3, <1>4, <1>5 DEF Error, Predicted

\* If every command since the sample ran in its period, update's sum over v_ring and
\* dur_ring is the distance the motor went since: the estimate is the position.
THEOREM EstimateIsExactHolds == Spec => []EstimateIsExact
BY EstimateIsExactNow, EstimateInvariance, PTL

\* No error is carried from one status into the next (counts_seq and the rings of
\* unoq_spi.c): after any faults, two commands that took effect in their periods
\* and a reply to the second make the estimate exact.
THEOREM EstimateIsBackHolds == Spec => []EstimateIsBack
<1>1. EstimateInv => EstimateIsBack
  <2> SUFFICES ASSUME EstimateInv, Estimates, Got,
                      fate[0] = "ran", fate[1] = "ran"
               PROVE  Error = 0
    BY DEF EstimateIsBack
  <2>1. /\ Echo = reply.seq_echo /\ reply.ok /\ Echo >= 1 /\ Echo < MAX_FB_AGE
        /\ Echo \in Int
    BY DEF EstimateInv, Order, Estimates, Fresh, Got, Echo, TypeOK, Ages
  <2>2. Echo = 1
    <3>1. ~(1 \in 1 .. Echo - 1)
      BY <2>1 DEF EstimateInv, EchoLost
    <3> QED BY <2>1, <3>1
  <2>3. \A a \in Window : fate[a] = "ran"
    BY <2>2 DEF Window
  <2> QED BY <2>3, EstimateIsExactNow DEF EstimateIsExact
<1> QED
  BY <1>1, EstimateInvariance, PTL

\* What PositionLoop takes the estimate to be: with counts of the command before
\* the last, and each command in effect for a period, the sum is of two velocities.
THEOREM EstimateOfTwo ==
    Spec => [](Echo = 1 /\ Echo < MAX_FB_AGE /\ dur_ring[0] = 1 /\ dur_ring[1] = 1
                   => Predicted = v_ring[1] + v_ring[0])
<1>1. TypeOK => (Echo = 1 /\ Echo < MAX_FB_AGE /\ dur_ring[0] = 1 /\ dur_ring[1] = 1
                     => Predicted = v_ring[1] + v_ring[0])
  <2> SUFFICES ASSUME TypeOK, Echo = 1, Echo < MAX_FB_AGE, dur_ring[0] = 1,
                      dur_ring[1] = 1
               PROVE  Predicted = v_ring[1] + v_ring[0]
    OBVIOUS
  <2> DEFINE t == Travel(v_ring, dur_ring)
  <2>1. 0 \in 0 .. MAX_FB_AGE - 1 /\ 1 \in 0 .. MAX_FB_AGE - 1
    BY Sizes
  <2>2. /\ t[0] = v_ring[0] * dur_ring[0] + 0
        /\ t[1] = v_ring[1] * dur_ring[1] + t[0]
    BY <2>1, RingsAreRings, TravelIs
  <2>3. v_ring[0] \in Int /\ v_ring[1] \in Int
    BY <2>1, RingsAreRings DEF Rings
  <2> HIDE DEF t
  <2>4. t[1] = v_ring[1] + v_ring[0]
    BY <2>2, <2>3
  <2> QED BY <2>4 DEF Predicted, t
<1> QED
  BY <1>1, EstimateTypeCorrect, PTL
=============================================================================
