------------------------------- MODULE Handoff -------------------------------
(***************************************************************************)
(* How the servo thread and the SPI worker of hal/unoq_spi.c share the      *)
(* mailbox `w`: the frame buffers tx and rx without a lock, the counters    *)
(* posted and done, the semaphore go and the flag stop, down to the end of  *)
(* the component in rtapi_app_exit.                                        *)
(*                                                                         *)
(* A frame is its number.  The ioctl is a beginning and an end, so that a   *)
(* buffer touched between the two would be seen.  The servo thread is       *)
(* stopped before the component is unloaded; nothing interrupts sem_wait.   *)
(*                                                                         *)
(* Names carry a prefix where PositionLoop and Estimator have the same ones: *)
(* UnoqProofs extends all three.                                           *)
(***************************************************************************)
EXTENDS Integers

CONSTANT WRAP    \* posted and done count modulo this: 2^32

ASSUME WrapAssumption == WRAP \in Nat /\ WRAP >= 2

VARIABLES
    posted, done,   \* the counters
    go,             \* the semaphore's value
    stop,
    tx,             \* number of the frame in w.tx
    rx,             \* number of the frame w.rx answers
    servo,          \* where the thread that calls unoq.update is
    worker,         \* where spi_worker is
    n,              \* spi_worker's local: the value of posted it loaded
    ever,           \* history: some frame was posted
    sent            \* history: number of the frame transferred last

buffers == <<tx, rx>>
servoVars == <<servo, posted, ever>>
mailVars == <<posted, done, go, stop, tx, rx, servo, worker, n, ever, sent>>

Counts == 0 .. WRAP - 1

ServoPCs == {"idle", "collect", "fill", "bump", "post",
             "exit", "join", "last", "unloaded"}
WorkerPCs == {"wait", "woken", "load", "ioctl", "store", "ended"}

MailInit ==
    /\ posted = 0 /\ done = 0 /\ go = 0 /\ stop = FALSE
    /\ tx = 0 /\ rx = 0
    /\ servo = "idle" /\ worker = "wait" /\ n = 0
    /\ ever = FALSE /\ sent = 0

\* The next count, in a uint32_t.  Mutation: it does not wrap.
AfterWide(c) == c + 1
After(c) == IF c = WRAP - 1 THEN 0 ELSE c + 1

-----------------------------------------------------------------------------
(* The servo thread. *)

Goto(from, to) == servo = from /\ servo' = to

\* collect_reply: done # posted, the period is skipped.
ReadBusy ==
    /\ servo = "idle" /\ done # posted
    /\ UNCHANGED mailVars

\* Mutation: the worker is taken for idle whatever it does.
ReadDoneAlways ==
    /\ Goto("idle", IF posted = 0 THEN "fill" ELSE "collect")
    /\ UNCHANGED <<posted, done, go, stop, buffers, worker, n, ever, sent>>

\* done = posted: there is a reply, or nothing was sent yet.
ReadDone ==
    /\ done = posted
    /\ Goto("idle", IF posted = 0 THEN "fill" ELSE "collect")
    /\ UNCHANGED <<posted, done, go, stop, buffers, worker, n, ever, sent>>

\* memcpy(&rx, &w.rx)
CopyReply ==
    /\ Goto("collect", "fill")
    /\ UNCHANGED <<posted, done, go, stop, buffers, worker, n, ever, sent>>

\* memcpy(&w.tx, &tx)
FillFrame ==
    /\ Goto("fill", "bump")
    /\ tx' = After(posted)
    /\ UNCHANGED <<posted, done, go, stop, rx, worker, n, ever, sent>>

Bump ==
    /\ Goto("bump", "post")
    /\ posted' = After(posted) /\ ever' = TRUE
    /\ UNCHANGED <<done, go, stop, buffers, worker, n, sent>>

\* Mutation: the worker is not woken.
PostSilent ==
    /\ Goto("post", "idle")
    /\ UNCHANGED <<posted, done, go, stop, buffers, worker, n, ever, sent>>

Post ==
    /\ Goto("post", "idle")
    /\ go' = go + 1
    /\ UNCHANGED <<posted, done, stop, buffers, worker, n, ever, sent>>

\* rtapi_app_exit: stop the worker, wake it up, wait for its end ...
ExitStop ==
    /\ Goto("idle", "exit")
    /\ stop' = TRUE
    /\ UNCHANGED <<posted, done, go, buffers, worker, n, ever, sent>>

\* Mutation: the worker is left asleep.
ExitPostSilent ==
    /\ Goto("exit", "join")
    /\ UNCHANGED <<posted, done, go, stop, buffers, worker, n, ever, sent>>

ExitPost ==
    /\ Goto("exit", "join")
    /\ go' = go + 1
    /\ UNCHANGED <<posted, done, stop, buffers, worker, n, ever, sent>>

\* Mutation: the worker's end is not waited for.
JoinNot ==
    /\ Goto("join", "last")
    /\ UNCHANGED <<posted, done, go, stop, buffers, worker, n, ever, sent>>

Join ==
    /\ worker = "ended"
    /\ Goto("join", "last")
    /\ UNCHANGED <<posted, done, go, stop, buffers, worker, n, ever, sent>>

\* ... and send the last frame, from this thread.
LastFrame ==
    /\ Goto("last", "unloaded")
    /\ UNCHANGED <<posted, done, go, stop, buffers, worker, n, ever, sent>>

Servo ==
    \/ ReadDone \/ CopyReply \/ FillFrame \/ Bump \/ Post
    \/ ExitPost \/ Join \/ LastFrame

-----------------------------------------------------------------------------
(* The worker. *)

Step(from, to) == worker = from /\ worker' = to

SemWait ==
    /\ go > 0 /\ go' = go - 1
    /\ Step("wait", "woken")
    /\ UNCHANGED <<servoVars, done, stop, buffers, n, sent>>

TestStop ==
    /\ Step("woken", IF stop THEN "ended" ELSE "load")
    /\ UNCHANGED <<servoVars, done, go, stop, buffers, n, sent>>

\* Mutation: the frame is reported done before it is transferred.
LoadPostedDone ==
    /\ Step("load", "ioctl")
    /\ n' = posted /\ done' = posted
    /\ UNCHANGED <<servoVars, go, stop, buffers, sent>>

LoadPosted ==
    /\ Step("load", "ioctl")
    /\ n' = posted
    /\ UNCHANGED <<servoVars, done, go, stop, buffers, sent>>

\* The ioctl ends: the frame in tx went out and rx holds its answer.
Transfer ==
    /\ Step("ioctl", "store")
    /\ rx' = tx /\ sent' = tx
    /\ UNCHANGED <<servoVars, done, go, stop, tx, n>>

StoreDone ==
    /\ Step("store", "wait")
    /\ done' = n
    /\ UNCHANGED <<servoVars, go, stop, buffers, n, sent>>

Worker == SemWait \/ TestStop \/ LoadPosted \/ Transfer \/ StoreDone

Terminated == servo = "unloaded" /\ UNCHANGED mailVars

MailNext == Servo \/ ReadBusy \/ ExitStop \/ Worker \/ Terminated

\* Both threads are SCHED_FIFO and run when they can; ioctl returns.
MailSpec ==
    /\ MailInit /\ [][MailNext]_mailVars
    /\ WF_mailVars(Servo) /\ WF_mailVars(Worker)

-----------------------------------------------------------------------------

\* The values the variables take; the semaphore never counts beyond the frame
\* posted and the wake-up of the exit.
MailTypeOK ==
    /\ posted \in Counts /\ done \in Counts /\ n \in Counts
    /\ tx \in Counts /\ rx \in Counts /\ sent \in Counts
    /\ go \in 0 .. 2 /\ stop \in BOOLEAN /\ ever \in BOOLEAN
    /\ servo \in ServoPCs /\ worker \in WorkerPCs

\* Without a lock, the servo thread is in the buffers only while the worker is
\* not, and the last frame's ioctl never meets the worker's.
NoBufferRace ==
    servo \in {"collect", "fill", "last"}
        => worker \notin {"load", "ioctl", "store"}

\* The reply the servo thread copies answers the frame it posted last.
ReplyIsCurrent == servo = "collect" => rx = posted /\ sent = posted

\* No frame is transferred twice, none is skipped and none is overwritten while
\* it waits, when the counters wrap too.
InOrder == [][Transfer => tx = After(sent)]_mailVars

\* A posted frame is answered, unless the component is unloaded first.
FrameIsAnswered == done # posted ~> (done = posted \/ stop)

\* Unloading ends: the worker leaves whatever it was doing.
ExitEnds == stop ~> servo = "unloaded"

\* The mailbox as the servo thread and the modules of the link take it.
Job == IF servo = "last" THEN "exit"
       ELSE IF servo = "unloaded" THEN "gone"
       ELSE IF done = posted THEN (IF ever THEN "done" ELSE "none")
       ELSE IF worker = "store" THEN "back"
       ELSE "posted"

Box == INSTANCE Mailbox WITH job <- Job, frame <- posted, answered <- rx

\* The two threads, with their counters, buffers and semaphore, keep the mailbox'
\* promise: module Mailbox.
MailboxContract == Box!Spec

\* "nothing sent yet" (collect_reply's comment on posted == 0).  Does not hold after
\* the wrap: see README.md.
NothingSentYet == servo = "idle" /\ done = posted /\ posted = 0 => ~ever
=============================================================================
