------------------------------ MODULE Mailbox -------------------------------
(***************************************************************************)
(* What the mailbox of hal/unoq_spi.c promises to the servo thread: one     *)
(* frame at a time goes out, once, and its answer comes back before the     *)
(* next; the end of the component may drop a frame that has not gone out,   *)
(* and then a last one goes out alone.                                     *)
(*                                                                         *)
(* `job` is what UnoqSpi and Estimator take the mailbox for; an exchange    *)
(* and the worker's return are one step there where nothing tells them      *)
(* apart (all of UnoqSpi, a failed ioctl in Estimator).                     *)
(***************************************************************************)
EXTENDS Integers

CONSTANT WRAP   \* frames are numbered modulo this

VARIABLES
    job,        \* "none" posted yet, "posted", "back" (exchanged, and the
                \* worker not ready yet), "done", "exit", "gone"
    frame,      \* number of the frame posted last
    answered    \* number of the frame the answer belongs to

vars == <<job, frame, answered>>

Init == job = "none" /\ frame = 0 /\ answered = 0

Post ==
    /\ job \in {"none", "done"} /\ job' = "posted"
    /\ frame' = (frame + 1) % WRAP
    /\ UNCHANGED answered

Exchange ==
    /\ job = "posted" /\ job' = "back"
    /\ answered' = frame
    /\ UNCHANGED frame

Return == job = "back" /\ job' = "done" /\ UNCHANGED <<frame, answered>>

Close ==
    /\ job \in {"none", "posted", "done"} /\ job' = "exit"
    /\ UNCHANGED <<frame, answered>>

Last == job = "exit" /\ job' = "gone" /\ UNCHANGED <<frame, answered>>

Next == Post \/ Exchange \/ Return \/ Close \/ Last

Spec == Init /\ [][Next]_vars
=============================================================================
