------------------------------- MODULE SpiEcho -------------------------------
(***************************************************************************)
(* The link test: tools/spitest/spitest.c sends numbered frames of random  *)
(* payload, firmware/spi-echo/src/main.c sends each back in the transfer   *)
(* after it, and the test compares.                                        *)
(*                                                                         *)
(* A transfer exchanges a request and the reply prepared before it.  Either *)
(* can be damaged in one of its fields, and the ioctl can fail with or     *)
(* without the MCU having taken the request.  A request the MCU misses or   *)
(* gets only part of has the effect of a bad header.  A payload is the      *)
(* number of its frame (the generator starts from the same seed in every   *)
(* test and does not repeat within one); damage yields a value that no     *)
(* frame has and that further damage does not put right.  Timing is left   *)
(* out.                                                                    *)
(***************************************************************************)
EXTENDS Integers

CONSTANTS
    NFRAMES,   \* option -n
    SEQS,      \* sequence numbers: 256 (uint8_t)
    Earlier    \* frames of an earlier test the MCU may still hold

ASSUME EchoAssumption ==
    NFRAMES \in Nat /\ SEQS \in Nat \ {0} /\ Earlier \subseteq Nat

Junk == -1

VARIABLES
    n,                      \* spitest: frames sent
    prev, have_prev,        \* the last request that went through
    ok, bad, ioerr,         \* counters; bad is bad_hdr + bad_seq + bad_data
    verdict,                \* exit status, "none" while it runs
    tx_buf,                 \* MCU: the reply for the next transfer
    doubt,                  \* history: what happened to the echo of prev
    harm                    \* history: what happened to the replies compared

counters == <<ok, bad, ioerr>>
vars == <<n, prev, have_prev, ok, bad, ioerr, verdict, tx_buf, doubt, harm>>

Fields == {"header", "seq", "unused", "payload"}   \* "unused": bytes 2 and 3
Frames == [header : {0, Junk}, seq : (0 .. SEQS - 1) \cup {Junk},
           unused : {0, Junk}, payload : (0 .. NFRAMES) \cup Earlier \cup {Junk}]

Damaged(f, field) == [f EXCEPT ![field] = Junk]
Variants(f) == {f} \cup {Damaged(f, field) : field \in Fields}

\* Mutation: the sequence number does not wrap.
SeqWide(k) == k
Seq(k) == k % SEQS

Frame(k) == [header |-> 0, seq |-> Seq(k), unused |-> 0, payload |-> k]
Request == Frame(n)
Zeros == [header |-> 0, seq |-> 0, unused |-> 0, payload |-> Junk]

Init ==
    /\ n = 0 /\ prev = Zeros /\ have_prev = FALSE
    /\ ok = 0 /\ bad = 0 /\ ioerr = 0 /\ verdict = "none"
    /\ tx_buf \in {Zeros} \cup {Frame(k) : k \in Earlier}
    /\ doubt = {} /\ harm = {}

-----------------------------------------------------------------------------

\* The MCU's loop, when the frame it received is rx: a bad header (bad_hdr)
\* leaves the reply as it is.  The reply's bytes 2 and 3 are a counter of its own.
Takes(rx) == rx.header = 0
Echo(rx) == IF Takes(rx) THEN [rx EXCEPT !.unused = 0] ELSE tx_buf

\* The checks of the test on reply rx.  Mutation: the payload is not compared.
MatchesLoosely(rx) == rx.header = 0 /\ rx.seq = prev.seq
Matches(rx) == rx.header = 0 /\ rx.seq = prev.seq /\ rx.payload = prev.payload

\* What a frame suffered on its way, as the histories record it.
Suffered(f, got) ==
    IF f = got THEN {} ELSE IF [got EXCEPT !.unused = 0] = f THEN {"unchecked"}
                       ELSE {"checked"}

\* A transfer went through: the MCU received f, the host rx.
Exchange(f, rx) ==
    /\ n < NFRAMES /\ verdict = "none"
    /\ tx_buf' = Echo(f)
    /\ ok' = IF have_prev /\ Matches(rx) THEN ok + 1 ELSE ok
    /\ bad' = IF have_prev /\ ~Matches(rx) THEN bad + 1 ELSE bad
    /\ prev' = Request /\ have_prev' = TRUE
    /\ harm' = IF have_prev THEN harm \cup doubt \cup Suffered(tx_buf, rx) ELSE harm
    /\ doubt' = Suffered(Request, f)
    /\ n' = n + 1
    /\ UNCHANGED <<ioerr, verdict>>

\* Mutation: a request whose transfer failed is expected back.
FailExpecting ==
    /\ n < NFRAMES /\ verdict = "none"
    /\ ioerr' = ioerr + 1 /\ n' = n + 1
    /\ prev' = Request
    /\ UNCHANGED <<have_prev, ok, bad, verdict, tx_buf, doubt, harm>>

\* The ioctl fails: the test goes on to the next frame (continue).
Fail ==
    /\ n < NFRAMES /\ verdict = "none"
    /\ ioerr' = ioerr + 1 /\ n' = n + 1
    /\ \/ UNCHANGED <<tx_buf, doubt>>
       \/ \E f \in Variants(Request) :
              /\ tx_buf' = Echo(f)
              /\ doubt' = IF Takes(f) THEN {"checked"} ELSE doubt
    /\ UNCHANGED <<prev, have_prev, ok, bad, verdict, harm>>

\* checked = nframes - 1 - ioerr, and main returns.
Finish ==
    /\ n = NFRAMES /\ verdict = "none"
    /\ verdict' = IF ok = NFRAMES - 1 - ioerr THEN "pass" ELSE "fail"
    /\ UNCHANGED <<n, prev, have_prev, counters, tx_buf, doubt, harm>>

Next ==
    \/ \E f \in Variants(Request), rx \in Variants(tx_buf) : Exchange(f, rx)
    \/ Fail \/ Finish

Spec == Init /\ [][Next]_vars

-----------------------------------------------------------------------------

TypeOK ==
    /\ n \in 0 .. NFRAMES /\ prev \in Frames /\ have_prev \in BOOLEAN
    /\ ok \in 0 .. NFRAMES /\ bad \in 0 .. NFRAMES /\ ioerr \in 0 .. NFRAMES
    /\ verdict \in {"none", "pass", "fail"} /\ tx_buf \in Frames
    /\ doubt \subseteq {"checked", "unchecked"}
    /\ harm \subseteq {"checked", "unchecked"}

\* The test passes exactly if some transfer went through and, of all replies
\* compared, none was damaged in header, number or payload and none was the echo
\* of a request that was damaged, lost, or followed by a failed transfer that
\* the MCU took: no false alarm, and nothing missed when numbers wrap.
VerdictIsExact ==
    verdict # "none" =>
        (verdict = "pass" <=> have_prev /\ "checked" \notin harm)

\* What firmware/spi-echo/src/main.c:8-9 says: every byte of the round trip is
\* checked.  Does not hold: see README.md.
EveryByteIsChecked == verdict = "pass" => harm = {}

\* What tools/spitest/spitest.c:9-10 says: the test checks that the MCU echoes the
\* frame before.  Does not hold if an earlier test left the frame that this one
\* expects: see README.md.
LossIsSeen == verdict = "pass" => "checked" \notin harm
=============================================================================
