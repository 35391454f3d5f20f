---------------------------- MODULE SpiEchoProofs ----------------------------
(***************************************************************************)
(* The link test's verdict is exact for every number of frames and every   *)
(* width of the sequence number, if the MCU holds no frame of an earlier    *)
(* test that this test sends too before its last.                          *)
(***************************************************************************)
EXTENDS SpiEcho, TLAPS

\* A test that is run again with the same -n finds the last frame of the run before
\* it: that one is sent again, but its echo is not waited for.
FreshMcu == Earlier \cap (0 .. NFRAMES - 2) = {}

Same(rx, f) == rx.header = f.header /\ rx.seq = f.seq /\ rx.payload = f.payload

\* Where the MCU's reply comes from, and what doubt says of it.
EchoInv ==
    /\ tx_buf.header = 0 /\ tx_buf.unused = 0
    /\ tx_buf.payload \in {Junk} \cup Earlier \cup 0 .. n - 1
    /\ have_prev => /\ prev.header = 0 /\ prev.seq # Junk /\ prev.payload \in 0 .. n - 1
    /\ have_prev /\ n < NFRAMES => ("checked" \in doubt <=> ~Same(tx_buf, prev))

\* The counters, and what harm says of them.
CountInv ==
    /\ have_prev => ok + bad = n - 1 - ioerr
    /\ ~have_prev => ok = 0 /\ bad = 0 /\ n = ioerr /\ harm = {}
    /\ bad > 0 <=> "checked" \in harm
    /\ verdict # "none" =>
           /\ n = NFRAMES
           /\ verdict = "pass" <=> ok = NFRAMES - 1 - ioerr

IInv == TypeOK /\ EchoInv /\ CountInv

-----------------------------------------------------------------------------

LEMMA Sizes == NFRAMES \in Nat /\ SEQS \in Nat /\ SEQS > 0 /\ Earlier \subseteq Nat
BY EchoAssumption

\* Frames with the same fields are the same.
LEMMA FrameEquality ==
    ASSUME NEW f \in Frames, NEW g \in Frames,
           f.header = g.header, f.seq = g.seq, f.unused = g.unused,
           f.payload = g.payload
    PROVE  f = g
BY DEF Frames

LEMMA FrameOf ==
    ASSUME NEW k \in 0 .. NFRAMES \cup Earlier
    PROVE  Frame(k) \in Frames /\ Seq(k) \in 0 .. SEQS - 1
<1>1. k \in Nat
  BY Sizes
<1>2. Seq(k) \in 0 .. SEQS - 1
  BY <1>1, Sizes DEF Seq
<1>3. QED
  BY <1>2 DEF Frame, Frames

\* What can arrive of a frame: the frame, or one field of it turned to junk.
LEMMA VariantFields ==
    ASSUME NEW f \in Frames, NEW g \in Variants(f)
    PROVE  /\ g \in Frames
           /\ \/ g = f
              \/ g.header = Junk /\ g.seq = f.seq /\ g.payload = f.payload
              \/ g.seq = Junk /\ g.header = f.header /\ g.payload = f.payload
              \/ /\ g.unused = Junk /\ g.header = f.header /\ g.seq = f.seq
                 /\ g.payload = f.payload
              \/ g.payload = Junk /\ g.header = f.header /\ g.seq = f.seq
<1>1. CASE g = f
  BY <1>1
<1>2. CASE g = [f EXCEPT !["header"] = Junk]
  BY <1>2 DEF Frames
<1>3. CASE g = [f EXCEPT !["seq"] = Junk]
  BY <1>3 DEF Frames
<1>4. CASE g = [f EXCEPT !["unused"] = Junk]
  BY <1>4 DEF Frames
<1>5. CASE g = [f EXCEPT !["payload"] = Junk]
  BY <1>5 DEF Frames
<1>6. QED
  BY <1>1, <1>2, <1>3, <1>4, <1>5 DEF Variants, Fields, Damaged

\* Suffered tells whether a checked field of a frame was damaged.
LEMMA SufferedChecked ==
    ASSUME NEW f \in Frames, f.unused = 0, NEW g \in Variants(f)
    PROVE  /\ Suffered(f, g) \subseteq {"checked", "unchecked"}
           /\ "checked" \in Suffered(f, g) <=> ~Same(g, f)
<1>1. g \in Frames
  BY VariantFields
<1>2. [g EXCEPT !.unused = 0] \in Frames
  BY <1>1 DEF Frames
<1>3. Same(g, f) => [g EXCEPT !.unused = 0] = f
  BY <1>1, <1>2, FrameEquality DEF Same, Frames
<1>4. [g EXCEPT !.unused = 0] = f => Same(g, f)
  BY <1>1 DEF Same, Frames
<1>5. QED
  BY <1>3, <1>4 DEF Suffered, Same

\* What the MCU holds after it received f in the place of the test's frame n.
LEMMA EchoOf ==
    ASSUME FreshMcu, TypeOK, EchoInv, n < NFRAMES, NEW f \in Variants(Request)
    PROVE  /\ Echo(f) \in Frames /\ Echo(f).header = 0 /\ Echo(f).unused = 0
           /\ Echo(f).payload \in {Junk} \cup Earlier \cup 0 .. n
           /\ ~Takes(f) => Echo(f) = tx_buf
           /\ n < NFRAMES - 1 => (Same(Echo(f), Request) <=> Same(f, Request))
           /\ Takes(f) => Echo(f).payload \in {n, Junk}
<1>1. n \in Nat /\ NFRAMES \in Nat /\ n \in 0 .. NFRAMES - 1
  BY Sizes DEF TypeOK
<1>2. /\ Request \in Frames /\ Request.header = 0 /\ Request.payload = n
      /\ Request.unused = 0 /\ Request.seq \in 0 .. SEQS - 1
  BY <1>1, FrameOf DEF Request, Frame
<1>3. f \in Frames
  BY <1>2, VariantFields
<1>4. CASE Takes(f)
  <2>1. Echo(f) = [f EXCEPT !.unused = 0]
    BY <1>4 DEF Echo
  <2>2. /\ Echo(f) \in Frames /\ Echo(f).header = f.header /\ Echo(f).seq = f.seq
        /\ Echo(f).payload = f.payload /\ Echo(f).unused = 0
    BY <1>3, <2>1 DEF Frames
  <2>3. f.payload \in {n, Junk}
    BY <1>2, VariantFields
  <2>4. QED
    BY <1>1, <1>4, <2>2, <2>3 DEF Takes, Same
<1>5. CASE ~Takes(f)
  <2>1. Echo(f) = tx_buf /\ tx_buf \in Frames
    BY <1>5 DEF Echo, TypeOK
  <2>2. ~Same(f, Request)
    BY <1>2, <1>5 DEF Takes, Same
  <2>3. n < NFRAMES - 1 => tx_buf.payload # n
    BY <1>1 DEF EchoInv, FreshMcu, Junk
  <2>4. QED
    BY <1>1, <1>2, <1>5, <2>1, <2>2, <2>3 DEF EchoInv, Same
<1>6. QED
  BY <1>4, <1>5

LEMMA TypeStep ==
    ASSUME FreshMcu
    PROVE  IInv /\ [Next]_vars => TypeOK'
<1> SUFFICES ASSUME IInv, [Next]_vars PROVE TypeOK'
  OBVIOUS
<1>0. TypeOK /\ EchoInv /\ CountInv
  BY DEF IInv
<1>a. ASSUME n < NFRAMES
      PROVE  /\ n + 1 \in 0 .. NFRAMES /\ Request \in Frames /\ Request.unused = 0
             /\ ioerr + 1 \in 0 .. NFRAMES
             /\ ok + 1 \in 0 .. NFRAMES \/ ~have_prev
             /\ bad + 1 \in 0 .. NFRAMES \/ ~have_prev
  <2>1. n \in 0 .. NFRAMES /\ NFRAMES \in Nat
    BY <1>0, Sizes DEF TypeOK
  <2>2. Request \in Frames /\ Request.unused = 0
    BY <2>1, FrameOf DEF Request, Frame
  <2>3. ok \in Nat /\ bad \in Nat /\ ioerr \in Nat
    BY <1>0 DEF TypeOK
  <2>4. ioerr + 1 <= NFRAMES
    BY <1>0, <1>a, <2>1, <2>3 DEF CountInv
  <2>5. have_prev => ok + 1 <= NFRAMES /\ bad + 1 <= NFRAMES
    BY <1>0, <1>a, <2>1, <2>3 DEF CountInv
  <2>6. QED
    BY <1>a, <2>1, <2>2, <2>3, <2>4, <2>5
<1>1. ASSUME NEW f \in Variants(Request), NEW rx \in Variants(tx_buf), Exchange(f, rx)
      PROVE  TypeOK'
  <2>1. n < NFRAMES
    BY <1>1 DEF Exchange
  <2>2. tx_buf' \in Frames
    BY <1>0, <1>1, <2>1, EchoOf DEF Exchange
  <2>3. doubt' \subseteq {"checked", "unchecked"}
    BY <1>1, <1>a, <2>1, SufferedChecked DEF Exchange
  <2>4. Suffered(tx_buf, rx) \subseteq {"checked", "unchecked"}
    BY <1>0, SufferedChecked DEF TypeOK, EchoInv
  <2>5. harm' \subseteq {"checked", "unchecked"}
    BY <1>0, <1>1, <2>4 DEF Exchange, TypeOK
  <2>6. ok' \in 0 .. NFRAMES /\ bad' \in 0 .. NFRAMES
    BY <1>0, <1>1, <1>a, <2>1 DEF Exchange, TypeOK
  <2>7. n' \in 0 .. NFRAMES /\ prev' \in Frames /\ have_prev' \in BOOLEAN
        /\ UNCHANGED <<ioerr, verdict>>
    BY <1>1, <1>a, <2>1 DEF Exchange
  <2>8. QED
    BY <1>0, <2>2, <2>3, <2>5, <2>6, <2>7 DEF TypeOK
<1>2. CASE Fail
  <2>1. n < NFRAMES
    BY <1>2 DEF Fail
  <2>2. tx_buf' \in Frames
    BY <1>0, <1>2, <2>1, EchoOf DEF Fail, TypeOK
  <2>3. doubt' \subseteq {"checked", "unchecked"}
    BY <1>0, <1>2 DEF Fail, TypeOK
  <2>4. n' \in 0 .. NFRAMES /\ ioerr' \in 0 .. NFRAMES
        /\ UNCHANGED <<prev, have_prev, ok, bad, verdict, harm>>
    BY <1>2, <1>a, <2>1 DEF Fail
  <2>5. QED
    BY <1>0, <2>2, <2>3, <2>4 DEF TypeOK
<1>3. CASE Finish
  BY <1>0, <1>3 DEF Finish, TypeOK, counters
<1>4. CASE UNCHANGED vars
  BY <1>0, <1>4 DEF vars, TypeOK
<1>5. QED
  BY <1>1, <1>2, <1>3, <1>4 DEF Next

LEMMA EchoStep ==
    ASSUME FreshMcu
    PROVE  IInv /\ [Next]_vars => EchoInv'
<1> SUFFICES ASSUME IInv, [Next]_vars PROVE EchoInv'
  OBVIOUS
<1>0. TypeOK /\ EchoInv /\ n \in Int
  BY DEF IInv, TypeOK
<1>a. ASSUME n < NFRAMES
      PROVE  /\ Request \in Frames /\ Request.header = 0 /\ Request.unused = 0
             /\ Request.seq # Junk /\ Request.payload = n /\ n \in 0 .. n
  <2>1. n \in 0 .. NFRAMES
    BY <1>0, Sizes DEF TypeOK
  <2>2. Seq(n) \in 0 .. SEQS - 1 /\ Frame(n) \in Frames
    BY <2>1, FrameOf
  <2>3. QED
    BY <2>1, <2>2, Sizes DEF Request, Frame, Junk
<1>1. ASSUME NEW f \in Variants(Request), NEW rx \in Variants(tx_buf), Exchange(f, rx)
      PROVE  EchoInv'
  <2>1. n < NFRAMES /\ n' = n + 1 /\ tx_buf' = Echo(f) /\ prev' = Request
        /\ doubt' = Suffered(Request, f)
    BY <1>1 DEF Exchange
  <2>2. n' - 1 = n
    BY <1>0, <2>1
  <2>3. tx_buf'.payload \in {Junk} \cup Earlier \cup 0 .. n' - 1
    BY <1>0, <2>1, <2>2, EchoOf
  <2>4. n' < NFRAMES => ("checked" \in doubt' <=> ~Same(tx_buf', prev'))
    <3>1. n' < NFRAMES => n < NFRAMES - 1
      BY <1>0, <2>1, Sizes
    <3>2. QED
      BY <1>0, <1>a, <2>1, <3>1, EchoOf, SufferedChecked
  <2>5. prev'.header = 0 /\ prev'.seq # Junk /\ prev'.payload \in 0 .. n' - 1
    BY <1>a, <2>1, <2>2
  <2>6. tx_buf'.header = 0 /\ tx_buf'.unused = 0
    BY <1>0, <2>1, EchoOf
  <2>7. QED
    BY <2>3, <2>4, <2>5, <2>6 DEF EchoInv, Same
<1>2. CASE Fail
  <2>1. n < NFRAMES /\ n' = n + 1 /\ UNCHANGED <<prev, have_prev>>
    BY <1>2 DEF Fail
  <2>2. n' - 1 = n /\ 0 .. n - 1 \subseteq 0 .. n /\ n < NFRAMES
    BY <1>0, <2>1
  <2>3. CASE UNCHANGED <<tx_buf, doubt>>
    BY <1>0, <2>1, <2>2, <2>3 DEF EchoInv, Same
  <2>4. ASSUME NEW f \in Variants(Request), tx_buf' = Echo(f),
               doubt' = IF Takes(f) THEN {"checked"} ELSE doubt
        PROVE  EchoInv'
    <3>1. CASE ~Takes(f)
      <4>1. UNCHANGED <<tx_buf, doubt>>
        BY <1>0, <2>1, <2>4, <3>1, EchoOf
      <4>2. QED
        BY <2>3, <4>1
    <3>2. CASE Takes(f)
      <4>1. /\ tx_buf'.header = 0 /\ tx_buf'.unused = 0
            /\ tx_buf'.payload \in {Junk} \cup Earlier \cup 0 .. n' - 1
            /\ tx_buf'.payload \in {n, Junk}
        BY <1>0, <2>1, <2>2, <2>4, <3>2, EchoOf
      <4>2. have_prev => prev.payload # n /\ prev.payload # Junk
        BY <1>0 DEF EchoInv, Junk
      <4>3. have_prev => ~Same(tx_buf', prev')
        BY <2>1, <4>1, <4>2 DEF Same
      <4>4. QED
        BY <1>0, <2>1, <2>2, <2>4, <3>2, <4>1, <4>3 DEF EchoInv, Same
    <3>3. QED
      BY <3>1, <3>2
  <2>5. QED
    BY <1>2, <2>3, <2>4 DEF Fail
<1>3. CASE Finish
  BY <1>0, <1>3 DEF Finish, EchoInv, Same
<1>4. CASE UNCHANGED vars
  BY <1>0, <1>4 DEF vars, EchoInv, Same
<1>5. QED
  BY <1>1, <1>2, <1>3, <1>4 DEF Next

LEMMA CountStep ==
    ASSUME FreshMcu
    PROVE  IInv /\ [Next]_vars => CountInv'
<1> SUFFICES ASSUME IInv, [Next]_vars PROVE CountInv'
  OBVIOUS
<1>0. TypeOK /\ EchoInv /\ CountInv
  BY DEF IInv
<1>a. n \in Int /\ ok \in Nat /\ bad \in Nat /\ ioerr \in Nat
  BY <1>0 DEF TypeOK
<1>1. ASSUME NEW f \in Variants(Request), NEW rx \in Variants(tx_buf), Exchange(f, rx)
      PROVE  CountInv'
  <2>1. have_prev' = TRUE /\ verdict' = "none" /\ n' = n + 1 /\ ioerr' = ioerr
    BY <1>1 DEF Exchange
  <2>2. CASE ~have_prev
    <3>1. ok = 0 /\ bad = 0 /\ n = ioerr /\ harm = {}
      BY <1>0, <2>2 DEF CountInv
    <3>2. ok' = 0 /\ bad' = 0 /\ harm' = {}
      BY <1>1, <2>2, <3>1 DEF Exchange
    <3>3. ok' + bad' = n' - 1 - ioerr'
      BY <1>a, <2>1, <3>1, <3>2
    <3>4. ~(bad' > 0) /\ "checked" \notin harm'
      BY <3>2
    <3>5. QED
      BY <2>1, <3>3, <3>4 DEF CountInv
  <2>3. CASE have_prev
    <3>0. n < NFRAMES
      BY <1>1 DEF Exchange
    <3>1. "checked" \in Suffered(tx_buf, rx) <=> ~Same(rx, tx_buf)
      BY <1>0, SufferedChecked DEF TypeOK, EchoInv
    <3>2. Matches(rx) <=> Same(rx, prev)
      BY <1>0, <2>3 DEF Matches, Same, EchoInv
    <3>3. \/ Same(rx, tx_buf)
          \/ /\ ~Same(rx, tx_buf)
             /\ rx.header = Junk \/ rx.seq = Junk \/ rx.payload = Junk
      BY <1>0, VariantFields DEF TypeOK, Same
    <3>4. Matches(rx) <=> "checked" \notin doubt \cup Suffered(tx_buf, rx)
      <4>1. CASE Same(rx, tx_buf)
        BY <1>0, <2>3, <3>0, <3>1, <3>2, <4>1 DEF EchoInv, Same
      <4>2. CASE /\ ~Same(rx, tx_buf)
                 /\ rx.header = Junk \/ rx.seq = Junk \/ rx.payload = Junk
        <5>1. prev.header # Junk /\ prev.seq # Junk /\ prev.payload # Junk
          BY <1>0, <2>3 DEF EchoInv, Junk
        <5>2. QED
          BY <3>1, <3>2, <4>2, <5>1 DEF Same
      <4>3. QED
        BY <3>3, <4>1, <4>2
    <3>5. /\ ok' = IF Matches(rx) THEN ok + 1 ELSE ok
          /\ bad' = IF Matches(rx) THEN bad ELSE bad + 1
          /\ harm' = harm \cup doubt \cup Suffered(tx_buf, rx)
      BY <1>1, <2>3 DEF Exchange
    <3>6. bad' > 0 <=> "checked" \in harm'
      BY <1>0, <1>a, <2>3, <3>4, <3>5 DEF CountInv
    <3>7. ok' + bad' = n' - 1 - ioerr'
      BY <1>0, <1>a, <2>1, <2>3, <3>5 DEF CountInv
    <3>8. QED
      BY <2>1, <3>6, <3>7 DEF CountInv
  <2>4. QED
    BY <2>2, <2>3
<1>2. CASE Fail
  BY <1>0, <1>2, <1>a DEF Fail, CountInv
<1>3. CASE Finish
  BY <1>0, <1>3 DEF Finish, CountInv, counters
<1>4. CASE UNCHANGED vars
  BY <1>0, <1>4 DEF vars, CountInv
<1>5. QED
  BY <1>1, <1>2, <1>3, <1>4 DEF Next

LEMMA InvInit == Init => IInv
<1> SUFFICES ASSUME Init PROVE IInv
  OBVIOUS
<1>1. Zeros \in Frames /\ Zeros.header = 0 /\ Zeros.unused = 0 /\ Zeros.payload = Junk
  BY Sizes DEF Zeros, Frames
<1>2. ASSUME NEW k \in Earlier
      PROVE  /\ Frame(k) \in Frames /\ Frame(k).header = 0 /\ Frame(k).unused = 0
             /\ Frame(k).payload \in Earlier
  BY <1>2, FrameOf DEF Frame
<1>3. tx_buf \in Frames /\ tx_buf.header = 0 /\ tx_buf.unused = 0
      /\ tx_buf.payload \in {Junk} \cup Earlier
  BY <1>1, <1>2 DEF Init
<1>4. 0 \in 0 .. NFRAMES
  BY Sizes
<1>5. TypeOK
  BY <1>1, <1>3, <1>4 DEF Init, TypeOK
<1>6. EchoInv /\ CountInv
  BY <1>3 DEF Init, EchoInv, CountInv
<1>7. QED
  BY <1>5, <1>6 DEF IInv

LEMMA Invariance ==
    ASSUME FreshMcu
    PROVE  Spec => []IInv
<1>1. IInv /\ [Next]_vars => IInv'
  BY TypeStep, EchoStep, CountStep DEF IInv
<1>2. QED
  BY <1>1, InvInit, PTL DEF Spec

-----------------------------------------------------------------------------

\* spitest's verdict is exact: it passes if every reply it compares is the echo
\* of its last request, undamaged, and only then, however many frames and
\* replies are lost or damaged and however often the numbers wrap.
THEOREM VerdictIsExactHolds ==
    ASSUME FreshMcu
    PROVE  Spec => []VerdictIsExact
<1>1. IInv => VerdictIsExact
  <2> SUFFICES ASSUME IInv, verdict # "none"
               PROVE  verdict = "pass" <=> have_prev /\ "checked" \notin harm
    BY DEF VerdictIsExact
  <2>1. n \in Int /\ ok \in Nat /\ bad \in Nat /\ ioerr \in Nat /\ NFRAMES \in Nat
    BY Sizes DEF IInv, TypeOK
  <2>2. n = NFRAMES /\ (verdict = "pass" <=> ok = NFRAMES - 1 - ioerr)
    BY DEF IInv, CountInv
  <2>3. CASE have_prev
    BY <2>1, <2>2, <2>3 DEF IInv, CountInv
  <2>4. CASE ~have_prev
    BY <2>1, <2>2, <2>4 DEF IInv, CountInv
  <2>5. QED
    BY <2>3, <2>4
<1>2. QED
  BY <1>1, Invariance, PTL
=============================================================================
