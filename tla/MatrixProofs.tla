---------------------------- MODULE MatrixProofs -----------------------------
(***************************************************************************)
(* What holds of the LED matrix for every size of panel and every text.    *)
(***************************************************************************)
EXTENDS Matrix, TLAPS

\* The pins, at each register write of led_set.
PortInv ==
    /\ pc \in {"BSRR", "MODER"} => on /\ MODER = {}
    /\ pc = "MODER" => Hi(i) \in ODR /\ Lo(i) \notin ODR
    /\ pc = "next" /\ ~on => MODER = {}
    /\ pc = "next" /\ on =>
           MODER = {Hi(i), Lo(i)} /\ Hi(i) \in ODR /\ Lo(i) \notin ODR
    /\ pc = "idle" => \/ MODER = {}
                      \/ \E a \in shown : /\ MODER = {Hi(a), Lo(a)}
                                          /\ Hi(a) \in ODR /\ Lo(a) \notin ODR

\* The framebuffer, while memcpy works its way through it.
CopyInv ==
    /\ \A idx \in Leds : idx \in framebuffer <=>
           IF idx \div BITS < copied THEN idx \in Frame(offset) ELSE idx \in before
    /\ pc # "idle" => on = (i \in framebuffer)

\* How many LEDs were scanned after idx was.
Age(idx) == IF idx < i THEN i - 1 - idx ELSE NUM_LEDS + i - 1 - idx

\* What was scanned since the copy ended was shown as the picture has it.
ShownInv ==
    copied = Bytes =>
        \A idx \in Leds : Age(idx) < SLEEP - sleep =>
                               (idx \in shown <=> idx \in framebuffer)

IInv == TypeOK /\ PortInv /\ CopyInv /\ ShownInv

-----------------------------------------------------------------------------

LEMMA Sizes ==
    /\ COLS \in Nat /\ COLS > 0 /\ ROWS \in Nat /\ ROWS > 0
    /\ BITS \in Nat /\ BITS > 0 /\ SLEEP \in Nat
    /\ NUM_LEDS \in Nat /\ NUM_LEDS > 0
    /\ N \in Nat /\ N > 0 /\ Bytes \in Nat
<1>1. COLS \in Nat /\ COLS > 0 /\ ROWS \in Nat /\ ROWS > 0
      /\ BITS \in Nat /\ BITS > 0 /\ SLEEP \in Nat
  BY MatrixAssumption
<1>2. NUM_LEDS \in Nat /\ NUM_LEDS > 0
  BY <1>1 DEF NUM_LEDS
<1>3. N \in Nat /\ N > 0
  BY MatrixAssumption DEF N
<1>4. Bytes \in Nat
  BY <1>1, <1>2 DEF Bytes
<1>5. QED
  BY <1>1, <1>2, <1>3, <1>4

\* Every LED is in a byte of the framebuffer.
LEMMA ByteOfLed ==
    ASSUME NEW idx \in Leds
    PROVE  idx \div BITS \in Nat /\ idx \div BITS < Bytes
BY Sizes DEF Leds, Bytes

\* A column of a line that fits on the panel is on the panel.
LEMMA Column ==
    ASSUME NEW row0 \in Nat, NEW rows \in Nat, row0 + rows <= ROWS,
           NEW col \in 0 .. COLS - 1, NEW bits \in SUBSET (0 .. rows - 1)
    PROVE  put_col(col, row0, bits) \subseteq Leds
<1> SUFFICES ASSUME NEW r \in bits PROVE (row0 + r) * COLS + col \in Leds
  BY DEF put_col
<1>1. PICK R \in 0 .. ROWS - 1 : R = row0 + r
  BY Sizes
<1>2. R * COLS >= 0 /\ (ROWS - 1 - R) * COLS >= 0 /\ R * COLS \in Int
  BY Sizes
<1>3. (ROWS - 1 - R) * COLS = ROWS * COLS - COLS - R * COLS
  BY Sizes
<1>4. R * COLS + col \in Leds
  BY <1>2, <1>3, Sizes DEF Leds, NUM_LEDS
<1>5. QED
  BY <1>1, <1>4

LEMMA FrameOnPanel ==
    ASSUME NEW off \in 0 .. N - 1
    PROVE  Frame(off) \subseteq Leds
<1>1. ASSUME NEW col \in 0 .. COLS - 1
      PROVE  put_col(col, TOP_ROW, linux_cols[1 + ((off + col) % N)]) \subseteq Leds
  <2>1. 1 + ((off + col) % N) \in 1 .. N
    BY Sizes
  <2>2. linux_cols[1 + ((off + col) % N)] \in SUBSET (0 .. TOP_ROWS - 1)
    BY <2>1, MatrixAssumption DEF N
  <2>3. QED
    BY <2>2, Column, MatrixAssumption
<1>2. ASSUME NEW k \in 1 .. Len(cnc_cols)
      PROVE  put_col(CncX + k - 1, BOTTOM_ROW, cnc_cols[k]) \subseteq Leds
  <2>1. Len(cnc_cols) \in Nat /\ Len(cnc_cols) <= COLS
    BY MatrixAssumption
  <2>2. CncX + k - 1 \in 0 .. COLS - 1
    BY <2>1, Sizes DEF CncX
  <2>3. cnc_cols[k] \in SUBSET (0 .. BOTTOM_ROWS - 1)
    BY MatrixAssumption
  <2>4. QED
    BY <2>2, <2>3, Column, MatrixAssumption
<1>3. Cnc \subseteq Leds
  BY <1>2 DEF Cnc
<1>4. UNION {put_col(col, TOP_ROW, linux_cols[1 + ((off + col) % N)]) :
                 col \in 0 .. COLS - 1} \subseteq Leds
  BY <1>1
<1>5. QED
  BY <1>3, <1>4 DEF Frame

\* An LED has two pins, and both are its own.
LEMMA PinsOfLed ==
    ASSUME NEW a \in Leds
    PROVE  /\ Hi(a) \in Pins /\ Lo(a) \in Pins /\ Hi(a) # Lo(a)
           /\ \A b \in Leds : Hi(a) = Hi(b) /\ Lo(a) = Lo(b) => a = b
<1>1. Len(pins) \in Int /\ NUM_LEDS <= Len(pins) => \A b \in Leds : b + 1 \in 1 .. Len(pins)
  BY Sizes DEF Leds
<1>2. Len(pins) \in Int
  BY DEF pins
<1>3. \A b \in Leds : b + 1 \in 1 .. Len(pins)
  BY <1>1, <1>2, PinsAssumption
<1>4. Hi(a) # Lo(a)
  BY <1>3, PinsAssumption DEF Hi, Lo
<1>5. ASSUME NEW b \in Leds, Hi(a) = Hi(b), Lo(a) = Lo(b) PROVE a = b
  <2>1. a + 1 = b + 1
    BY <1>3, <1>5, PinsAssumption DEF Hi, Lo
  <2>2. QED
    BY <2>1, Sizes DEF Leds
<1>6. QED
  BY <1>4, <1>5 DEF Pins

LEMMA TypeStep == TypeOK /\ [Next]_vars => TypeOK'
<1> SUFFICES ASSUME TypeOK, [Next]_vars PROVE TypeOK'
  OBVIOUS
<1>1. CASE Copy
  <2>1. framebuffer' \subseteq Leds
    BY <1>1 DEF Copy, TypeOK, Byte
  <2>2. copied' \in 0 .. Bytes /\ sleep' \in 0 .. SLEEP
    BY <1>1, Sizes DEF Copy, TypeOK
  <2>3. QED
    BY <1>1, <2>1, <2>2 DEF Copy, TypeOK, port, history
<1>2. CASE Scroll
  <2>1. offset' \in 0 .. N - 1 /\ copied' \in 0 .. Bytes
    BY <1>2, Sizes DEF Scroll, TypeOK
  <2>2. before' \subseteq Leds
    BY <1>2, FrameOnPanel DEF Scroll, TypeOK
  <2>3. QED
    BY <1>2, <2>1, <2>2 DEF Scroll, TypeOK, port
<1>3. CASE AllOff
  BY <1>3 DEF AllOff, TypeOK, picture, history
<1>4. CASE Levels \/ Outputs
  <2>1. Hi(i) \in Pins /\ Lo(i) \in Pins
    BY PinsOfLed DEF TypeOK
  <2>2. MODER' \subseteq Pins /\ ODR' \subseteq Pins
    BY <1>4, <2>1 DEF Levels, Outputs, TypeOK
  <2>3. QED
    BY <1>4, <2>2 DEF Levels, Outputs, TypeOK, picture, history
<1>5. CASE Advance
  <2>1. i' \in Leds
    BY <1>5, Sizes DEF Advance, TypeOK, Leds
  <2>2. sleep' \in 0 .. SLEEP
    BY <1>5, Sizes DEF Advance, TypeOK
  <2>3. shown' \subseteq Leds
    BY <1>5 DEF Advance, TypeOK
  <2>4. QED
    BY <1>5, <2>1, <2>2, <2>3 DEF Advance, TypeOK, picture, port
<1>6. CASE UNCHANGED vars
  BY <1>6 DEF vars, TypeOK
<1>7. QED
  BY <1>1, <1>2, <1>3, <1>4, <1>5, <1>6 DEF Next, Scan

LEMMA PortStep == IInv /\ [Next]_vars => PortInv'
<1> SUFFICES ASSUME IInv, [Next]_vars PROVE PortInv'
  OBVIOUS
<1>0. TypeOK /\ PortInv
  BY DEF IInv
<1>1. CASE Copy \/ Scroll
  <2>1. pc = "idle" /\ UNCHANGED <<pc, MODER, ODR, shown>>
    BY <1>1 DEF Copy, Scroll, port, history
  <2>2. QED
    BY <1>0, <2>1 DEF PortInv, Hi, Lo
<1>2. CASE AllOff
  BY <1>2 DEF AllOff, PortInv
<1>3. CASE Levels
  <2>1. /\ pc = "BSRR" /\ pc' = "MODER" /\ UNCHANGED <<i, on, MODER>>
        /\ ODR' = (ODR \cup {Hi(i)}) \ {Lo(i)}
    BY <1>3 DEF Levels
  <2>2. Hi(i) # Lo(i)
    BY <1>0, PinsOfLed DEF TypeOK
  <2>3. Hi(i) \in ODR' /\ Lo(i) \notin ODR'
    BY <2>1, <2>2
  <2>4. QED
    BY <1>0, <2>1, <2>3 DEF PortInv, Hi, Lo
<1>4. CASE Outputs
  <2>1. /\ pc = "MODER" /\ pc' = "next" /\ UNCHANGED <<i, on, ODR>>
        /\ MODER' = MODER \cup {Hi(i), Lo(i)}
    BY <1>4 DEF Outputs
  <2>2. MODER' = {Hi(i), Lo(i)}
    BY <1>0, <2>1 DEF PortInv
  <2>3. QED
    BY <1>0, <2>1, <2>2 DEF PortInv, Hi, Lo
<1>5. CASE Advance
  <2>1. pc = "next" /\ pc' = "idle" /\ UNCHANGED <<MODER, ODR>>
    BY <1>5 DEF Advance, port
  <2>2. on => i \in shown'
    BY <1>5 DEF Advance
  <2>3. \/ MODER' = {}
        \/ \E a \in shown' : /\ MODER' = {Hi(a), Lo(a)}
                             /\ Hi(a) \in ODR' /\ Lo(a) \notin ODR'
    BY <1>0, <2>1, <2>2 DEF PortInv
  <2>4. QED
    BY <2>1, <2>3 DEF PortInv, Hi, Lo
<1>6. CASE UNCHANGED vars
  BY <1>0, <1>6 DEF vars, PortInv, Hi, Lo
<1>7. QED
  BY <1>1, <1>2, <1>3, <1>4, <1>5, <1>6 DEF Next, Scan

LEMMA CopyStep == IInv /\ [Next]_vars => CopyInv'
<1> SUFFICES ASSUME IInv, [Next]_vars PROVE CopyInv'
  OBVIOUS
<1>0. TypeOK /\ CopyInv
  BY DEF IInv
<1>1. CASE Copy
  <2>1. pc' = "idle" /\ UNCHANGED <<offset, before>>
        /\ copied' = copied + 1 /\ copied \in Nat
    BY <1>0, <1>1 DEF Copy, history, TypeOK
  <2>2. ASSUME NEW idx \in Leds
        PROVE  idx \in framebuffer' <=>
                 IF idx \div BITS < copied' THEN idx \in Frame(offset)
                                            ELSE idx \in before
    <3>1. PICK q \in Nat : q = idx \div BITS
      BY ByteOfLed
    <3>2. idx \in Byte(copied) <=> q = copied
      BY <3>1 DEF Byte
    <3>3. idx \in framebuffer' <=>
             IF q = copied THEN idx \in Frame(offset) ELSE idx \in framebuffer
      BY <1>1, <3>2 DEF Copy
    <3>4. idx \in framebuffer <=> IF q < copied THEN idx \in Frame(offset)
                                                ELSE idx \in before
      BY <1>0, <3>1 DEF CopyInv
    <3>5. q < copied' <=> q < copied \/ q = copied
      BY <2>1
    <3>6. QED
      BY <3>1, <3>3, <3>4, <3>5
  <2>3. QED
    BY <2>1, <2>2 DEF CopyInv, Frame
<1>2. CASE Scroll
  <2>1. pc' = "idle" /\ framebuffer' = framebuffer /\ before' = Frame(offset)
        /\ copied = Bytes /\ copied' = 0
    BY <1>2 DEF Scroll
  <2>2. ASSUME NEW idx \in Leds
        PROVE  /\ idx \in framebuffer <=> idx \in Frame(offset)
               /\ ~(idx \div BITS < 0)
    BY <1>0, <2>1, ByteOfLed DEF CopyInv
  <2>3. QED
    BY <2>1, <2>2 DEF CopyInv
<1>3. CASE AllOff
  BY <1>0, <1>3 DEF AllOff, CopyInv, picture, history, Frame
<1>4. CASE Levels \/ Outputs
  BY <1>0, <1>4 DEF Levels, Outputs, CopyInv, picture, history, Frame
<1>5. CASE Advance
  BY <1>0, <1>5 DEF Advance, CopyInv, picture, Frame
<1>6. CASE UNCHANGED vars
  BY <1>0, <1>6 DEF vars, CopyInv, Frame
<1>7. QED
  BY <1>1, <1>2, <1>3, <1>4, <1>5, <1>6 DEF Next, Scan

LEMMA ShownStep == IInv /\ [Next]_vars => ShownInv'
<1> SUFFICES ASSUME IInv, [Next]_vars PROVE ShownInv'
  OBVIOUS
<1>0. TypeOK /\ CopyInv /\ ShownInv
  BY DEF IInv
<1>1. CASE Copy
  <2>1. sleep' = SLEEP /\ i' = i /\ i \in Leds
    BY <1>0, <1>1 DEF Copy, TypeOK
  <2>2. \A idx \in Leds : ~(Age(idx)' < SLEEP - sleep')
    BY <2>1, Sizes DEF Age, Leds
  <2>3. QED
    BY <2>2 DEF ShownInv
<1>2. CASE Scroll
  <2>1. 0 \in Leds
    BY Sizes DEF Leds
  <2>2. copied' = 0 /\ Bytes # 0
    BY <1>2, <2>1, ByteOfLed, Sizes DEF Scroll
  <2>3. QED
    BY <2>2 DEF ShownInv
<1>3. CASE Advance
  <2>1. /\ UNCHANGED <<framebuffer, copied>>
        /\ sleep' = IF sleep = 0 THEN 0 ELSE sleep - 1
        /\ shown' = IF on THEN shown \cup {i} ELSE shown \ {i}
        /\ on = (i \in framebuffer)
    BY <1>0, <1>3 DEF Advance, picture, CopyInv
  <2>2. /\ i \in Leds /\ sleep \in 0 .. SLEEP
        /\ i' = IF i + 1 < NUM_LEDS THEN i + 1 ELSE 0
    BY <1>0, <1>3, Sizes DEF Advance, TypeOK, Leds
  <2>3. SUFFICES ASSUME copied = Bytes, NEW idx \in Leds, Age(idx)' < SLEEP - sleep'
                 PROVE  idx \in shown' <=> idx \in framebuffer
    BY <2>1 DEF ShownInv
  <2>4. CASE idx = i
    BY <2>1, <2>4
  <2>5. CASE idx # i
    <3>1. Age(idx)' = Age(idx) + 1 /\ Age(idx) \in Int
      BY <2>2, <2>5, Sizes DEF Age, Leds
    <3>2. Age(idx) < SLEEP - sleep
      BY <2>1, <2>2, <2>3, <3>1, Sizes
    <3>3. QED
      BY <1>0, <2>1, <2>3, <2>5, <3>2 DEF ShownInv
  <2>6. QED
    BY <2>4, <2>5
<1>4. CASE AllOff \/ Levels \/ Outputs \/ UNCHANGED vars
  <2>1. UNCHANGED <<framebuffer, copied, sleep, i, shown>>
    BY <1>4 DEF AllOff, Levels, Outputs, vars, picture, history
  <2>2. QED
    BY <1>0, <2>1 DEF ShownInv, Age
<1>5. QED
  BY <1>1, <1>2, <1>3, <1>4 DEF Next, Scan

LEMMA InvInit == Init => IInv
<1> SUFFICES ASSUME Init PROVE IInv
  OBVIOUS
<1>1. TypeOK
  <2>1. 0 \in Leds /\ 0 \in 0 .. N - 1 /\ 0 \in 0 .. Bytes /\ 0 \in 0 .. SLEEP
    BY Sizes DEF Leds
  <2>2. QED
    BY <2>1 DEF Init, TypeOK
<1>2. PortInv
  BY DEF Init, PortInv
<1>3. ASSUME NEW idx \in Leds PROVE ~(idx \div BITS < 0)
  BY ByteOfLed
<1>4. CopyInv
  BY <1>3 DEF Init, CopyInv
<1>5. ShownInv
  <2>1. 0 \in Leds
    BY Sizes DEF Leds
  <2>2. copied = 0 /\ Bytes # 0
    BY <2>1, ByteOfLed, Sizes DEF Init
  <2>3. QED
    BY <2>2 DEF ShownInv
<1>6. QED
  BY <1>1, <1>2, <1>4, <1>5 DEF IInv

LEMMA Invariance == Spec => []IInv
<1>1. IInv /\ [Next]_vars => IInv'
  BY TypeStep, PortStep, CopyStep, ShownStep DEF IInv
<1>2. QED
  BY <1>1, InvInit, PTL DEF Spec

-----------------------------------------------------------------------------

\* The variables of the matrix keep their types.
THEOREM TypeCorrect == Spec => []TypeOK
BY Invariance, PTL DEF IInv

\* led_set never lights an LED other than the one it is called for, not even
\* between two of its register writes: with any table of distinct pairs of
\* pins, at most one LED is lit.
THEOREM OneLedAtATimeHolds == Spec => []OneLedAtATime
<1>1. IInv => OneLedAtATime
  <2> SUFFICES ASSUME IInv PROVE OneLedAtATime
    OBVIOUS
  <2>0. TypeOK /\ PortInv
    BY DEF IInv
  <2>1. ASSUME NEW a \in Leds, MODER = {Hi(a), Lo(a)}, Hi(a) \in ODR, Lo(a) \notin ODR
        PROVE  Lit = {a}
    <3>1. a \in Lit
      BY <2>1 DEF Lit
    <3>2. ASSUME NEW b \in Lit PROVE b = a
      <4>1. Hi(b) = Hi(a) /\ Lo(b) = Lo(a) /\ b \in Leds
        BY <2>1, <3>2 DEF Lit
      <4>2. QED
        BY <4>1, PinsOfLed
    <3>3. QED
      BY <3>1, <3>2
  <2>2. MODER = {} => Lit = {}
    BY DEF Lit
  <2>3. CASE pc = "idle"
    <3>1. CASE MODER = {}
      BY <2>2, <2>3, <3>1 DEF OneLedAtATime
    <3>2. CASE \E a \in shown : MODER = {Hi(a), Lo(a)} /\ Hi(a) \in ODR
                               /\ Lo(a) \notin ODR
      <4>1. PICK a \in shown : MODER = {Hi(a), Lo(a)} /\ Hi(a) \in ODR
                               /\ Lo(a) \notin ODR
        BY <3>2
      <4>2. Lit = {a}
        BY <2>0, <2>1, <4>1 DEF TypeOK
      <4>3. QED
        BY <2>3, <4>1, <4>2 DEF OneLedAtATime
    <3>3. QED
      BY <2>0, <2>3, <3>1, <3>2 DEF PortInv
  <2>4. CASE pc \in {"BSRR", "MODER"}
    BY <2>0, <2>2, <2>4 DEF PortInv, OneLedAtATime
  <2>5. CASE pc = "next"
    <3>1. CASE on
      BY <2>0, <2>1, <2>5, <3>1 DEF TypeOK, PortInv, OneLedAtATime
    <3>2. CASE ~on
      BY <2>0, <2>2, <2>5, <3>2 DEF PortInv, OneLedAtATime
    <3>3. QED
      BY <3>1, <3>2
  <2>6. QED
    BY <2>0, <2>3, <2>4, <2>5 DEF TypeOK
<1>2. QED
  BY <1>1, Invariance, PTL

\* Whatever byte of show_frame's memcpy the scan interrupts, each LED is as the
\* old picture or the new one has it.
THEOREM TearsOnlyTheTextHolds == Spec => []TearsOnlyTheText
<1>1. IInv => TearsOnlyTheText
  BY DEF IInv, TypeOK, CopyInv, TearsOnlyTheText
<1>2. QED
  BY <1>1, Invariance, PTL

\* scroll_thread sleeps long enough: when it takes the picture away, every LED was
\* scanned after the copy ended, and was lit as the picture has it.
THEOREM PictureIsShownHolds == Spec => PictureIsShown
<1>1. IInv /\ [Next]_vars => [Scroll => shown = Frame(offset)]_vars
  <2> SUFFICES ASSUME IInv, Scroll PROVE shown = Frame(offset)
    OBVIOUS
  <2>0. TypeOK /\ CopyInv /\ ShownInv /\ copied = Bytes /\ sleep = 0
    BY DEF IInv, Scroll
  <2>1. offset \in 0 .. N - 1 /\ shown \subseteq Leds /\ i \in Leds
    BY <2>0 DEF TypeOK
  <2>2. ASSUME NEW idx \in Leds PROVE idx \in shown <=> idx \in Frame(offset)
    <3>1. Age(idx) < SLEEP - sleep
      BY <2>0, <2>1, Sizes, SleepAssumption DEF Age, Leds
    <3>2. idx \in shown <=> idx \in framebuffer
      BY <2>0, <3>1 DEF ShownInv
    <3>3. idx \in framebuffer <=> idx \in Frame(offset)
      BY <2>0, ByteOfLed DEF CopyInv
    <3>4. QED
      BY <3>2, <3>3
  <2>3. QED
    BY <2>1, <2>2, FrameOnPanel
<1>2. QED
  BY <1>1, Invariance, PTL DEF Spec, PictureIsShown
=============================================================================
