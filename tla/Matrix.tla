------------------------------- MODULE Matrix --------------------------------
(***************************************************************************)
(* The MCU's LED matrix, firmware/qstep-fw/src/matrix.c: a thread that     *)
(* copies the next picture into the framebuffer byte by byte, and the scan *)
(* interrupt that preempts it between any two bytes and lights the LEDs    *)
(* one at a time through pins they share.                                  *)
(*                                                                         *)
(* The interrupt is modelled register write by register write, because the *)
(* LEDs show every state between two writes; the thread does not run       *)
(* meanwhile.  A register is the set of matrix pins whose bit is set.      *)
(***************************************************************************)
EXTENDS Integers, Sequences, FiniteSets

CONSTANTS
    COLS, ROWS,            \* 13 and 8
    BITS,                  \* LEDs per byte of the framebuffer: 8
    TOP_ROW, TOP_ROWS, BOTTOM_ROW, BOTTOM_ROWS,  \* 0, 4, 5 and 3
    linux_cols, cnc_cols,  \* glyph columns: the set of lit rows of each
    SLEEP                  \* k_msleep(120), in scan interrupts: 1200

NUM_LEDS == COLS * ROWS
Leds == 0 .. NUM_LEDS - 1
Bytes == (NUM_LEDS + BITS - 1) \div BITS
N == Len(linux_cols)

ASSUME MatrixAssumption ==
    /\ COLS \in Nat \ {0} /\ ROWS \in Nat \ {0} /\ BITS \in Nat \ {0}
    /\ {TOP_ROW, TOP_ROWS, BOTTOM_ROW, BOTTOM_ROWS} \subseteq Nat
    /\ TOP_ROW + TOP_ROWS <= ROWS /\ BOTTOM_ROW + BOTTOM_ROWS <= ROWS
    /\ linux_cols \in Seq(SUBSET (0 .. TOP_ROWS - 1)) /\ N > 0
    /\ cnc_cols \in Seq(SUBSET (0 .. BOTTOM_ROWS - 1)) /\ Len(cnc_cols) <= COLS
    /\ SLEEP \in Nat

\* Between two pictures the thread sleeps through a whole scan: 1200 >= 104.
ASSUME SleepAssumption == SLEEP >= NUM_LEDS

\* The pair of pins that lights each LED: driven high, driven low.
pins == <<
    <<0, 1>>, <<1, 0>>, <<0, 2>>, <<2, 0>>, <<1, 2>>, <<2, 1>>, <<0, 3>>,
    <<3, 0>>, <<1, 3>>, <<3, 1>>, <<2, 3>>, <<3, 2>>, <<0, 4>>, <<4, 0>>,
    <<1, 4>>, <<4, 1>>, <<2, 4>>, <<4, 2>>, <<3, 4>>, <<4, 3>>, <<0, 5>>,
    <<5, 0>>, <<1, 5>>, <<5, 1>>, <<2, 5>>, <<5, 2>>, <<3, 5>>, <<5, 3>>,
    <<4, 5>>, <<5, 4>>, <<0, 6>>, <<6, 0>>, <<1, 6>>, <<6, 1>>, <<2, 6>>,
    <<6, 2>>, <<3, 6>>, <<6, 3>>, <<4, 6>>, <<6, 4>>, <<5, 6>>, <<6, 5>>,
    <<0, 7>>, <<7, 0>>, <<1, 7>>, <<7, 1>>, <<2, 7>>, <<7, 2>>, <<3, 7>>,
    <<7, 3>>, <<4, 7>>, <<7, 4>>, <<5, 7>>, <<7, 5>>, <<6, 7>>, <<7, 6>>,
    <<0, 8>>, <<8, 0>>, <<1, 8>>, <<8, 1>>, <<2, 8>>, <<8, 2>>, <<3, 8>>,
    <<8, 3>>, <<4, 8>>, <<8, 4>>, <<5, 8>>, <<8, 5>>, <<6, 8>>, <<8, 6>>,
    <<7, 8>>, <<8, 7>>, <<0, 9>>, <<9, 0>>, <<1, 9>>, <<9, 1>>, <<2, 9>>,
    <<9, 2>>, <<3, 9>>, <<9, 3>>, <<4, 9>>, <<9, 4>>, <<5, 9>>, <<9, 5>>,
    <<6, 9>>, <<9, 6>>, <<7, 9>>, <<9, 7>>, <<8, 9>>, <<9, 8>>, <<0, 10>>,
    <<10, 0>>, <<1, 10>>, <<10, 1>>, <<2, 10>>, <<10, 2>>, <<3, 10>>,
    <<10, 3>>, <<4, 10>>, <<10, 4>>, <<5, 10>>, <<10, 5>>, <<6, 10>>,
    <<10, 6>> >>

\* Each LED is at a pair of its own.
ASSUME PinsAssumption ==
    /\ NUM_LEDS <= Len(pins)
    /\ \A k \in 1 .. Len(pins) : pins[k][1] # pins[k][2]
    /\ \A k, l \in 1 .. Len(pins) :
           pins[k][1] = pins[l][1] /\ pins[k][2] = pins[l][2] => k = l

Hi(idx) == pins[idx + 1][1]
Lo(idx) == pins[idx + 1][2]
Pins == {Hi(idx) : idx \in Leds} \cup {Lo(idx) : idx \in Leds}

VARIABLES
    framebuffer,   \* the LEDs whose bit is set
    offset,        \* of the picture being shown
    copied,        \* bytes of it that memcpy has written
    sleep,         \* scan interrupts until k_msleep returns
    i,             \* scan_isr: the LED
    pc,            \* scan_isr: the next register write, or "idle"
    on,            \* led_set's parameter
    MODER, ODR,    \* the port: pins that are outputs, pins that are high
    shown,         \* history: the LEDs that were lit when scanned last
    before         \* history: the picture that is being replaced

picture == <<framebuffer, offset, copied>>
port == <<MODER, ODR>>
vars == <<framebuffer, offset, copied, sleep, i, pc, on, MODER, ODR, shown,
          before>>
history == <<shown, before>>

-----------------------------------------------------------------------------
(* show_frame: the picture, and its copy into the framebuffer.              *)

put_col(col, row0, bits) == {(row0 + r) * COLS + col : r \in bits}

CncX == (COLS - Len(cnc_cols)) \div 2

Cnc == UNION {put_col(CncX + k - 1, BOTTOM_ROW, cnc_cols[k]) :
                 k \in 1 .. Len(cnc_cols)}

Frame(off) ==
    Cnc \cup UNION {put_col(col, TOP_ROW, linux_cols[1 + ((off + col) % N)]) :
                       col \in 0 .. COLS - 1}

Byte(b) == {idx \in Leds : idx \div BITS = b}

\* One byte of memcpy.  Mutation: the framebuffer is cleared and drawn into.
CopyCleared ==
    /\ pc = "idle" /\ copied < Bytes
    /\ framebuffer' = (IF copied = 0 THEN {} ELSE framebuffer)
                          \cup (Frame(offset) \cap Byte(copied))
    /\ copied' = copied + 1
    /\ sleep' = SLEEP
    /\ UNCHANGED <<offset, i, pc, on, port, history>>

Copy ==
    /\ pc = "idle" /\ copied < Bytes
    /\ framebuffer' = (framebuffer \ Byte(copied))
                          \cup (Frame(offset) \cap Byte(copied))
    /\ copied' = copied + 1
    /\ sleep' = SLEEP
    /\ UNCHANGED <<offset, i, pc, on, port, history>>

\* Mutations of the scrolling: it does not wrap, or wraps a column early.
ScrollOn ==
    /\ pc = "idle" /\ copied = Bytes /\ sleep = 0
    /\ offset' = offset + 1 /\ copied' = 0
    /\ before' = Frame(offset)
    /\ UNCHANGED <<framebuffer, sleep, i, pc, on, port, shown>>

ScrollShort ==
    /\ pc = "idle" /\ copied = Bytes /\ sleep = 0
    /\ offset' = (offset + 1) % (N - 1) /\ copied' = 0
    /\ before' = Frame(offset)
    /\ UNCHANGED <<framebuffer, sleep, i, pc, on, port, shown>>

\* k_msleep returns; the loop of scroll_thread.
Scroll ==
    /\ pc = "idle" /\ copied = Bytes /\ sleep = 0
    /\ offset' = (offset + 1) % N /\ copied' = 0
    /\ before' = Frame(offset)
    /\ UNCHANGED <<framebuffer, sleep, i, pc, on, port, shown>>

-----------------------------------------------------------------------------
(* scan_isr and led_set. *)

\* Mutation: the pins of the LED before stay outputs.
AllKept ==
    /\ pc = "idle"
    /\ on' = (i \in framebuffer)
    /\ pc' = IF on' THEN "BSRR" ELSE "next"
    /\ UNCHANGED <<picture, sleep, i, port, history>>

\* The framebuffer is read and every matrix pin made an input.
AllOff ==
    /\ pc = "idle"
    /\ on' = (i \in framebuffer)
    /\ MODER' = {}
    /\ pc' = IF on' THEN "BSRR" ELSE "next"
    /\ UNCHANGED <<picture, sleep, i, ODR, history>>

Levels ==
    /\ pc = "BSRR"
    /\ ODR' = (ODR \cup {Hi(i)}) \ {Lo(i)}
    /\ pc' = "MODER"
    /\ UNCHANGED <<picture, sleep, i, on, MODER, history>>

Outputs ==
    /\ pc = "MODER"
    /\ MODER' = MODER \cup {Hi(i), Lo(i)}
    /\ pc' = "next"
    /\ UNCHANGED <<picture, sleep, i, on, ODR, history>>

\* Mutation: the last LED is never scanned.
AdvanceShort ==
    /\ pc = "next" /\ pc' = "idle"
    /\ i' = (i + 1) % (NUM_LEDS - 1)
    /\ sleep' = IF sleep = 0 THEN 0 ELSE sleep - 1
    /\ shown' = IF on THEN shown \cup {i} ELSE shown \ {i}
    /\ UNCHANGED <<picture, on, port, before>>

\* The interrupt returns; 100 us later it comes again.
Advance ==
    /\ pc = "next" /\ pc' = "idle"
    /\ i' = (i + 1) % NUM_LEDS
    /\ sleep' = IF sleep = 0 THEN 0 ELSE sleep - 1
    /\ shown' = IF on THEN shown \cup {i} ELSE shown \ {i}
    /\ UNCHANGED <<picture, on, port, before>>

Init ==
    /\ framebuffer = {} /\ offset = 0 /\ copied = 0 /\ sleep = 0
    /\ i = 0 /\ pc = "idle" /\ on = FALSE
    /\ MODER = {} /\ ODR = {} /\ shown = {} /\ before = {}

Scan == AllOff \/ Levels \/ Outputs \/ Advance
Next == Copy \/ Scroll \/ Scan

\* The timer runs, and the thread, although of the lowest priority, gets the
\* processor again and again.
Spec == Init /\ [][Next]_vars /\ WF_vars(Scan) /\ SF_vars(Copy) /\ SF_vars(Scroll)

-----------------------------------------------------------------------------

TypeOK ==
    /\ framebuffer \subseteq Leds /\ offset \in 0 .. N - 1 /\ copied \in 0 .. Bytes
    /\ sleep \in 0 .. SLEEP /\ i \in Leds
    /\ pc \in {"idle", "BSRR", "MODER", "next"} /\ on \in BOOLEAN
    /\ MODER \subseteq Pins /\ ODR \subseteq Pins 
    /\ shown \subseteq Leds /\ before \subseteq Leds

\* The LEDs current flows through: their pins are outputs, high and low.
Lit == {idx \in Leds : {Hi(idx), Lo(idx)} \subseteq MODER
                       /\ Hi(idx) \in ODR /\ Lo(idx) \notin ODR}

\* At no instant, not even between two register writes, is more than one LED lit,
\* and it is one the framebuffer had lit when it was scanned last.
OneLedAtATime ==
    /\ \A a, b \in Lit : a = b
    /\ pc = "idle" => Lit \subseteq shown
    /\ pc # "idle" => Lit \subseteq {i}
    /\ pc = "next" => (i \in Lit <=> on)

\* A scan that interrupts the copy shows each LED as one of the two pictures
\* has it: what both have does not flicker, what neither has never flashes.
TearsOnlyTheText ==
    pc # "idle" => on = (i \in Frame(offset)) \/ on = (i \in before)

\* Before a picture is replaced, the panel has shown all of it.
PictureIsShown ==
    [][Scroll => shown = Frame(offset)]_vars

\* Every picture of the text comes up, again and again.
TextScrolls == \A off \in 0 .. N - 1 : []<>(shown = Frame(off))
=============================================================================
