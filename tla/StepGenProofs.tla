---------------------------- MODULE StepGenProofs ----------------------------
(***************************************************************************)
(* What holds of the step generator for every number of joints, every      *)
(* accumulator width and every ramp of at most a quarter of its range.     *)
(*                                                                         *)
(* The bounds below follow one joint through a reversal.  The tick that    *)
(* sees it arms the hold; the next one ends it; the one after that makes   *)
(* the step that was held back, if any.  The joint is commanded afresh     *)
(* only later (GapAssumption), so over these ticks its increment is the    *)
(* one it reversed with, which the ramp bounds; the accumulator, which     *)
(* wrapped during the hold, has no room for another overflow.              *)
(***************************************************************************)
EXTENDS StepGen, TLAPS

Slow(j) == Abs(incr[j]) <= RAMP
Recent(j, n) == gap[j] <= n
AtRest(j) == incr[j] = 0 /\ ~pending[j] /\ hold[j] = 0

\* A command is in progress only on joints whose last one is CmdGap ticks old.
CallInv ==
    /\ op = "set_incr" => \A j \in Joints : j >= nxt => gap[j] = CmdGap
    /\ op \in {"zero_incr", "set_off"} => Rested
    /\ op = "zero_incr" => \A j \in Joints : j < nxt => incr[j] = 0
    /\ op = "set_off" => \A j \in Joints : incr[j] = 0

\* Nothing is left over while stepping is off or the drivers are still off.
RestInv ==
    /\ ~enabled \/ ~powered => \A j \in Joints : AtRest(j)
    /\ op # "write_pin" => powered = enabled

\* A reversal not yet seen by the interrupt was commanded since the last tick,
\* with a small increment, and finds no step owed.
ReversalInv(j) == Reverses(j) => Slow(j) /\ Recent(j, 0) /\ ~pending[j]

\* The hold and the step it holds back, against the ticks since the command
\* and since the DIR edge.
HoldInv(j) ==
    /\ hold[j] = 1 => Recent(j, 1)
    /\ hold[j] = 0 => dir_age[j] >= 1
    /\ pending[j] => Recent(j, 2)
    /\ pending[j] /\ hold[j] = 1 => acc[j] < RAMP
    /\ pending[j] => acc[j] < 2 * RAMP
    /\ pending[j] \/ hold[j] = 1 => Slow(j)

\* A joint that has just stepped has no room for an overflow on the next tick.
PhaseInv(j) ==
    j \in raised => /\ ~pending[j]
                    /\ dir_age[j] >= DIR_HOLD_TICKS
                    /\ \/ acc[j] < INCR_MAX
                       \/ acc[j] < 3 * RAMP /\ Slow(j) /\ Recent(j, 3)

JointInv(j) == ReversalInv(j) /\ HoldInv(j) /\ PhaseInv(j)

IInv == TypeOK /\ CallInv /\ RestInv /\ \A j \in Joints : JointInv(j)

-----------------------------------------------------------------------------
(* The arithmetic of one joint. *)

\* The magnitude the interrupt adds fits half the accumulator, and is the
\* increment's own.
LEMMA MagRange ==
    ASSUME TypeOK, NEW j \in Joints
    PROVE  /\ Mag(j) \in 0 .. INCR_MAX
           /\ Mag(j) = Abs(incr[j])
           /\ Dir(j) \in {-1, 1}
<1>1. incr[j] \in Int32 /\ cur_dir[j] \in {-1, 1} /\ INCR_MAX \in Nat
  BY SizesAssumption DEF TypeOK
<1>2. QED
  BY <1>1 DEF Mag, Abs, Capped, Dir, Int32

\* A step count stays an int32.
LEMMA MovedRange ==
    ASSUME NEW p \in Int32, NEW d \in {-1, 1}
    PROVE  Moved(p, d) \in Int32
BY SizesAssumption DEF Moved, Int32, M

\* The accumulator wraps into its range.
LEMMA AccRange ==
    ASSUME TypeOK, NEW j \in Joints
    PROVE  /\ acc[j] \in 0 .. M - 1
           /\ Overflows(j) => acc[j] + Mag(j) - M \in 0 .. M - 1
           /\ Overflows(j) => acc[j] + Mag(j) - M < Mag(j)
           /\ ~Overflows(j) => acc[j] + Mag(j) \in 0 .. M - 1
<1>1. acc[j] \in 0 .. M - 1
  BY DEF TypeOK
<1>2. Mag(j) \in 0 .. INCR_MAX
  BY MagRange
<1>3. QED
  BY <1>1, <1>2, SizesAssumption DEF Overflows, M

\* The sizes the proofs below use.
LEMMA Sizes ==
    /\ INCR_MAX \in Nat /\ INCR_MAX > 0 /\ RAMP \in Nat /\ NJ \in Nat /\ NJ > 0
    /\ 4 * RAMP <= M /\ M = 2 * INCR_MAX
    /\ CmdGap \in Nat /\ CmdGap >= 4
BY SizesAssumption, RampAssumption, GapAssumption DEF M

-----------------------------------------------------------------------------
\* The variables keep their types: the step counts and the accumulators wrap
\* inside their widths, whatever is commanded (stepgen_isr, stepgen_set_incr).
LEMMA TypeStep == TypeOK /\ [Next]_vars => TypeOK'
<1> SUFFICES ASSUME TypeOK, [Next]_vars PROVE TypeOK'
  OBVIOUS
<1> USE Sizes
<1>1. CASE TickRunning
  <2>1. \A j \in Joints : Dir(j) \in {-1, 1}
    BY MagRange
  <2>2. \A j \in Joints : Moved(pos[j], Dir(j)) \in Int32
    BY <2>1, MovedRange DEF TypeOK
  <2>3. pos' \in [Joints -> Int32] /\ cur_dir' \in [Joints -> {-1, 1}]
    BY <1>1, <2>1, <2>2 DEF TickRunning, TypeOK
  <2>4. acc' \in [Joints -> 0 .. M - 1]
    BY <1>1, AccRange DEF TickRunning
  <2>5. \A j \in Joints : HoldNow(j) \in 0 .. 2
    BY DEF HoldNow, TypeOK, DIR_HOLD_TICKS
  <2>6. hold' \in [Joints -> 0 .. DIR_HOLD_TICKS - 1]
    BY <1>1, <2>5 DEF TickRunning, DIR_HOLD_TICKS
  <2>7. /\ gap' \in [Joints -> 0 .. CmdGap]
        /\ dir_age' \in [Joints -> 0 .. DIR_HOLD_TICKS]
    BY <1>1 DEF TickRunning, TypeOK, AgeGap, Capped, DIR_HOLD_TICKS
  <2>8. pending' \in [Joints -> BOOLEAN]
    BY <1>1 DEF TickRunning, Owed, Steps
  <2>9. /\ incr' \in [Joints -> Int32] /\ enabled' \in BOOLEAN
        /\ powered' \in BOOLEAN /\ op' \in Ops /\ nxt' \in Joints
        /\ raised' \subseteq Joints
    BY <1>1 DEF TickRunning, TypeOK
  <2> QED
    BY <2>3, <2>4, <2>6, <2>7, <2>8, <2>9 DEF TypeOK
<1>2. CASE TickIdle
  <2>1. /\ gap' \in [Joints -> 0 .. CmdGap]
        /\ dir_age' \in [Joints -> 0 .. DIR_HOLD_TICKS]
    BY <1>2 DEF TickIdle, TypeOK, AgeGap, Capped, DIR_HOLD_TICKS
  <2> QED
    BY <1>2, <2>1 DEF TickIdle, TypeOK
<1>3. CASE CallSetIncr
  BY <1>3 DEF CallSetIncr, TypeOK, isrVars, Ops, Joints
<1>4. CASE RampedSetIncr
  <2>1. PICK v \in Int32 : SetIncr(v)
    BY <1>4 DEF RampedSetIncr
  <2>2. incr' \in [Joints -> Int32]
    BY <2>1 DEF SetIncr, TypeOK, Int32
  <2>3. gap' \in [Joints -> 0 .. CmdGap] /\ nxt' \in Joints /\ op' \in Ops
    BY <2>1 DEF SetIncr, TypeOK, Joints, Ops
  <2> QED
    BY <2>1, <2>2, <2>3 DEF SetIncr, TypeOK, isrVars
<1>5. CASE Switch
  <2>1. CASE CallDisable
    BY <2>1 DEF CallDisable, TypeOK, isrVars, Ops, Joints
  <2>2. CASE ZeroIncr
    <3>1. incr' \in [Joints -> Int32]
      BY <2>2 DEF ZeroIncr, TypeOK, Int32
    <3>2. nxt' \in Joints /\ op' \in Ops
      BY <2>2 DEF ZeroIncr, TypeOK, Joints, Ops
    <3> QED
      BY <2>2, <3>1, <3>2 DEF ZeroIncr, TypeOK, isrVars
  <2>3. CASE CallEnable \/ SetEnabled \/ WritePin
    BY <2>3 DEF CallEnable, SetEnabled, WritePin, TypeOK, isrVars, Ops
  <2> QED
    BY <1>5, <2>1, <2>2, <2>3 DEF Switch
<1>6. CASE UNCHANGED vars
  BY <1>6 DEF vars, TypeOK
<1> QED
  BY <1>1, <1>2, <1>3, <1>4, <1>5, <1>6 DEF Next, Tick

-----------------------------------------------------------------------------
(* One joint over one step. *)

\* A joint whose last command is CmdGap ticks old has no reversal, hold or owed
\* step, and if it has just stepped its accumulator is below the half.
LEMMA RestedJoint ==
    ASSUME TypeOK, NEW j \in Joints, JointInv(j), gap[j] = CmdGap
    PROVE  /\ ~Reverses(j) /\ ~pending[j] /\ hold[j] = 0
           /\ j \in raised => acc[j] < INCR_MAX
<1>1. hold[j] \in {0, 1}
  BY DEF TypeOK, DIR_HOLD_TICKS
<1>2. QED
  BY <1>1, Sizes DEF JointInv, ReversalInv, HoldInv, PhaseInv, Recent

\* A joint at rest neither turns nor steps in a tick.
LEMMA RestTick ==
    ASSUME TypeOK, NEW j \in Joints, AtRest(j)
    PROVE  ~Reverses(j) /\ ~Owed(j) /\ HoldNow(j) = 0
<1>1. acc[j] < M /\ Mag(j) = 0 /\ acc[j] \in Int
  BY MagRange, Sizes DEF TypeOK, AtRest, Abs
<1>2. ~Overflows(j)
  BY <1>1, Sizes DEF Overflows
<1>3. ~Reverses(j)
  BY DEF AtRest, Reverses, Dir
<1>4. QED
  BY <1>2, <1>3 DEF AtRest, Owed, HoldNow

\* The joint through a tick of the interrupt with stepping allowed.
LEMMA JointTick ==
    ASSUME TypeOK, TickRunning, NEW j \in Joints, JointInv(j)
    PROVE  JointInv(j)'
<1> USE Sizes
<1>1. /\ incr' = incr /\ incr[j] \in Int
      /\ cur_dir'[j] = Dir(j)
      /\ gap'[j] = Capped(gap[j] + 1, CmdGap) /\ gap[j] \in 0 .. CmdGap
      /\ pending'[j] = (Owed(j) /\ ~Steps(j))
      /\ j \in raised' <=> Steps(j)
      /\ hold'[j] = IF HoldNow(j) > 0 THEN HoldNow(j) - 1 ELSE 0
      /\ dir_age'[j] = IF Reverses(j) THEN 0
                       ELSE Capped(dir_age[j] + 1, DIR_HOLD_TICKS)
      /\ dir_age[j] \in 0 .. 2 /\ hold[j] \in {0, 1}
      /\ acc'[j] = IF Overflows(j) THEN acc[j] + Mag(j) - M ELSE acc[j] + Mag(j)
      /\ acc[j] \in 0 .. M - 1
  BY DEF TickRunning, TypeOK, AgeGap, Int32, DIR_HOLD_TICKS
<1>2. /\ Mag(j) \in 0 .. INCR_MAX
      /\ Slow(j) => Mag(j) <= RAMP
      /\ Overflows(j) => acc'[j] < Mag(j) /\ acc[j] + Mag(j) >= M
      /\ ~Overflows(j) => acc'[j] = acc[j] + Mag(j)
      /\ acc'[j] \in Int
  BY <1>1, MagRange, AccRange DEF Slow, Overflows
<1>3. ~Reverses(j)'
  BY <1>1 DEF Reverses, Dir
<1>4. Slow(j)' <=> Slow(j)
  BY <1>1 DEF Slow
<1>5. CASE Reverses(j)
  <2>1. Slow(j) /\ gap[j] = 0 /\ ~pending[j]
    BY <1>1, <1>5 DEF JointInv, ReversalInv, Recent
  <2>2. hold'[j] = 1 /\ dir_age'[j] = 0 /\ gap'[j] = 1 /\ ~Steps(j)
    BY <1>1, <1>5, <2>1 DEF HoldNow, Steps, DIR_HOLD_TICKS, Capped
  <2>3. pending'[j] => acc'[j] < RAMP
    <3>1. pending'[j] => Overflows(j)
      BY <1>1, <2>1 DEF Owed
    <3>2. QED
      BY <1>2, <2>1, <3>1
  <2>4. HoldInv(j)'
    BY <1>4, <1>2, <2>1, <2>2, <2>3 DEF HoldInv, Recent
  <2>5. QED
    BY <1>1, <1>3, <2>2, <2>4 DEF JointInv, ReversalInv, PhaseInv
<1>6. CASE ~Reverses(j) /\ hold[j] = 1
  <2>1. Slow(j) /\ gap[j] <= 1
    BY <1>6 DEF JointInv, HoldInv, Recent
  <2>2. /\ hold'[j] = 0 /\ dir_age'[j] >= 1 /\ gap'[j] <= 2 /\ ~Steps(j)
    BY <1>1, <1>6, <2>1 DEF HoldNow, Steps, DIR_HOLD_TICKS, Capped
  <2>3. pending'[j] => acc'[j] < 2 * RAMP
    <3>1. CASE pending[j]
      <4>1. acc[j] < RAMP
        BY <1>6, <3>1 DEF JointInv, HoldInv
      <4>2. acc[j] + Mag(j) < 2 * RAMP
        BY <1>1, <1>2, <2>1, <4>1
      <4>3. QED
        BY <1>1, <1>2, <4>2
    <3>2. CASE ~pending[j]
      <4>1. pending'[j] => Overflows(j)
        BY <1>1, <3>2 DEF Owed
      <4>2. QED
        BY <1>2, <2>1, <4>1
    <3>3. QED
      BY <3>1, <3>2
  <2>4. HoldInv(j)'
    BY <1>4, <1>2, <2>1, <2>2, <2>3 DEF HoldInv, Recent
  <2>5. QED
    BY <1>1, <1>3, <2>2, <2>4 DEF JointInv, ReversalInv, PhaseInv
<1>7. CASE ~Reverses(j) /\ hold[j] = 0
  <2>1. /\ hold'[j] = 0 /\ dir_age'[j] = 2 /\ ~pending'[j]
        /\ Steps(j) <=> Owed(j)
    <3>1. HoldNow(j) = 0
      BY <1>7 DEF HoldNow
    <3>2. dir_age[j] >= 1
      BY <1>7 DEF JointInv, HoldInv
    <3>3. hold'[j] = 0 /\ dir_age'[j] = 2
      BY <1>1, <1>7, <3>1, <3>2 DEF DIR_HOLD_TICKS, Capped
    <3>4. Steps(j) <=> Owed(j)
      BY <3>1 DEF Steps
    <3>5. QED
      BY <1>1, <3>3, <3>4
  <2>2. CASE pending[j]
    <3>1. Slow(j) /\ gap[j] <= 2 /\ acc[j] < 2 * RAMP
      BY <2>2 DEF JointInv, HoldInv, Recent
    <3>2. acc'[j] < 3 * RAMP /\ gap'[j] <= 3
      BY <1>1, <1>2, <3>1 DEF Overflows, Slow, Capped
    <3>3. QED
      BY <1>1, <1>3, <1>4, <2>1, <3>1, <3>2
      DEF JointInv, ReversalInv, HoldInv, PhaseInv, Recent, DIR_HOLD_TICKS
  <2>3. CASE ~pending[j]
    <3>1. Steps(j) => acc'[j] < INCR_MAX
      BY <1>1, <1>2, <2>1, <2>3 DEF Owed, Overflows
    <3>2. QED
      BY <1>1, <1>3, <1>4, <2>1, <3>1
      DEF JointInv, ReversalInv, HoldInv, PhaseInv, Recent, DIR_HOLD_TICKS
  <2>4. QED
    BY <2>2, <2>3
<1>8. QED
  BY <1>1, <1>5, <1>6, <1>7

\* The joint through a tick with stepping off.
LEMMA JointIdle ==
    ASSUME TypeOK, TickIdle, NEW j \in Joints, AtRest(j), JointInv(j)
    PROVE  JointInv(j)'
<1>1. /\ incr'[j] = 0 /\ incr[j] = 0 /\ cur_dir' = cur_dir /\ acc' = acc
      /\ ~pending'[j] /\ hold'[j] = 0 /\ j \notin raised'
      /\ dir_age'[j] = Capped(dir_age[j] + 1, 2) /\ dir_age[j] \in 0 .. 2
  BY DEF TickIdle, AtRest, TypeOK, DIR_HOLD_TICKS
<1>2. ~Reverses(j)'
  BY <1>1 DEF Reverses, Dir
<1>3. dir_age'[j] >= 1
  BY <1>1 DEF Capped
<1>4. HoldInv(j)'
  BY <1>1, <1>3 DEF HoldInv
<1>5. QED
  BY <1>1, <1>2, <1>4 DEF JointInv, ReversalInv, PhaseInv

\* The joint through the command that sets its increment.
LEMMA JointSet ==
    ASSUME TypeOK, CallInv, NEW j \in Joints, j = nxt, JointInv(j),
           NEW v \in Int32, v = 0 \/ Abs(v - incr[j]) <= RAMP, SetIncr(v)
    PROVE  JointInv(j)' /\ (~enabled => AtRest(j)')
<1> USE Sizes
<1>1. gap[j] = CmdGap
  BY DEF TypeOK, CallInv, SetIncr, Joints
<1>2. /\ ~Reverses(j) /\ ~pending[j] /\ hold[j] = 0
      /\ j \in raised => acc[j] < INCR_MAX
  BY <1>1, RestedJoint
<1>3. /\ incr[j] \in Int32 /\ cur_dir[j] \in {-1, 1}
      /\ incr'[j] = IF enabled THEN v ELSE 0
      /\ gap'[j] = 0
      /\ UNCHANGED isrVars
  BY <1>1 DEF TypeOK, SetIncr
<1>4. Reverses(j)' => Slow(j)'
  BY <1>2, <1>3 DEF Reverses, Dir, Slow, Abs, Int32, isrVars
<1>5. QED
  BY <1>2, <1>3, <1>4
  DEF JointInv, ReversalInv, HoldInv, PhaseInv, Recent, isrVars, AtRest

-----------------------------------------------------------------------------
(* The invariant. *)

LEMMA InvInit == Init => IInv
<1> SUFFICES ASSUME Init PROVE IInv
  OBVIOUS
<1> USE Sizes
<1>1. TypeOK
  <2>1. /\ 0 \in Int32 /\ 0 \in 0 .. M - 1 /\ 0 \in Joints
        /\ CmdGap \in 0 .. CmdGap
    BY DEF Int32, Joints
  <2>2. op \in Ops /\ nxt \in Joints /\ enabled \in BOOLEAN /\ powered \in BOOLEAN
    BY <2>1 DEF Init, Ops
  <2>3. /\ incr \in [Joints -> Int32] /\ pos \in [Joints -> Int32]
        /\ acc \in [Joints -> 0 .. M - 1] /\ raised \subseteq Joints
    BY <2>1 DEF Init
  <2>4. /\ cur_dir \in [Joints -> {-1, 1}] /\ pending \in [Joints -> BOOLEAN]
        /\ hold \in [Joints -> 0 .. DIR_HOLD_TICKS - 1]
        /\ gap \in [Joints -> 0 .. CmdGap]
        /\ dir_age \in [Joints -> 0 .. DIR_HOLD_TICKS]
    BY <2>1 DEF Init, DIR_HOLD_TICKS
  <2>5. QED
    BY <2>2, <2>3, <2>4 DEF TypeOK
<1>2. CallInv /\ RestInv
  BY DEF Init, CallInv, RestInv, AtRest
<1>3. ASSUME NEW j \in Joints PROVE JointInv(j)
  BY DEF Init, JointInv, ReversalInv, HoldInv, PhaseInv, Reverses, Dir,
         DIR_HOLD_TICKS
<1>4. QED
  BY <1>1, <1>2, <1>3 DEF IInv

\* A step that leaves a joint's increment and command age and the interrupt's
\* state alone keeps what holds of the joint.
LEMMA JointSame ==
    ASSUME NEW j \in Joints, JointInv(j), UNCHANGED isrVars,
           incr'[j] = incr[j], gap'[j] = gap[j]
    PROVE  JointInv(j)' /\ (AtRest(j)' <=> AtRest(j))
<1>1. /\ Reverses(j)' <=> Reverses(j)
      /\ Slow(j)' <=> Slow(j)
  BY DEF Reverses, Dir, Slow, isrVars
<1>2. QED
  BY <1>1 DEF JointInv, ReversalInv, HoldInv, PhaseInv, Recent, AtRest, isrVars

\* The joint through the store that zeroes its increment.
LEMMA JointZero ==
    ASSUME NEW j \in Joints, JointInv(j), UNCHANGED isrVars,
           incr'[j] = 0, gap'[j] = gap[j]
    PROVE  JointInv(j)' /\ (AtRest(j) => AtRest(j)')
<1>1. ~Reverses(j)' /\ Slow(j)'
  BY Sizes DEF Reverses, Dir, Slow, Abs
<1>2. QED
  BY <1>1 DEF JointInv, ReversalInv, HoldInv, PhaseInv, Recent, AtRest, isrVars

LEMMA InvStep == IInv /\ [Next]_vars => IInv'
<1> SUFFICES ASSUME IInv, [Next]_vars PROVE IInv'
  OBVIOUS
<1>0. /\ TypeOK /\ CallInv /\ RestInv /\ TypeOK'
      /\ \A j \in Joints : JointInv(j)
  BY TypeStep DEF IInv
<1> USE Sizes, <1>0
<1> SUFFICES CallInv' /\ RestInv' /\ \A j \in Joints : JointInv(j)'
  BY DEF IInv
<1>1. CASE TickRunning
  <2>1. CallInv'
    <3>1. \A j \in Joints : gap[j] = CmdGap => gap'[j] = CmdGap
      BY <1>1 DEF TickRunning, AgeGap, Capped
    <3>2. QED
      BY <1>1, <3>1 DEF TickRunning, CallInv, Rested
  <2>2. RestInv'
    <3>1. ASSUME ~powered, NEW j \in Joints PROVE AtRest(j)'
      <4>1. AtRest(j)
        BY <3>1 DEF RestInv
      <4>2. ~Owed(j) /\ HoldNow(j) = 0
        BY <4>1, RestTick
      <4>3. /\ incr' = incr
            /\ hold'[j] = IF HoldNow(j) > 0 THEN HoldNow(j) - 1 ELSE 0
            /\ pending'[j] = (Owed(j) /\ ~Steps(j))
        BY <1>1 DEF TickRunning
      <4>4. QED
        <5>1. hold'[j] = 0
          BY <4>2, <4>3
        <5>2. ~pending'[j]
          BY <4>2, <4>3
        <5>3. QED
          BY <4>1, <4>3, <5>1, <5>2 DEF AtRest
    <3>2. QED
      BY <1>1, <3>1 DEF TickRunning, RestInv
  <2>3. QED
    BY <1>1, <2>1, <2>2, JointTick
<1>2. CASE TickIdle
  <2>1. CallInv'
    <3>1. \A j \in Joints : gap[j] = CmdGap => gap'[j] = CmdGap
      BY <1>2 DEF TickIdle, AgeGap, Capped
    <3>2. QED
      BY <1>2, <3>1 DEF TickIdle, CallInv, Rested
  <2>2. \A j \in Joints : AtRest(j)
    BY <1>2 DEF TickIdle, RestInv
  <2>3. RestInv'
    BY <1>2, <2>2 DEF TickIdle, RestInv, AtRest
  <2>4. QED
    BY <1>2, <2>1, <2>2, <2>3, JointIdle
<1>3. CASE CallSetIncr
  <2>1. CallInv' /\ RestInv'
    BY <1>3 DEF CallSetIncr, CallInv, RestInv, Rested, AtRest, isrVars
  <2>2. QED
    BY <1>3, <2>1, JointSame DEF CallSetIncr
<1>4. CASE RampedSetIncr
  <2>1. PICK v \in Int32 : /\ v = 0 \/ Abs(v - incr[nxt]) <= RAMP
                           /\ SetIncr(v)
    BY <1>4 DEF RampedSetIncr
  <2>2. nxt \in Joints
    BY DEF TypeOK
  <2>3. ASSUME NEW j \in Joints
        PROVE  JointInv(j)' /\ (~enabled => AtRest(j)')
    <3>1. CASE j = nxt
      BY <2>1, <3>1, JointSet
    <3>2. CASE j # nxt
      <4>1. incr'[j] = incr[j] /\ gap'[j] = gap[j] /\ UNCHANGED isrVars
        BY <2>1, <3>2 DEF SetIncr, TypeOK
      <4>2. QED
        BY <4>1, JointSame DEF RestInv
    <3>3. QED
      BY <3>1, <3>2
  <2>4. RestInv'
    BY <2>1, <2>3 DEF SetIncr, RestInv
  <2>5. CallInv'
    <3>1. /\ op = "set_incr" /\ op' \in {"idle", "set_incr"}
          /\ op' = "set_incr" => nxt' = nxt + 1
      BY <2>1 DEF SetIncr
    <3>2. ASSUME NEW j \in Joints, op' = "set_incr", j >= nxt'
          PROVE  gap'[j] = CmdGap
      <4>1. j # nxt /\ j >= nxt
        BY <2>2, <3>1, <3>2 DEF Joints
      <4>2. gap'[j] = gap[j]
        BY <2>1, <4>1 DEF SetIncr, TypeOK
      <4>3. QED
        BY <3>1, <4>1, <4>2 DEF CallInv
    <3>3. QED
      BY <3>1, <3>2 DEF CallInv
  <2>6. QED
    BY <2>3, <2>4, <2>5
<1>5. CASE CallDisable
  <2>1. CallInv' /\ RestInv'
    BY <1>5 DEF CallDisable, CallInv, RestInv, Rested, AtRest, isrVars, Joints
  <2>2. QED
    BY <1>5, <2>1, JointSame DEF CallDisable
<1>6. CASE ZeroIncr
  <2>1. nxt \in Joints
    BY DEF TypeOK
  <2>2. ASSUME NEW j \in Joints
        PROVE  JointInv(j)' /\ (AtRest(j) => AtRest(j)')
    <3>1. UNCHANGED isrVars /\ gap'[j] = gap[j]
      BY <1>6 DEF ZeroIncr
    <3>2. incr'[j] = 0 \/ incr'[j] = incr[j]
      BY <1>6, <2>1 DEF ZeroIncr, TypeOK
    <3>3. QED
      BY <3>1, <3>2, JointSame, JointZero
  <2>3. RestInv'
    BY <1>6, <2>2 DEF ZeroIncr, RestInv
  <2>4. CallInv'
    <3>1. /\ op = "zero_incr" /\ op' \in {"zero_incr", "set_off"}
          /\ op' = "zero_incr" => nxt' = nxt + 1
          /\ op' = "set_off" => nxt = NJ - 1
          /\ UNCHANGED gap
      BY <1>6 DEF ZeroIncr
    <3>2. ASSUME NEW j \in Joints, op' = "set_off" \/ j < nxt'
          PROVE  incr'[j] = 0
      <4>1. j = nxt \/ j < nxt
        BY <2>1, <3>1, <3>2 DEF Joints
      <4>2. incr' = [incr EXCEPT ![nxt] = 0] /\ incr \in [Joints -> Int32]
        BY <1>6 DEF ZeroIncr, TypeOK
      <4>3. QED
        BY <3>1, <4>1, <4>2 DEF CallInv
    <3>3. QED
      BY <3>1, <3>2 DEF CallInv, Rested
  <2>5. QED
    BY <2>2, <2>3, <2>4
<1>7. CASE CallEnable
  <2>1. CallInv' /\ RestInv'
    BY <1>7 DEF CallEnable, CallInv, RestInv, AtRest, isrVars
  <2>2. QED
    BY <1>7, <2>1, JointSame DEF CallEnable
<1>8. CASE SetEnabled
  <2>1. ASSUME NEW j \in Joints
        PROVE  JointInv(j)' /\ (AtRest(j)' <=> AtRest(j))
    BY <1>8, JointSame DEF SetEnabled
  <2>2. CASE op = "set_off"
    <3>1. ASSUME NEW j \in Joints PROVE AtRest(j)
      BY <2>2, RestedJoint DEF CallInv, Rested, AtRest
    <3>2. QED
      BY <1>8, <2>1, <2>2, <3>1 DEF SetEnabled, CallInv, RestInv
  <2>3. CASE op = "set_on"
    BY <1>8, <2>1, <2>3 DEF SetEnabled, CallInv, RestInv
  <2>4. QED
    BY <1>8, <2>2, <2>3 DEF SetEnabled
<1>9. CASE WritePin
  <2>1. ASSUME NEW j \in Joints
        PROVE  JointInv(j)' /\ (AtRest(j)' <=> AtRest(j))
    BY <1>9, JointSame DEF WritePin
  <2>2. QED
    BY <1>9, <2>1 DEF WritePin, CallInv, RestInv
<1>10. CASE UNCHANGED vars
  <2>1. ASSUME NEW j \in Joints
        PROVE  JointInv(j)' /\ (AtRest(j)' <=> AtRest(j))
    BY <1>10, JointSame DEF vars, isrVars
  <2>2. QED
    BY <1>10, <2>1 DEF vars, CallInv, RestInv, Rested
<1>11. QED
  BY <1>1, <1>2, <1>3, <1>4, <1>5, <1>6, <1>7, <1>8, <1>9, <1>10
  DEF Next, Tick, Switch

LEMMA Invariance == Spec => []IInv
BY InvInit, InvStep, PTL DEF Spec

-----------------------------------------------------------------------------
(* What it gives. *)

\* The step counts and accumulators never leave their widths.
THEOREM TypeCorrect == Spec => []TypeOK
BY Invariance, PTL DEF IInv

\* Every STEP edge has its direction setup time (the hold in stepgen_isr).
THEOREM DirSetupHolds == Spec => []DirSetup
<1>1. IInv => DirSetup
  BY DEF IInv, TypeOK, JointInv, PhaseInv, DirSetup
<1>2. QED
  BY <1>1, Invariance, PTL

\* stepgen_enable(false) never leaves a step or an increment behind.
THEOREM NoStaleStepHolds == Spec => []NoStaleStep
<1>1. IInv => NoStaleStep
  BY DEF IInv, RestInv, AtRest, NoStaleStep
<1>2. QED
  BY <1>1, Invariance, PTL

\* A step that is owed (pending, which only a hold can cause) is made by the third
\* tick after its joint's command: OwedStepIsMade with a bound, and no fairness.
THEOREM OwedStepIsPrompt == Spec => [](\A j \in Joints : pending[j] => gap[j] <= 2)
<1>1. IInv => \A j \in Joints : pending[j] => gap[j] <= 2
  BY DEF IInv, JointInv, HoldInv, Recent
<1>2. QED
  BY <1>1, Invariance, PTL

\* No step is made, and counted, while the EN pin is still high.
THEOREM StepsAreDrivenHolds == Spec => StepsAreDriven
<1>1. IInv /\ [Next]_vars => [raised' \ raised # {} => powered]_vars
  <2> SUFFICES ASSUME IInv, Next, ~powered PROVE raised' \ raised = {}
    OBVIOUS
  <2>1. CASE TickRunning
    <3>1. \A j \in Joints : ~Steps(j)
      BY RestTick DEF IInv, RestInv, Steps
    <3>2. QED
      BY <2>1, <3>1 DEF TickRunning
  <2>2. CASE ~TickRunning
    BY <2>2 DEF Next, Tick, TickIdle, CallSetIncr, RampedSetIncr, SetIncr,
                Switch, CallDisable, ZeroIncr, CallEnable, SetEnabled, WritePin,
                isrVars
  <2>3. QED
    BY <2>1, <2>2
<1>2. QED
  BY <1>1, Invariance, PTL DEF Spec, StepsAreDriven

\* The STEP pins are low for a whole tick between two pulses.
THEOREM EveryOtherTickHolds == Spec => EveryOtherTick
<1>1. ASSUME IInv, TickRunning, NEW j \in raised PROVE j \notin raised'
  <2>1. j \in Joints /\ TypeOK /\ ~pending[j]
    BY <1>1 DEF IInv, TypeOK, JointInv, PhaseInv
  <2>2. Mag(j) \in 0 .. INCR_MAX /\ acc[j] \in 0 .. M - 1 /\ Mag(j) = Abs(incr[j])
    BY <2>1, MagRange, AccRange
  <2>3. acc[j] + Mag(j) < M
    BY <1>1, <2>1, <2>2, Sizes DEF IInv, JointInv, PhaseInv, Slow
  <2>4. ~Owed(j)
    BY <2>1, <2>2, <2>3, Sizes DEF Owed, Overflows
  <2>5. QED
    BY <1>1, <2>4 DEF TickRunning, Steps
<1>2. IInv /\ [Next]_vars => [Tick => raised \cap raised' = {}]_vars
  BY <1>1 DEF Tick, TickIdle
<1>3. QED
  BY <1>2, Invariance, PTL DEF Spec, EveryOtherTick

\* No overflow of an accumulator is lost: each one is a step.
THEOREM OverflowIsOneStepHolds == Spec => OverflowIsOneStep
<1>1. ASSUME IInv, NEW j \in Joints, pending[j] PROVE ~Overflows(j)
  <2>1. TypeOK /\ Slow(j) /\ acc[j] < 2 * RAMP
    BY <1>1 DEF IInv, JointInv, HoldInv
  <2>2. Mag(j) \in 0 .. INCR_MAX /\ acc[j] \in 0 .. M - 1 /\ Mag(j) = Abs(incr[j])
    BY <2>1, MagRange, AccRange
  <2>3. QED
    BY <2>1, <2>2, Sizes DEF Overflows, Slow
<1>2. IInv /\ [Next]_vars
        => [TickRunning => \A j \in Joints : ~(pending[j] /\ Overflows(j))]_vars
  BY <1>1
<1>3. QED
  BY <1>2, Invariance, PTL DEF Spec, OverflowIsOneStep
=============================================================================
