# Verification of QStep

TLA+ models of QStep (LinuxCNC on the Arduino UNO Q: a HAL component on the
Linux side, a step generator on the STM32, one SPI frame per millisecond
between them), TLC configurations that check them on small instances, and
proofs for the TLA+ proof system. Paths are relative to the repository
(`src/` here).

## The system

| Component | State | Operations | What is hard |
|---|---|---|---|
| Step generator `firmware/qstep-fw/src/stepgen.c` | per joint: increment, accumulator, direction, hold, pending, count; `enabled`, EN pin | TIM6 interrupt at 100 kHz; `stepgen_set_incr`, `stepgen_enable` | the interrupt lands between any two stores of the callers; state that survives a disable; overflow and reversal together |
| MCU loop `firmware/qstep-fw/src/main.c` | last frame's time and seq, trip latch, prepared status | receive, check, `apply_command`, `prepare_status`; 5 ms watchdog interrupt | the watchdog preempts the handling of a frame; a status is one transfer old; silence; restarts |
| HAL component, link state `hal/unoq_spi.c` | seq, newest echo, stalled and late counters, pins | `unoq.update` each servo period; load, exit | 8-bit wrap, one-way loss, hanging transfers, coming back |
| HAL component, mailbox | `posted`, `done`, semaphore, buffers, `stop` | servo thread, SPI worker, `rtapi_app_exit` | no lock; counters that wrap; shutdown at any point |
| HAL component, position loop | velocity and duration rings, counts, old command | inside `unoq.update` | what a lost, late, damaged or repeated frame does to the estimate; rounding, limits and a target between two steps |
| LED matrix `firmware/*/src/matrix.c` | frame buffer, scan index, port registers | scan interrupt, scroll thread | LEDs that share pins; a copy the scan interrupts |
| SPI echo pair `firmware/spi-echo`, `tools/spitest` | previous request, prepared reply, counters | echo, compare | what a lost frame or a failing ioctl does to the comparison |
| Setup scripts `board/qstep-firstboot`, `board/install.sh`, `tools/restore-stock.sh` | configuration copy, STM32 flash and its backups, mark | first boot, install, restore | power cuts and failures between any two steps, retries |
| Service `board/lcnc-ctl`, `qstep-linuxcnc.service` | lock file, processes | start, stop, clean stale | a lock tested and removed in two steps |
| Release, image, kernel, tuning, display | files | linear scripts | nothing concurrent; left out |

The servo thread posts a frame (sequence number, ENABLE flag, increments) to the
worker, which exchanges it for the status the MCU prepared after the *previous*
command. The host believes the link alive (`fresh`) from the echoed sequence
number, asks for the drivers only then, estimates from the counts in the status
where the motor is, and shows the link's state on `unoq.connected`, which the
LinuxCNC configuration wires to the e-stop chain
(`configs/unoq-shield/unoq-shield.hal`). The MCU turns the drivers off by itself
after 20 ms without a good command.

The properties that make this correct:

- *step generator*: direction setup time, pulse low time, one step per overflow,
  no step without drivers or left over from before a disable;
- *MCU*: silence turns the drivers off in time, a trip is complete and latched;
- *mailbox*: the threads never meet in a buffer, each frame goes out once and in
  order, shutdown ends;
- *link state*: `connected` and ENABLE mean that the MCU takes commands, and come
  back when it does;
- *whole link*: turning the machine off stops the drivers whatever the link does;
- *position loop*: the estimate is exact when every command ran in its period and
  becomes exact again after any fault; the motor settles, and starts the right way;
- *matrix*: one LED at a time, no tear but where two pictures differ;
- *echo pair*: the verdict says what happened to the frames;
- *setup*: no failure or power cut loses the stock firmware of the STM32, and the
  first boot is completed.

## Modules

| Module | Models | Extends |
|---|---|---|
| `StepGen` | `stepgen.c` | |
| `Firmware` | `main.c` with the calls it makes, store by store | |
| `DrivePower` | what the firmware promises about the drivers' power (abstract) | |
| `McuFrames` | `main.c` frame by frame (abstract, implemented by `Firmware`) | |
| `Handoff` | the mailbox of `unoq_spi.c`, access by access | |
| `Mailbox` | what the mailbox promises to the servo thread (abstract, implemented by `Handoff`) | |
| `UnoqSpi` | the link state of `unoq_spi.c`: actions only | |
| `Freshness` | `UnoqSpi` on a lossy wire with an echoing MCU that may restart | `UnoqSpi` |
| `Link` | host, wire, MCU with restarts, and time | `UnoqSpi`, `McuFrames` |
| `TripHistory` | `Link` with a memory of the last trip | `Link` |
| `Estimator` | the position estimate on a lossy link | |
| `PositionLoop` | the velocity law and the motor on a working link | |
| `Matrix` | `matrix.c` | |
| `SpiEcho` | `spitest.c` and the echo firmware | |
| `BoardSetup` | first boot, `install.sh`, `restore-stock.sh` | |
| `UnoqProofs` | theorems about the HAL component | `Handoff`, `PositionLoop`, `Estimator` |
| other `*Proofs` | theorems | the module named |
| `MC*` | what TLC runs | the module named, or its proofs |

**StepGen.** `Tick` is one run of the interrupt, which nothing preempts. The
callers are split into their stores (`SetIncr`, `ZeroIncr`, `SetEnabled`,
`WritePin`), with `op` and `nxt` as their control location, so the interrupt can
run between any two. The accumulator is scaled to `2 * INCR_MAX` (2^32 in the
code). `gap` and `dir_age` are history. `Spec` limits the change between two
increments to `RAMP` (the host with `maxaccel` set, as the shipped configuration
does: 25 rev/s² at 6400 steps/rev changes an increment by 160 steps/s per
period, far below `RAMP`'s bound), `SpecNoRamp` does not (`maxaccel = 0`, the
component's default). A disable resets an increment to 0 at once in both.

**Firmware.** `pc` is the main thread's location; every action is one load or
store that another context can tell apart. `Watchdog` is one action because it
runs in interrupt context. `age` is `k_uptime_get() - last_frame_ms`;
`read_age` keeps the age of the value `apply_command` read until it is stored.
`Millisecond` may not leave the main thread longer than `BUSY_MS` on a frame. The
sequence number, the counts and the console report are left out.

**DrivePower.** Off, on or latched; on only for a recent command; `Trip` only out
of silence longer than the watchdog's; `Release` only by a command that does not
ask. `Firmware!PowerContract` maps the firmware onto it.

**McuFrames.** A command takes effect as a whole (`Accept`), a damaged frame does
nothing but prepare the status again (`Reject`), the timer trips (`Expires`).
`Firmware!McuContract` maps the store-by-store firmware onto it, with the drivers
on from the moment a command is decided on, and so justifies `Link`.

**Handoff.** One action per access to the shared mailbox. A buffer holds the
number of its frame. The ioctl is the interval between `LoadPosted` and
`Transfer`. Loads and stores are sequentially consistent: the code orders the two
counters with acquire and release, and buffers are only touched on the right side
of them, which is what `NoBufferRace` says. `sem_wait` is taken as never
interrupted by a signal (the code ignores its result). The definitions that
`PositionLoop` and `Estimator` have too are prefixed (`MailSpec`, `LoopSpec`),
because `UnoqProofs` extends all three.

**Mailbox.** One frame at a time goes out, once, and its answer comes back before
the next is posted; `Close` may drop a frame that has not gone out, and `Last` sends
one alone. `Handoff!MailboxContract` maps the two threads onto it: `Job` reads the
job's state off the counters, the worker's location and the exit's.

**UnoqSpi.** `UpdateLate` and `UpdatePost` are the two paths of `update`;
`Got`, `Stalled`, `Age`, `Fresh` and `DriversOn` are its local decisions in their
order. `job` folds the mailbox into one variable, as `Mailbox` does, which `Handoff`
is proved to implement: `posted` for done ≠ posted, `done` for a finished transfer, `exit` for
the last frame of `rtapi_app_exit`. The one step that `Handoff` shows and `job`
does not is the wrap of `posted` to 0. A reply with bad magic, CRC or protocol
version, and a failed ioctl, are all `NoReply`.

**Freshness.** A step is a servo period or the end of a transfer. `Exchange`
loses either direction; `Late` is a period in which the transfer hangs, without
bound; `Restart` is `main()` of the MCU, which echoes 0 until it accepts a command.
History: `unheard` counts the frames posted since the MCU last accepted
one, `missed` the periods the current transfer is late, `streak` the transfers in a
row that lost nothing, and `misread` marks an echo whose age eight bits cannot tell
(see below): the 0 of an MCU that restarted is one of these, which `newborn` and
`hollow` follow from the restart to the reply. `MAX_FB_AGE` is at least 2 (16 in
the code), as a reply echoes the command before the last at best.

**Link.** `fair` weather means a servo thread in time and transfers that
succeed; before it clears up, anything of the list in the module may happen at
any step, a restart of the MCU included. It clears up at most once, which loses
nothing: foul weather allows all that fair weather does. `streak` is history: the
ENABLE frames in a row that came through with their replies, since anything was
lost, the timer tripped or the MCU restarted.

**Estimator.** A step of time is a servo period, in which the motor moves by the
velocity in effect. Commands are known by their age and counts by how far the
motor has moved since they were sampled, so the wraps of `seq` and of the counts
cancel; what the window can no longer reach is forgotten. The host's part
(`UpdateLate`, `UpdatePost`) keeps the rings and computes the estimate as
`update` does; frames are accepted, damaged, lost, replied to late, and stopped
by the watchdog. `fate` records what became of each command.

**PositionLoop.** One joint on a link that works: counts are two commands old.
A step of the motor is `UNIT` parts (2^32 in the accumulator); the code's
doubles are integers here, with halves for the gain, and the rounding to even and
the saturation of the increment are kept. `maxvel` and `maxaccel` are
constants of a behaviour, chosen from `Limits`. `recent` is the two newest entries
of `v_ring`: `Est` is `Estimator`'s estimate on such a link (`EstimateOfTwo`).

**Matrix.** The scan is one action per register write, because the LEDs show
every state in between; `Copy` is one byte of the `memcpy`. The pin table is the
source's. Thread and interrupt share one core, so `Copy` waits for the
interrupt to return.

**SpiEcho.** A frame is four fields: header, number, the two bytes nobody
compares, payload. Each direction may damage one of them; the ioctl may fail
before or after the MCU has taken the request. `doubt` and `harm` record what
really happened.

**BoardSetup.** The scripts step by step with `set -e`; `Fault` is a step that
fails or a power cut. The first boot and the installer share the backup and
programming actions, each with a backup file of its own. `RestoreMcu` starts on any
STM32, as `restore_mcu` does: one that still holds stock firmware, and of which there
may be no backup (`Bare`), included. In `restore-stock.sh` it also follows the wipe
(`Restore`), when the board is up again. `unsaved` is history: the script wiped a
backup that it had not copied, or its burn was cut off on a `Bare` board. Files are
taken to be on disk in the order they were written, one script runs at a time, and a
wipe that fails is repeated until it succeeds.

## Runs

| Run | Question | Bounds |
|---|---|---|
| `stepgen` | timing, lost and stale steps; owed steps are made | 1 joint, accumulator 16, ramp a quarter of the range, commands 4 ticks apart |
| `firmware` | watchdog against main thread; contracts of `DrivePower` and `McuFrames` | 2 joints, watchdog 3 ms, timer 2 ms, 1 ms per frame |
| `handoff` | buffers, order, shutdown; the contract of `Mailbox` | counters modulo 5 |
| `freshness` | what `connected` and ENABLE are worth, and when they come back | 8 sequence numbers, age 3, late 2 |
| `link` | machine-off, stuck latch, what `unoq.watchdog` shows | 3 sequence numbers, age 2, late 1, watchdog 3 ms, timer 1 ms, hang 1 ms |
| `trip_latch` (violation) | does the latch wait for machine-off? | 5 sequence numbers, age 2, late 1, watchdog 3 ms |
| `estimator` | is the estimate exact, and again after faults? | age 3, watchdog 4 periods, durations saturate at 5, velocities 0 and 1 |
| `position_loop` | does the loop settle, start right, and know where it is? | 6 parts per step, deadband half a step, travel ±1.5 steps, feeds up to half a step per period, limits 7 and 1 or none |
| `matrix` | one LED, tears, pictures shown | 4 by 3 LEDs, 5 bits per byte, text of 5 columns |
| `spi_echo` | is the verdict right? | 5 frames, numbers modulo 2, the MCU's leftover from a run of 5 or more |
| `board_setup` | is stock firmware kept, does the first boot end? | 3 faults |
| `board_setup_mark` (violation) | does the mark mean that all succeeded? | 1 fault |

Why the bounds are enough. The step generator's behaviour depends on the order of
`acc + mag` and the wrap, on the three values of the hold and on the relation
between the ramp and the range; 16 phases reach every combination. In `Firmware`
the watchdog is longer than its timer's period and than a frame's handling, as in
the code; two joints let the interrupt land between the stores to them. In
`Freshness` and `Link` the age limit is below the watchdog (16 < 20 in the code)
and, in `Freshness`, below half of the sequence numbers; runs last for many
wraps. `Link` needs no more sequence numbers than the host needs to tell fresh
from stale, because its properties are about power: what echoes are worth is
`Freshness`' question. In `Estimator` a window of three commands holds one
before, one at and one after a fault, and the limits are ordered as in the code
(age < watchdog < saturation); the estimate is linear in the velocities, so 0 and
1 show every error. In `PositionLoop` the ratios decide: a velocity limit above
a step per period, an acceleration limit that takes several periods to reach it,
a deadband of half a step, and every phase of the accumulator. The matrix' bytes
straddle rows, as the source's do, and its text is longer than the panel. The
echo test's numbers wrap after two frames, which is harder than 256. Three faults
allow one in each of three runs of a script.

For the safety properties the theorems below remove the bounds; the one exception
is `Settles`, of which they prove three parts and not the whole.

Named bounds that the code does not have: `CmdGap` (ticks between two commands;
a frame takes longer than that on the wire), `BUSY_MS`, `MAX_HANG`, `TRAVEL`,
`Feeds`, `Velocities` (any set of integers in the proofs), `MAX_FAULTS`, and the caps of the ages and history counters, beyond
which values are not told apart. Deadlock is checked everywhere but in
`spi_echo`, whose program ends.

What the runs show:

- `ConnectedIsRecent`: while `connected` is set, the MCU accepted one of the last
  `MAX_FB_AGE` frames and the transfer in progress is at most `MAX_LATE` periods
  late. It needs the saturating `stalled` counter: with the 8-bit age alone the
  wrap makes a dead link look alive again. One corner remains, which `misread`
  excludes: the first new echo after loading, after about `SEQS` frames lost in
  *both* directions (256 ms), or of an MCU that restarted and has accepted nothing
  yet, can look recent by its number, for at most `MAX_FB_AGE` finished transfers.
- `ConnectedComesBack`: three transfers in a row that lose nothing set `connected`
  again, from any state. Two are not enough: after a reload the MCU's echo of
  the last load can have the number that the new load has just counted as seen, so
  the first reply is taken for an old one and `stalled` may still be run out.
- `MachineOffStops`: the drivers are off `MAX_HANG + WATCHDOG_MS + PERIOD_MS`
  after machine-off or unloading, whenever the MCU restarts. The bound is reached:
  a frame that hung in the ioctl still turns them on, and everything after it is
  lost.
- `StuckIsShown`: a latch that the host does not know of (the servo thread
  stalled, so nothing was stale) holds for ever, but `unoq.watchdog` shows it.
- `LatchIsShown`: two ENABLE frames in a row that come through with their replies
  are enough for `unoq.watchdog` to be set exactly when the drivers are off. One
  is not: its reply was prepared before it.
- `EstimateIsExact`, `EstimateIsBack`, `EstimateRecovers`: lost replies and a worker
  that wakes up late cost nothing; what lost, late and damaged *commands* cost is
  gone as soon as the window has passed them, which takes two good commands and a
  reply to the second: no error is carried over.
- `Settles`: the deadband of half a step is what ends the chase of a target
  between two steps; with velocity and acceleration limits and without.
- `VerdictIsExact`: no false alarm and no missed damage in what is compared, when
  the numbers wrap and after failing ioctls.
- `StockIsKept`: the dump to a temporary file is what makes it hold, as the
  comment in `install.sh` says. It holds up to two cases of `restore-stock.sh`, which
  `unsaved` marks: a wipe of a backup that was not copied, and a burn that is cut
  off on a board of which nobody ever made a backup (`--mcu-only` on an STM32 that
  QStep never programmed: the script makes none). A burn that is repeated
  brings the stock firmware back even then (`dist/README.md:138-141`), but an
  `install.sh` in between keeps the half-written flash as its one backup.

## Where the code and its documents disagree

As runs that expect a violation:

- `trip_latch`: an outage longer than the watchdog makes the host stale, its
  frames without ENABLE then release the latch, and the drivers come back with
  the machine on throughout, unless the e-stop chain, polled every 100 ms, saw
  `connected` drop. `main.c:13-15` says the latch waits for machine-off.
- `board_setup_mark`: power lost while the configuration is copied leaves a
  directory that the next boot takes for whole, and the mark is then set.
  `qstep-firstboot:8` says it is set only when everything succeeded. That is true of
  the STM32 (`MarkMeansFlashed`), whose steps are verified.

Smaller ones. Each has a definition beside the properties of its module; put in
the place of the properties in the cfg named, TLC finds it violated:

- `OffWithinWatchdog` (`MCFirmware.cfg`): `unoq_spi.c:504` and
  `unoq-shield.hal:41` say the drivers are off within 20 ms; the 5 ms timer that
  tests for more than 20 makes it up to 25.
- `TripIsShown` (`MCTripLatch.cfg`): the trip of `trip_latch` never appears on
  `unoq.watchdog`, which `unoq_spi.c:41` describes as showing it.
- `EveryOtherTick`, `OverflowIsOneStep` (`MCStepGen.cfg` with `SpecNoRamp` for
  `Spec`): without an acceleration limit a reversal at a high rate gives steps on
  adjacent ticks (`stepgen.c:12-13`) and loses an overflow, `pending` being one
  bit (`stepgen.c:10`). The shipped configuration sets the limit.
- `NothingSentYet` (`MCHandoff.cfg`): after 2^32 periods `posted == 0`
  (`unoq_spi.c:206`) drops one reply and, for one period, `connected`.
- `LateIsExact` (`MCEstimator.cfg`): `docs/BRINGUP_LOG.md:139` says a late transfer
  is accounted for exactly; if the frame itself is late, `unoq_spi.c:260` charges
  the period to a command the MCU does not run yet.
- `SteadyIsExact` (`MCEstimator.cfg`): `unoq_spi.c:17-18` says counts are sampled
  right after command `seq_echo`; after a damaged frame `main.c:172` samples them
  again under the old one, and that period's movement is counted twice.
- `EveryByteIsChecked` (`MCSpiEcho.cfg`): bytes 2 and 3 of a frame are not compared
  (`spi-echo/src/main.c:8-9` says every byte is).
- `LossIsSeen` (`MCSpiEcho.cfg` with `Earlier = {0}`): the payloads are the same in
  every test, so the echo left by an earlier one can stand in for a lost frame.
- Without a definition: `restore-stock.sh:22-24` and `dist/README.md:143` say that
  QStep's STM32 backup is copied before the wipe. That is so for `/root/qstep`;
  a board set up by the image has its backup in `/var/lib/qstep`, and an
  `adb pull` that fails is not noticed. `BoardSetup!unsaved` marks these cases.

## Fairness

- `StepGen`: the timer interrupt runs (`WF(Tick)`); nothing about the callers.
- `Firmware`: time passes, the timer interrupt is served, and the main thread,
  which nothing but interrupts preempts, runs. Nothing about the host.
- `Handoff`: both threads are `SCHED_FIFO` and run when they can; the ioctl
  returns. Unloading itself is never assumed.
- `Freshness`, `Link`, `Estimator`: the servo thread, the worker and the MCU run;
  transfers succeed only in fair weather. The liveness properties assume, in their
  own formulas, that the weather stays fair and the component loaded.
- `Matrix`: the timer runs; the thread, of the lowest priority on an otherwise idle
  core, gets it again and again (`SF` because the interrupt disables it
  again and again).
- `BoardSetup`: a script that runs goes on, a board with power boots, and a board
  is switched off and on again and again, which is what makes the first boot's
  retry happen. The faults are finitely many.

## Proofs

Each is for every value of the constants under the `ASSUME`s of its module, and
each follows one scheme: an inductive invariant, its preservation with one step per
action, and the theorems as its consequences.

- `StepGenProofs` (`TypeCorrect`, `DirSetupHolds`, `NoStaleStepHolds`,
  `StepsAreDrivenHolds`, `EveryOtherTickHolds`, `OverflowIsOneStepHolds`,
  `OwedStepIsPrompt`), for any number of joints. The properties are not inductive:
  that no overflow is lost needs to know, for a joint in its hold, how large the
  increment can be given how long ago the command came, and how far the accumulator
  is from its wrap. That is what `SizesAssumption`, `RampAssumption` (a reversal
  within the ramp starts at no more than a quarter of the tick rate) and
  `GapAssumption` (commands at least four ticks apart) are for. The reset by a
  disable needs the gap too. `OwedStepIsPrompt` is the safety core of the liveness
  property `OwedStepIsMade`: a step is never owed for more than two ticks after the
  command.
- `FirmwareProofs` (`TypeCorrect`, `OffInTimeHolds`, `TripIsCompleteHolds`,
  `MovesOnlyEnabledHolds`, `PinsAgreeHolds`, `PowerSafety`, `McuSafety`). The
  invariant says for each location of the main thread what it may still store
  after a trip, and bounds the ages there by `BUSY_MS`; `BusyAssumption` (a frame
  is handled within the watchdog's time) is what keeps the main thread from
  turning the drivers on after the trip it was preempted by. `PowerSafety` and
  `McuSafety` are the safety parts of the two refinements.
- `UnoqProofs`, three theories in one module:
  - the mailbox (`MailTypeCorrect`, `NoBufferRaceHolds`, `ReplyIsCurrentHolds`,
    `InOrderHolds`, `NoLostWakeUpHolds`, `MailboxContractHolds`): either everything
    posted is answered (`Quiet`) or exactly one frame is under way (`Flight`), and
    the threads' locations say which. `NoLostWakeUp` is the safety core of
    `FrameIsAnswered` and `ExitEnds`: nobody waits for a worker that sleeps.
    `MailboxContractHolds` is the refinement, one step of `Mailbox` or a stutter for
    each access. Needs a wrap of at least 2.
  - the position loop (`LoopTypeCorrect`, `EstimateWithinStepHolds`,
    `StartsTowardsHolds`, `RestIsFinal`, `RestsOnTargetOnly`): the invariant keeps the
    last two periods of the motor (`MoveInv`: some fraction of the accumulator, two
    periods ago, from which the two velocities lead to the present), and how much
    two velocities in a row may differ. The increment is bounded through the rounding
    and both saturations (`RATE_MAX` > 1). Of `Settles` three parts are proved: at
    rest on its target the motor stays, nowhere else does it come to rest, and
    (`Approaches`) without an acceleration limit each period of a resting command
    takes off half of the error or what the top speed can do, up to the step that the
    counts may be off by. How it ends the last two steps, how an acceleration limit
    slows it down, and so the bound `SETTLE`, are TLC's.
  - the estimate (`EstimateTypeCorrect`, `EstimateIsExactHolds`, `EstimateIsBackHolds`,
    `EstimateOfTwo`):
    the invariant says, for every command the window can still reach whose
    successors all ran, that the counts sampled after it and the window's sum are
    the motor's position (`Exact`). The sum is a recursive function of the ring's
    index, `Travel`; that it changes by what the motor moved when a period passes
    is an induction along the window, written over the *set* of indices for which
    the statement holds (`SetInduction`, from the library's well-foundedness of
    the naturals). `EstimateIsBackHolds` needs one fact more (`EchoLost`): of the
    commands between the one that the reply echoes and the newest none took effect in
    its period, so one that did there leaves no room for an older echo.
- `FreshnessProofs` (`TypeCorrect`, `ConnectedIsRecentHolds`,
  `EnableNeedsFreshnessHolds`, `ConnectedComesBackHolds`): the age of the newest
  echo is known only modulo `SEQS`, so the invariant says that the MCU was heard
  since the echo arrived (`HeardSince`), or the echo is at least as old as the MCU's
  silence and too young to have wrapped (`EchoIsOld`), as long as `stalled` has not
  run out. For the converse `StreakInv` says, for each length of a streak, which
  numbers the MCU and the mailbox hold and that the host has seen the echo change in
  the end: the safety core of `LinkComesBack`.
- `LinkProofs` (`TypeCorrect`, `MachineOffStopsHolds`, `LatchIsShownHolds`): a frame
  with ENABLE is no younger than machine-off by more than its transfer, and drivers
  that are on heard one no longer ago than the watchdog allows. `ShownInv` follows
  the latch through the prepared status and the reply to the pin; `LatchIsShown` is
  the safety core of `StuckIsShown`.
- `MatrixProofs` (`TypeCorrect`, `OneLedAtATimeHolds`, `TearsOnlyTheTextHolds`,
  `PictureIsShownHolds`): the outputs are the pins of one LED at most, and the
  framebuffer is the new picture up to the byte copied and the old one from there.
  While the thread sleeps, each LED that the scan has passed since the copy was
  shown as the new picture has it (`ShownInv`); `SleepAssumption` (it sleeps for a
  whole scan at least: 1200 and 104 in the code) makes that all of them.
  `PinsAssumption` is evaluated on the source's own table.
- `SpiEchoProofs` (`VerdictIsExactHolds`), under `FreshMcu`: the MCU does not hold
  a frame that this test will send before its last (else `LossIsSeen` fails, above).
  What a run with the same `-n` leaves there, its last frame, is allowed: the
  test sends that frame again but does not wait for its echo.
- `BoardSetupProofs` (`TypeCorrect`, `StockIsKeptHolds`, `FirstBootAdvances`,
  `MarkMeansFlashed`), for any number of faults: some backup is stock, or there is
  none and the flash has not been touched or is being restored (`Covered`), unless
  `unsaved`. `MarkInv` says what each step
  of the first boot may rely on. From it follow the safety core of `FirstBootEnds`
  (every step that does not fail takes the script further, whatever earlier runs
  left behind) and what of `MarkMeansComplete` does hold: the firmware is
  verified and a backup is there, and without a fault the configuration is whole.

Only model-checked:

- liveness, and the fairness of the two contracts of `Firmware`, which are outside the
  prover's reach: `TextScrolls`, and `OwedStepIsMade`, `FrameIsAnswered`, `ExitEnds`,
  `SilenceTurnsOff` (`OffInTime`), `LinkComesBack`, `StuckIsShown`,
  `EstimateRecovers` and `FirstBootEnds`, whose safety cores are proved, above: what
  TLC adds is that the steps they count are taken;
- the bound within which the position loop settles (`Settles`), but for its
  approach without an acceleration limit;
- the two violations, and the smaller disagreements.

Wherever a component's type invariant is proved for every instance and no run lists
it (all but `PositionLoop`'s; `SpiEcho`'s is a part of its invariant), the proof is
what stands for it.

## Not modelled

- The MCU's restart as the position loop sees it: its counts start at 0 again
  while `count_offset` stays (`unoq_spi.c:230`), so the feedback jumps by all the
  joint has moved. Nothing detects it and no document promises anything.
- Tearing of the 64-bit `last_frame_ms` on the 32-bit core (`main.c:57`), possible
  when the low word wraps, once in 49.7 days.
- Missed servo periods in `Estimator` (a thread that runs late moves the motor for
  longer than a period), and what `unoq_spi.c:28-30` says of overshoot on
  machines with maximum feeds near the limits.
- The path from `unoq.connected` through iocontrol to machine-off: LinuxCNC is not
  in the repository, and the user of the models turns the machine off at any time.
- Signals that interrupt `sem_wait`; the CRC (a frame is good or not); the console
  reports, the interrupt's timing statistics and the test's latencies.
- `lcnc-ctl` and its service: what can go wrong lies between LinuxCNC's processes
  and its lock, whose code is not here.
- File systems: `qstep-firstboot` does not sync between the rename of the dump and
  the programming of the flash; whether the data can be lost is the journal's
  business.
- `mcu-build-flash.sh` (a developer's tool that programs the flash without a
  backup), release, image and kernel scripts, board tuning, display and VNC.

What could come next: a module of its own for `last_frame_ms` with words of a few
bits, and the service against LinuxCNC's own runscript.
