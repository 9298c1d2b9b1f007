# TLA+ specifications of the Inspector robot's firmware

The Inspector is a four-joint inspection arm driven by a grblHAL fork for the
ESP32 (`src/fw/grblhal_esp32/`, board MKS TinyBee V1) with a kinematics module
of its own (`main/grbl/kinematics/inspector.c`). This directory models the parts
of the firmware that decide *whether the motors may move*, *where the robot
believes it is*, *which lines it executes* and *what it finds again after the power
was off*, checks them with TLC and proves the main results with TLAPS.
Paths without a directory are in `src/fw/grblhal_esp32/main/grbl/`.

## 1. The system

### Threads and interrupts

* The **main thread** (`grbl_enter`, one FreeRTOS task pinned to core 1) reads
  lines, parses and executes them, fills the planner and the segment ring, and
  at every check point calls `protocol_execute_realtime()`.
* The **stepper interrupt** empties the segment ring and raises
  `EXEC_CYCLE_COMPLETE` when it runs dry.
* **Realtime characters** (`!`, `~`, `0x18`, `0x85`, ...) are picked out of the
  input before the line buffer: by the UART interrupt (same core), or by the lwIP
  thread of a telnet or websocket session (core 0). That thread also exchanges the
  input stream, when a client connects or leaves.
* **Control and limit interrupts** report door, E-stop, probe and limit
  switches.

Interrupts and the main thread share `sys.rt_exec_state`, `sys.rt_exec_alarm`,
the state of the machine, and the rings. Everything that is hard in this code comes
from that: a request may arrive between any two steps of the main thread, and
the main thread may be anywhere, also deep inside `mc_line()`, when it serves it.

### Components

| Component | State it keeps | Operations | Interacts with | What makes it correct | Modelled |
|---|---|---|---|---|---|
| Realtime control (`protocol.c`, `state_machine.c`) | `sys_state`, `stateHandler`, `pending_state`, `sys.rt_exec_*`, `sys.suspend/abort/cancel`, `sys.holding_state`, `sys.step_control` | main loop, executor, suspend loop, `state_set`, `state_update`, stop, reset, hold, resume, jog cancel, door | everything below; interrupts set its requests | a locked machine does not start, nothing runs dry unnoticed, every request is served, stop and jog cancel discard motion | `RealtimeControl`, `Machine`, `OperatorView` |
| Alarms, system commands (`system.c`, `alarms.c`) | `sys.alarm`, `sys.alarm_pending` | `system_raise_alarm`, `control_interrupt_handler`, `$X`, `$J` | executor | an alarm is raised now or parked, never lost | with realtime control |
| Motion control (`motion_control.c`) | `joint_mode` while a line runs | `mc_line`, `mc_reset`, `mc_jog_execute`, arcs, canned cycles | planner, kinematics, executor | a reset kills moving steppers and says that the position is lost | lines, jogs, reset |
| Limits (`machine_limits.c`) | homed axes | limit interrupt, soft limit check, homing | executor | a bad target is never executed | without homing |
| Start-up (`grbllib.c`) | `sys.cold_start`, driver state | initialization loop | all | re-initialization synchronizes everything | without first-time set-up |
| Segment buffer and stepper driver (`stepper.c`) | segment ring, `st.exec_*`, `prep`, `pl_block`, `sys.position` | `st_prep_buffer`, `st_wake_up`, `st_go_idle`, interrupt | planner, executor | never woken empty, never overrun, prepares planned blocks only | level of segments and blocks |
| Planner (`planner.c`) | block ring, `pl.position` | buffer, discard, reset, look-ahead | stepper, kinematics | FIFO of targets; `pl.position` is the last one | number and targets of blocks |
| Override queues (`override.c`) | three rings of 16 characters | enqueue, get, flush | streams, executor | bounded FIFO | `OverrideQueue`, `OverrideFifo` |
| Inspector kinematics (`kinematics/inspector.c`) | `joint_mode`, `joint_limit_violation`, `trsf`, `iterations` | forward, inverse, line segmentation, `M100` | planner, parser, limits | inverse and forward agree; refuses exactly what it cannot reach; the base turns only when it must | `Inspector`, `Positions` |
| G-code parser (`gcode.c`) | `gc_state`: modal groups, offsets, position | `gc_execute_block`, `gc_init` | motion control, storage | its offsets are the stored ones, its position is the planner's, a feed rate is used in its own mode | `GcodeParser` (one axis), `Positions` (position) |
| Task pool (`grbllib.c`, `task.h`) | one pool, five lists | add, run, delete, systick | plug-ins, drivers, interrupts | no task lost, run twice or early | `TaskPool`, `TaskService` |
| Streams (`stream*.c`, `uart_serial.c`) | receive ring per stream, active stream, suspended input | read, suspend, cancel, realtime filter, select | UART interrupt, lwIP | nothing lost between filter and cancel; what is executed is a line somebody sent | `LineInput`, `FileJob` |
| Settings, storage (`settings.c`, `nvs_buffer.c`, `nvs.c`) | image in RAM, dirty flags, flash | read, write, override, restore, sync | parser, start-up | a restart finds what was saved last, and nothing else | `Storage`, `SettingsStore` |
| SD card jobs (`sdcard/fs_stream.c`) | file, saved stream and callbacks | start, read, acknowledge, end | streams, executor, parser | the input is given back however a job ends; its lines run in order | `FileJob`, `JobService` |
| Tool change (`tool_change.c`) | hold on the input | suspend, acknowledge, resume | streams | nothing typed earlier is executed in a change | input only (`FileJob`) |
| Modbus (`modbus_rtu.c`) | message queue, receive state | send, poll | spindles | | off in this build (`MODBUS_ENABLE` 0) |
| Flow control, expressions (`ngc_*.c`) | flow stack, parameters | push, pop, skip | parser | | off in this build (`NGC_EXPRESSIONS_ENABLE` 0) |
| Homing, parking, sleep, probing cycles, MPG stream | several | | executor | | left out, see section 8 |
| Kinematics scripts (`src/kinematics/*.py`) | none | plots of FK and IK | none | real-valued formulae | no |
| ESP32 driver, boards, networking, web UI, Trinamic, spindle and other plug-ins, reports, I/O ports, VFS, littlefs | hardware registers, sockets, files | | | | no; the driver's switch levels, its UART interrupt and the flash are in the modules above |

`PROJECT.json` lists the same components with their files, and the hazards this
code is exposed to, each at the line where it bites.

## 2. Plan

The most important behaviour first: that the machine moves when and only when
it may, that it moves from where it thinks it is, and then what it is told and
what it remembers.

1. `Machine`, `RealtimeControl`, refined by `OperatorView` (done).
2. `OverrideQueue`, refined by `OverrideFifo` (done).
3. `Inspector`, `Positions` (done).
4. `TaskPool`: immediate, delayed, systick, start-up and reset lists over one
   pool, refined by `TaskService` (done).
5. `LineInput`: receive ring, cancels, and the line assembled from them (done).
6. `Storage`: the buffered settings with power loss and failing writes, refined by
   `SettingsStore` (done).
7. `FileJob`: a file as the input, tool changes, changes of connection, refined by
   `JobService` (done).
8. `GcodeParser`: offsets, modes and positions of the parser with requests inside a
   block (done).
9. `PlannerBuffer`: the block ring itself, `head`, `next_head`, `tail`, the block
   used for system motion, and the optimal-planned pointer, refined by a bounded
   FIFO; the segment ring between `st_prep_buffer` and the interrupt, by the
   shape of `OverrideFifo`. Here blocks and segments are counted.
10. Homing, parking and the motions of a tool change as refinements of
    `RealtimeControl`; `M100` with soft limits on; planes, arcs and the tool table in
    `GcodeParser`.

Theorems to come: `WorkPositionIsAsked`; type correctness and refinement of the module of 9.

## 3. Modules and the code

Every definition that stands for code is in `PROJECT.json`'s `map` with its lines.

**`Machine`** is the record `sys`, the statics of `state_machine.c`, and what is
left of planner and stepper once distances and speeds are forgotten: the number of
planned blocks (`blk`), of prepared segments (`seg`), whether the interrupt holds
a block (`exec`) and the step timer runs (`stepping`), and the kind of velocity
profile (`plb`). Each operator maps a machine to the one a C function leaves
(`SetIdle`, `SetCycle`, `SetHold`, `SetDoor`, ... for the cases of `state_set`;
`HandleCycle`, ... for the state handlers; `StReset`, `McReset`, `RaiseAlarm`),
so that a handler is their composition.

**`RealtimeControl`** gives the main thread a program counter. `site` is who called
`protocol_execute_realtime()`, `inSusp` whether the executor runs inside the suspend
loop, `rt` the requests fetched. The executor's steps are separate where an interrupt
between them is visible: looking at the alarm, fetching the requests, handing
them to the state machine, waiting for a stop, each segment prepared. Interrupts
(`Stepper`, `Environment`) are one step each.

* One step: the body of an interrupt handler (nothing preempts it on its core);
  `state_set(STATE_CYCLE)` up to `st_wake_up()`. Only in a jog, where the wake-up is
  separate in the code, is it a separate step (`JogWake`).
* `st_prep_buffer` prepares one segment per step (`PrepMore`), the last of a block
  (`PrepBlockEnd`) or the end of a forced deceleration (`PrepHoldEnd`), when the executor
  calls it. The call in `state_set(STATE_CYCLE)` is part of that step, so there it is the whole
  loop: `PrepBuffer` is the set of machines that it may leave, with some or all blocks
  used up (stepper.c:1436-1443) and discarded. Handlers that start a cycle (`SetCycle`,
  `RestartCycle`, `DoorResume`, ...) therefore have sets of results. A
  motion cancel may leave a full segment ring or cut it behind the segment after
  the one in execution (`Updates`).
* A line is a member of `LineKinds`: a motion, a motion out of limits, a jog, a
  synchronization, an unlock.
* `JogCancel` also stands for the CAN character found by the main loop
  (protocol.c:212-220), which sets the same request.

**`OperatorView`** is the abstract specification: the reported mode and whether
motors turn. Motors start in an unlocked mode only and end up in a mode that says
so, a jog begins in IDLE only, and a locked machine is unlocked into a mode of
rest. One start is an exception, `ResumeDoor`: the machine that is resumed from DOOR starts
its cycle twice (state_machine.c:865-866, 702-706); if the first start uses up the last
block, the second finds none, and the mode stays IDLE with the motors running
(`MotionIsReported` in section 5). `RealtimeControl` implements it under `mode <- m.st, moving <- m.stepping`.

**`OverrideQueue`** is one of the three rings of `override.c`, every load and store
of an index a step. `CrossCore` says whether the producer is an interrupt of the
consumer's core or runs beside it. **`OverrideFifo`** is the bounded queue it
implements in the first case.

**`Inspector`** is the kinematics over whole numbers: `Mix`/`Unmix` the belt that two
motors share, `Forward`, `Inverse` with its two branches (`Minus` tried first, `Plus`),
`Accepted` the limit check. A pose in the plane is the distance from the base and a
direction. `Pitches`, `CosD`, `SinD` are constants: the angles of the wrist and the
projections of its length, rounded to millimetres. The identities that forward and
inverse kinematics rest on are exact in this representation; in floats they hold
within `LINK_LIMIT_EPS`.

**`Positions`** has the three positions, `gc_state.position` (`parser`), `pl.position`
(`planner`) and `sys.position` (`actual`), the targets of planned blocks, and the line
that is in `mc_line()`. `Cartesian` is a G0, G1 or `$J=` accepted by
`inspector_segment_line`, `Reject` one that is refused (with the alarm, the reset and
the initialization that follow), `Direct` is `M100`, `Plan` is `plan_buffer_line` with
the update of the parser that follows it, and `Stop`, `JogCancel`, `Reset` are served
while a line waits or between lines. `iterations` in `inspector_segment_line` makes
every line exactly one block, so a line is one `Plan` step. A motion that is
interrupted stops before, on or halfway to its target (`Stops`): joints move
linearly, and halfway is where the wrist's arc and the chord differ most.

**`TaskPool`** is the struct `tasks`: a pool of nodes with `last_freed`, and the heads of
five lists threaded through it. `stack` holds the activations of the main thread, because a
task may call `grbl.on_execute_realtime()`, which enters `task_execute()` again; a frame
remembers what its activation has read and not yet used: the next node of the systick
list, the due task that was looked at. Interrupts (`IsrPosts`) add between any two steps
outside the locked sections. `clock` wraps modulo `Period` and is compared as the code does.
`boot`, `driver_started`, `rt` and `abort` are what of start-up and reset decides when lists
are run. **`TaskService`** is the promise: a bag of calls owed.

**`LineInput`** is the receive ring with its indices, the interrupt that fills it, and
`protocol_main_loop` from character to answer, every load and store of the tail and of
`char_counter` a step. The sender follows the character-counting protocol. `Execute` stands
for parser and motion control, `Wait` for a check point inside them.

**`Storage`** has three copies of the records: `chip` (flash or EEPROM), `ram` (`nvsbuffer`) and,
for one setting, `live` with its `override_backup`. A save to flash is erase and
program, to EEPROM one write per record; each may fail, and `PowerLoss` comes between any
two steps. Start-up is `PowerUp`, `InitBuffer`, `InitSettings` with what they restore.
**`SettingsStore`** keeps, for every record, the values that the next power-up may find.

**`FileJob`** is `hal.stream`, the callbacks of the core and the chain of realtime handlers as
one record `io`, so that what a job saves and puts back is a copy of its fields. The lines
of files and of the operator are kinds (`move`, `bad`, `tool`, `m30`, ...). `Change` is
`stream_select()` of the network task, in the parts of a job named by `ConnectAt` and
`HangupAt`. **`JobService`** has the file, the next line and who may be heard.

**`GcodeParser`** is `gc_state` on one axis, the stored offsets, the planned moves with the slot of
the offset ring that each refers to, and the block in step 4 of `gc_execute_block` (`blk`),
whose stages are the places where it may wait: `dwell`, `apply`, `moves`, `end`. `Modal`
and `LateError` are steps 1 to 3. `Stop`, `Reset`, `Restore` (`$RST=#`) and
`PowerCycle` are the requests, between blocks and, the first two, at each wait. G92 here keeps its
offset in the store, as the build does.

## 4. The runs

| Run | Bounds | Shows |
|---|---|---|
| `override_queue` | 3 commands, ring of 4 | refinement of `OverrideFifo` |
| `control_all` | every input and line; 2 inputs, 3 lines; 2.8 million states | `TypeOK`, `StopDiscardsMotion`, `SuspendHasExit` (no suspension without a handler that ends it), `PreparedBlockIsPlanned`, `ImplementsOperatorView` |
| `control_no_door` | without door, jog cancel and E-stop; 4 inputs, 2 lines | `NoBareWake` (the step timer never runs on nothing, where the interrupt would follow a NULL block), `RestIsStill`, `CompletionIsFresh`, `PlannedIsWithinLimits`, `ResetKnowsMotion` |
| `control_live` | fair; every request of the operator; 2 inputs, 2 lines; 0.29 million states | `JogCancelDiscards`, `HoldCompletes`, `MovesAreExecuted`, `ResetIsHonoured`, `StopEndsMotion` |
| `positions` | quarter turns, wrist at 0, 45, 90 and 100 degrees; 3 lines, planner of 2; 0.5 million states | `ParserFollowsPlanner`, `PlannerIsLastTarget`, `LimitsKept`, `SamePlaceKeepsBase`, `RejectedIsUnreachable` |
| `task_lists` | 3 nodes, one immediate and one delayed task that interrupts add and tasks cancel, delays 0 and 1, counter of 6, nested once; 0.23 million states | `PoolPartition` (a node is free or in one list), `DelayedInOrder`, `ImplementsTaskService` |
| `task_startup` | fair; 2 nodes, start-up, systick and reset tasks, a driver that fails, soft resets after the start-up tasks | `StartupCompletes` |
| `line_input` | fair; ring of 10, lines of 2, window of 4, 2 lines out of five, 2 commands; 0.25 million states | `LinesAreWhole`, `NothingLost`, `JogNeverOutlivesCancel`, `LinesAnswered` |
| `storage` | fair; 4 records, 2 values, flash and EEPROM, failing writes of one record, failing reads of the flash; 0.34 million states | `NothingForgotten`, `ImplementsSettingsStore`, `ChangesAreSaved` |
| `file_job` | fair; five files, 2 jobs, 2 changes of connection, 2 resets or stops; 0.13 million states | `RealtimeReaches`, `InputRestored`, `ToolInputIsFresh`, `ImplementsJobService`, `JobEnds` |
| `gcode_blocks` | 4 blocks out of 24, 2 coordinate systems, 4 slots, planner of 2, 2 interruptions; 0.8 million states | `OffsetsAgree`, `FeedIsOwn`, `WorkPositionIsAsked` |
| `lost_position` | one reset, one move | refutes `LostPositionLocks`, see section 5 |

`TypeOK` of the other modules is proved (section 6); TLC checks it when `INVARIANT TypeOK` is
added to their configuration.

**`RealtimeControl`.** `MaxSeg = 2`, `MaxBlk = 2`: two prepared segments are the
least with a segment that is prepared but not next (the code's ring has 10 slots, 9
usable), two blocks the least with a full planner that is not a single block. `MaxEvents`
and `MaxLines` bound the inputs and lines of a behaviour, not when they come.
With the door, a machine can report IDLE while the steppers still run (the cause is
`DoorFeedHolds` in section 5), so `RestIsStill` and `CompletionIsFresh` are checked without
it; `NoBareWake` and `PlannedIsWithinLimits` need more than two inputs to be refuted, and without
jog cancel and E-stop four do not refute them (section 5 has those that do). `ResetIsHonoured` leaves out a reset that comes while a stop waits, and `MovesAreExecuted` a
cancel that raced the end of its jog: there the code does not do it (`MCResetSwallowed`,
`CancelOnlyJogs`). `ResumeDoor` takes three inputs, one more than `control_all` has; with 3 inputs and 2
lines (6.7 million states) its properties hold as well, and their theorems
are for any number.

**`Positions`.** The places are on the axis of the base, 5 mm behind it, and 140 mm away,
which only an upward wrist reaches; the height 200 with each pitch is inside and outside
of the vertical rail's range; `M100` can put the rail to its far end, where the arm reaches
across the base. So all branches, both sides, and both kinds of refusal occur.
Three lines are what it takes to leave a pose, stop halfway and move on.

**`TaskPool`.** Two tasks and three nodes are the least in which a list has a middle and the
pool runs out (the code has 40); nested once, because a second activation already finds
everything the first has read and not used. A delay is less than half of the counter, as
the code's comparison demands. `Cancels` in `task_lists` happen in the main thread; the
interrupt's own cancel between look and removal is in `MCDelayedRace`. Soft resets
come late in `task_startup`: `MCStartupLost` has the early ones.

**`LineInput`.** The sender keeps 4 characters in flight of the 9 that the ring holds; the
rest is room for what cancels leave behind. `NothingLost` depends on `MaxCommands`:
each cancel that races a read can bring back characters that were read before
(`MCCancelRace`), and enough of them in a row would fill any ring. Stops are not among the commands here: `MCStopMidLine`.

**`Storage`.** One record of each kind that is treated differently: the version, the global
settings, one whose flag is kept until it is written (`coord`) and one written
when it is read (`build`). Two values tell old from new.

**`FileJob`.** The files have in them one line of every kind with an effect of its own. Two jobs are
the least in which something is left over from the first. A client connects
between jobs or while the file is being read, and does not leave while a job runs; the
others are in section 5.

**`GcodeParser`.** Four blocks are what it takes to set an offset, queue a move that refers to it,
change it, and move again. With four blocks an offset is never set more than four times, so here the ring
of four is not overrun while a move is queued; the theorem covers longer programs.
The 24 blocks leave out on purpose an F word in the block of M2 and a move in a block with
G92.2: for these the properties do not hold, and section 5 has their constants.

### Fairness

A fair specification asks the following, beside which inputs, lines, a resume or a released
E-stop owe nothing.

* `RealtimeControl`: weak fairness of the main thread (`WF(Main)`: the task has a core
  to itself and its loops run on) and of the stepper interrupt (`WF(Stepper)`: the timer
  fires while enabled), and strong fairness of the end of a block and of a deceleration
  (`SF(BlockEnds)`, `SF(PrepHoldEnd)`): a profile covers a finite distance, and
  `st_prep_buffer` is called again and again, though not without other steps in
  between. `BlockEnds` is `PrepBlockEnd` or the start of a cycle that uses up a block.
* `TaskPool`: the main thread runs on and the counter counts (`WF`); it polls again and again
  and every task function returns (`SF`, one for each depth, because an inner activation
  interrupts the outer one).
* `LineInput`: the main thread runs on, the sender ends a line it began (`WF`), and a wait for room in
  the planner ends (`SF`, because a check point comes in between).
* `Storage`: saving and starting up go on (`WF`), the machine comes to rest and reaches the
  check point where it saves, and a record that fails to be written does not
  fail for ever (`SF`). Power may be lost any number of times; `ChangesAreSaved` excuses a change
  that was lost with it.
* `FileJob`: the main thread runs on and motion ends (`WF`).

## 5. What the code does not do

One run is refuted by TLC with a sentence of the source that says otherwise:
`lost_position` checks `LostPositionLocks`, that a reset in motion "sets the system alarm to flag
position lost" (motion_control.c:1158). A reset between the look at the alarm and the
fetch of requests re-initializes first, and the alarm is cleared unseen.

The following configurations are kept beside it and run by hand
(`tlc -config X.cfg M`); each is refuted.

| Configuration | Module | Property | The source says | What happens |
|---|---|---|---|---|
| `MCSoftLimitHangs` | `RealtimeControl` | `SoftLimitEntersAlarm` | "When complete enter alarm mode." (machine_limits.c:636-637) | The cycle ends while the hold is requested; an idle machine is held and the wait for IDLE never ends. No input is needed. |
| `MCResetSwallowed` | `RealtimeControl` | `EveryResetIsHonoured` | realtime commands are always acted upon (protocol.c:830) | Requests that arrive while a stop waits are merged after the reset bit was tested. |
| `MCOverrideCrossCore` | `OverrideQueue` | `ReturnsOnlyEnqueued` | "Returns 0 if no commands enqueued" (override.c:45) | A flush between the two halves of an enqueue on the other core leaves a ring that seems filled with old slots. |
| `MCStoppedJog` | `MCPositions` | `CancelKeepsPosition` | "Do not update position on cancel" (gcode.c:4561) | A jog returns before that test, and its target replaces the position that the stop has just synchronized. The next line that leaves out a word starts from a place the robot never reached. |
| `MCPlaceTurnsBase` | `MCPositions` | `PlaceFixesBase` | q1 is determined "univocamente" by XY (src/README.md:160-161) | Stopped halfway through a turn of the wrist near the axis, the tool is across the base; the next line that keeps XY swings the base by half a turn. |
| `MCStartupLost` | `MCTaskPool` | `StartupTasksRun` | start-up tasks are run once on cold boot (grbllib.c:105) | A reset before they have run (protocol.c:521) ends the cold start without them. |
| `MCDelayedRace` | `MCTaskPool` | `ImplementsTaskService` | a deleted task is not run | The due task is looked at (grbllib.c:617) before interrupts are locked; cancelled in between by the stepper interrupt, its node is run all the same. |
| `MCCancelRace` | `MCLineInput` | `CancelDiscardsInput` | a cancel empties the buffer (uart_serial.c:608-610) | A cancel between the load and the store of the tail in the read (545-546) is undone: what was there before is read again. |
| `MCWindowFull` | `MCLineInput` | `NothingLost` | the size reported to senders, `RX_BUFFER_SIZE` (driver.c:3424) | The ring holds one character less (uart_serial.c:509): a sender that fills what it was told of loses one. |
| `MCStopMidLine` | `MCLineInput` | `LinesAreWhole` | "Bail to calling function upon system abort" (protocol.c:236) | A stop leaves the main loop too, with half a line read; its rest is executed as a line. |
| `MCLineDouble` | `MCLineInput` | `OneAnswerPerLine` | "do not process as empty line if part of crlf" (protocol.c:227-228) | A block that is refused clears `eol` (272), so the LF of its CR LF is taken for an empty line and answered, too. |
| `MCRestoreKeepsOverride` | `Storage` | `RestoreGivesDefaults` | "Restore global settings to defaults and write to persistent storage" (settings.c:2763) | During an override the value saved for it is put back before the write (settings.c:2147). |
| `MCTornGlobal` | `Storage` | `TornRecordIsAlone` | a record has a checksum of its own | A torn global record resets all the others as well (settings.c:3479-3487). |
| `MCNestedJob` | `MCFileJob` | `RealtimeReaches` | | A `$F` line in a file saves the job's own handler as the one to pass characters on to (fs_stream.c:602): it calls itself. |
| `MCOwnerLeaves` | `MCFileJob` | `InputRestored` | | The telnet client whose job runs disconnects: the job gives back a stream that is gone (stream.c:324, 552). |
| `MCDrainedChange` | `MCFileJob` | `JobEnds` | | A change of connection after the last line has been read is not noticed (fs_stream.c:533). |
| `MCJogInFile` | `MCFileJob` | `ImplementsJobService` | | While a jog runs nothing is read, which counts as the end of the file (fs_stream.c:351-363): the rest is skipped and the job ends as if complete. |

Further properties that the modules define and the code does not meet, with the constants
that show it; what is not named is as in the configuration of the module's run.

| Module | Constants | Property | What happens |
|---|---|---|---|
| `RealtimeControl` | `Inputs = {"hold", "door"}`, `LineKinds = {"move"}`, `MaxEvents = 2`, `MaxLines = 1` | `DoorFeedHolds` | "Safety door is ajar. Feed holds and de-energizes system." (system.h:82); opened while a hold decelerates, the hold is dropped and the motors run on in state DOOR. |
| | `{"hold", "doorCommand", "start"}`, `{"move"}`, 3, 1 | `MotionIsReported` | "Cycle is running or motions are being executed." (system.h:79, of CYCLE). The door command drops a hold that decelerates, the segments run out, and a cycle start resumes: the first `state_set(STATE_CYCLE)` uses up the last short block and wakes the steppers, the second finds no block (state_machine.c:865-866, 702-706): the motors run in IDLE. |
| | `{"stop"}`, `{"move"}`, 1, 1 | `EstopBlocksStart` | "Check for e-stop active. Blocks everything until cleared." (protocol.c:127). Powered up with E-stop asserted, the machine enters no critical loop; a stop request sets IDLE and the next move runs. |
| | `{"jogCancel"}`, `{"jog"}`, 1, 1 | `CancelOnlyJogs` | "Block all other states from invoking motion cancel." (protocol.c:899). Cancel and end of a jog are fetched together: IDLE first, then the wait for an end that never comes. |
| | `{"estop", "reset"}`, `{"bad"}`, 2, 1 | `PlannedIsWithinLimits` | "All buffered blocks are guaranteed to be within workspace volume" (machine_limits.c:635). In E-stop since power-up, the alarm of a refused line only waits (`blocking_event`); a reset leaves the critical loop, E-stop pressed again discards the reset, and `mc_line` goes on. |
| | `{"hold", "jogCancel", "start"}`, `{"jog"}`, 3, 1 | `NoBareWake` | Hold, cancel and end of a jog are fetched together: the hold is Complete and still decelerating, `st_prep_buffer` ends that deceleration of nothing (stepper.c:1357), and the cycle start wakes steppers for which nothing was prepared (stepper.c:885, 576). |
| | `{"stop", "jogCancel", "door"}`, `{"move", "bad", "jog"}`, 3, 3 | `JogCancelDiscards` | A stop during the hold for a refused line leaves `soft_limit` set; door, cancel and end of a later jog fetched together then take it to IDLE with its blocks still planned. |
| | `{"stop", "probe", "hold", "start"}`, `{"move", "bad", "jog", "unlock"}`, 4, 5, rings of 1 | `RestIsStill` | A stop clears neither an alarm that waits for the end of motion (`alarm_pending`) nor, when it comes during the hold for a refused line, `soft_limit`. A hold much later completes into IDLE with that alarm raised, a jog starts before the alarm is seen and locks the machine with motors turning; unlocked, it is IDLE and moves. |
| | `{"reset"}`, `{"jog"}`, 1, 1 | `ResetKillsSteppers` | A reset between `state_set(STATE_JOG)` and `st_wake_up()` is followed by the wake-up (motion_control.c:193, 1158). |
| | `{"stop"}`, `{"move"}`, 1, 1 | `LeftUponAbort` | A stop leaves the main loop, too, and re-initializes (protocol.c:236). |
| | `FairSpec`, no inputs, `{"move", "sync"}`, 3 lines | `SyncEnds` | The cycle ends with a block planned while a synchronize waits; nobody starts it again (protocol.c:368-369). |
| `MCLineInput` | `Window = 4`, `Texts <- Jogs`, `Commands = {"hold"}`, `LegacyRt = FALSE` | `HoldsAct` | Whether a "!" is text is decided on arrival by the line that the main loop is at, which may be an earlier one (protocol.c:839-842, 998-1003). |
| | `Window = 6`, `MaxLines = 1`, `Texts <- Edited` | `LinesAreWhole` | A backspace in a line that is too long takes away a character that was kept, and the next one resets `overflow` (protocol.c:320-329). |
| | `Ring = 8`, `Window = 7`, `MaxLines = 6`, `Texts <- Jogs`, `Commands = {"cancel"}` | `NothingLost` | The CAN character of a cancel takes a place in the ring, and a line that is in hand is answered after the cancel (protocol.c:286): a sender that starts to count anew sends more than fits. |
| | `Ring = 8`, `Window = 6`, `MaxLines = 5`, `MaxCommands = 1`, `Texts <- Jogs`, `Commands = {"cancel"}` | `JogNeverOutlivesCancel` | A cancel between load and store of the tail with the ring nearly full, then two characters: the head is at the cell that the store makes the tail, the ring counts as empty and the CAN character is skipped (uart_serial.c:545-546, 608-610). |
| | `Ring = 4`, `Window = 4`, `MaxLines = 4`, `MaxCommands = 1`, `Commands = {"cancel"}` | `LinesAreWhole` | A line that has lost a character is executed. |
| `Storage` | `Others = {"startup"}`, `Fallible = {"startup"}`, `Backends = {"eeprom"}` | `NothingForgotten` | The flag of a start-up line is cleared before its write, which may fail (nvs_buffer.c:345). |
| | as the run | `DefaultsAreWrittenOut` | "copy default settings to RAM and write out to physical storage" (nvs_buffer.c:276-277). The result of that write is not looked at and the flags are cleared (278-289): if it fails, no later save writes the defaults and nothing is reported. `NothingForgotten` leaves out a copy that failed in this way (`failed = "silent"`). |
| `MCFileJob` | `Typeable = {"plain", "run"}`, `MaxChanges = 1`, `ConnectAt = {"suspended"}` | `InputRestored` | A client connects while the input is suspended: the suspension is for the old stream (stream.c:192). The same with `{"line"}`. |
| | `Programs <- Endless`, `Typeable = {"plain", "run", "rewind"}`, `MaxChanges = 0` | `RewindIsOpen`, `ImplementsJobService` | A file to be run again is closed at its end (fs_stream.c:361, 454, vfs.c:358; sdcard/README.md:22, 29): the second pass ends at once. The same when M2 is typed during a tool change of a file that has no program end. |
| | `MaxChanges = 0`, `InterruptedStart = TRUE` | `RealtimeReaches` | A character between the two stores of the handlers (fs_stream.c:583-602). |
| `MCGcode` | as the run | `JogKeepsState` | A jog after G81 overwrites the cycle's parameters (gcode.c:3760). |
| | as the run | `RejectedChangesNothing` | A block refused late has already set the cycle's parameters (gcode.c:1274). |
| | as the run | `ReportFollowsMove` | A reset or stop clears the ring of offsets and keeps the offset: reports are off by it (report.c:1437, gcode.c:307). |
| | as the run | `CancelKeepsPosition` | A stopped jog, and a stopped G28, which sets the home position (gcode.c:4561, 4346). |
| | `Blocks <- InverseEnd` | `FeedIsOwn` | M2 sets G94 and keeps the inverse-time F of its block (gcode.c:4631, 2327). |
| | `Blocks <- OffsetAndMove` | `WorkPositionIsAsked` | G92.2 with a move: the target is computed with the offset that the block takes away (gcode.c:3030). |

Noticed by reading and in no module:

* `M100` takes its P word in radians (the base motor's unit) while inspector.c:33 says that
  angles are degrees at the interface; and with the limits of the
  single axes switched on, `M100` would be checked in joint units against limits that
  are used as motor coordinates.
* G49 and G92.1 with a move behave as G92.2 does. M2 clears `canned_cycle_active` of the
  block and not of `gc_state` (gcode.c:4634). A drill cycle without depth stays at R.
  A warm reset keeps the tool offset and reports G49. More than four G92 while one move is
  queued overwrite the slot it refers to.
* Jog cancel and stop zero `char_counter` in the middle of a line that comes from a file; lines
  typed ahead of `$F` are flushed unanswered when the job ends; `terminate_job` can be queued
  twice; `hal.stream` is a structure that the network task rewrites without a lock.

## 6. What is proved

For every value of the constants, from the named `ASSUME`s of the modules and, where the
last column says so, a hypothesis on the constants.

| Module | Theorem | States | When |
|---|---|---|---|
| `OverrideQueue_proofs` | `TypeCorrect` | indices stay in the ring | |
| | `QueueIsFifo` | `ImplementsFifo` | producer and reader on one core (`~CrossCore`) |
| `RealtimeControl_proofs` | `TypeCorrect` | `TypeOK`: no interleaving overruns segment ring or planner | |
| | `PreparedBlockPlanned` | `PreparedBlockIsPlanned` | |
| | `Refinement` | `Spec => View!Spec`, with `ResumeDoor` as the one start that IDLE may report | |
| | `SuspensionsEnd` | `SuspendHasExit` | |
| | `StopsDiscard` | `StopDiscardsMotion` | |
| | `LimitsHold` | `PlannedIsWithinLimits` | no E-stop |
| | `CancelledJogsLeaveNothing` | `JogCancelDiscards` | no line that soft limits refuse |
| | `WakesOnSomething`, `RestsStill`, `CompletionsFresh`, `ResetsKnowMotion` | `NoBareWake`, `RestIsStill`, `CompletionIsFresh`, `ResetKnowsMotion` | inputs are resets, stops, holds, starts and limit switches, in any number and order (`Plain`) |
| `Positions_proofs` | `AcceptedIsReached` | accepted joints are within limits and forward kinematics leads back to the pose | |
| | `RejectedIsUnreached` | no joints within limits reach a rejected pose | |
| | `TypeCorrect`, `ParserAgrees`, `PlannerAgrees`, `RejectionsAreRight`, `BaseIsKept`, `LimitsAreKept` | `TypeOK` and the five properties of run `positions` | |
| `Storage_proofs` | `TypeCorrect` | `TypeOK` | |
| | `Remembered`, `Kept` | `NothingForgotten` (up to a failure that was reported or that of the copy at start-up), `ImplementsSettingsStore` | no record that can fail has its flag cleared first (`FailuresAreFlagged`) |
| `FileJob_proofs` | `TypeCorrect` | `TypeOK` | `Undisturbed`: clients connect outside a job or between its lines and leave outside; no character comes while a job is being set up; no `$F` in a file |
| | `RealtimeGetsThrough`, `InputIsGivenBack`, `ToolInputFresh` | `RealtimeReaches`, `InputRestored`, `ToolInputIsFresh` | `Undisturbed` |
| | `JobIsServed` | `ImplementsJobService` | `Undisturbed`, and `Straight`: no `$J` in a file, and files that are run again have a program end |
| `TaskPool_proofs` | `TypeCorrect` | `TypeOK` | no task is cancelled between the look at the due task and the lock (`~CancelRaces`) |
| | `PartitionKept`, `OrderKept` | `PoolPartition`, `DelayedInOrder` | `~CancelRaces` |
| | `AllAccounted` | `Accounted`: the lists hold what is owed, each request as often | `~CancelRaces` |
| | `ServiceImplemented` | `ImplementsTaskService` | `~CancelRaces` |
| `LineInput_proofs` | `TypeCorrect` | `TypeOK` | |
| | `CancelledJogsEnd` | `JogNeverOutlivesCancel` | between load and store of the tail in `serialRead`, the interrupt does not bring the head to the cell that is stored (`~Overtakes`) |
| | `WholeLines` | `LinesAreWhole` | `~Overtakes`, no character is lost, and `PlainTexts`: lines without control characters, edited ones no longer than the buffer, no `CMD_STOP`, "!" always a hold |
| | `CountedLines` | `NothingLost`, and with it `LinesAreWhole` and `JogNeverOutlivesCancel` | `Paced`: `PlainTexts`, a window smaller than the ring, lines that end in one character, resets and holds but no cancels |
| `GcodeParser_proofs` | `TypeCorrect` | `TypeOK` | |
| | `OffsetsAreKept` | `OffsetsAgree`, for any blocks | |
| | `FeedsAreKept` | `FeedIsOwn` | no F word in the block of M2 (`EndsWithoutFeed`) |

Each hypothesis marks a place where the code does not do it, and a row of section 5 shows the
behaviour: `MCOverrideCrossCore`; the E-stop row of `PlannedIsWithinLimits`; the stop and door
row of `JogCancelDiscards`; `NoBareWake` with jog cancel, `RestIsStill` with the probe,
and the door; the EEPROM row of `NothingForgotten`; `MCOwnerLeaves`, `MCDrainedChange`,
`MCNestedJob` and the rows of `MCFileJob`; `MCDelayedRace`; `MCWindowFull`, `MCStopMidLine`, `MCLineDouble` and
the rows of `MCLineInput`; the inverse-time row of `FeedIsOwn`.

**Override queue.** `RingOK` is `TypeOK` with what producer and reader hold between two of their steps
(`ProducerOK`, `ConsumerOK`): the reader's copy of the tail is the tail, and the slots between
tail and head are those written and not yet read. On one core the producer's steps come
between two of the reader's and never the other way round, so a flush never meets a half-done
enqueue; what is enqueued between the two stores of a flush goes with it. Enqueueing maps to the
store of the head, reading to that of the tail.

**Realtime control.** The inductive invariant is `TypeOK`, `MachineOK(m)` and
`JogIsReported`. `MachineOK` adds to the type that a locked machine has the handler
`noop` (otherwise a request left over from before the alarm could start a
cycle while it is raised) and that a block in preparation is planned (without it a step of the
stepper interrupt would take a block from an empty planner). `JogIsReported` says that
the mode is JOG at the step before `st_wake_up()`, which makes the wake-up a start of
the abstract machine. The module begins with one lemma per operator of `Machine`
for the type, and one for its *effect*: `Calm` (nothing starts; the mode stays or becomes
one of rest), `Starts` (a cycle starts, for blocks that are planned) or, for a resume from
the door, also the exception that `OperatorView` makes. The step lemmas of `RealtimeControl_proofs` put these
together action by action; the refinement is one of their conclusions.

The refinement holds because nothing wakes the steppers but `SetCycle` and `JogWake`. It
does not say that a locked machine stands still: motors that turn when an alarm is
raised may go on turning (the abstract `Lock`). So it also allows what `ResetKillsSteppers`
in section 5 refutes: `mc_reset` kills steppers that are then woken up in mode JOG.

The middle part of `RealtimeControl_proofs` is about where the main thread is. `Safe` adds to the
invariant `SuspensionsOK` (a suspended machine has a handler that ends the suspension, and a
mode that agrees with it), `StopsOK` (once a stop has been served nothing is planned, prepared or
moving until `sys.cancel` is cleared, because the line in hand returns first), `LimitsOK` (the
check point of a refused line is left with the alarm or the abort that make `mc_line` return)
and `JogsOK` (a cancelled jog is taken to IDLE only by a step that finds everything empty).

Its last part relates modes to motors, for inputs that are `Plain`. The invariant `Moves`
adds `HandlersOK` (which handler a mode has), `MotionOK` (motors turn only in CYCLE, JOG, a
hold that decelerates or an alarm; at rest nothing is prepared), `RequestsOK` (a completion that
waits to be fetched was raised by a motion that ended and none has started since), `ReleasedOK` (what
a resume releases is planned), `DoorOK` (a machine in state DOOR has an empty planner and
stays suspended, so that its resume finds no block to start a cycle for), `AbortOK` and `AlarmsOK` (alarms and aborts that are pending
end motion before the mode changes). Every operator of `Machine` falls into one of four classes
with a lemma each: it `Begins` a motion, `Slows` it, `Halts` it or `Stays` out of it; what an interrupt
does is `Apart` from what the main thread relies on.

**Kinematics.** `PlusIsNeverNeeded`: whenever the solution on the far side of the base fits the
rail, so does the one on the near side, because D cos q4 is at least -9 mm within the
wrist's range of 100 degrees and the near side is then at most 149 mm along a rail of
180 mm. The second branch of the inverse kinematics is dead code, and the two theorems follow from
the first branch alone. The assumption is `WristAssumption`.

**Positions.** The inductive invariant adds to `TypeOK`, `ParserFollowsPlanner` and
`PlannerIsLastTarget` that all motor coordinates come from joints (`Placed`: the belt's sums
and differences are even, so `Unmix` is exact), and that a line in `mc_line()` leads where
its target is (`Aimed`): otherwise planning it would tear parser and planner apart.
`LimitsAreKept` needs the same of the line that is about to be planned (`LInv`), and that limits are
intervals (`StopsInLimits`).

**Storage.** The hypothesis is `FailuresAreFlagged`: a record that may fail to be written is
none of those whose flag is cleared before the write. (The EEPROM path has such records;
section 5 shows what then happens, so the hypothesis is needed.) The inductive
invariant is `TypeOK`, `HeldIsOwn` (what the program holds is of its own version
and complete), `Agreement` (where chip and RAM are equal: after a read, and for the
records of a save already written), `Flagged` (what differs is flagged, also during a save) and
`Findable` (what is on the chip, and what a save is about to put there, `SettingsStore` allows). The step
lemmas group the steps by what they do to the records, so that the refinement has
a handful of cases: a write, a restore, a step of a save, a step of a start-up.

**G-code parser.** `OffsetsAgree` relates `gc_state` to the store after every interruption,
and to planned moves through the ring of offsets. Inductive it becomes with `SystemAgrees` and
`G92Agrees` (the two halves of the mirror), `BlockFits` (a block in step 4 was accepted by
step 3), and for the ring `SlotFits` (the slot that a block's moves are going to refer to) and
`Aging` (the ring has moved on at most as often as an offset was set), so that a slot is found
unchanged as long as fewer than `Slots` offsets were set after its move. `FeedsAreKept` has an invariant of
its own: the rate in `gc_state` is none or of the mode in force, and a block that waits holds a rate
of the mode it was accepted in.

**Files.** The inductive invariant describes `io` by the phase of a job (`InputOK`): `Free`, the
core has it, `Taking`, between the two halves of `stream_file()`, and `Taken`, where what the job
saved is what the core had before (`Found`). `LinesOK`, `ConnectionsOK` and `SuspensionOK` say
where the main loop can be: a job that has lost the input to a new connection is about to be
ended and executes no line of the file, exactly one `terminate_job` is queued for it, and the core suspends the input in a
tool change outside jobs only. `FreshOK` says that a job drops what is typed (`Drops`) unless it is
in a tool change, and then the input holds nothing from before (`Changes`). The lemmas
are about the operators on `io` (`EndJobEnds`, `CoreSuspends`, `JobResumes`, `CompletedOK`, ...): each
takes a `Free` input to a `Free` one, a `Taken` one to a `Taken` or an ended one, so that the step
lemmas only put them in order.

`JobIsServed` adds `PlaceOK`, where the job is in its file: the line in hand is the one
read last, the position has not passed a program end, a file that is closed was read to its end
(or the machine is in an alarm, where only a reset helps), and what is to be run again has a
program end. The mode of `JobService` is read off the line in hand (`Mode`): a line that waits in
`pc = "exec"` while its job is ended is `final`, it is still executed, and a job that an
order has been given to end, or whose input has gone to another connection, is `ending`. There is one lemma per action; most steps are unseen, and `Breaks`, `Resumes` and
`Finishes` cover what is common to the rest. `Straight` excludes what `MCJogInFile` and the
`RewindIsOpen` row of section 5 show; the run `file_job` satisfies both hypotheses.

**Task pool.** A list of C is a walk along `next` from a head, and an invariant about walks does
not say what a step that cuts or joins lists does to them. The inductive invariant therefore
gives every node an owner and a place: `Owners` says that there are `own` and `rank` such
that a node is free or owned by one *handle* (the head of one of the five lists, or the list
that the activation at some depth has detached and is running), that the first node of
a handle has place 0 and every other exactly one predecessor of the same owner one place before. Then no
node is on two lists, a list has no cycle, and `WalkIs` gives `Chain`, and with it
`PoolPartition`. `IInv` asks of these existentially bound functions also that

* delayed nodes are due within half a period of the clock, in the order of their
  places (`InTime`), which is what makes comparisons modulo `Period` transitive: this is
  where `PoolAssumption` on the delays is used, and `DelayedInOrder` follows;
* what an activation has read and not yet used is what the list it runs still says (the next
  systick node, the due task that was looked at): here a cancellation between look and lock would
  break it, and `MCDelayedRace` is that behaviour, so `~CancelRaces` is needed;
* at most one activation is in a start-up or reset list, which stays in place while it is run
  (`RootsOK`, `FramesOK`), and the tick that a poll works for is at most one old (`Fresh`), so that
  a systick task that lasts does not make delayed tasks early;
* `owed` counts, for every request, the nodes that hold it, those of detached lists
  included (`Owing`).

Each operator on lists (`Alloc`, `Fill`, `Link`, `Add`, `Delete`, `Drop`, ...) has a lemma that says who
owns what afterwards; the step lemmas, one per action, only choose the new handles. The refinement
maps `running` to the functions of the activations (`Functions`), and each step lemma
concludes with the step of `TaskService` it is: an `Accept`, a `Cancel`, a `Restart`, a
`Start`, a `Return`, a `GiveUp`, a `Tick`, or nothing.

Walks, `Drop` and `Functions` are recursive functions, and what they compute is proved by
induction. The induction theorems of the library take an operator as a parameter and
cannot be used; but well-founded induction over the natural numbers has a form about
*sets* (`WFMin`), so that `Least` and `Induct`, stated for a subset of `Nat`, are consequences. The
set is that of the indices up to which the claim holds.

**Line input.** All of it rests on how far a cell of the ring is ahead of another (`Dist`) and on
what is unread as the main loop sees it: from the cell after the one it has loaded when the tail
is still to be stored (`From`, `Unread`). Of an interrupt between load and store it matters only
whether it brings the head to that very cell (`Overtakes`): the store then makes the ring an
empty one, with all that was in it and the CAN character unread. Without a cancel the ring is full
before; with one, the characters that the cancel discards, its CAN and what arrives until the store must
fill the ring. So the hypothesis holds of a sender that leaves as much room in the 1024
cells as arrives within the two statements, and section 5 shows one that does not.

`CancelledJogsEnd` has an invariant (`JInv`) about the mark: each "$" of a line before the last
cancel that is unread has a CAN character unread behind it, each one in hand, assembled or executed
has one that is unread, in hand or served, until a stop or a reset has been noticed that ends the
jog as well.

`WholeLines` describes the stream. There are a sequence `s`, the places (line, position, text)
of all characters the sender has begun since the last cancel, and a number `k` of them that the
main loop has read, such that the rest of the line being sent are its last places (`StreamOK`), the
unread cells of the ring the places before those, back to `k + 1`, with older lines further back only as
long as nothing of the stream has been read (`RingOK`), these older ones
are ended by a CAN character or there is nothing of them (`MarkOK`), and what has been assembled is
what the text of place `k` comes to up to that position, backspaces applied, or is marked as too long
(`AsmOK`). `Edit`, which says what a text comes to, is a recursive function, and its
values are bounded and related by the same induction over sets as in `TaskPool_proofs`.

`CountedLines` replaces the hypotheses on the behaviour by the sender's count. The
lines not answered are those from the one in hand on, each with its length (`Owed`); so the sum of
the lengths (`Lengths`, with the lemmas `SumAppend` and `SumTail`) is the number of places of `s` after the
last finished line, the ring holds no more than those, and a window smaller than the ring
leaves a cell free (`Room`), also while a loaded character still occupies its own: the
interrupt cannot come round. Cancels are excluded because they break the count (the last rows
of `MCLineInput` in section 5), and a pair CR LF because its second half is read after the answer to its line.

Left to TLC: all liveness properties (`control_live`, `StartupCompletes`, `LinesAnswered`,
`ChangesAreSaved`, `JobEnds`) and everything about `ENABLED`, which are out of the prover's reach;
`WorkPositionIsAsked`, which would need a hypothesis about which words stand together in a
block. For `NothingLost` with cancels, TLC's run is all there is: a bound on how many
cancels may come is part of why it holds.

## 7. Mutants

Every property of a passing run has a mutant: an operator in the module, named after
the definition it changes, with one plausible mistake (a forgotten reset, a missing guard, a swapped
branch). `PROJECT.json` pairs them; with the mutant in place the run must find the
property violated. Mutants are used by nothing else.

## 8. Not modelled, and why

* **Settings that are off by default**: parking (config.h:1805), sleep (828), homing
  (1510), check mode, probing cycles, motor fault, the MPG stream,
  `feed_hold_disable`. Delays for spindle and coolant are zero. Soft limits, off by default
  (1034), are on in `RealtimeControl`, where their waits matter, and off in `Positions`.
* **Code that is not built**: Modbus, expressions and flow control, the other kinematics, CAN.
* **Composition**: the modules meet in requests. A line in `RealtimeControl` comes from
  nowhere, in `LineInput` it ends in `Execute`; a stop is a request in both. The product of
  the two is out of TLC's reach.
* **`LineInput`**: the hardware FIFO ahead of the ring, comments and `$` commands other than
  jogs, output. A backspace (`CharErase`) is one step, while its load and store of `char_counter`
  (protocol.c:322-323) could be interrupted like those of a character.
* **`TaskPool`**: the start-up list that waits for a USB line state (`linestate_event`, grbllib.c:885).
* **`FileJob`**: check mode, the scan for M98, reconnection of the web interface, line numbers, and the
  `$F` commands that list, delete and format.
* **`GcodeParser`**: all axes but one, planes, units, spindle, coolant, the tool table, probing,
  arcs and splines, threading, scaling, rotation, macros and check mode. A reset inside a block ends
  it at once, where the code runs through its rest without moving before `gc_init()`.
* **`Storage`**: what a setting means, its validation and text; all global settings but one.
* **Arithmetic of motion**: speeds, ramps, junctions, step pulses and AMASS. A
  profile is normal or decelerating, and it ends.
* **Floats**: rounding, `LINK_LIMIT_EPS` and the sign of zero. Directions +pi and -pi are
  distinct in the model, as `atan2f` tells them apart by the sign of y.
* **The B word**, which the kinematics reports and never reads.
* **Plug-ins, networking, file systems, drivers**: vendored or hardware; their effect on
  the core (a realtime character on the other core, a switch level) is an input.
