# A verification project for the PSA VAN-CAN bridge

The firmware connects the VAN bus of an older car with the CAN bus of newer
equipment. Frames of the source bus are parsed into one shared `CarState`;
periodic frames of the destination bus are generated from it, and sent by a
scheduler; feedback, popups and diagnostics run in between. On the ESP32-C6 the
VAN bus is served by the low-power (LP) core, bit by bit, without interrupts and
without locks shared with the high-performance (HP) core.

The models are written from the source, line ranges are in `PROJECT.json`
("map"). TLC checks small instances. TLAPS proves every invariant and every action
property the runs check, and every refinement of an abstract specification, for all
values of the constants; two of them under a hypothesis that TLC shows to be needed.
What TLC alone checks is the liveness.

## The system and its hard parts

| part | state it keeps | operations | talks to |
|---|---|---|---|
| LP core bus engine (`components/lp_core_van/ulp/main.c`) | TX latch, run of recessive slices, capture, retries, results | `monitor_once`, `receive_frame`, `track_response`, `transmit_prepared`, `commit_capture` | HP core through shared memory; the bus |
| HP/LP driver (`LpCoreVanTx.cpp`) | private configuration, `vanApiLock` | `TrySendFrame`, four `Set...`, `ReceiveFrame`, `Start` | LP core; called by the transport task and the reader task |
| frame coding (`VanFrameBuilder.hpp`, decoder, codec) | none | `Build`, `Stuff`, `SetAck`, `SetReply`, `Decode`, CRC | driver |
| VAN transport (`VANTransportLayer.cpp`) | FreeRTOS queue of 15 messages, pending reports | `SendMessage`, `TxTask`, `ReceiveMessage` | scheduler above, driver below |
| message scheduler (`MessageScheduler.hpp`, tuple templates) | map of scheduled messages, mutex | `ShouldGenerateMessage`, `AddOrUpdateMessage`, `Update`, `SendImmedateMessage` | handlers, transport |
| bridge runtime (`BridgeRuntime.cpp`) | `CurrenTime`, routing | `Process...Once`, immediate signals | everything above, from four tasks |
| protocol handlers (AEE2001, 2004, 2010) | mostly none | conversion of payloads | `CarState` |
| popup handler (`CanDisplayPopupHandler3.hpp`) | current popup, what was shown, timers | `QueueNewMessage`, `Process`, `ResetSeatBeltWarning`, `SetIgnition` | reader and output task, no lock; `CarState.DisplayMessage` |
| ISO-TP (`IsoTpFrame.cpp`) and diagnostics (`PsaDiagLib.cpp`) | one message in each direction, timers | `Send`, `Receive`, `Process`, `SetIds` | reader of the destination and web server's task; CAN transport, web socket |
| fuel refill tracker (`FuelRefillTracker.cpp`) | samples, checkpoint, history on flash | `Process`, `SaveCheckpoint`, `AppendRefill` | file system |
| radio remote (`RadioRemoteVolumeControl.hpp`, `MessageHandler_9C4.hpp`) | wheel as read and as forwarded, two windows | `Process`, `Parse` of 9C4 with its immediate 21F | `CarState.RadioRemote`, scheduler |
| trip reset, CRC store | windows, previous values | `Process` | handlers |
| web socket bridge, web server | one client, two buffers | connect, disconnect, read, write | HTTP server task |

All tasks share one HP core: the transport task (priority 10), the reader of the
source (5), the output tasks (4 and 2) and the reader of the destination (1).
They preempt each other anywhere; the LP core runs in parallel to all of them.

What is hard here, and what correct means:

* Three lock-free protocols in shared memory. A *receive ring* must deliver whole
  frames in order and never make the LP core wait. A *pair of configuration
  banks* must give every bus transaction one configuration. An *outbox* must
  send each submitted frame as a whole, complete it exactly once, and report its
  own result.
* A bus engine with hard deadlines that changes from receiver to transmitter and
  back inside a frame. It must never pull the bus down where it has no right to,
  and must report what was on the bus.
* A transmit task that checks, reports and submits in separate steps, retries,
  and drops. It must not lose its own check, mix up results, reorder or stall.
* A scheduler whose every operation can be skipped for want of its mutex. Slots
  must not drift, burst or run away; sent contents must be fresh.
* A fuel tracker that records a refill with two saves, either of which can fail or
  be cut off: it must neither lose a refill nor record it twice.
* An ISO-TP endpoint whose buffers and states two tasks change without a lock,
  whose frames the driver refuses, and whose client reconnects in the middle of a
  transfer. It must hand over and send whole messages only, and come to an end.
* A popup handler that two tasks call without a lock, each of them hiding what the
  other shows. No popup may stay on the display unnoticed; an open door is shown in
  the end.
* A wheel whose position wraps at both ends, whose turns are partly taken out of
  what is forwarded, and that two tasks send. The radio must count the right turns.

The list of hazards with their lines and the properties aimed at them is in
`PROJECT.json`.

## Modules

Abstract specifications, what a component promises:

* `DropNewestFifo`: a bounded queue that drops the newest element when full.
* `AtomicConfig`: a configuration replaced atomically; the reader adopts it
  between transactions.
* `AtomicOutbox`: a mailbox for one frame: submit, attempt, finish.
* `LossyQueue`: a bounded queue that may lose its head, never reorders.

Detailed modules:

* `VanApiLock`: the critical section of the HP tasks, which the configuration banks
  and the outbox share.
* `VanLpRxQueue` refines `DropNewestFifo`. The LP core's `commit_capture` and the
  HP core's `ReceiveFrame`, one shared-memory access per step: the fields of an
  entry are stored and copied one after the other, and the index is published
  last. The two free-running 32-bit indices are counters modulo `IndexModulus`;
  as in the code the modulus is a multiple of the queue length.
* `VanLpConfigBanks` refines `AtomicConfig`. The four `Set...` functions share
  one shape: wait (at most 50 ms) for the acknowledgement, take the lock, check
  again, change the private copy, copy it word by word into the bank that is not
  published, publish. The LP core loads the generation, adopts, acknowledges, and
  reads words of its bank during a transaction, all of them separate steps.
* `VanLpOutbox` refines `AtomicOutbox`. `TrySendFrame` stores field by field and
  hands over with `VAN_START_TX`; the LP core reads fields while transmitting,
  then stores result, trace and details, decides about a retry, clears
  `VAN_START_TX` and sets `VAN_TX_FINISHED`, one store per step.
* `VanLpBus`. The bus engine slice by slice. In each slice the environment drives
  0 or 1 freely, the bus is the wired AND. Frames are shortened but keep each
  decision point of the code: SOF check, candidate matching, takeover at RTR,
  loss of RTR and handover, arbitration, inverse states, EOD and its parity,
  the scan limit, ACK driving and ACK observation. A missed deadline is an abort
  that is possible in every slice of a transaction.
* `VanTransport` composes `AtomicOutbox` and `AtomicConfig` (not their details)
  with the transmit queue and `TxTask`; it refines `LossyQueue`.
* `MessageScheduler`. Rounds of the output task (`ProcessDestinationOutputOnce`:
  clock, generation of all handlers, `Update`) interleaved with a reader task
  that parses frames and raises immediate signals. A mutex that is held makes an
  operation skip, which stands for the 10 ms limit; the holder may block in the
  CAN driver for as long. Payloads are the version of `CarState` they were made
  from.
* `FuelRefillTracker`. `Process` with its window of samples, `ProcessStartup` and
  `ProcessIgnitionOff`, and the file. A save replaces the file or leaves it (it is
  a temporary file that is renamed), and fails whenever the clock or the flash
  does not work. The two saves of a refill are two steps: the power, the clock or
  a DELETE request can come between them. `AddSample` reads the ignition again
  after `Process` did, so a key turned in between decides which window the sample
  joins; only so can a window fill up with the ignition off. Calls between two
  sampling times are stutters; timestamps only make saves fail. That `FuelLevel`
  does not become invalid between its two reads is an assumption.
* `IsoTpFrame`. The reader task (`ProcessDestinationOnce`: `Receive`, then
  `Process`) against the web server's task, which preempts it (`Send`, `SetIds`,
  connect, disconnect), over a bus to an ECU that keeps to the protocol. A
  message is a sequence of chunks, one per frame, so that a chunk that is lost,
  repeated, or of another message is seen. `Process` is cut at every point where
  it sends or delays. The driver may refuse any frame; received frames may be
  lost. Timeouts are flags that become true at any time after their start.
  The receive buffer has room for `RxCapacity` chunks. `rcv_ff` and `rcv_cf` do not
  compare the announced length with `MAX_MSGBUF` (128 bytes, `IsoTpFrame.hpp` line 43):
  6 bytes of the first frame and 7 of each of 17 others fit, so the constant is 18 for
  the code. The chunk after that is stored behind the end (`overrun`), and what is
  read there later may be foreign. Lengths of 126 to 128 bytes end in a part of a
  chunk that would still fit; the model counts them as too long. What the write does
  to other objects on the heap is not modelled, so the properties speak of the time
  before the first one.
  Keep-alives are off (`_PSADIAGLIB_DISABLE_KEEP_ALIVES`). `Process` only runs when
  a frame of the bus comes in during a session, and is modelled so.
* `CanDisplayPopupHandler`. Both tasks are on one core and the reader has the
  higher priority, so its calls are atomic except where hiding a popup blocks for
  the scheduler's mutex; `Process` is preempted at every access. The messages that
  call it (524, 564, 8A4) are reduced to these calls, in any order. The immediate
  signal that 8A4 raises between its write of `Ignition` and `SetIgnition` is part
  of one step. The category is a function of the type, and `DoorStatus2` is left
  out. That `Process` runs at least once within the 6 s of a popup is assumed:
  otherwise `currentTime - popupAddedToShow` underflows.
* `RadioRemoteVolumeControl`. 9C4 to 21F: `Process` with both windows, the
  immediate messages of a pulse (pressed, then released), and the periodic 21F of
  the output task, with the scheduler reduced to one entry and its mutex. The
  radio at the other end is external and counts steps as the bridge counts those
  of the wheel. The output task runs only while the reader is idle or blocked,
  since both are on one core. The options `EMULATE_STEERING_WHEEL_CONTROLS_WITH_STALK`
  and `REPLACE_REMOTE_MODE_BTN_WITH_SRC` are off.
* `*Proofs` hold the theorems of the module whose name they start with,
  `VanLpDriverProofs` those of the three protocols between the cores. `MC*` hold the
  constants of TLC's instances.
* The ring and the banks prefix what the other protocols also have: `RingSpec`,
  `BanksSpec`.

Operators named `..._Something` next to a definition, commented "As if ...", are
plausible bugs of that definition; each property is shown to notice one.

## Runs

| run | what it shows | bounds, and why they are enough |
|---|---|---|
| `rx_queue` | `RingInv`, `NoStoreUnderReader`, refinement of the queue; `CommitNeverBlocks`, `EveryFrameDelivered` | three slots, indices modulo 6, so that each slot is reused and the indices wrap in a non-empty ring; two captures and a malformed one |
| `config_banks` | `BankInv`, `OneConfigPerTransaction`, refinement of the register; `EveryUpdateApplied`, `EverySetReturns` | two tasks, so that the check outside the lock goes stale; two words, so that a bank can be half written; generations modulo 4, so that they wrap |
| `outbox` | `OutboxInv`, `OneFramePerTransmission`, `NoStoreWhileSending`, refinement of the mailbox; `EverySubmissionFinishes` | two tasks, three fields (first, middle, last), two attempts so that the retry path runs; the code sets one |
| `bus` | `BusInv` (types, `CommittedWholeFrames`, `CommittedAsOnBus`), `DominantOnlyWhenEntitled`, `OutboxReleasedByOwnFrameOnly` | two-state identifiers, of which one differs in the first and one in the last state; a query, a frame that wants an ACK, ACK slots, duplicate reply slots; up to six groups, so that EOD comes too early, at a wrong parity, in time and never |
| `transport` | `TransportInv` (`SubmitNeverRefused`, `ReportsOwnResult`), refinement of the lossy queue, `QueueKeepsMoving` | two messages in the queue and one in hand, one retry |
| `transport_waits` | a violation: the task drops frames where the document says it waits | as `transport` |
| `scheduler` | `ScheduleInv` (`NoPhaseDrift`, `NextSlotInReach`), `OneSendPerSlot`, `FreshWithinRound` | periods 2 and 3 with an offset, time up to 5: slots coincide, are missed and are skipped; one change of state, so that fresh and stale differ |
| `fuel_refill` | `TrackerInv` (`FileHoldsState`, `HistoryEndsAtCheckpoint`), `NoRefillTwice`, `SettledOnMeasuredLevel`, `NoRiseWithoutRefill`, `EveryStartupSettles` | three levels: inside the stable spread, a decrease apart, a refill apart from one and not from the other; odometers at and beyond the distance of a duplicate; windows of three samples, so that the median is not an end; histories of two records, so that they overflow |
| `isotp` | `IsoTpInv`, `RxWhole`, `EcuWhole`, `AnswerIsHandedOver`, `BlocksAgree`, `TransferEnds` | a request of five frames in blocks of two with sequence numbers modulo 2, so that they wrap in a transfer; one of a single frame that overtakes it; a receive buffer for three frames, answers of one and three frames that fit it and one of four that does not; two frames underway each way; two sessions, one `SetIds` at any moment; `MAX_FCWAIT_FRAME` 2, so that waits run out |
| `isotp_block` | a violation: the wait for the flow control of a block has no timeout | a request of six frames in blocks of three, which do not divide the modulus 4, as most sizes do not divide 16; every answer fits the buffer |
| `popup` | `PopupInv`, `DisplayShowsCurrent`, `DisplaySettles` | two sets of open doors; a popup that stays current and one that is shown once; two requests, so that one replaces the other while `Process` shows it |
| `remote` | `RadioInv` (`RadioFollowsWheel`, `PulseArrives`), `VolumeEnds` | a wheel of four positions that goes on at the third one: two steps up or three down pass the same end again (128 and 129 with the real ends); three frames with turns of -1, 0, 1 and every button: enough to pass an end, come back, pass it again, and do so inside and outside a window |

Deadlock is checked in all runs but those of ISO-TP, where the requests, the
connections and the identifier commands are used up. The bounds
`MaxTime`, `MaxVersion`, `MaxQueued` and `MaxFrames` only stop the clock, the changes
of state, the requests and the frames; the tasks go on.

What the properties except, and why:

* `RxWhole`: a first frame of a later message was lost while the client had not
  waited for the earlier answer, or the session changed. The timeout between
  consecutive frames only applies from the second one on, so the code cannot tell.
* `RxWhole`, `EcuWhole`, `AnswerIsHandedOver`, `BlocksAgree` and `TransferEnds`: `rcv_cf`
  has written behind its buffer (`overrun`). `IsoTpInv` says that only an answer that
  is too long for the buffer brings this about.
* `EcuWhole` and `AnswerIsHandedOver`: `SetIds` came in the middle of `Receive` or
  `Process`; a length taken below zero then sends what is behind the buffer.
* `DisplayShowsCurrent`: the reader changed the messages after `Process` had
  decided (`raced`). A door popup can then stay after the door was closed, or a
  seat belt popup after its reset, until the next change. `DisplaySettles` makes no
  such exception.
* `RadioFollowsWheel`: an end of the wheel was passed while the output task had
  generated a part of 21F or all of it (`raced`): the flag of the end and the
  position are read one after the other. Or it was passed before the radio had seen
  an end passed the time before, or may have been passed twice between two frames
  (`outrun`): the flags then read as if nothing had happened, and no receiver can
  tell. With the real ends it takes 128 steps without a frame that reaches the radio.
  Both are about one pass, not about the number of turns. A pulse may be lost only when the mutex
  was refused.

## Fairness

* LP core: it loops for ever with interrupts off, so its own steps are weakly
  fair. A transmission needs an idle bus, which depends on the other nodes: that
  step is strongly fair, which says that the bus is not jammed for ever. The end of
  a transaction is weakly fair, because every wait has a deadline.
* `CommitNeverBlocks` needs the fairness of the LP core only and
  `QueueKeepsMoving` that of the transmit task only; the other core may stop at
  any point. `EveryFrameDelivered` names the other side's fairness as its
  hypothesis.
* A task inside a critical section runs to its end (interrupts are masked on
  the only HP core). Entering is strongly fair for the same reason: a task that
  is scheduled at all finds the lock free.
* The transmit task has the highest priority among the application's tasks.
* `IsoTpFrame`: the reader task goes on as long as frames of any kind keep coming on
  the bus, which a car's bus does; the ECU takes what arrives; time passes. Strong
  fairness of an accepted frame says that the driver does not refuse for ever.
* `CanDisplayPopupHandler`: both tasks go on, and so does time. The messages 8A4 and
  564 are repeated by the car whether anything has changed or not, which is what
  ends a race that went wrong.
* `RadioRemoteVolumeControl`: both tasks go on, and 21F is due again and again
  (strongly fair, since rounds in which it is not due lie between).
* The task that calls the fuel tracker goes on (weakly fair). Its second save is
  strongly fair: power cuts do not hit the gap between the same two saves each
  time. `EveryStartupSettles` names its other conditions, a clock and a flash that
  work in the end and a level that keeps becoming stable, as hypotheses.

## Proofs

TLAPS proves, for every queue length, index width, number of tasks, words, fields,
frames and settings that satisfy the modules' assumptions:

* `VanLpDriverProofs`, the three protocols between the cores:
  * Ring: `RingCorrect`, `ReaderUndisturbed`, `RingImplementsFifo`.
    `RingInv` is the inductive invariant. That the indices never get too far apart
    is not inductive alone: it needs that the LP core's view of `readIndex` can only
    be too old (`FillingInv`), and that the reader holds its entry until it
    releases it (`CopyingInv`). The arithmetic of wrapping indices is in lemmas;
    they use that the index modulus is a multiple of the queue length.
  * Banks: `BanksCorrect`, `OneConfigPerTransactionHolds`,
    `BanksImplementAtomicConfig`. `BankInv` says who may write, how far the LP core
    is behind (`PointerInv`: at most one generation), and that the banks the LP
    core may read are whole (`WholeInv`); a writer copies only when the LP core is
    not behind, so its target is not the LP core's bank. Parity of generations
    needs an even modulus.
  * Outbox: `OutboxCorrect`, `OneFrameOnTheBus`, `SendingUndisturbed`,
    `OutboxImplementsMailbox`. `OutboxInv` splits ownership between the lock, the
    two flags and the LP core's program counter; fields and completion words follow
    from it.
* `VanLpBusProofs`: `BusCorrect`, `DominantOnlyWhenEntitledHolds`,
  `OutboxReleasedByOwnFrameOnlyHolds`, for every length of the identifiers and of the
  data and whatever the environment drives. `BusIInv` has one conjunct per phase
  that says what may be concluded from the states seen so far: a transmitter has
  seen its own frame (`TransmitInv`); a requester that lost RTR has seen its query
  up to there (`Requested`); a follower has seen groups without violation
  (`Tracked`) and, when it is going to acknowledge, a prefix that asks it to
  (`AckDue`). The lemmas before it are about prepared frames: their length, and that
  a query and its reply differ in RTR and its inverse only. The first of several
  reply slots exists because every finite set of integers has a least element.
* `VanTransportProofs`: `TransportCorrect`, `TransportImplementsLossyQueue`.
  `TransportIInv` adds to `TransportInv` that a message is in hand exactly in the
  places between taking and dispatching it (`InHand`), and that the result to be
  reported is that of the last frame in the outbox (`ReportIsOfLast`); the latter is
  why it is reported before the next submission.
* `MessageSchedulerProofs`: `ScheduleHolds`, `OneSendPerSlotHolds`,
  `FreshWithinRoundHolds`, for all periods and offsets. Slots are multiples of a
  period beyond the first one; the lemmas on products and remainders come first.
  `FreshInv` says that each handler already visited in this round has left an entry
  as new as the round, or is marked stale.
* `FuelRefillTrackerProofs`: `TrackerCorrect`, `NoRefillTwiceHolds`,
  `NoRiseWithoutRefillHolds`, `SettledOnMeasuredLevelHolds`, for every set of levels,
  window and history. Both the state in memory and the file are `Sound`; between
  the two saves of a refill the record, the window and the level to be saved still
  agree (`PendingInv`), which is what makes the repeated startup find a duplicate.
  That a window has a median is proved from the well-foundedness of finite subsets.
* `CanDisplayPopupHandlerProofs`: `PopupNeverUnnoticed`, `PopupShowsCurrent`.
  `Noticed` says for each place of `Process` which of the flags and the display are
  already written. `Faithful` adds that a run that was not disturbed shows what it
  chose, that what it chose stays current until it ends, and that a popup of the doors
  is known as one afterwards, since otherwise a new status would not hide it.
* `IsoTpFrameProofs`: `TypesHold`, `ReceivedIsWhole`, `FittingAnswersAreWhole`,
  `EcuReceivesWhole`, `CompleteAnswerIsHandedOver`, `BlocksOfOneSizeAgree`, for every
  capacity of the receive buffer. What a reception has and what it still waits for add
  up to the length announced (`OverrunInv`), so a write behind the buffer needs an
  answer longer than it: `TypesHold` has this as a conjunct of `IsoTpInv`, and with an
  ECU whose answers all fit, `FittingAnswersAreWhole` has `RxWhole` without the proviso.
  Of a message that is broken off or overrun nothing is claimed (`Spoilt`). Frames may be lost and
  sequence numbers wrap, so a hole of exactly one round of sequence numbers would go
  unnoticed; what excludes it is that each frame underway continues the one before
  it (`Chained`), so that a hole shows in the last chunk of the buffer, whose number then
  exceeds the buffer's length (`Assembled`): a complete message has no room for it. For
  the requests, the last frame underway is the last one the driver accepted. For the
  answers, a request leaves the bridge completely only when its transfer is over
  (`Done`), and the ECU answers no other. `BlocksOfOneSizeAgree` has the hypothesis that
  the ECU keeps to one block size: with sizes 2 and 4 and two requests of 2 and 8 frames TLC shows `BlocksAgree`
  violated, because the bridge takes a late flow control frame of the request it had
  given up for one of the new request. That the size divides the sequence modulus is
  not a hypothesis but in the property.
* `RadioRemoteVolumeControlProofs`: `PulseAlwaysArrives`, `RadioFollows`, for every
  size of the wheel and any number of frames and turns. `PulseUnderway` says where a
  volume command is that the radio has not seen yet. `BridgeFollows` says that the
  bridge knows where the wheel is, `FramesFollow` that the position still to be sent
  differs from what the radio has by the turns it has not counted, with at most one
  end between the two, and that each message underway has the flags of one of them.
  The way between two positions is what the flags make of it as long as a turn passes
  an end at most once (`DeltaOfAdvance`), and such ways add up (`DeltasAdd`). Neither
  needs a bound on the turns; the two exceptions of the property, `raced` and `outrun`,
  are what breaks the induction. An earlier frame that overtakes a later one changes
  nothing as long as no end lies between them.

Two facts need induction over numbers although the provers offer no rule for it: that
a window of samples has a median, and what the recursive function `Advance` computes
for a number of steps. Both are proved by taking the least counterexample, which the
well-foundedness of finite subsets provides (`FirstElement`).

The assumptions are the `ASSUME` of each module, which TLC evaluates on the instances.
Those of `IsoTpFrame` say that requests and answers are different messages, that an
answer belongs to one request, that a message has at least one frame and a length that
fits its field, and that there are at least two sequence numbers: the proofs need them
and the protocol has them.

Liveness is model-checked only, since the prover has no rules for fairness and
ENABLED here: `CommitNeverBlocks`, `EveryFrameDelivered`, `EveryUpdateApplied`,
`EverySetReturns`, `EverySubmissionFinishes`, `QueueKeepsMoving`, `EveryStartupSettles`,
`TransferEnds`, `DisplaySettles`, `VolumeEnds`. So are the two findings.

## Findings

`transport_waits`: `docs/VAN-LP-CORE-ARCHITECTURE.md` lines 96-97 say that the
TX task waits until the sender accepts another frame; `TxTask`
(`VANTransportLayer.cpp` lines 237-250) drops the message after five tries of
2 ms, or at once when other tasks filled the queue during the delay.

`isotp_block`: `IsoTpFrame.hpp` line 39 names a timeout "between FF and FC or Block CF
and FC". `Process` (`IsoTpFrame.cpp` line 478) does nothing while it waits for the flow
control of a block. Such a wait comes up without a lost frame: blocks are counted by
`seq_id % blocksize` (line 502) where the sequence number wraps at 16, so with a block
size that does not divide 16 the bridge stops where the ECU has no reason to answer.
Only a new `SetIds` ends it; `BlocksAgree` shows that the other sizes are not affected.

## Not modelled, and why

* The diagnostic traces of the LP core and the log texts of the transport:
  no state depends on them. The second sample of a normal transmission late in a
  slice is a second look at the same level here.
* `VanLpBus` takes the levels of a slice as settled: the phase correction of
  `sample_inverse` is below its resolution and is represented by the abort.
* `periodicityMs = 0` in the scheduler (no handler uses it) and torn reads of
  the 64-bit clock (uptimes below 2^32 ms).
* `PsaDiagLib`: its text commands and what it prints. `Receive` prints a whole message,
  truncated at 1024 characters, and prints it again with each later frame of the ECU that
  leaves the state at FINISHED (`IsoTpFrame.cpp` line 393). Printing changes no state, so
  the model has none of it, and no property says that an answer is printed once.
  The reader of the VIN (identifier 760) is an `IsoTpFrame` of its own;
  of it the model has that it takes frames outside a session (`Divert`). The unlock
  sequence does not fire with the framing of these messages.
* `WebSocketSerial`: its eight transmit buffers and asynchronous sends. What happens
  to them when the client changes is decided by the web server of ESP-IDF, which is
  not part of the repository.
* `TripComputerResetHelper`, the parking aid: small timers, see the plan. `CrcStore` is
  constructed in `main.cpp` and used by nothing. `WebServer.cpp` line 923 writes
  `Ignition` without `SetIgnition`; the next 8A4 corrects it, and it is left out.
* `VanFrameBuilder`: the frames' layout is in `VanLpBus`, the bytes and the CRC are not.
* Payload conversions of the handlers, the configuration file, the web pages,
  drivers of the CAN controllers and of the older ESP32 target, host tools: I/O or
  conversions without state. See "components" in `PROJECT.json`.
* About two thirds of the lines in the repository are vendored libraries (littlefs,
  mdns, hulp and others) and generated pages. They are not the bridge's logic, nothing
  in the models depends on their insides, and they are left alone; the share of the
  whole tree that the models map stays low for that reason.

## Plan

Done: the LP core with its three protocols and its bus engine, the transport, the
scheduler, the fuel refill tracker, ISO-TP, the popups, the radio remote, and the
proofs listed above, which cover each safety property of the runs.
Next, in this order:

1. `VanCoding`: `Stuff`, `Build` and `Decode` at full width, what the inverse states
   and the CRC detect; the bit-sliced match table of `SetAck` and `SetReply` against
   direct comparison, after any sequence of settings.
2. `DiagBridge`: the routing of `BridgeRuntime` with the VIN reader and the web socket's
   buffers.
3. `TripComputerReset`: the button held for three seconds and the repeated message.
4. Proofs: of the liveness properties the part that is safety, for instance that a wait
   ends in boundedly many steps of the waiting task (a decreasing measure as an action
   property).
