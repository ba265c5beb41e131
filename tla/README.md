# xow-win in TLA+

xow-win is a user-mode driver for the Xbox Wireless Adapter on Windows. This
directory holds a TLA+ model of its concurrent and failure-handling core, the
TLC configurations that check it on small instances, and TLAPS proofs.

## The system

| Component | Source | State | Operations | Threads |
|---|---|---|---|---|
| Rumble buffer | `utils/buffer.h` | three slots, a flag | `put`, `get` | notification thread (put), rumble thread (get) |
| GIP protocol | `controller/gip.cpp`, `gip.h` | sequence number | `handlePacket`, `acknowledgePacket`, senders | handler, rumble thread |
| Controller | `controller/controller.cpp` | `inputReady`, `stopRumbleThread`, mapping, last input | announce, input, guide button, rumble, destructor | handler, rumble thread, notification thread |
| Virtual controller | `controller/input.cpp` | ViGEm target | `create`, `update`, `setGuide`, destructor | handler; ViGEm calls back on a detached thread |
| Settings | `controller/mapping.cpp`, `controller.cpp` | button map, dead zones, write time of the loaded file | `load`, `writeTemplate`, `refreshMapping`, axis functions | under `mappingMutex` |
| Dongle | `dongle/dongle.cpp` | `controllers[]`, `controllerMutex`, `stopThreads` | connect, disconnect, pair, packet | two reader threads, owner |
| Radio clients | `dongle/mt76.cpp` | `connectedClients`; in hardware the WCID address table, the firmware's clients, LED, beacon | associate, remove, pair, send, pairing status | as Dongle, and the rumble threads |
| Radio set-up and calibration | `dongle/mt76.cpp` | in hardware: registers, firmware, channel power | constructor | main thread |
| USB access | `dongle/usb.cpp` | handle | transfers, `getDevice` | all of the above |
| Worker | `main.cpp` | `suspended`, `cycleRequested`, `stopRequested`, `activeWatch`, failure counters | `runWorker`, callbacks | main, power, reset, stop and reader threads |
| Process model | `main.cpp` | instance mutex, worker mutex, stop event, worker process, back-off, the two log files | `main`, `runSupervisor`, taking of the mutexes | one process per copy that was started |
| Recovery | `utils/recover.cpp` | none | cycle the port, rebind WinUSB | main thread |
| Byte strings | `utils/bytes.h` | a range of a buffer | `skip`, `toStruct`, `append`, `pad` | |
| The rest | `utils/log.cpp`, `paths.h`, maintenance options and crash handlers of `main.cpp`, vendored ViGEmClient and libusb, scripts | | | |

The supervisor starts the worker. The worker's loop opens the adapter and builds
a `Dongle`, whose two reader threads receive events and, with `controllerMutex`
held, create, feed and destroy `Controller` objects. A controller sends its
packets through `sendClientPacket`, from the reader threads and from its own
rumble thread, and is called by ViGEm's notification thread when a game rumbles.
A transfer that fails calls `terminate`, which marks the worker's `DongleWatch`
as lost; the loop then closes the dongle, possibly cycles its USB port, and
starts again.

What is hard here: code of one object running in three threads with few locks,
pointers tested and used in separate steps, transfers failing half-way through a
change of four tables, destructors that join threads which may be blocked, and
recovery counters and flags set by events that may arrive at any line of the
loop. `PROJECT.json` lists these hazards at their lines, each with the
properties that cover it.

## The modules

State machines:

| Module | Models | Instances and bounds |
|---|---|---|
| `Mailbox` | what the rumble buffer promises (abstract): a box and a hand, swapped by a take | as TripleBuffer |
| `TripleBuffer` | `buffer.h`, one action per atomic operation, a plain copy lasting from Begin to End | runs within `Gamepad` |
| `Controller` | `controller.cpp`, `handlePacket`, `acknowledgePacket` and the senders of `gip.cpp`, life of the `InputDevice` and its ViGEm target | runs within `Gamepad` |
| `Gamepad` | `Controller` with `TripleBuffer` as its rumble buffer; a request is followed to the packet that carries it | sequence numbers modulo 3: two valid numbers and zero, wraps within one initialisation; 3 requests, as many as slots: a slot is used again while another put is under way |
| `Settings`, `MCSettings` | `writeTemplate`, `refreshMapping`, `inputReceived`, `guideButtonPressed`, `setGuide`, while other programs save, restore, delete and hold the file | 4 write times and 4 texts: the template, two saves and a restore; the button A and the guide button, mapped as by default, to each other and to nothing |
| `Seats` | the promise about WCIDs (abstract): a seat is joined, taken, left and only then free again, one at a time | as Dongle |
| `Dongle`, `MCDongle` | `dongle.cpp`, client operations of `mt76.cpp`, `~Dongle`, `~Mt76` | two reader threads as in the code, 2 addresses, 2 of the 16 WCIDs; the table gets full because one address may associate twice. Threads and addresses are symmetric; the liveness run has one WCID and no symmetry |
| `Radio` | `Mt76::Mt76`: firmware upload and set-up, tried again on a dongle that keeps its state | parts of 5 and 4 bytes, chunks of 2: three and two chunks, the last one short and whole; 3 failures: a read that hides the running firmware, an upload under it that fails and a third attempt with clean reads still ahead, which is what `ResetFirst` has to allow for |
| `Worker` | `runWorker`, `DongleWatch`, the callbacks | 3 flap resets as in the code; the counter of failures is kept modulo 3 |
| `Adapter` | `findDevice`, `getDevice`, the opening of a device, `onOpenFailure` with the rebind | runs within `Service` |
| `Service` | `Worker` with `Adapter` as its `getDevice`, and an adapter that comes and goes | the code's three failures, counted to 3, which is before, at and beyond the test that is made while counting; one failed claim: it is history, which no later step of the model reads; no flaps, which are `Worker`'s |
| `Processes` | the copies of `xow-win.exe`: rotation of the logs, both mutexes, the stop event, `runSupervisor`, kills at every step | 2 copies and 2 workers: a second start, and a worker that outlives its supervisor while the next supervisor starts another; the code's 2 s and 60 s |

Pure algorithms, as operators:

| Module | Models | Inputs tried by `Conversions`, `MCConversions` |
|---|---|---|
| `MappingFile` | `Mapping::load`: sections, keys and their aliases, percentages and fractions | all files of up to 4 lines out of 15, which is enough for a header, two lines about one setting and another header |
| `Axes` | `applyTrigger`, `applyStickDeadzone`, inversion | triggers 0..2046, beyond both ends of 1023; sticks of -16..15 in both axes instead of 16 bits, with the same asymmetry; dead zones 0, 10, ..., 90 % |
| `Calibration` | `efuseRead`, `calibrateCrystal`, `getChannelPower`, in integers of their widths | 17 byte values, on both sides of every limit and flag; every channel of the table |
| `Packets` | how `handleBulkData` and what it calls take a transfer apart, and what `sendCommand` and `sendWlanPacket` put together: sizes, places, padding | every size from 0 to 110 bytes, which is beyond the longest chain of headers and payload; each kind of header; payload lengths a packet may claim on both sides of each structure's size; each transfer that serving controllers sends |

Proofs: `GamepadProofs` (also of `Controller` and `TripleBuffer`), `SettingsProofs`,
`DongleProofs`, `ProcessesProofs`, `RadioProofs`, `WorkerProofs`, `ServiceProofs`,
`ConversionsProofs`.

Correspondence. A variable has the name of the member or global it stands for
(`connected` is `connectedClients`, `ctrl` is `controllers`); `pc`, `hpc`, `mpc`,
`gpc` and the like are program counters; variables declared as history only
record what properties talk about. Program steps that touch nothing shared are
merged into their neighbour; each lock acquisition, atomic operation, USB
transfer, test of a shared flag and use of a shared pointer is a step of its own.
In `Settings`, where `mappingMutex` is held throughout an operation, a step is
an access to the file. A step in `Dongle` and `Radio` that transfers has an
outcome where it succeeds and outcomes where it fails, having reached the device
or not; failing calls `terminate`. `map` in `PROJECT.json` gives the lines of
each definition. Definitions marked as mutants are not part of the
specifications: they are the deviations that the properties were tried against.

How the modules fit:

- `TripleBuffer` refines `Mailbox`: the box is the middle slot, the hand the slot
  that is the consumer's, and a take returns what was in the box. `Gamepad` runs it step by step among the
  steps of `Controller`, which alone knows only its flag; `queued` is one
  variable in both. Each step of `Gamepad` is a step or a stutter of each.
- `Settings` is what `Controller` does under `mappingMutex`; what it calls a text
  is what `MappingFile` makes of a file. `Axes` is the rest of `applyInput`.
- `Dongle` refines `Seats`. The state of a seat is read off the bit set, the
  object and the handler in progress (`ImplementsSeats`): the bit is set first
  and cleared last, and in between the seat is joining or leaving.
- `Dongle` sees a controller as a step that sends (`RumbleSend`, `PacketAnswer`)
  and a destructor that sends POWER_OFF (`PowerOff`), which is what `Controller`
  shows of itself; it assumes that `~Controller` returns, which is `Controller`'s
  `Destroyed`.
- `Packets` is what comes before the events of `Dongle` and the frames of
  `Controller`: which handler a transfer reaches, and what it may read.
- `Worker` sees the opening of the device as a step that ends in a device, an
  exception or a stop. `Service` puts `Adapter` there: each of its steps is one of
  `Worker` joined to one of `Adapter`, or a step of one of them alone. `Radio` is what `Worker` sees as a
  `Dongle` that is ready or throws. `Calibration` computes what `Radio` only
  knows as a step that is done.
- `Worker` sees the dongle as something that may be lost, flap and be closed, and
  takes from `Dongle` (`LostCloses`) that closing ends. `Processes` sees the
  worker as a process that takes the worker mutex, serves, and dies or quits.

What the environments are assumed to do:

- `Settings`: no version of the file has the write time of an earlier one; the
  time can be read while the file is locked.
- `Radio`: a dongle that was busy when the constructor threw is not after the
  three seconds before the next attempt; resetting a dongle that has been reset
  does nothing; what `initRegisters` writes does not touch the registers of the
  firmware upload.
- `Processes`: all processes are in one session, and a mutex can be created
  (the event may not be); a named object is gone with its last handle, and a
  process that ends, in whatever way, has its handles closed.
- `Service`: a handle whose device was unplugged stays dead when the adapter is
  plugged in again, and the reader threads notice.
- `Axes`: floating point is exact up to the unit that the conversion to an
  integer cuts off. The comparisons allow for that unit.

## What the runs show

`gamepad` (198 174 states) - packets are numbered consecutively although
`getSequence` is a read and a write without a lock, because its callers never
overlap (`NumbersInOrder`); POWER_OFF comes last, also with requests queued
(`OffIsLast`); input is accepted only after a complete initialisation
(`ReadyIsComplete`); no slot of the buffer is written while it is read
(`NoRace`), quiescence means the newest value was delivered at some point (`NothingLost`),
and the buffer is a `Mailbox` (`Implements`): a `get` returns the value that its
exchange took, as it was put, and the newest one unless that was returned before.
In that case it returns an older one, or the content of a slot that was never
written; the specification says so, and only bounds such returns by the number
of puts (see `StopSticks` and `OnlyRequests` below). Each request of the game, or a newer
one, is sent to the controller, also if its wake-up is lost, unless the object
goes away (`Delivered`); the destructor ends if the game does not send for ever
(`Destroyed`).

`dongle` (2 971 300 states) - between handlers, and as long as no transfer
failed, the bit set, the objects, the address table, the firmware's list and the
set of controllers that are awake agree (`TablesAgree`); no packet goes to a WCID
of another address (`ToOwner`); closing without failures leaves nobody awake
(`AllAsleep`). Whatever fails, `Dongle` implements `Seats` (`ImplementsSeats`):
the WCID of a live controller is not given away, no object is replaced without
being torn down, a WCID is free again only after its controller has left, and
only one changes at a time although two threads handle events.
`dongle_live` - a lost dongle gets closed (`LostCloses`).

`worker` (105 146 states) - the port is cycled only with the dongle closed (`CycleClosed`), never
three failed initialisations in a row without a cycle (`HealsInit`), a flap's
request is carried out (`FlapServed`), a suspend notification that finds a watch
releases the dongle (`SuspendReleases`), a stop ends the worker from everywhere
(`StopExits`), and once nothing interrupts any more it serves the dongle for
good (`Settles`). The last one also says that the undefined use of a dangling
watch, modelled as "may or may not mark the next watch as lost", does no lasting
harm beyond that.

`service` (589 504 states) - the reference that `findDevice` takes is given back
on every way out of an attempt, and what stays is one open handle with its
reference for each claim that failed (`RefsBalanced`): the constructor throws
after `libusb_open` (usb.cpp:69-74), nothing closes that handle, and a worker that
retries every three seconds keeps one more each time. An adapter that is and stays usable is served
in the end and for good, whatever was unplugged or failed before (`Served`), and
a stop ends the search (`StopEndsSearch`).

`processes` (44 545 states) - at most one process drives the dongle, also after
a supervisor was killed and its worker is still there (`OneDriver`); a
supervisor leaves only when its worker has ended and either a stop was requested
or the worker ended normally (`LeavesInOrder`); as long as there is a
supervisor somebody comes to drive (`Driven`); a stop request ends the instance
and is not reset by a copy that is started meanwhile (`StopEnds`).

`settings` - a mapping that carries the time of the present file is what the
file holds, unless the load failed, although stamp and load are two steps and
the file may change between them (`StampMeansLoaded`); a change gets in, also
when an older file is put back (`FollowsFile`); a guide button that is not held
is not pressed, however the mapping changed while it was (`GuideReleased`).

`conversions` (289 530 states) - a file means what its lines say, read without an
order (`FileMeaning`, against a definition by the last line about a setting that
`load` accepts), and its numbers are within their limits, unless that line says
`nan`: `load` accepts it, the setting is then no number, and what the casts to
integers make of it is undefined (`MalformedSkipped` below); triggers
and sticks have no jumps, keep order and direction and reach their ends for
every dead zone (`TriggerShape`, `StickShape`); the crystal's trim and the
channels' power are those the EFUSE means, although addresses are rounded down
and sums are cut to eight bits (`CrystalMeant`, `PowerMeant`); no read of a
received transfer goes beyond it, what is passed to a handler is the packet
without its padding, whatever lengths the packet claims, and what is sent is made
of whole words with headers that say its true length (`PacketsFit`). Each of these
is a conjunction of named parts.

`radio` - if no transfer failed, the firmware that is started is the image
(`StartedWhole`); nothing is written under a running one (`ResetFirst`), unless a
read of the register failed, which looks like a dongle without firmware: the
history variable `blind` says that the running firmware went unnoticed that way,
and stays true over later attempts, because the upload it leads to may leave the
register as a stopped dongle has it; a constructor that returns has set up everything or has reported the loss
(`ReadyMeansSetUp`); no state that interrupted attempts leave defeats all later
ones (`Recovers`).

Deadlock checking is off in all runs: each system really may stop (no more puts,
the controller gone, the file deleted, the dongle closed, the worker ended, no
process running, the result returned), and progress is what the liveness
properties are about.

## Disagreements

Where the code does not do what a comment or a document says, the claim is a
property at the end of its module. Three have runs of their own and are among the
`findings` of `PROJECT.json`:

- `worker_reset`: main.cpp:75, "Set when the dongle should be USB-cycled at the
  next opportunity". A reset that arrives between two watches is only looked at
  when something else ends the next one (`ResetServed`).
- `settings_saved`: README.md:53, "Saved changes apply within a second". The
  write time is stamped before the load, and a load that fails because the
  editor has the file locked is not repeated (`SavedApply`).
- `processes_log`: main.cpp:709, "keep the previous run's log so a crash is never
  lost". A second background start rotates the logs before it finds that it is
  the second: the previous run's log is deleted, and the present one is open and
  cannot be moved (`PreviousKept`).

TLC refutes the others as well; to see it, name the property in the module's
configuration in place of those it has. For `PairingSettled` take
`DongleLive.cfg` with `SPECIFICATION Safety`; for `StopSticks`, `Gamepad.cfg`
with `Requested = {"on", "off"}`; for those of `Controller`, run that module with
`CONSTANT SeqMod = 3` and `SPECIFICATION Spec`.

| Property | Says | What happens |
|---|---|---|
| `Gamepad!StopSticks` | controller.cpp:374, "A zero-power update from the game stops it" | an older request, still in the consumer's hands, is delivered again after the zero-power one |
| `Gamepad!OnlyRequests` | controller.h:32, "Passes rumble requests from games to the gamepad" | `new T` at buffer.h:32 leaves the slots as they are; when a `get` sees the flag of a value that an earlier `get` has taken, the slot it is handed may never have been written, and what is in it is sent |
| `Controller!NoPadFromFailure` | ViGEmClient.cpp:641, "Don't leave device connected if the wait call failed" | the target is not marked as connected at that point, so that `vigem_target_remove` returns at once, and `create` throws with the pad on the bus |
| `Controller!AlwaysOff` | main.cpp:455, "dongle destructor powers controllers off" | a game that keeps rumbling keeps the rumble thread in its inner loop, and the destructor joining it |
| `Settings!TemplateIsNew` | mapping.h:66, "Writes the documented default file if it does not exist yet" | a file that cannot be opened at that moment counts as missing and is overwritten once it can |
| `Settings!GuideAsTarget` | README.md:55, "physical = virtual", with `guide` among the names | `update` replaces the guide bit of every report by that of the guide button |
| `Settings!NothingHeldNothingDown` | controller.cpp:124, "re-emit the last report with it" | the mapping changes while the guide button is held: its release does not take back the button it was mapped to |
| `Conversions!MalformedSkipped` | mapping.h:59, "unknown or malformed lines are logged and skipped", and mapping.h:54, "0-100" | `nan` is read as a number and passes both comparisons of the clamp; mapping.cpp:274 and 316 cast it to integers |
| `Dongle!PairingSettled` | dongle.cpp:299, "Setting the pairing status doesn't require locking the mutex" | two calls interleave their transfers, and beacon and LED disagree for good |
| `Conversions!OnlyTrimField` | mt76.cpp:103, `MT_XO_CTRL5_C2_VAL` is bits 14 to 8 | the sum of trim and offset is shifted without a mask, and sets bits above |
| `Conversions!PowerWithinLimits` | mt76.cpp:811, "Channel power limits (0 dB to 23.5 dB)" | a target whose offset is not enabled is used as it is |
| `Service!DriverHealed` | main.cpp:30, "adapter can't be opened 3x in a row -> WinUSB rebind" | the rebind is tried at the third failure only; if it fails, or the driver changes later in the same call, never again |
| `Worker!ReleasedForSleep` | main.cpp:82, "the dongle is released before suspend" | a suspend between the test of the flag and the next watch wakes nobody |
| `Processes!BackoffCapped` | README.md:36, "2 s backoff, doubling to 60 s" | 32 s are doubled before the cap is looked at: 64 s |

## Fairness

Threads that can take a step of their own code do so (weak fairness), because
they are scheduled and every wait and transfer has a timeout. Nothing outside is
fair: no packet, event, game, disconnection, suspend, resume, reset or stop has
to come. Where strong fairness is used:

- `Controller`, `Gamepad`: acquiring `mappingMutex`. It is held for a file access
  at most and handed on by the operating system; weak fairness would allow a
  thread to miss it for ever. In `Gamepad` the steps of put and get are the
  threads' own steps.
- `Worker`, `Service`: `DongleReady`, not every initialisation fails;
  `CloseDongle`, the reader threads have been told to stop and do not report
  flaps for ever. In `Service` opening is not fair by itself: it succeeds when
  the adapter is usable. A rebind need not ever work.
- `Processes`: `Spawn`, `CreateProcess` does not fail for ever; `ClaimDongle`, not
  every worker is killed before it takes the mutex. Nobody has to start, stop or
  kill anything.

In `Settings` the check of the file is weakly fair because the rumble thread
tries it every second and is refused only if a packet made the handler look less
than a second before; it does not get to it while a game sends requests without
a pause. In `Radio` a poll ends after its second, and the dongle does what it is
asked to; failures are bounded, so that `Recovers` speaks of the time after them.

`Settles`, `Served` and `ResetServed` are conditional on the interruptions ending.

## Proofs

The theorems hold for every value of the constants that the named assumptions
allow. They are listed in `PROJECT.json` with the property each one states.

`GamepadProofs` has three parts. For the controller alone, for any width of the
sequence counter: type correctness, `NumbersInOrder`, `OffIsLast`,
`ReadyIsComplete`. A number that was read is still the next one when it is written
back (`Numbering`), because the handler only numbers packets before the rumble
thread starts and after it was joined (`Phases`); the flag that accepts input is
set last (`Complete`). For the buffer alone, for any number of puts: type
correctness, `NoRace`, `NothingLost`, and the refinement of `Mailbox`. The inductive invariant (`BufferInv`) adds to the types that producer,
consumer and the shared position own different slots, also between an exchange
and the store that follows it (`Ownership`), what the locals hold, how old the
values in the slots can be (`Ages`), that an undelivered value is in the
middle and on its way (`Pending`), and that a flag which is raised, about to be
raised or taken for a swap belongs to a put whose flag no other `get` has used
(`Raised`). With `Ownership` a put fills a slot that is neither box nor hand; with
`Raised` there are no more takes than puts. `NoRace` alone is not inductive: nothing in it
says that the slot an exchange hands over is not the other thread's. For the two
together, for any number of requests of any levels: every step of the composition
is a step or a stutter of `Controller` (`ObjectRefinement`) and one of
`TripleBuffer` (`BufferRefinement`), so that all six properties hold where they
run together. That a `get` with nothing queued is a stutter of the buffer needs
`Controller`'s types.

`SettingsProofs`, for all texts and any set of write times: type correctness,
`StampMeansLoaded`, `GuideReleased`. The invariant that a stamp means a loaded
text is inductive with the types and the fact that every time in use is
recorded in `used` (`IInv`): a save takes a time that was never used, so that no
stamp carries it. The invariant of the guide button needs the types only.

`DongleProofs`, for any number of WCIDs, addresses and reader threads: type
correctness, `ToOwner`, `AllAsleep`, `TablesAgree`, and that every step is a step
or a stutter of `Seats` (`Implementation`). `TablesAgree` speaks of moments
between handlers, so the invariant (`IInv`) says what holds within them: a
handler is past its lock exactly while its thread holds `controllerMutex`
(`Locked`); what it works on is a WCID of the table (`Jobs`); whatever fails, a
live controller has its bit and its address, and a WCID that is being given out
or taken back has no controller (`Seated`); once the readers are joined only the
destructor changes anything (`Teardowns`); and without a failure the tables agree
on every WCID but the one that a handler works on, about which they say how far
it is (`Tables`, `Stage`). `Locked` makes that handler the only one. The
refinement needs no more than that: a WCID is joining or leaving exactly where a
handler that holds the mutex is at work on it.

What `Seats` allows has laws of its own, and since `Dongle` implements it they hold
of the WCIDs without another look at the handlers (`SeatsInOrder`): a controller
object never exists without its bit in the set, a WCID is for a controller exactly
while one joins or has it, one changes at a time, and none once the destructor is
past joining the readers. The last two are what `controllerMutex` and the order of
`~Dongle` are for.

`ProcessesProofs`, for any number of copies and workers: type correctness,
`OneDriver`, `LeavesInOrder`. Both mutexes are needed as quantified statements
(`OneInstance`, `SoleDriver`), of which `OneDriver` counts the second; `Children`
says when a supervisor has a worker of its own and that the stop request it acts on
cannot have been taken back, because only another instance would reset the event.
A killed supervisor frees the instance mutex but not its worker's, which is why
`SoleDriver` does not mention supervisors.

`RadioProofs`, for a firmware of any size and place, sent in chunks of any size,
and any number of failures: type correctness, `StartedWhole`, `ReadyMeansSetUp`,
`ResetFirst`. `Quiet` and `Noticed` hold also across failed attempts: what the
dongle may be busy with at each step, and that a running firmware shows in the
register unless a failed read hid it. In an attempt without a failure
(`Clean`), `Chunks` says that memory agrees with the image up to the present
position, that address and length are those of the present chunk, and that the
DONE bits are its own: they are set only when it has been copied. `SettingUp`
says which steps of the set-up have been carried out. The arithmetic of parts and
chunks is in lemmas of its own (`BytePlace`, `ChunkFits`, `PartsDone`).

`WorkerProofs`, for any limit of flap resets: type correctness, `CycleClosed`,
`HealsInit`. The device is open between `getDevice` and the end of `~Dongle` only
(`OpenWhile`), also after an exception; and the failures since the last cycle are
at most those counted since the counter was a multiple of three (`Counted`).

`ServiceProofs`: the steps of the worker with the adapter are by construction steps
or stutters of the worker alone (the lemma `StepImplements`), so that both of its
invariants hold whatever happens to the adapter (`ServedClosedWhenCycled`,
`ServedInitHealed`, obtained by instantiating `WorkerProofs`); type correctness;
`RefsBalanced`, for any number of failed claims, inductive with the types of the
search.

`ConversionsProofs`: `CrystalMeant` and `PowerMeant` for every content of the
EFUSE and every channel; `TriggerShape` for every range of a trigger and of its
byte, by reasoning about the division as the largest multiple (`TriggerValue`)
that lies below the stretched pull. Three results need an induction over data.
The library's induction theorems take an operator, which no prover here can
instantiate, but its theorems about well-founded sets do not: `LeastExists` takes
from them that a set of numbers has a least one, and the inductions are arguments
about the least counterexample.

- `FileMeaning`, for files of any number of lines. `Load` is a fold, which the
  community modules define as a recursive function on sets of positions. There is
  one for every number of lines (`FoldExists`), and it reads them in order
  (`LoadReads`). What is known after each line (`Known`: the section, and the value
  of each setting by the last line about it) is carried over by every kind of line
  (`ValueStep`, `SectionStep`), hence by all of them (`LineByLine`).
- `PacketsFit`. The receiving half (`PacketsWithinBytes`) is for a transfer of any
  size whose packet claims any length; its lemmas follow the calls from the inside
  out, each saying of the bytes it was handed that nothing else is read, and how
  many it takes for the packet to reach its handler (`GipReads`, `ControllerReads`,
  `PairReads`, `WlanReads`, `BulkReads`). The sending half (`PacketsInWords`) rests
  on the sum over two packets put together (`Concatenated`), again by induction over
  a fold. `Fitting` says of a part of a packet which bytes may come before it and how
  many behind it its headers count; it is kept by concatenation (`FittingConcat`),
  so that what `sendCommand` frames is in words whatever it is (`FramedInWords`), and
  so is what `sendClientPacket` puts its headers before, for a packet of any length
  (`ClientInWords`).

`StickShape`, for every range of a stick (`StickForm`). The model chooses a stick's
value as the last one within a bound (`Within`), which exists because 0 is within it
and the deflection itself is the most that is (`RescaledEnds`). Direction and ends
(`StickDirection`) compare the two axes as ratios of squares (`Ratios`,
`WithinLess`), without taking the root. Smoothness compares two positions a unit
apart, which have different distances from the centre:

- The bound is one ratio inside the rim and another beyond it, but a value that is
  within its own is within both (`WithinBoth`); so the two positions need not lie on
  the same side of the rim.
- Ratios add up (`RatiosAdd`) and carry over from one distance to another
  (`Stretched`), whose squares are compared in `Distances`.
- With these, a value neither grows nor shrinks too much when the stick moves along
  its axis or across it (`AlongUp`, `AlongDown`, `AcrossUp`, `AcrossDown`), nor does
  the edge of the dead zone let too much through at once (`AlongEdge`, `AcrossEdge`).
- `Movement` puts these together for positive axes, `Mirrored` and `Moved` for all
  signs, `Closeness` for the inversion of Y.

Assumptions are the named ones on the constants: `SeqWidth`, `LevelsRequested`,
`SettingsConstants`, `DongleConstants`, `ProcessConstants` (finite sets of copies
and workers), `FirmwareLayout` (the second part lies behind the first, and no part
begins at a value that the register uses as a sign), `FlapsBound`, `ServedFlaps`,
`AdapterConstants`, `FullValues` and `ConversionConstants` (bytes are bytes, the
numbers in a file are integers). The
sources meet all of them, and TLC evaluates them in the runs.

Every safety property of a passing run is a theorem. Only model-checked is liveness,
which is out of the prover's reach: `Delivered`, `Destroyed`, `LostCloses`,
`FlapServed`, `SuspendReleases`, `StopExits`, `Settles`, `Served`, `StopEndsSearch`,
`Driven`, `StopEnds`, `FollowsFile`, `Recovers`.

## Not modelled

- Log and paths: formatting and file names. Only that the two log files exist is
  in `Processes`.
- Maintenance (`--cycle-port`, `--rebind`) and crash handlers: one call and the
  end of the process; `Dies` of `Processes` is what others see of them.
- The Windows device API behind `Recover`: its calls return what Windows decides,
  the code keeps no state between them. `Adapter` and `Worker` have the outcomes.
- Of the settings, the swaps of sticks and triggers, trimming of text, the
  rounding of floating point and the layout of the template.
- Of the radio, the values of registers that are written in groups; of packets,
  fields that nothing branches on.
- Of the worker, the reason strings, the hint that is shown once and the length
  of delays.
- The vendored libraries and the scripts; they are the environments above.

Memory safety is covered where a plain access is a state (`NoRace`), where a
pointer may dangle (`Worker`) and where a packet is read (`PacketsFit`). That
ViGEm's callback may still run while `~Controller` destroys the members it uses
is in the model's behaviours (`DestroyMembers`, `Unregister`), but no property is
stated about it.

## Plan

Done, in this order: `TripleBuffer` with `Mailbox`, `Controller`, `Dongle`,
`Worker`, `Settings`, the algorithms, `Radio`, `Adapter`; the dispatch of packets
and the life of the target in `Controller`; `Gamepad`; `Seats` and its refinement
by `Dongle`; `Service`; `Processes`, in place of a supervisor that was alone;
`Packets`; the proofs, in the order `Gamepad` with its parts, `Settings`, `Worker`,
`Service`, `Processes`, `Dongle`, `Radio`, `Conversions`.

Left: temporal proofs of the liveness properties, once the prover supports them.
