# TLA+ models of the Raspberry Pi driver tutorial

The repository is a course on Linux drivers: some thirty small kernel modules for a Raspberry Pi, one or more per
chapter, each with the test programs that exercise it, and the Kernel Module Programming Guide (`lkmpg-master`) with
another thirty example modules. This directory holds TLA+ models of the drivers whose behaviour depends on more than one
actor, the TLC configurations that check them, and proofs of what matters most.

Every driver is a program of its own, but they share one shape. `my_init` acquires resources one after the other, an
interrupt handler and the file operations (or kernel threads, a timer, a work item) share a few static variables, and
`my_exit` gives everything back. Three questions follow, and the project is organised along them:

1. **What happens between a handler or thread and those who wait for it?** Modules `PollEvents`, `FlagRead`,
   `Completion`, `ToggleLed` and `OwnWork`, each for one way work is handed over.
2. **What do several callers do to the state they share?** Modules `TextBuffer`, `ExclusiveOpen`, `Vinput` and `Bmp180`.
3. **Does loading, failing to load and unloading leave things in order?** Modules `ModuleLifecycle`, `LifecycleSteps`,
   `DriverTables` and `GuideTables`, for 54 drivers at once.

## Inventory

Directories are those of the repository; `guide` is `lkmpg-master/examples`. "Actors" are what can interleave.

| Component | Source | State | Operations and actors | What is hard | What makes it correct |
|---|---|---|---|---|---|
| Poll event device | `18/03_poll_select/my_poll.c` | `event_count`; per file `last_event`; wait queue | open, release, read, poll, `isr`; threads, signals, time-outs | a press between test and sleep; two threads on one file; 32-bit wrap | no missed wake-up; a read consumes an unread press; the mask is exact |
| Flag readers | `18/01_busy_wait`, `18/02_wait_queue` | `data_available`; wait queue | read, `isr`; threads, signals | test and reset are two steps; sleeping uninterruptibly | no missed wake-up; no message without a new press |
| Asynchronous notification | `18/04_fasync/my_fasync.c`, `test_fasync.c` | `data_available`; `async_queue` | read, fasync, release, `isr` and `kill_fasync`; processes, SIGIO | signals do not queue; the flag merges presses | a press is taken while somebody is registered |
| Completion | `19/03_completion/*.c` | `my_comp.done`, its queue; the threads | `isr`, one or two waiter threads, `my_exit` with `kthread_stop` | `reinit_completion` races with `complete`; stopping a thread between its test and its sleep | no press processed twice; no thread sleeps through a completion; unload ends |
| Timer debounce, bottom half | `12/irq/irq.c`, `12/top_bottom_half/irq.c` | `last_button_state`; the timer or work item; the LED | `button_isr`, timer callback or work handler, `my_exit` | the handler re-arms while the callback runs; stopping two things that start each other | one toggle per interrupt, none lost, each interrupt served |
| Kernel threads, mutex threads | `17`, `19/01/my_mutex.c`, guide `completions.c` | a text under a mutex; two completions | thread loops, `my_exit` | sleeping with the mutex held; unload waits for a thread that waits for the other | nobody runs after unload; unload ends |
| High-resolution timer | `13` | the samples | callback, `hrtimer_cancel` | array limit; samples read at unload | in bounds; nobody writes while they are read |
| Message shared with the handler | `19/02_spinlock` | `shared_buffer`, `shared_len` | read, `isr` under a spinlock; processors | the handler interrupts the holder of its lock; `shared_len` read again after the unlock | the length belongs to the copy; reads return |
| Buffers behind read and write | `07/01`, `07/02`, `08`, `19/01/test` | `dev_buffer` (static or per open file), offset, `dev_mutex` | read, write, ioctl; threads | unsigned arithmetic on offsets; a full buffer has no zero; ioctl without the mutex | writes stay inside, reads return text, the mutex is given back |
| Exclusive open | guide `sleep.c`, `chardev.c`, `chardev2.c`, `static_key.c` | `already_open`, the message, `waitq` | open, read, write, ioctl, close; processes, signals | the file is freed and taken again around a wake-up; copying without the flag | one holder; one text; no missed wake-up; a free file is opened |
| Virtual input devices | guide `vinput.c`, `vkbd.c` | type list, device list, bitmap of minors | export, unexport, rmmod of a type, open and file calls | pointers used after the lock; a device is listed before it is built | minors consistent; overlapping exports leave each other's devices alone; a walk ends |
| BMP180 sensor | `15/`, `15/sensor_read/` | the chip's result register, calibration | probe, remove, two sysfs reads that start conversions and sleep | two reads share the chip; sleeps and shifts must fit; remove with readers inside | an undisturbed read is right; no reader without a calibration |
| Load and unload | every init and exit function | what the module holds in the kernel | each acquisition and its failure, labels, rmmod, handlers already running | failure of the n-th step; sign of the return value; order of releases | nothing left behind, nothing released twice, nothing used after its release |
| GPIO, memory, list | `09`, `10`, `11` | allocations and requests | only `my_init` and `my_exit` | partial failure | as load and unload |
| SPI master | `16` | none | one transfer in probe | none | as load and unload |
| Guide: copying examples | guide `procfs*.c`, `ioctl.c`, `led.c`, `dht11.c`, `hello-sysfs.c`, `kbleds.c` | a buffer or a level | read, write | none beyond load and unload | as load and unload |
| Hello, log levels | `05`, guide `hello-*.c` | none | only log | none | - |

Components meet only inside one driver, through the kernel: file operations and handlers share static variables, meet on
wait queues, locks and completions, and `ModuleLifecycle` decides when each may run at all. `vinput` and its types are the
one pair of modules that call each other, and `Vinput` models them together. Other drivers never run together in a way
that matters, since they claim the same GPIO.

## Modules

| Module | Models | How it corresponds to the code |
|---|---|---|
| `PollEvents` | `my_poll.c` | variables carry the names of the code; `pc[t]` is the line a thread is at in `my_read` or `my_poll`; `data->last_event = event_count` is a load (`ReadLoad`) and a store (`ReadStore`); the handler is two steps, count and wake |
| `EventCursor` | the promise of `PollEvents` and `FlagRead` | a reader is a cursor into the sequence of presses: a message moves it strictly forward, at most to the present. In `PollEvents` the readers are the private open files, in `FlagRead` the threads |
| `PollEventsMC` | instances | a file per thread, or one shared file |
| `FlagRead`, `FlagReadMC` | busy-wait, wait-queue and fasync drivers | the variable `loaded` says which driver it is, and `place[t]` where a thread is in `my_read`; they differ in how a reader waits and whom the handler wakes; in `fasync` a process reads when `SIGIO` reaches it, as `test_fasync.c` does |
| `Completion` | `my_completion.c`, `_ex1.c`, `_ex2.c` | two reinitializing threads or one plain one; the last two files have the same thread |
| `ToggleLed` | `12/irq`, `12/top_bottom_half` | `loaded` says which driver it is; reading and writing the LED are two steps, as are reading the button and comparing it; `Tick` is a jiffy |
| `OwnWork` | `my_kthread.c`, `my_mutex.c`, `completions.c`, `my_hrtimer.c`, `my_spinlock.c` | two threads, a handler or callback, and `my_exit` as a counter of its calls; `on` is the processor the handler has interrupted |
| `TextBuffer`, `TextBufferMC` | four `my_cdev.c` | of a buffer only the places of its zero bytes are kept; lengths are computed as in the code, bytes go one at a time |
| `ExclusiveOpen`, `ExclusiveOpenMC` | four guide drivers | `cmpxchg` is one step; `wait_event_interruptible` is the loop of the kernel's macro; a text is two parts copied one by one |
| `Vinput`, `VinputMC` | `vinput.c`, `vkbd.c` | each pointer found under `vinput_lock` is a local variable used in later steps; using what is gone sets `fault` and ends the behaviour |
| `Bmp180`, `Bmp180MC` | `sensor_read/bmp180_i2c_driver.c` | command, sleep and fetch are separate steps; the sensor converts on its own; the compensation is the integer arithmetic of the code |
| `LifecycleSteps` | what a table row is | one record of acquisitions in order, for each what the code does if it fails, the releases in order, what installed code touches |
| `DriverTables`, `GuideTables` | the init and exit functions of 54 drivers | one record each |
| `ModuleLifecycle`, `LifecycleMC` | the kernel's view of one of them | walks the record, lets acquisitions fail, runs handlers as soon as they are installed |
| `PollEventsProofs`, `OwnWorkProofs`, `TextBufferProofs`, `ExclusiveOpenProofs`, `VinputProofs`, `LifecycleProofs` | - | theorems about the module of that name (`LifecycleProofs`: about `ModuleLifecycle`) |
| `InterruptProofs`, `ReaderProofs` | - | theorems about two independent models each, a handler that hands its work on (`ToggleLed`, `Completion`) and readers that compete for a device (`Bmp180`, `FlagRead`); `ToggleLed` and `FlagRead` name their parts `LedInit`, `FlagInit` and so on, so that each fits beside the other |

Granularity: a step touches shared memory once, or is one call of the kernel that holds a lock. Registers, logging,
message texts and the GPIO and IRQ numbers are left out. History variables (`presses`, `seen`, `got`, `messages`,
`taken`, `handled`, `toggles`, `quiet`, `unserved`, `strays`, `unended`, `cleared`, `own`, `plain`, `lost`,
`crossed`, `disturbed`, `raced`) record what the code does not; no action depends on them but through the bound of a run
(and `Vinput` stops at a `fault`).

Code of the kernel, modelled from the way the drivers use it and marked external in the map:

- `wait_event_interruptible` joins the queue, tests the condition again, then looks for a signal, then sleeps;
  `poll(2)` joins the queue once and asks the driver again after every wake-up and when its time is up.
- `complete` counts up to `UINT_MAX`, where `done` sticks, and wakes the first thread in line; the woken thread takes the
  count only when it runs. `reinit_completion` is a plain store of 0, `complete_all` a store of `UINT_MAX`.
- `kthread_stop` marks and wakes the thread and waits for its exit. Since Linux 6.0 it also leaves the thread a notification
  signal, which ends an interruptible wait with `-ERESTARTSYS` but not a plain one; the repository is built for 6.12.47
  (`06_character_device_driver/01_my_first_cdev/build.log:2`).
- `schedule_work` queues an item once, but again while it runs; `mod_timer` moves the expiry of an armed timer;
  `free_irq`, `del_timer_sync`, `hrtimer_cancel` and `cancel_work_sync` wait for the function they stop; `del_timer` does not.
- the kernel refuses a module only if its init function returns a negative value: with 0 or a positive value it stays.
- `class_create`, `device_create` and `kthread_run` report failure by an error pointer, which a test for NULL misses.
  `device_create` with such a pointer for its class fails in turn; `device_destroy` with one crashes (`ReleaseCrashes`).
- a character device in use holds its module (`.owner = THIS_MODULE`, or the cdev's owner), so rmmod waits for its files.
  `chardev.c` and `chardev2.c` set no owner, nor does `led.c` on kernels from 6.4 on: of their rows nothing is claimed that rests on it,
  since their file operations touch nothing of the table or they are not `Ordered`.
- `sysfs_remove_group` waits for the calls inside its files; memory of `devm_kzalloc` goes with the device.
- the kernel gives a read or write a copy of the file's offset and stores it back after the driver has returned, without
  a lock for a character device; pread and pwrite bring an offset of their own and store none.

## Runs

Most runs finish in seconds on two workers; `exclusive_open`, `text_buffer` and `vinput` take one to two minutes.

| Run | Question and answer | Bounds |
|---|---|---|
| `poll_private` | two threads with a file each: no sleeping call misses its wake-up, blocked calls return, and the driver implements `EventCursor` (each read of a private file consumes a press) | 2 threads, 2 files, 2 presses, counter mod 3 |
| `poll_shared` | two threads on one file, the counter wraps: the mask tells exactly whether presses are unread | 2 threads, 1 file, 4 presses, counter mod 3 |
| `flag_readers` | three drivers, two readers racing: no lost wake-up, each reader implements a cursor of `EventCursor` (no message without a new press), a raised flag is taken, a press is taken while a process is registered for SIGIO | 2 threads, 2 presses |
| `completion` | both kinds of driver: no press is processed twice, `_ex1` loses none, completions are taken, a press lets `_ex1` unload, and `my_completion.c` unloads without one | `UINT_MAX` = 3, 4 presses |
| `toggle` | both drivers, with bouncing and rmmod at any time: one toggle per interrupt at most, none lost, debounce waits for quiet, every interrupt is served | delay 2, 3 falling edges |
| `own_work` | five drivers, rmmod at any time: message and length belong together, a reader is never spun out by the handler, `my_exit` ends and is alone after its stops | 3 presses, the second message is longer; 3 samples; `UINT_MAX` = 3 |
| `text_buffer` | four drivers: the mutex is held exactly inside a call, no write leaves the buffer, reads return text, calls return | 2 threads that share an open file, buffer of 2 bytes, lengths up to 2, at any offset |
| `exclusive_open` | four drivers: one holder, one text, no lost wake-up, a free file is opened | 2 processes, 2 texts |
| `vinput` | exports, removals and rmmod of types in any order, every failure: minors are consistent, exports that overlap only each other are safe, the walk of rmmod goes from device to older device and ends | 2 administrators, one also opens a file, 2 devices, 2 types, 2 minors |
| `bmp180` | two readers, probe and remove at any time: an undisturbed read is within 0.1 degrees and 10 Pa, no reader is without a calibration | 2 readers, the data sheet's calibration, 3 weathers |
| `lifecycle` | 54 drivers, any acquisition may fail: for the `Tidy` ones nothing is left after rmmod, for the `Ordered` ones no handler runs without what it touches; for the `Careful` ones a refused load leaves nothing and nothing foreign is released; each row meets the conditions the theorems assume | none: the tables are finite |

Why the bounds are enough. The races are between one waiter and the handler, or between two waiters, and the threads are
interchangeable: a third one adds no kind of step. Two presses are the least that lets one come while another is being
handled; the shared file takes four with a counter of three values so that a whole turn is missed and passed. `UINT_MAX`
= 3 with four presses lets `done` reach the value where it sticks. `Delay` = 2 lets an edge fall in the middle of the
delay; three edges let one re-arm the timer while the callback runs and one come after. A buffer of two bytes can be
empty, half full and full, and a length of two asks for more than there is anywhere but at its start. One open file is enough
there: a second file of a shared buffer only adds an offset of its own, which pread and pwrite name anyway, and a
second file with a buffer of its own shares nothing but the mutex. Two devices, types and minors let the walk
of the list meet a device of the wrong type, and the bitmap be full. The weathers are the data sheet's example, a hot day at
high pressure and one below zero, so that signed coefficients, both branches of the pressure's division and both signs of
the temperature are met; the intermediate values stay below 2^31 there, so the width of the code's `long` plays no
part. Where numbers matter the proofs remove the bound. `MaxPresses`, `MaxEdges` and the counter of texts that `write`
of `chardev2.c` does not exceed are the only bounds in guards.

`poll_private` keeps `MaxPresses < Modulus`, since `NoLostWakeup` and `BlockedCallReturns` speak of presses that show in
the mask; what happens after a full turn is `UnreadExact` in `poll_shared`.

`CHECK_DEADLOCK FALSE` where the system really stops: a reader waiting for a press that no bound allows, a module that is
gone, threads that have exited, a `Vinput` behaviour that ended in a fault. The poll, buffer, exclusive-open and sensor
runs check deadlock.

Which drivers promise what is said in `LifecycleMC`. `Careful` leaves out those that lose an error pointer, return a
positive or a zero status after undoing, or whose labels forget something. `Tidy` leaves out the two whose buffer is never
freed (`07/01`, `19/01/test`, as `07_file_cdev_fops/01_file_ops/README-2.md` says itself), and `bottomhalf.c`, `kbleds.c` and
`completions.c`, which do not wait for a work item, a timer and two threads. `Ordered` leaves out the two of chapter 12 and
six of the guide, where a handler or an open file may use what is not there yet, or no longer.

What some properties exclude, and why: `ReadsAreText` speaks of the time before a text fills its
buffer without a zero (`unended`) or the ioctl clears one (`cleared`), since from then on the code reads what the last
caller left; `CopyIsOneMessage` compares the second look at `shared_len` only for reads no press fell into (`raced`);
`ExportsOverlapSafely` and `UnloadedTypeIsGone` speak of behaviours in which no removal met another administrator's work
(`crossed`); `IdsAreAccounted` lets the minors go that a failed `input_allocate_device` leaves set (`lost`);
`UndisturbedReadsTheWeather` speaks of reads into whose conversions no other fell (`disturbed`). What goes wrong behind a mark is
what the code does, and no property says otherwise; the properties say that nothing else does. Each mark is set only by
the event it is named for, and the runs reach states on both sides.

## Fairness

- A thread that can take a step in the kernel takes one, and a handler that has started finishes: weak fairness of each
  thread's steps and of the handler, what any scheduler and the interrupt entry guarantee. Time passes in `ToggleLed`.
- A process takes a pending SIGIO (weak fairness of `TakeSigio`).
- Locks are handed over: strong fairness of taking a mutex (`TextBuffer`, `OwnWork`) or a spinlock (`OwnWork`). The kernel's
  mutex hands itself to the first waiter once that has been passed over, and its spinlock is a queue.
- `hrtimer_cancel` looks again and again, and finds its timer between two callbacks (strong fairness of `Quiet`).
- An rmmod that has begun goes on. Whether it begins is up to the user.
- Nothing is assumed of presses, signals, new calls, time-outs, closing a file or unloading, nor of which thread a wake-up
  favours.

## Findings

No run contradicts what the repository says of its code; `my_completion.c:50-55`, that `kthread_stop` ends the interruptible wait,
is confirmed by `UnloadFinishes`. Remarks without a run of their own, met while modelling; the models contain the behaviour, and the properties are stated
around it:

- `my_poll.c:78` "mark this fd as up to date": of two threads that read one file the one with the older count may store
  last, and the file reads as new again. `EachReadConsumes`, which is proved, and `ImplementsCursor` are
  therefore stated of private files.
- `02_wait_queue/readme.md:199` "Each button press produces exactly one line of output": a flag merges presses.
- `12_gpio_irq/readme.md:565` "only stable state after 20ms is accepted": the comparison of line 77 also holds when the
  button reads 1 both times.
- `06/01` `my_cdev.c:44, 53` (and others) return a positive error: the module stays after its labels ran, and rmmod releases again.
- `07/01` `my_cdev.c:176` (and others) test the error pointer of `class_create` for NULL and hand it to `device_create`.
- `my_poll.c:225` (and `04_fasync`): the interrupt cannot be set up, `my_init` releases everything and returns 0; rmmod
  releases it again.
- `my_completion.c:178`: the second thread cannot be created, and the label leaves the first one running in a module that goes.
- `bottomhalf.c:142`, `intrpt.c`, `bh_threaded.c`: the second `gpio_to_irq` fails, and the label "cleanup what has been setup so
  far" (`bottomhalf.c:167`) leaves the first interrupt handler installed.
- `12/irq/irq.c:171` and `top_bottom_half/irq.c:119` install the handler before the timer or the work item it arms.
- `dht11.c:186` and `led.c` can be opened before their GPIO is requested and stay open past its release.
- `bottomhalf.c:194`, `kbleds.c:77` and `completions.c:74` return from the exit function while a work item, a timer's function
  or two threads may still run.
- `12_gpio_irq/readme.md:511` calls the exit of `top_bottom_half` "safe async teardown"; the LED is freed before the work is
  stopped.
- `sleep.c:120-122`: a signal queued for the process is not in `current->pending`; open then spins until the file is closed.
- `bmp180_i2c_driver.c`: readers of the two files overlap without a lock, and may print each other's conversions.
- `07/01` `my_cdev.c:98`: a write that fills the buffer leaves no zero for the `strlen` of the next read.
- `my_spinlock.c:63`: after a press between unlock and return the copy is longer or shorter than the message saved.
- `vinput.c:132`: an open file keeps its pointer to a device that is unexported.
- `vkbd.c:62`: the key is stored under the lock and reported after it; keys are not told apart in `Vinput`.
- `bmp180_i2c_driver.c:166, 194`: two divisors that nothing tests for 0.
- `my_poll.c:81`: a press is marked as read before `copy_to_user` can fail.
- `busy_wait.c:53`: a spinning reader does not look at signals, as the lesson's readme says itself.
- `sleep.c:44`: `finished` outlives the file: a reader that closes after its first read leaves the next one an end of file.
- `chardev2.c:105`: `write` copies without the flag; `plain` marks it and `OneText` speaks of the rest.

## Proofs

Checked by TLAPS for every value of the constants. The assumptions are the named `ASSUME`s of the modules (a modulus of
at least 2, natural bounds, a positive delay, a non-empty buffer), no more; the bounds on presses and edges are
arbitrary naturals.

- **`PollEventsProofs`**: `TypeCorrect`, `MaskIsExact`, `WakeupsAreNotLost`, `ReadsConsume`, `DriverImplementsCursor`,
  `NoMessageWithoutPress`.
  `UnreadExact` is not inductive alone: a stored count is exact because the register it came from was, so the invariant
  adds that the register of a reader in `store` holds its history's count reduced, and the same of every open
  file; `Calls` says that a thread in the driver uses an open file it holds a descriptor of. `WakeupsAreNotLost` adds that a
  thread past `prepare` is on the queue or was woken. `ReadsConsume` adds that a reader past its test on a private file has
  an unread press ahead, which only that reader could take away. The refinement maps the cursor to `seen` of the private
  open files: `ReadStore` is `Read`, `IsrCount` is `Press`, most others stutter. `NoMessageWithoutPress`
  carries an invariant of `EventCursor` over: its steps preserve it, so those of the driver do.
- **`InterruptProofs`**, about `ToggleLed`: `TypeCorrect`, `TogglesAreBounded`, `NoToggleIsLost`, `DebounceWaits`,
  `InterruptsStayPending`.
  `OneTogglePerInterrupt` counts what is pending and under way, which makes it inductive; `LedRead` adds that between the read
  and the write of the LED nobody else writes it while the module is loaded. `Debounced` ties the time left on the timer to the
  time since the last press. About `Completion`: `PressesAreAccounted`, `CompletionsHaveTakers`. While `presses < UINT_MAX`, `taken + done` never exceeds
  the presses, with equality where nobody reinitializes; `Reinitializers` says who does. That a completion always has a taker needs
  `Lined`: nobody is in line twice, only threads in the wait are, and whoever sleeps without having been woken is; so when
  `complete` finds the line empty, nobody sleeps. A thread whose wait fails leaves the line too. The lemmas before it say what appending to the line, taking its head and
  taking a thread out of it do to who is in it.
- **`OwnWorkProofs`**: `CopiesAreWhole`, `ExitComesLast`, `SpinlockIsSafe`, `AnnouncementsStay`, for any number of presses and
  samples and any `UINT_MAX`. The first two properties are not inductive: `Places` says where the threads of each driver can be, `Owner` that the lock is held by exactly the one whose
  place is behind it, `StoppedBehind` that each stopping call `my_exit` has returned from has its thread or handler at its end,
  and `LengthFits` that outside the handler's critical section the length is that of the text, which is what the copy under
  the lock relies on. For `SpinlockIsSafe`, `Interrupts` says where the handler can be on which processor: it enters only one
  whose reader does not mask it.
- **`TextBufferProofs`**: `OneInside`, `WritesAreBounded`, `ReadsReturnText`. `WriteSpan` bounds what a measured write will touch
  by the size; `ReadSpan` says that every place a measured read will return holds text. The latter is inductive because
  of the mutex: whoever writes a byte is the only one between lock and unlock, so no read is measured at that time. `CallsAreOpen`
  keeps a re-opened file's buffer out of the calls under way.
- **`ExclusiveOpenProofs`**: `OneAtATime`, `WakeupsAreNotLost`, `TextsAreWhole`, for any number of processes. `Bypassers` separates the calls of
  `chardev2.c` that do not ask for the flag, `Sleepers` says that only `sleep.c` has waiters, `Queued` that who is about
  to sleep is on the queue or was woken; the process that clears the flag goes on to the wake-up. For the texts, `Marked`
  says that a copy past the flag was marked, `Whole` that the message is one text unless a holder is half through a
  write, `Place` what a holder has read so far at each place of the code.
- **`ReaderProofs`**, about `Bmp180`: `ReadersHaveCalibration` and `UndisturbedIsRight`, for any number of readers. For the first, the files are there
  exactly while the device is bound, the calibration stays from before that until the release, and a reader inside holds
  the release up. The second splits what the run checks in two. That a reader nobody disturbed computes with the results of its own two
  conversions is proved (`PInv`: `Awaited`, the running conversion is that of a reader who waits for it; `Alone`, a reader who waits beside
  another is marked disturbed; `OwnResult`, an undisturbed reader finds, then holds, what the weather of its conversion gives).
  That the formulas turn these into the right temperature and pressure is the hypothesis `FormulasFit`, a statement about
  constants only, which the run `bmp180` evaluates on its weathers.
  About `FlagRead`: `FlagTypeCorrect`, `WakeupsAreNotLost`, `ReadersAreCursors`, `NoMessageWithoutPress`, for any number of readers.
  The refinement maps a reader's cursor to `got`: `IsrRaise` is `Press`, `Clear` is `Read`, everything else stutters. The strengthening
  `Owed`: while the flag is up, every reader is owed a press it has no message for, so whoever takes the flag takes it for
  a new press, which is what lets `Clear` move the cursor; `Queued` is as above.
- **`VinputProofs`**: `IdsAreNotShared`, `OverlappingExportsAreSafe`, `NothingIsLeftBehind`, `WalksDescend`, for any number of processes,
  devices, types and minors. There are three invariants. `Inv` holds however the administrators interleave: `Ages` numbers the devices in the order
  of the list, `Builders` says that devices being built have one builder and an input device nobody else touches, and that
  a device being taken away has lost its own. `AloneInv` holds while exports overlap only each other and each removal is alone among
  the administrators: whoever is at work is at a device of its own (`Apart`), every device on the list is complete or somebody is at it
  (`Built`), what each holds is still there (`Exporting`, `Removing`), and the walk of `vinput_unregister` has every device of
  its type at or behind its cursor, and every older device behind `next` (`Walking`). The last is why the walk may free
  the device it is at, and why it misses none. It needs that a finite set of ages has a greatest (`YoungestIsLast`, from
  well-foundedness of the naturals). `Descending` also holds for any interleaving: the device a walk noted as next is older than
  the one it is at, listed or not, since the list is in the order of the ages and a device keeps its age.
- **`LifecycleProofs`**: five theorems about every table of drivers, not only the present ones. Each assumes a condition on
  the rows that can be read off init and exit functions without running them, and that the run `lifecycle` evaluates
  on all 54 rows (`RowsKeepPromises`). `RefusedLoadsAreUndone`, `ReleasesAreOwned` and `LiveModulesAreComplete` assume that the labels of each
  `Careful` driver, read down to their return, undo exactly what is held at their step (`LabelsMirror`); their invariant
  `Stages` says what is held while loading, undoing, live and unloading. `UnloadReturnsAll` assumes that `my_exit` of each `Tidy` driver names
  what may be held or pending, stops code before what that code starts, and waits (`ExitReturnsAll`): during exit, what is left is
  named by the releases to come, whatever runs in between (`TidyStages`). `CodeFindsResources` assumes that each `Ordered`
  driver installs code after what it touches, and that no label and no exit function releases that before the code is stopped
  (`CodeIsFramed`); `OrderedStages` carries this along for what runs and for what that may start.

Only model-checked:

- all liveness, where TLAPS has no reach: `BlockedCallReturns`, `PressIsTaken`, `NotifiedPressIsTaken`, `CompletionIsTaken`,
  `PressUnblocksUnload`, `UnloadFinishes`, `InterruptIsServed`, `UnloadEnds` (twice), `ReadsReturn`, `FreeFileIsOpened`, `CallsReturn`. For most of
  them the fact about states that they rest on besides fairness is proved: `WakeupsAreNotLost` (poll, flag, exclusive open),
  `CompletionsHaveTakers`, `InterruptsStayPending`, `SpinlockIsSafe` for `ReadsReturn`, `AnnouncementsStay` and `WalksDescend` for
  `UnloadEnds`, `OneInside` for `CallsReturn`. `NotifiedPressIsTaken` has none that speaks of one state: whether SIGIO was
  sent for a press depends on when the process registered;
- the arithmetic of `Bmp180` (`FormulasFit`), on its three weathers: no prover here reasons about the chain of integer
  divisions;
- the conditions on the 54 rows (`RowsKeepPromises`), a statement about constants that TLC evaluates in full.

Proved and in no run of their own: the type invariants, `LiveModulesAreComplete`, `EachReadConsumes`,
`NoMoreMessagesThanPresses`, `UnservedIsPending`, `CompletionHasATaker`, `SpinsForAnother` and `AnnouncementsLast`.

## Not modelled

- `my_completion_ex3.c` beyond load and unload: its thread names a completion nothing declares, so it does not compile.
- `05`, the guide's `hello-*.c`, `print_string.c`, `start.c` and `stop.c` only log; `example_atomic.c` computes and logs.
- `16_spi` does one blocking transfer in probe and keeps no state; the ESP32 sketch runs on another board.
- The reads and writes of `procfs*.c`, `ioctl.c`, `led.c` and `hello-sysfs.c` copy a buffer or set a level, sequentially;
  `dht11.c` times the bits of its sensor in microseconds, which no untimed model says anything about.
- `syscall-steal.c` rewrites the kernel's table of system calls; what that does depends on the kernel's build.
- `kbleds.c`, `sched.c` and `example_tasklet.c` beyond load and unload: their deferred functions only log or blink.
- The levels `11_gpio_ctrl` writes to its LED once, at load and unload.
- The test programs: the models allow every sequence of calls they make.
- `*.mod.c` are generated; `lkmpg.tex` and the copies of its examples under `topics/` are text; `HALA_Academy`, `00`, `04`, `14`
  are notes.
- The C memory model beyond single loads and stores: a plain `int` or `unsigned int` is read and written in one piece, and in
  program order. The busy-wait loop `while (!data_available)` is taken to read memory on each turn, as `cpu_relax` makes it do.
- What happens after a use of freed memory in `Vinput`, and after a text without an end was read past in `TextBuffer`
  further than `Beyond` bytes.

## Plan

Left for later, in order:

1. A counting semaphore with reset as the abstract specification of `Completion`, with a refinement.
2. Keys in `Vinput`, to say of two senders which one is reported (`vkbd.c:62`).
3. `FormulasFit` for ranges of weather instead of three values.
