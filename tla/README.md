# Formal models of ZeroSlackr

TLA+ specifications of the parts of ZeroSlackr that are the project's own and
whose behaviour is hard to see from a test: the SansaLinux device drivers, which
share memory, registers and rings between interrupt handlers, two processor
cores and processes, and which retry against hardware that fails; the launcher's
control of the music daemon across restarts, reboots and power cuts; and two
pieces of arithmetic with many corners, the text reader's wrapping and the
clock's calendar.  TLC checks the models on small instances; TLAPS proves
the safety properties that hold there for every value of the constants, one of
them under a condition that section 5 names.

Paths below are relative to `src/`; `mach-sansa/` stands for
`base/Kernel/src/sansa/orig/kernel/patches/linux-2.4.24/arch/armnommu/mach-sansa/`.
`PROJECT.json` lists the components, runs, mutants, hazards, theorems and, for
every definition, the source lines it models.

## 1. The system and its parts

ZeroSlackr is an installation of iPodLinux and SansaLinux: a kernel, an image
with the user land, a graphical launcher and about thirty packs of ported
programs.  Nearly all of the 1637 files are vendored programs, their data, and
patches to them.  The code that is the project's own and has state of its own:

| Part | State | Operations | Talks to | What makes it correct |
|---|---|---|---|---|
| **Sound driver, playback** `mach-sansa/audio.c` | ring `dma_buf` with `r_off`, `w_off`, `dma_active` in on-chip RAM; the handler pointer; IISCONFIG, the FIFO, interrupt enables | `open`, `write`, `SYNC`, `GETOSPACE`, `close` on the CPU; `i2s_pp5020_pb_dma` as fast interrupt on the coprocessor | `hardware.c`/`cop.S` dispatch the interrupt; the I2S transmitter empties the FIFO | samples come out once each and in order; the copies miss unread slots; a write returns; what was written is played |
| **Sound driver, recording** same file | the same ring and words, `read_pos` | `open`, `read`, `close`; `i2s_pp5020_rec_dma` | as above | samples are read in order, overrun is reported, close ends |
| **Sound driver, codec and mixer** same file, `as3514.h` | shadow copies of the AS3514's registers, volumes, recording source | mixer `ioctl`s, `codec_init_*`, `codec_set_*` | I2C | the shadow agrees with the chip; volumes stay in range |
| **Buttons and wheel** `mach-sansa/keyboard.c` | ring of 32 events, `ikb_current_scroll`, `ikb_reading`, remembered pins | `keyboard_int`; `open`, `read`, `poll`, `release` of `/dev/wheel` | GPIO pins, the scheduler, any number of readers | no event or click lost, doubled or reordered; a waiting reader is woken; what is held down is what the driver says |
| **Flash** `mach-sansa/sd.c` | `initialized`, `current_bank`, `retry`; partition table `hd` | `sd_request`, `sd_read_sectors`, `sd_write_sectors`, `sd_select_bank`, `sd_init_device`, `sd_revalidate` | the block layer, the card | data goes where the request says, errors and retries included; every request is answered |
| **I2C bus, power, coprocessor entry** `mach-sansa/hardware.c`, `dma.c`, `cop.S` | bus lock, controller registers, two handler pointers | `sansa_i2c_*`, power off, reset, CPU speed | every user of the AS3514 | transactions are not interleaved; a time-out is reported |
| **Clock, battery** `mach-sansa/rtc.c`, `battery.c` | `pcf_rtc_isopen`, `days_in_month`; the codec's four clock registers | `RTC_RD_TIME`, `/proc/apm` | I2C | a time put together from four bytes of a running clock is near the time, the date is that time's, the percentage is a straight line between 0 and 100 |
| **Interrupt controller, timer** `irq.c`, `time.c`, `arch.c` | enable registers | mask, unmask, dispatch | all drivers | one-line register writes; their meaning is used in the models |
| **Frame buffer** `fb.c` | LCD power state, backlight | power up/down sequence, drawing | the console and frame buffer layers | the panel is driven only when powered |
| **Launcher, music daemon** `base/ZeroLauncher/src/mod/add-ons/mpd/mpd.c`, `src/patches/` to `mpdc.c`, `browser.c`, `ipod.c` | `MPD_ACTIVE`, the settings in memory and on disk, menu items, the processor's speed; the daemons | start, database update, "Kill MPD", "Initiate MPD", running a program with and without clean-up, reboot | podzilla2, the daemon's socket, `vfork`/`exec`, init | an update asked for is done; a daemon that runs is known, and shares the memory with a program by leave only; the menu comes up |
| **Launcher, text reader** `.../podread/podread.c` | the text's lines, `scroll`, `mode`, `autoscroller`, the saved line | opening (wrapping), wheel, buttons, menu, timer | podzilla2 | lines keep every newline and fit; the screen stays on the text; autoscroll arrives |
| **Launcher, file browser** `.../browser-ext/` | nothing beyond one call | listing, choosing how to open a file | the launcher's ways to run a program | |
| **User land tools and boot** `base/Userland/src` | | `backlight.c`, `cpu_speed.c`, boot scripts and images | kernel | fall-backs in the right order |
| **Loader2**, **kernel patches for the iPod**, **packs**, **libs** | | | | third-party code with patches, build and start scripts |

How they interact: the packs and the launcher use `/dev/dsp`, `/dev/mixer`,
`/dev/wheel` and the file systems on the flash; in the kernel the drivers meet
in three places, the I2C bus lock, the interrupt enables of the two cores and
the on-chip RAM that the CPU and the coprocessor share.  No driver calls
another one directly.  The launcher and the music daemon meet in a socket, in the
memory that both need, and in the settings file that outlives them.

### What is hard to test in it

* Two processors share the sound ring without a lock, and both read, modify
  and write one configuration register.
* An interrupt comes between any two accesses of `ikb_read`, which pushes into
  the same ring the interrupt pushes into and converts the counter the
  interrupt counts in.
* Sleeping and waking: the test for events must not lose a wake-up.
* The flash driver caches the selected bank, and the card may lose it; a retry
  starts from variables that the first attempt changed.
* Boundaries: a full ring, a reader at slot 0, seven bits of distance, the last
  block of a partition, the last second of a year.
* Sequences: opening the sound device while the old handler still runs,
  buttons that change while the hold switch is on.
* The launcher believes in one flag what a daemon does that comes up, fails and
  quits when it likes, and both are killed and restarted by scripts, reboots and
  power cuts.
* A clock that goes on while it is read byte by byte.
* Hand-made loops over characters and over years, each with its own off-by-one.

`PROJECT.json` lists each under `hazards` with its line and the properties
that watch it; a hazard without a property says why it has none.

## 2. Modules

| Module | Lines of code it models | Role |
|---|---|---|
| `SansaPlayback` | `audio.c` 372-418, 469-568, 571-662, 745-764, 804-838, 1009-1036 | the playback half of the sound driver on two processors |
| `AudioPipe` | | abstract: a bounded pipe of samples |
| `SansaPlaybackProofs` | | theorems about `SansaPlayback` |
| `MCSansaPlayback` | | instance for TLC |
| `SansaRecord` | `audio.c` 428-486, 542-567, 664-743, 1009-1036 | the recording half of the sound driver |
| `SansaRecordProofs` | | theorems about `SansaRecord` |
| `MCSansaRecord` | | instance for TLC |
| `SansaCodec` | `audio.c` 49-101, 139-241, 265-292, 326-337, 489-507, 563, 936-993, 1067-1106; `hardware.c` 194-342; `battery.c` 29-51; `rtc.c` 50-62 | the AS3514 behind the I2C bus, and everybody who uses it |
| `SansaCodecProofs` | | theorems about `SansaCodec` |
| `MCSansaCodec` | | instance for TLC |
| `SansaKeyboard` | `keyboard.c` 86-380, 492-605 | interrupt handler and readers of `/dev/wheel` |
| `EventQueue` | | abstract: a bounded queue of events |
| `SansaKeyboardProofs` | | theorems about `SansaKeyboard` |
| `MCSansaKeyboard` | | instance for TLC |
| `SansaSD` | `sd.c` 507-552, 619-937, 940-1057, 1290-1359, 1486-1508 | flash driver and card |
| `SansaSDProofs` | | theorems about `SansaSD` |
| `MCSansaSD` | | instance for TLC |
| `Launcher` | `mpd.c` 24-186; the patches to `mpdc.c` 47-114, `browser.c` 18-64, `ipod.c` 5-23; `Launch.sh` | the launcher, its daemon, its user |
| `LauncherProofs` | | theorems about `Launcher` |
| `MCLauncher` | | instance for TLC |
| `PodRead` | `podread.c` 41-56, 95-202, 276-414, 419-491, 525-574 | the text reader |
| `PodReadProofs` | | theorems about `PodRead` |
| `MCPodRead` | | instance for TLC |
| `SansaClock` | `rtc.c` 28-149, `battery.c` 53-104 | clock and battery |
| `SansaClockProofs` | | theorems about `SansaClock` |
| `MCSansaClock` | | instance for TLC |

The components do not call one another, so no module composes them; what
composes are the actors inside each: CPU, coprocessor and transmitter; pins,
interrupt and processes; driver and card; launcher, daemons, user and power; and
in `SansaCodec` four drivers that meet on one bus.

### SansaPlayback

A step is one access to a word of shared RAM or to IISCONFIG; everything an
actor does between two such accesses touches only its own locals and is part
of the step before it.  `pc` says where the CPU is in `open`, `write`, `SYNC`
or `close`, `cop` where the coprocessor is in the handler.  A read-modify-write
of IISCONFIG (`outl(inl(..) | bit, ..)`) is therefore two steps on either
side, with the value read in `cpuReg` or `copReg`.

| Actions | Code |
|---|---|
| `OpenReadOff` .. `OpenHandler` | `sansaaudio_open`, the stores one by one, `i2s_reset`, the handler and the interrupt enable |
| `WriteBegin`, `WriteLoop`, `CopyEnd`, `CopyStart`, `WritePublish`, `WriteTest` .. `WriteFifoOn` | `sansaaudio_write`: read `*r_off`, one or two copies, `*w_off = ..`, the test of `*dma_active`, starting the transmitter |
| `SyncBegin`, `CloseBegin`, `DrainTest`, `DrainDone`, `DrainSignal`, `CloseMask`, `CloseHandler` | `SNDCTL_DSP_SYNC`, `sansaaudio_close`, `sansaaudio_txdrain` |
| `FiqEntry` .. `FiqInactive` | `i2s_pp5020_pb_dma` |
| `Transmit` | external: the I2S transmitter takes a sample out of the FIFO |

Samples are numbered in the order in which the application supplies them, so
`dma_buf` shows which sample a slot holds.  Ghosts: `published` (samples that
`*w_off` has made visible), `pushed` (last sample given to the FIFO),
`overlap` (the last open met a handler that was still running), `opens`.
`MaxSamples`, `MaxCount` and `MaxOpens` bound what applications do.

Not in the model: sample rate and codec set-up, `copy_from_user` failures,
recording.

### SansaRecord

The device open for reading only.  Steps are as fine as in `SansaPlayback`, and
here both processors write `*r_off`, each with a load and a store
(`AdvanceLoad`, `AdvanceStore` on the CPU; `FiqOverLoad`, `FiqOverStore` in the
handler), so the interleavings include a store that undoes the other's.

| Actions | Code |
|---|---|
| `OpenReadOff` .. `OpenReset` | `sansaaudio_open`, which sets no handler for a reader |
| `ReadBegin`, `StartActive` .. `StartFifoOn` | `sansaaudio_read`, the part under `*dma_active == 0` that starts the recording |
| `ReadLoop`, `ReadPos`, `CopyOne`, `ReadCheck`, `AdvanceLoad`, `AdvanceStore`, `NoSignal`, `ReadSignal` | its loop: the two offsets, the copy sample by sample, the test for an overrun, the new `*r_off` |
| `CloseBegin`, `CloseTell`, `CloseDone`, `CloseSignal`, `CloseHandler` | `sansaaudio_close`: `*dma_active = 2`, then wait for 3 |
| `FiqEntry` .. `FiqInactive` | `i2s_pp5020_rec_dma` |
| `Receive` | external: the I2S receiver puts a sample into the FIFO |

A recording has no end, so samples are numbered modulo `NumIds` in the order
in which the handler stores them since the recording began, and every sample
of an earlier recording is `Old`.  Ghosts: `taken` and `user` (the last sample
stored, the last one handed out), `overrun` and `hit` (the ring ran over since
the recording began, or since `read` loaded `*r_off`), `mistaken` (it had not,
but the handler thought so), `interrupted` (a signal cut a close short),
`overlap`.  Whether the application asked for mono or stereo is chosen anew at
each interrupt.  Once `mistaken` holds, and in a recording that meets the handler
of another one, samples are no longer told apart, which only cuts down states
that no property about samples speaks of.  After an interrupted close the device
is opened, read and closed as at any other time, with whatever the handler has
left.

Not in the model: opening for reading and writing at once, setting up the
codec's inputs.

### SansaCodec

An operation of the mixer, the sound device, the clock or the battery is a list
of transfers over the I2C bus (`todo`), each under `i2c_lock_mutex`.  A process
gives way only in `down()` and in the `yield()` of `sansa_i2c_wait_not_busy`.
Between the `up()` that ends a transfer and the `down()` of the next nothing
runs, and `down()` takes a free semaphore past whoever sleeps on it, so an
operation that has the lock keeps it to its end: `GoOn` frees it only there.
What interleaves is what comes before: `as3514_write_or` and its like compute a
value from the shadow register and then wait for the lock, so that the value may
be stale.  `Load` takes the bits to keep when the code does: for the first
transfer when the operation begins, for the next ones as the ones before them
end, for the four of `as3514_set_master_vol` all at its start.

| Actions | Code |
|---|---|
| `SetPcm`, `SetLine`, `SetMic`, `SetRecSrc` | the four settings of `sansa_mixer_ioctl` |
| `OpenPlay`, `OpenRecord`, `Close` | what `sansaaudio_open` and `sansaaudio_close` do to the codec |
| `ReadAdc`, `ReadRtc` | `adc_read`, `as_rtc_read` |
| `Acquire` | the `down()` of a process that waited |
| `SendWrite` | `as3514_write`: the transfer, then the shadow register |
| `SendSelect`, `SendPtr`, `StartRead`, `Fetch`, `TimeOut` | `sansa_i2c_send_bytes`, `sansa_i2c_read_byte`, `sansa_i2c_wait_not_busy` |
| `Complete` | external: the controller and the codec end the transfer |
| `Boot` | `sansaaudio_hw_init`, at the next start |

A register of the codec is the set of its bits that are 1, of eight (`Byte`).
Its shadow is an int, which keeps what the transfer of a byte cuts off: one bit
more (`Word`) stands for all that are above the byte, since the driver's masks
are the complements of a few low bits and clear all of those or none.
`SOUND_MIXER_MIC` passes on any int.  Ghosts: `lost` (an operation wrote back
bits that another had changed), `crossed` (two that had loaded volume or source
before the lock met), `wide` (a level that overflows its field), `timedOut`.
Once `lost`, `crossed` or `timedOut` holds, operations under way end and none
begins until the next boot, and a bus that timed out hangs until then.

Not in the model: the levels that the mixer reports, the write of the backlight,
power-off and reset, and functions that nothing calls (line out, analog
monitor, end of recording).

### SansaKeyboard

The kernel is not preemptive: `cur` is the process inside it and `kpc` its
place in `ikb_read`; it gives way only in `schedule()`.  `KeyboardInt` is the
whole interrupt handler in one step, because nothing interrupts it, and may
come between any two steps of the process.  The push of `ikb_make_scroll_event`
is split as finely as the C statement `ikb_events[ikb_ev_head++] = ev` allows:
head is loaded, then head and the slot are stored in either order
(`PushLoad`, `PushHead`, `PushEvent`), then head is masked and the readers
woken (`PushWrap`).  The event it pushes is computed from two loads of the
counter, one for the sign and one for the distance (`ScrollSign`, `ScrollArg`).  `waiting` is the set of processes in state
TASK_INTERRUPTIBLE, `asleep` of those inside `schedule()`.

The ghost `loss` collects what the code cannot avoid losing and says so where
it happens: an event pushed into a full ring (`overflow`), while nobody has the
device open (`closed`), a distance beyond the event's seven bits or of the other
sign than the one just loaded (`wrapped`), and an interrupt inside a read's own conversion of the counter (`raced`).  The
properties hold outside the losses they name; section 4 says where the losses
contradict the code's own comments.

Not in the model: the scancodes sent to the console (`handle_scancode`).

### SansaSD

`pc` is the place in `sd_request`, `sd_select_device`, `sd_read_sectors` or
`sd_write_sectors`; `cardBank` is the bank the card itself has selected.  Each
command and each chunk may fail while `faults < MaxFaults`; a failing bank
switch or reset leaves the card in either bank.  `Bank` makes `start` relative
to the bank in place, as the code does, and `Fail` retries with that value.
Beyond the end of a bank (`TODO: Switch bank if necessary`) the card either
goes on or starts again at the bank's first block.  `BLKRRPART` clears the
partition table from its end, one entry at a time (`Revalidate`), enters the
whole card (`Regrok`) and then the partitions (`ReadTable`); requests come in
between, of other processes and for reading the table itself, and meet the table
as it is then.

Not in the model: decoding of the card's registers, the block layer's queue
(requests come one by one, which is how `sd_request` serves them), the
removable card, which the source compiles out.

### Launcher

The launcher is one process; `pc` says what it executes, and it waits only in
`updating` (for the update's process), `connect` and `reconnect` (`init_mpd`
repeats `send_command("")` until somebody answers) and `program`.  The daemon is
a process of its own: `starting` counts those executed that do not listen yet,
`listening` is the one that holds the port.

| Actions | Code |
|---|---|
| `Boot` | `Launch.sh`, `init` of the mpd module up to its branches |
| `UpdateRun`, `UpdateEnds`, `UpdateClear` | `init_db`: run `--update-db`, wait, clear the flag, save, reboot |
| `StartDaemon`, `Connect`, `InitMpdc` | `init_mpd` at start, then the patched `init_mpdc` |
| `Toggle` | the two settings, saved at once or with a later clean-up |
| `ForceKill`, `ForceInit`, `Reconnect` | "Kill MPD" and "Initiate MPD" of the patched `mpdc.c` |
| `Exec`, `ExecKill`, `ProgramEnds` | `mpd_check` before `pz_execv`/`pz_exec`; the variants that clean up first; scripts, which begin with `killall -15 ZeroLauncher` and after which init starts the launcher again |
| `Reboot`, `PowerCut` | `pz_ipod_reboot`, `pz_ipod_powerdown`; the power fails at any moment |
| `Listen`, `BindFails`, `Quit`, `Crash` | external: the daemon |

`vfork` without a binary falls through in the child: `hung`.  "Initiate MPD" when
the daemon was not enabled at start has no path to execute, and the child goes on
as the launcher in the same way.  Ghosts: `owed` (an
update was asked for, saved and has not been done), `failed` (the last one ran
and failed), `lost` (a daemon may run that the launcher lost track of: "Kill
MPD" left it running, or it came up after the launcher had stopped waiting),
`said` ("MPD process killed." is the last word).

Not in the model: the backlight, the loopback interface and `mpd.conf`, which
each start sets up the same way; the terminal and virtual-console handling of
`pz_execv`; a program without `killall` that is run after the clean-up ("Exit and
execute" of the file browser on any binary, `browser-ext.c` 149-156, and
FastLaunch, `ZeroLauncher.c` 29), after which the launcher would go on with the
settings it has freed.

### PodRead

One file is opened.  A pass of the loop of `make_wrappings` is a step:
`WrapNewline`, `WrapFits`, `WrapAtSpace` (back to the last space, tab or
hyphen), `WrapBigWord` and `WrapDone`.  A character is its width and whether a
line may end at it; `cpos` moves as the code's assignments and the loop's own
`cpos++` together move it.  `Grow` is the `realloc` at the head of a pass, which
comes one line late (`MustGrow`) and may move the array: from then on (`astray`)
`end` points into a block that was given back, and what the search for a break
finds in `end[-1]` may be anything (`EndBefore`).  `ends` is what is stored through
`end`, wherever that points.  Then `Wheel`, the buttons, `MenuMode`, `SaveLine`,
`LoadLine`, `Quit` and `Timer` move `scroll`, each clamping it in the code's
own order (`ByUser`, `ByTimer`), with the remainders of `TTK_SCROLLMOD` kept for
wheel and timer apart.  After `WrapDone` only the number of lines is kept,
because the lines themselves are only drawn.

Not in the model: drawing, what the stores past the array do to the rest of the
memory, error windows, and the window that leaving by the menu closes twice, which is the
toolkit's.

### SansaClock

`Open`, `Close`, `Ioctl`, `ReadByte`, `Convert` and `Return` are the user of
`/dev/rtc`; `Tick` is the codec's clock (external), which goes on between any
two of the four bytes.  `Convert` is the whole of the conversion, because
nothing else touches its variables: the loops over years and months are
recursive functions that take the code's tests as they stand
(`seconds > YEAR_SECONDS`, `is_leapyear` of a year counted from 1900).  `Apm`
reads the battery: the measure, the search in the table, the interpolation.
`SansaCodec` has how both wait for the bus.

## 3. What the runs check

`tlc -workers 2 -config X.cfg M` in this directory repeats a run.

| Run | States | Shows |
|---|---|---|
| `playback` | 0.4 M | every interleaving of CPU and coprocessor over two opens and five samples in a ring of three slots: `RingHolds`, `CopyLeavesUnread`, `SpaceIsRoom`, `PipeSpec`, the refinement of `AudioPipe`, and under fairness `WriteReturns`, `RingDrains` |
| `playback_drain` | violation | `DmaActiveAtDrain`: samples stranded behind an ending handler |
| `record` | 1.3 M | recording for ever through a ring of three slots, any reads, closes and signals: `RingContents`, `QuietAfterClose`, `SamplesInOrder`, and under fairness `CallsReturn` |
| `record_overrun` | violation | `OverrunIsReal`: the handler takes an emptied ring for a full one |
| `keyboard` | 0.2 M | one reader, three pin changes: `NoLostWakeup`, `EventsAddUp`, `ButtonsTracked`, `EventQueueSpec`, the refinement of `EventQueue`, and under fairness `EventsWakeReader` |
| `sd` | 0.2 M | two errors anywhere, the partition table cleared and read again at any time between requests: `BankAgrees`, `RequestServed`, `WritesStayInside`, and under fairness `RequestAnswered` |
| `sd_bank` | violation | `BankKept`: a retried write in a higher bank lands in bank 0 |
| `codec` | 0.6 M | two processes, every operation of mixer, sound device, clock and battery, three from one boot to the next: `ShadowAgrees`, `PathsOn`, `SettingsKept`, `ReadGetsRegister`, and under fairness `LockIsGivenBack` |
| `launcher` | 0.1 M | two cuts of the power, two failures, up to two daemons on their way: `UpdateNotLost`, `NoUnknownDaemon`, and under fairness `MenuComes` |
| `launcher_kill` | violation | `KilledIsKilled`: "MPD process killed." while it runs on untouched |
| `podread` | 0.2 M | every text of up to seven characters, then four actions of the user: `WrapRight`, `ScrollInText`, and under fairness `AutoscrollArrives` |
| `clock` | 1.3 M | every second of 22 years, every reading of the battery: `TimeRight`, `BatteryRight` |

Every property of a passing run has a mutant of the code that breaks it
(`mutants` in `PROJECT.json`; the mutated operators stand beside the originals).

### Bounds, and why they are enough

* **Playback.** A ring of 3 slots is the smallest in which the writer is ahead
  of, behind and level with the reader with room left, and in which a write of
  3 samples wraps, fills the ring and waits; 5 samples go once round it and on.  A
  FIFO of 3 with attention level 2 is filled by one mono sample (2 entries),
  so the handler takes both its exits.  Two opens let an open meet a handler
  of the previous one.  The theorems hold for every ring, FIFO and sample
  count, so the bounds only limit what is not proved (liveness).
* **Recording.** In a ring of 3 slots, with a FIFO that a single mono sample
  fills, the handler runs the ring over while a read of two samples is between
  any two of its steps.  Numbers modulo 4 tell the samples in a ring of 3
  apart; the length of a recording has no bound.  The safety theorems hold for
  every ring and FIFO.
* **Keyboard.** 3 slots hold 2 events; 3 pin changes fill and overrun the
  ring, and include press and release of a button, both moves of the hold
  switch and clicks both ways.  Distances are kept modulo 3, so that they wrap
  within the bound.  One button suffices: `EventsAddUp` and `ButtonsTracked`
  speak of one button and the hold switch, and the code treats the five alike.
  One reader, because a second makes the instance several times larger; the
  safety properties are proved for any number.
* **Codec.** Three operations from one boot to the next: one to bring the codec
  into a state (a device open, a source selected), two that overlap.  More
  processes would only wait for the same lock.  The volumes are both ends of
  the scale, each with the other channel's opposite; the levels lie in each
  range of the microphone's gain, fill their field, and overflow it; the
  microphone's go beyond a byte and below zero.  The safety theorems hold for any
  processes, volumes, microphone levels and number of operations.
* **Flash.** Two banks of two blocks: a request inside a bank, in the second
  bank, across the two; a partition in the second bank.  Two errors cover an
  error during the recovery from an error.  Two data values tell blocks apart.
* **Launcher.** Two power cuts and two failures: one during an update, one during
  the recovery from it.  Two daemons on their way are the second that finds
  the port taken.  Menu actions, programs and reboots have no bound.  The
  safety theorems hold for any of the bounds.
* **Text reader.** Lines of four units, a letter of two, a space of one, a tab
  stop every three: texts of seven characters make up to seven lines and have
  words that fit, words that are chopped, breaks at space and tab, and
  newlines at every place, the end of a full line included.  One line end is
  allocated for every two characters, and two more when those are not enough, so
  that texts stay within the first room, fill it, overrun it and grow more than
  once.  A screen of two
  lines has texts shorter and longer than itself.  Five actions are enough to
  open, choose the autoscroll mode, set a speed of either sign and go on.
* **Clock.** Days of 8 seconds, hours of 4, minutes of 2: the calendar is the
  code's, with every second of 1980 to 2002 (past the year 2000 and two leap
  days beyond year 96), and bytes of 16 values, so that one second carries over
  up to four of them.  One tick while the clock is read.  Every reading of the
  ten-bit converter.  `TimeIsRight` is proved for any number of ticks and every
  second that the counter can show, which is up to February 2116.

### Fairness

* `SansaPlayback!Fairness`: each processor takes its next step, and the
  transmitter runs on its clock while it is enabled.  Applications and signals
  promise nothing.  The busy CPU and the coprocessor are separate hardware.
* `SansaRecord!Fairness`: the same, with the receiver in place of the
  transmitter.  `CallsReturn` for a read ends at an overrun: a reader that polls
  may then look, each time, in the few steps in which the handler has the two
  offsets level, and nothing but timing prevents it.  It promises nothing after a
  close that a signal cut short, until an open has made that good (section 4).
* `SansaKeyboard!Fairness`: the interrupt is taken; the process in the kernel
  goes on; a woken process is scheduled eventually even if others run in
  between (strong fairness of `Resume`, which is what a scheduler that starves
  nobody gives).
* `SansaCodec!Fairness`: the process that has the lock is run, and its waiting
  ends with the transfer or with `POLL_TIMEOUT`, because jiffies go on.  The bus
  itself promises nothing.
* `SansaSD`: the driver busy-waits with a bounded number of polls, so its next
  step comes (`WF_vars(Step)`).  Errors are finitely many by `MaxFaults`, which
  is the assumption of `RequestAnswered`; without it the code retries for ever
  (section 4).
* `Launcher!Fairness`: the launcher, the update and the daemon are processes that
  the kernel runs.  The user, programs, failures and the power promise nothing.
* `PodRead`: the wrapping is a loop (`WF_vars(Wrap)`), the timer periodic
  (`WF_vars(Timer)`).

### Exceptions named in the properties

A property that the code does not give in all cases says which cases it leaves
out; a run marked violation or section 4 shows that they are real:

* playback: `overlap` (an open that meets a running handler); `Stranded` and
  `Stalled` in its liveness;
* recording: `overlap`, `overrun`, `hit`, `mistaken`, `interrupted`;
* keyboard: `loss`;
* codec: `lost`, `crossed`, `wide`, `timedOut`; of a shadow register only the low
  eight bits;
* flash: `Crosses` and `Relocated`;
* launcher: an update that ran and failed (`failed`), a daemon that is `lost`,
  and for `MenuComes` a daemon that is gone before it answered (`NobodyComes`)
  or whose binary is missing (`hung`);
* text reader: a text of more lines than its array was first allocated for; a
  text shorter than the screen may be out of sight; a newline in
  front of which a line was broken; the first character of a line after a break
  is not measured, nor is the space at which it is broken; a speed of -1;
* clock: no upper bound when the lowest byte carries; `Ahead` and `YearBefore`.

## 4. Disagreements between the code and what it says

Each is a finding in `PROJECT.json` with its run.

1. `txdrain` takes an inactive dma for an error, but the handler clears
   `dma_active` after its last look at the ring; a write in between is
   stranded, and SYNC and close return without playing it (`playback_drain`).
2. "check for buffer over run": the CPU may empty the ring between the
   handler's store to `*w_off` and its test, and the handler then moves
   `*r_off` past `*w_off`: the reader gets a ring of old samples
   (`record_overrun`).
3. Bank switching and retry: `start` stays relative to its bank, the retry
   takes it for absolute and addresses bank 0 (`sd_bank`).
4. "MPD process killed.": `force_kill` clears `MPD_ACTIVE` before it calls
   `kill_mpd`, which does nothing unless `MPD_ACTIVE` is set; the daemon runs on
   and the launcher has lost it (`launcher_kill`).

More was seen with the same models and has no run.

*Sound.* "mask the interrupt" in
`sansaaudio_close` writes to the register that sets enable bits; after a real
overrun `read` has handed samples out but leaves `*r_off`, so that it hands
some of them out again (`SamplesInOrder` stops at `overrun`).
Both processors read, modify and write IISCONFIG (`audio.c` 381-415, 656-657):
the store of one takes back the bit that the other has set in between, and
playback stops with samples in the ring, the transmitter or its interrupt turned off
(`Stalled`: without it in their left sides `WriteReturns` and `RingDrains` fail).
An open resets the offsets although the handler of the previous open may still
run, which then plays or stores by the new ones (`overlap`).
A signal that cuts a close of a recording short (`audio.c` 554) leaves the handler
running into the next open, and a read of that one may wait for ever
(`interrupted`: without it `CallsReturn` fails): `read`'s own read-modify-write of
IISCONFIG (688, 691) may take back the enabling of the interrupt by the handler
that is just leaving (442), or that the receiver which `read` has turned on, or the
handler stores its last 3 in `dma_active` (464)
after open has stored 0 there (480), so that `read` finds a recording under way
(674) and starts none.

*Buttons and wheel.* "dropping event" (`keyboard.c` 135-141): the full ring drops
not the new event but all that wait, because head comes level with tail
(`overflow` in `SansaKeyboard`).  The distance of a
scroll event keeps seven bits of a counter that has more (`wrapped`), and its sign
and distance are from two loads of that counter.  "We allow multiple opens, even
though multiple readers will compete for events" (`keyboard.c` 317-321): with two
readers the first to leave clears `ikb_reading` (298) although the other still
waits, and what the wheel counts from then on reaches that one only with the next
button.  No property is stated about this, because with one reader the case
does not arise.
"Read initial buttons" (`keyboard.c` 587) is forgotten by the
lines after it, so that a button held at start is not known (`ButtonsTracked`
fails with `BootPins # {}`).

*Codec.* Line and microphone levels go up to 100, but their
field has five bits, "0 .. 23 .. 31", and the rest of the number lands in the
bits beside it, which select the recording input and unmute it (`wide` in
`SansaCodec`).  The microphone's level is not even limited to 100
(`audio.c` 986-993): `as3514_write` sends its low byte (73) but keeps all of
it in the shadow register (84), from where the excess goes into every later
value of the register, to be cut off again.  The volume's "max 47" (`audio.c` 960) is 49.  A volume change
that waits for the bus while the device is opened or closed writes back what it
had loaded before, and the headphone stays off or on (`lost`).  `as3514_write`
sets the shadow register even when the transfer failed (`timedOut`).

*Flash.* `retry_max`: every attempt resets the counter (`sd.c` 812-816), so that
a card that does not recover is retried for ever.

*Launcher.* A failed update clears its flag like one that was done (`mpd.c` 121-122).
After "Kill MPD" the processor stays at the daemon's speed.  Without the
daemon's binary the child of `vfork` goes on as the launcher.  A daemon
that fails before it answers leaves the launcher in `init_mpd`'s loop.

*Text reader.* `make_wrappings` allocates an end for every twenty characters and
looks for room one line late (`podread.c` 423): end number `bufsize/20` is stored
behind the array, in any text with more lines than that.  The `realloc` that
follows may move the array, but not `end`: that end's successors are stored in the
block given back, the search for a break reads `end[-1]` there (450, 453), and the
array that is returned lacks them.  `WrapRight` speaks of texts with no more
lines than there is room for at first.  What follows the last newline or break is never shown, unless it
is itself broken.  A newline in front of which a line is broken is passed over.
NEXT and the wheel scroll a text shorter than the screen out of sight, and
its line, then negative, is saved as unsigned.  At speed -1 the timer's count
goes up again with every tick, and the text does not move.

*Clock.* The first second of a year after one of 365 days is given as the year
before, with no month found (`seconds > YEAR_SECONDS`).  `is_leapyear` is asked
about the year counted from 1900, takes 100 for no leap year, and 2000 was one:
every date from 29 February 2000 on is a day ahead.  `tm_mday` counts
from 0, unlike that of `struct rtc_time` elsewhere, which counts from 1.  A second that carries from one byte to the next while the four
are fetched gives a time up to a byte's weight ahead.

## 5. What is proved

`tlapm M.tla`, for each module M whose name ends in `Proofs`, checks all of it.
Nothing is assumed but the named assumptions on the constants, which TLC
evaluates in every run: `PlaybackAssumption` (a ring of at least two slots, a
FIFO of at least two entries whose attention level leaves room for a mono
sample), `CodecAssumption` (`None` is no process, volumes and line levels are
percentages, as the mixer clamps them, microphone levels any integers),
`RecordAssumption` (the same of the receiver, and numbers that tell the samples of
a full ring apart), `KeyboardAssumption` and `SDAssumption` (sizes are positive,
the partitions lie on the card), `MinorsAssumption` (minor devices are numbers), `LauncherAssumption` (bounds are numbers),
`PodReadAssumption` (a line holds two characters, or a tab and a character; tab
and newline are no other characters), `ClockAssumption` (units divide one
another, the clock starts within its four bytes, and these run over before
2120: 2^32 seconds of days of 86400 do, in 2116).

| Theorem | Says |
|---|---|
| **SansaPlaybackProofs** | |
| `TypeCorrect` | `Spec => []TypeOK`; in particular the FIFO is never overfilled |
| `RingInvariance` | `Spec => []RingInv` |
| `RingIsFifo` | `RingHolds`: what is in the ring, and that nothing is lost |
| `NoDataRace` | `CopyLeavesUnread`: the copies miss every unread slot, without a lock |
| `PushesInOrder` | `PushInOrder`: each sample is pushed once, in order |
| `PlaybackImplementsPipe` | `Spec => PipeSpec`: the step refinement of `AudioPipe` |
| `SpaceIsTheRoom` | `SpaceIsRoom`: GETOSPACE reports the room that a write would have |
| **SansaRecordProofs** | |
| `TypeInvariance`, `TypeCorrect` | `Spec => []TypeOK`; in particular the handler never takes a sample from an empty FIFO |
| `ClosedIsQuiet` | `QuietAfterClose`: nothing of the handler is left after a close that no signal cut short |
| `RingInvariance` | `Spec => []RingInv` |
| `RingIsRecording` | `RingContents`, with two writers of `*r_off` and no lock |
| `SamplesComeInOrder` | `SamplesInOrder`: each sample once and in order, until the ring runs over and while no open met a running handler |
| **SansaCodecProofs** | |
| `ShadowsAgree` | `ShadowAgrees`: the low eight bits, for any number of processes and operations and any microphone levels, with `BusOK`, the types of the transfers |
| `ReadsGetRegister` | `ReadGetsRegister`: who reads gets the register it asked for |
| `TypeCorrect` | `Spec => []TypeOK` |
| `PathsStayOn` | `PathsOn`: an open device is not muted or powered off by what others set |
| `SettingsStay` | `SettingsKept`: what the registers hold when all is quiet is what was set |
| **SansaKeyboardProofs** | |
| `TypeCorrect` | `Spec => []TypeOK`; in particular the head is past the ring's end only within a push |
| `NoWakeupLost` | `NoLostWakeup`, for any set of readers |
| `ButtonsAreTracked` | `ButtonsTracked`, if no button is held while the driver starts (`BootPins = {}`; section 4 says why that is needed) |
| `EventsAreQueued` | `Spec => EventQueueSpec`: the step refinement of `EventQueue`, for any ring and any readers |
| `EventsAdd` | `EventsAddUp`, for any ring and any readers |
| **SansaSDProofs** | |
| `TypeCorrect` | `Spec => []TypeOK` |
| `FlashInvariance` | `Spec => []FlashInv` |
| `BankAgreement` | `BankAgrees` |
| `ServedRight` | `RequestServed`: a request read or wrote the blocks it names |
| `WritesStayInRequest` | `WritesStayInside`: no other block, no other partition |
| **LauncherProofs** | |
| `TypeCorrect` | `Spec => []TypeOK` |
| `UpdateKept` | `UpdateNotLost`, for any number of power cuts, restarts and failures |
| `DaemonsKnown` | `NoUnknownDaemon`, for any number of daemons, too |
| **PodReadProofs** | |
| `ReaderInvariance` | `Spec => []IInv` |
| `TypeCorrect` | `Spec => []TypeOK`, for any text, font and screen |
| `NeverScrolledAway` | `ScrollInText` |
| `LinesFollow` | two parts of `WrapRight`: `LinesInOrder` and `NewlinesEndLines` while a text is wrapped, as long as the first array has room |
| `LinesAreRight` | all of `WrapRight`: the lines fit, too, for any text, font, screen and first array, as long as it has room |
| **SansaClockProofs** | |
| `ClockInvariance` | `Spec => []IInv` |
| `TypeCorrect` | `Spec => []TypeOK` |
| `NeverBehind` | the first part of `TimeRight`, however long the read of the four bytes takes |
| `TimeIsRight` | all of `TimeRight`: the date is right for every second that the counter can show |
| `BatteryStraight` | `BatteryRight`: search and interpolation are one straight line |

**Playback.**  `RingHolds` is not inductive: to know
that a copy leaves it true one has to know where the handler can be.
`RingInv` adds four parts.  `OpenInv`: during an open without overlap the
handler is idle, so the three stores of open cannot be seen half done.
`WriterInv`: `write_off_current` equals `*w_off` except between the copies and
the store to `*w_off`, where it is ahead by exactly the samples copied, and
these still fit.  `CopyInv`: the handler is somewhere between the old value of
`*r_off` that the writer holds and `*w_off`, so that the room computed from
the old value is still free; and the copied samples are in place.
`HandlerInv`: between its test of the ring and the store to `*r_off` the
handler has a sample to push that nobody takes away.  The lemmas about `Used`
and `InPart` (arithmetic of a ring) carry the proof: advancing either end by
one or by n changes the number of used slots by that much, and a slot added at
one end was not there before.  `SpaceIsTheRoom` is the arithmetic of GETOSPACE
in every case of the wrap; it needs no more than the types.

**Recording.**  `CallsInv` says who runs.  The word `dma_active` goes from 1 to 2
to 3, and each call of the CPU knows from it where the handler can be
(`WatchInv`), so that after 3 nothing is left running.  `RingInv` has
two regimes.  Until the ring runs over only `read` moves `*r_off`, and the
samples stored since the last one handed out are those between the offsets, with
the samples of a pass not yet taken off counted in (`PassInv`, `HoldInv`).  From
the first overrun on two processors move `*r_off`, and a store of
one may undo the other's, after which the offsets no longer tell what has been
read.  But then every slot holds one of the last `BUF_LEN` samples, each at the
place that its number says, so that no move of `*r_off` can uncover anything
else.  The step from the first to the second is the handler's test, which finds
the offsets level: the ring is full, unless it is empty (`mistaken`).

**Codec.**  `ShadowAgrees` is inductive together with `BusOK`, which says what the
transfers left to do look like: only a write names one of the mixer's registers,
and a process that has the lock has a transfer left.  Every operation begins
with a list of such transfers (`MasterVolType` .. `ReadersType`), and loading
values and expanding calls keep it one (`LoadListType`, `ExpandType`).
`ReadsGetRegister` adds what each reader has left to do: its list is a tail of
the operation's, and the one that has the lock has told the controller its
register (`ReadInv`).  `PathsStayOn` needs to know how far an open has come: at
each stage what it has turned on is on, and what it has not is still in its list
(`OpeningGood`); and everybody else's transfers leave these bits as they are
(`LooseInv`).  For `SettingsStay` the field of each register is settled, and
whatever is left to be written to it is the setting it shows, or a change to it
is pending, and a transfer that makes it is left (`FieldInv`).  Operations that
load a setting before they wait do not meet until `crossed` holds (`SelInv`), and
an open for recording, which writes other bits of the register that selects the
source, selects the source last (`OpenerInv`).

**Keyboard.**  `NoLostWakeup` speaks of sleeping processes only.  `WakeInv` adds
the process that is about to sleep: between its test of the ring and
`schedule()` an interrupt that makes events available has taken it out of
`waiting`, so that `schedule()` returns at once.  For the buttons, `PinsInv`
relates three memories: what the handler remembers of the pins, what it has
told readers (`ikb_buttons_pressed`), and the pins themselves, with which the
first two agree whenever no edge waits to be handled, those of the buttons
only while hold is off.  The refinement `EventsAreQueued` hides a push in
progress: `StoreInv` says what the slot and the head hold half-way through
`ikb_events[ikb_ev_head++] = ev`, in either order of the two stores, and that
nothing but an overflow or an interrupt within that push reaches them.
`EventsAdd` speaks of sums over the ring and of the last waiting event about a
button; that an event at either end changes them as it should is shown for the
recursive function that sums.  `FlagInv` is what it needs of `ikb_reading`: while
it is set somebody sleeps or is in the kernel.

**Flash.**  `FlashInv` follows one request.  `RequestInv`: once the bounds test is
passed the request lies in its partition, whatever happens to the table.
`CacheInv`: the cached bank is the card's except while an error is being dealt
with, and a card in error is initialised before it is used again.
`StartInv`: what `start` means at each place, absolute or relative to its bank.
`DataInv`: the blocks moved so far are the request's.  The address arithmetic
(`InBankLemma`, `AddressLemma`) shows that a bank and a place in it name the
block they were computed from.

**Launcher.**  `UpdateNotLost` needs one thing more: after an update the debt is
paid or the update has failed, so that clearing the flag forgets nothing
(`UpdateInv`).  `NoUnknownDaemon` speaks of a daemon that runs; `DaemonInv`
speaks of those on their way as well, because they may come up at any place,
and says that a plain program leaves the launcher's belief as the menu that
follows it needs it.

**Text reader.**  What is said of the lines is said as long as their number is
`Within` the room first allocated: there the array has not grown, and `end` has
not gone astray.  `IInv` adds to the types what the loop knows between two passes
(`Moving`): `cpos` is never behind the start of the current line, at the start
nothing has been measured, and one character after it at most one character's
width has.  From these and the assumption on the widths a word that does not
fit is at least two characters long, so that chopping it leaves a line that is
not empty: that is where an off-by-one would make the loop run for ever.  The
newlines before `cpos` all end lines because `cpos` passes over one character
at a break and no other.  For the width, `Narrow` says that `xpos` has counted
every character of the current line but its first: chopping a word or going
back to a space leaves a part of what was counted, which `WidthGrows` says is no
wider.

**Clock.**  After i of the four bytes, what has been read and the bytes above it in
the counter as it is now (`High(i)`) are together not before the beginning of the
read; a tick can only add to them.  `ByteInv` is the converse: a byte that was
read is still the counter's unless a byte above the lowest has carried since.  The
date is that of `SecondsOf` because the loop over the years subtracts what the
calendar has for a year, less one day that the year 2000 has more
(`YearsRight`, `AheadLemma`), because the loop over the months stops in the
month that the rest lies in (`MonthsRight`), and because days, hours, minutes
and seconds divide what is left (`PartsLemma`).  Three ways to leave the loop
over the years remain: within the year (`WithinRight`), more than 365 days
(`AfterRight`, the first day of the next year), and the second that
`YearBefore` names (`LastSecondRight`).  The battery's proof goes through the ten
intervals of the table: in each the interpolation is the division by 9 that
the whole line is.

*Recursion.*  The library's induction theorems take an operator as a parameter,
which the provers cannot instantiate.  Where a theorem needs what a recursive
function computes (sums of clicks, widths of a line, the loops of the calendar)
the induction is over a set: one that has 0 and with each number the next has
them all, because otherwise what it lacks has a least element (`NatSteps`,
`Least`, from `WFMin`).  That a function satisfies the recursive equation is
itself shown so, first for its values up to each number, then for all.

Only model-checked: liveness (`WriteReturns`, `RingDrains`, `CallsReturn`,
`EventsWakeReader`, `LockIsGivenBack`, `RequestAnswered`, `MenuComes`,
`AutoscrollArrives`), because TLAPS has no proof rule here for fairness and
ENABLED.  `ButtonsTracked` is proved under the condition above and is false
without it.  The runs that expect a violation
are no theorems.

## 6. What is not modelled, and what is left

Nearly all of the repository is third-party code: ports and emulators, their
vendored sources and headers, prebuilt libraries, patches to a boot loader and to
a kernel that are not themselves part of it.  What is modelled is most of what the
project wrote and what keeps state from one call to the next.

Left, in the order of what it would add:

1. Opening `/dev/dsp` for reading and writing: both handlers share the ring, its
   offsets and `dma_active`, and close waits for a 3 that only the recording
   handler stores (`audio.c` 545-557), so that a descriptor that only played
   never closes.  It needs the two halves in one specification: `SansaPlayback`
   and `SansaRecord` are separate, each with its own samples and ghosts, and their
   product is beyond what TLC explores with both at today's granularity.
2. The boot scripts (`base/Userland`, the init scripts of the images): sequences
   of "try this file, else that one" without state beyond the file system, run
   once by a shell.  A model would list the same lines again.

Not planned: the frame buffer (`fb.c`: pixels, and a power sequence of register
writes in one order), the interrupt controller, timer, reset, power-off and
clock set-up (register writes whose meaning the other models use), `cop.S` beyond
the hand-over that the sound models start from, the file browser (no state beyond
a call), `backlight.c` and `cpu_speed.c` (writes to registers and devices), Loader2, the iPod kernel
patches, packs and libraries.
