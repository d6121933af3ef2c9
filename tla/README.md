# A TLA+ verification project for the MA35D1 display and USB PHY drivers

The repository is a working tree for bringing the Nuvoton MA35D1 to the mainline
kernel. Its own logic is small and sits in a large copy of mainline code:

* two display drivers for the same controller family, `drm/verisilicon` and
  `drm/nuvoton`, both on top of the DRM atomic helpers and the DRM vblank core;
* two PHY drivers, `phy/nuvoton`, that share USB PHY0, below `dwc2` (gadget) and
  the generic EHCI and OHCI drivers (host).

Of the code around it two parts are modelled for their own sake, because they are
small, self-contained and concurrent: the vblank works and the GPU scheduler.

The hard behaviour lies where these meet the helpers: commits that overlap,
interrupts and timers that race with them, plane state that is changed in place,
and two drivers that reset one PHY. That is what is modelled here.

## Inventory

| Part | State | Operations | Hard because | Correct if |
|---|---|---|---|---|
| vblank works, `drm/drm_vblank_work.c` | pending list, target counts, cancel counters, the worker's queue | schedule, reschedule, cancel, flush, run from the interrupt, cancel at vblank off | four ways off one list, self-arming works, sleepers | references balance; a cancelled work stays cancelled; nothing runs while the pipe is off; no flusher is forgotten |
| GPU scheduler, `drm/scheduler` | job queues, run queue, pending list, credits, timer, fences | push, run, free, timeout, reset, resubmit, flush, kill, teardown | seven actors on one list of jobs; resets restart what others stop | jobs are started in order and within the credits, ended once, freed once; flushes return |
| vblank core, `drm/drm_vblank.c` | reference count, enabled, in-modeset flag, count, event list, disable timer | get, put, on, off, interrupt, timer, wait/query/queue ioctls | two spinlocks, lock-free samples, late interrupts, timer | references balance; a queued event is sent; every frame is counted once; nothing is on inside a modeset |
| atomic helpers, `drm/drm_atomic_helper.c` | current states, commit list, `hw_done`, `flip_done`, `cleanup_done` | setup, swap, tail, wait for vblanks, cleanup, async commit | commits overlap after `hw_done`; each waits for something another one does | no deadlock, one flip in flight, no access to freed states |
| Verisilicon CRTC, bridge, primary plane | pixel clock, panel, hold bit, framebuffer address | begin, flush, enable, disable, set mode, update | order of hooks differs on the way up and down; two chip generations | clock outlives its users; between commits hardware is what the state says |
| Verisilicon cursor | cursor registers with narrow fields | check, update, enable, disable | edges of the screen and of the fields, order of the hooks | what is shown is the cursor committed last, at its place |
| Verisilicon probe and chip table | resources, interrupt, `drm_dev` | probe, remove, shutdown, lookup | interrupt against half-built or half-removed device | not modelled, see below |
| Nuvoton planes, `ma35_plane.c` | enable bits, addresses, cursor position and hotspot | update and disable hooks, asynchronous cursor update, legacy cursor ioctl | state changed in place next to commits; registers written only on a difference | hidden is off, shown is placed, no released framebuffer is scanned out |
| Nuvoton CRTC, interface, driver core | clock, timing, gamma, software counter | mode set, gamma, enable, disable, probe | shared configuration register | its vblank side in `DrmVblank`; the rest not modelled |
| PHY drivers, `phy-ma35d1-usb2.c`, `phy-ma35d1-otg.c` | POR, SUSPEND, clock-stable bits, clocks, counts, role | bring-up, power off, role set and get | no common lock, ID pin changes at any time, polls time out | never stuck in reset, clocks balanced, everything ends |
| dwc2, EHCI/OHCI, rest of DRM, other drivers, device trees | | | mainline or third-party copies, data | not modelled, see `PROJECT.json` |

Interaction: user space submits commits and ioctls to the helpers; the helpers
call the driver hooks in the order of `drm_atomic_helper_commit_tail`; the hooks
call the vblank core (`drm_crtc_vblank_on`, `_off`, `_atomic_flush`); the
interrupt handler calls `drm_handle_vblank`, which sends events and through them
completes `flip_done`, on which the next commit waits. On the USB side dwc2 calls
the gadget PHY driver, the USB core calls the host PHY driver for each host
controller, and both write one register. The scheduler stands alone: a rendering
driver pushes jobs, the scheduler calls its `run_job`, `timedout_job`,
`cancel_job` and `free_job`.

`PROJECT.json` lists the hazards line by line with the properties that watch them.

## Modules

| Module | Models | Extends |
|---|---|---|
| `DrmVblankCore` | functions of `drm_vblank.c` on `struct drm_vblank_crtc`, as operators on a record | |
| `DrmVblank` | one pipe with handler, timer, commit thread and user tasks | `DrmVblankCore` |
| `DrmVblankCoreProofs` | contracts of those operators (lemmas) | `DrmVblankCore` |
| `DrmVblankProofs` | theorems about `DrmVblank` | `DrmVblank`, `DrmVblankCoreProofs` |
| `DrmVblankWork` | vblank works on that pipe, with the worker thread and driver threads | `DrmVblank` |
| `DrmVblankWorkProofs` | theorems about `DrmVblankWork` | `DrmVblankWork`, `DrmVblankProofs` |
| `VsDisplay` | atomic commits on one output of the Verisilicon driver; composes the helpers, the driver hooks and the vblank core | `DrmVblankCore` |
| `VsCursor` | the Verisilicon cursor plane | |
| `Ma35Planes` | the Nuvoton planes with commits and changes in place | |
| `Ma35UsbPhy` | USB PHY0 with gadget and host drivers | |
| `VsDisplayProofs`, `VsCursorProofs`, `Ma35PlanesProofs`, `Ma35UsbPhyProofs` | theorems about these four | the module of that name; the first also `DrmVblankCoreProofs` |
| `JobServer` | abstract specification of a scheduler | |
| `DrmSched` | the GPU scheduler; implements `JobServer` | instantiates `JobServer` |
| `DrmSchedProofs` | theorems about `DrmSched`, the implementation of `JobServer` among them | `DrmSched` |
| `MC*` | small instances: symmetry and coordinate sets | the module of that name |

### DrmVblankCore and DrmVblank

Every function of the core that runs under `vbl_lock` (and, for the count, under
`vblank_time_lock`) is one operator: `drm_vblank_get`, `PutN` (one or several
puts), `drm_vblank_enable`, `drm_vblank_disable_and_save`, `vblank_disable_fn`,
`drm_crtc_vblank_off`, `drm_crtc_vblank_on`, `drm_update_vblank_count`. The
hardware counter is subtracted under its mask, as in the code (`vblank_diff`);
`Uncounted`, which properties use, says without the mask how far the counter is
ahead. `FramesCounted` relates the two: count plus what is not yet counted goes up
by one with each interrupt that the driver takes, and with nothing else. An
unmasked difference would not make the count run backwards, it is unsigned, but
jump ahead by almost the whole word. Constants choose driver and policy: `HwCounter` (the Nuvoton driver has a counter, the Verisilicon
driver has none), the sign of the off delay, immediate disabling.

`event_lock` is the one lock that is held over several steps that others can see
into: the interrupt handler updates the count in one step (`HandleVblankCount`)
and scans the events in the next (`HandleVblankEvents`); all other `event_lock`
sections wait for it (`EventLockFree`). The ioctls are split where the code is
not protected: get, sample, then queue or wait. `IoctlSample` covers relative,
absolute and next-on-miss requests by the set of values they can lead to; the
queue-sequence ioctl decides with that sample, the wait-vblank ioctl reads again.
Timestamps and the software vblank timer are left out.

### DrmVblankWork

`DrmVblank` with one more kind of client. The interrupt handler and
`drm_crtc_vblank_off` are replaced by the versions that also serve the works
(`HandleVblankWorks`, `VblankOffWorks`); every other action of the pipe is taken
over unchanged (`Pipe`). A work has a place on the pending list, a target count
and its `cancelling` counter. Whoever schedules it, a driver or its own function,
is one action, enabled at any time. `drm_vblank_work_cancel_sync` and the flushes
are split at each `event_lock` section and at each call into the kthread worker.
The worker is external: `kq` is its list, in which a thread that flushes is an
entry of its own, as in the kernel, and `krun` the function that runs. Sleepers of
`work_wait_queue` look at the list only when they are woken, so a path off the
list without a wake-up would be seen. A wake-up that the code does just after the
unlock is part of the step. The count of a work that is not pending is dead data
and set to 0.

### VsDisplay

One commit at a time is between `drm_atomic_helper_swap_state` and `hw_done`
(`com`); each function of the helpers that calls hooks is an action, in the order
of `drm_atomic_helper_commit_tail`, and the hooks (`vs_crtc_atomic_enable`, ...)
and the chip functions behind them (`vs_dc8200_...`, `vs_dc8000_...`) are operators
of the source's names. `Submit` is the atomic ioctl with any state, the legacy page
flip and the shutdown path. Where a hook does two things of which others can see
the first, it is two steps: `CrtcDisable` (`drm_crtc_vblank_off`) and `ClkDisable`,
`CrtcEnable` (the clock) and `VblankOn`. Of connectors the model has that a change
of one alone makes a commit a modeset (`conn`, for `connectors_changed`).
Commits past `hw_done` are in `trail`, where they wait for a vblank and then
clean up, in any order with respect to each other. `flip` and `dep` are
`flip_done` of the latest commit and of the one before. The end of a commit frees
the states it replaced, which are the new states of its predecessor: the flag
`freed`. The hardware (`hw`) has the pixel clock and its rate, the panel
(`running` on the DC8200, `reset` on the DC8000), the hold bit `valid`, the plane
enable and address, and the number of blanks since the plane was written.

The vblank count is compared only with samples of itself, so `Rebase` moves all
of them down together when the oldest sample is dropped; this makes the state
space finite without a limit on the length of a run. Left out: the 10 s limits of
the waits between commits (in the model those waits last as long as they must,
and the liveness run shows that they end), fences, format registers, the second
output.

### VsCursor

A commit is the check, the swap and the hooks `atomic_update`, `atomic_enable` or
`atomic_disable` as separate steps. `Field` is what `regmap_update_bits` leaves in
a field: the bits of the value under the mask, so a value that was not shifted to
its field is lost, as in the code. A framebuffer has a pitch, which the check
compares with the size, since the hardware has no register for it. `start` is the
pixel of the framebuffer that is read first, on each axis: the helper clips what is
beyond the left or the top, and `vs_fb_get_dma_addr` moves the address by it. The
latching by the COMMIT bit is left out: it is the last write of every hook.

### Ma35Planes

The new state of a commit is `plane->state` from the swap on, so hooks read `st`
and an update in place is seen by them. `com` has the planes whose hooks have not
run and the old states, which are released at `hw_done`. `WriteCursor` has the
register writes that the two cursor updates share; of the hotspot it keeps only
that a difference sets the format. The mode is always set; CRTC,
gamma and vblank are elsewhere. Positions are one axis, the code treats both
alike; primary and overlay keep theirs.

### DrmSched and JobServer

One scheduler, its entities and their jobs. A job is numbered per entity, as its
fences are. Its record has the fences (`scheduled`, `finished`), the hardware
fence (`parent`) with the scheduler's callback (`cb`), and where it is: in the
queue of its entity, with the run worker or beyond it (`run`), with a work of the
killed jobs, freed. Actors:

* the owners of the entities: push (in two steps, the queue and then the run
  queue), flush, kill and fini;
* `work_run_job` and `work_free_job`, which share the ordered work queue and so
  never run at once (`wk`) and, if the queue is the scheduler's own (`OwnWq`), end
  with it (`WqAlive`); the run worker is split at every point where another
  actor can look at what it has changed: select, each dependency, the pop of the
  queue, the pop of the run queue, `drm_sched_job_begin`, `run_job`, the callback;
* the hardware, whose jobs end, hang, or are refused by `run_job`;
* the timeout worker with the driver's `timedout_job` in it (`tdr`): either it
  finds no hang, or it stops the scheduler, may resubmit, and starts it again;
* the works of killed jobs, fences of other devices, `drm_sched_fault`, and
  `drm_sched_fini`, which cancels the remaining jobs only if the driver can
  (`CancelJob`: the two kinds of driver that a run looks at; the code asks once, so
  the choice is made there).

Two places use the pending list without its lock, on the word of a comment that
they are alone: `drm_sched_stop` and `drm_sched_cancel_remaining_jobs`. The second
is a walk in steps, `FiniCancel` (`cancel_job`, whose fence ends the job and queues
the free worker) and `FiniFree` (`list_del`, `free_job`, next job); `cur` and `tmp`
are the two pointers of `list_for_each_entry_safe_reverse`. The first is one step
where it is alone (`Stop`). It is not if a caller outside of the work queue
saw `pause_submit` unset and queues the work only after `cancel_work_sync`: `late`
has the works that may still be queued so, and `StopBeside` and `StopWalk` are the
walk with that company. A walk that uses a freed job stops at `"oops"`. The history
variable `raced` becomes true when a walk begins that is not alone: after that
jobs may be freed twice, and nothing is claimed of them. A walk of `drm_sched_stop`
with company is followed to its end and not beyond (`"walked"`).

That all entities are gone when `drm_sched_fini` is called is the caller's part
(`FiniBegin`); its `wake_up_all` finds nobody then.

Left open: the order of the run queue; any ready entity may be first, so what is
shown holds for every scheduling policy. A dependency on a job of the same
scheduler is waited for until it is scheduled or until it is finished, which the
code decides by an error or a flag of the fence. Simplified: the loop that pops the
jobs of a killed entity is one step, and so is the test of `pause_submit` with the
`queue_work` after it in the two workers, which `cancel_work_sync` waits for, and in
the timeout worker, which calls `drm_sched_stop` itself. Left out: priorities, several schedulers for one
entity, `drm_sched_suspend_timeout`, a device that is gone, scores, deadlines.

`JobServer` is what the owners are promised: a job is new, waiting, running and
over; it is started after all earlier jobs of its owner have been started or
withdrawn, and only if the credits of all running jobs stay within the limit; it
is ended once; withdrawn jobs are discarded; a closed server starts nothing.
`DrmSched!Phase` maps a job to its phase: it runs from `drm_sched_job_begin` until
its finished fence signals, in particular through resets. `ImplementsJobServer` is
the specification of `JobServer` under this mapping. A server may break down
(`broken`) and promises nothing from then on; the scheduler breaks down when
`raced` becomes true and never else.

### Ma35UsbPhy

Each register access that is separated from the next by a sleep, a poll or a
possible preemption is a step. The poll is one step: it sees the clock bits or
times out. External, and marked so in the map: the PHY hardware (settles into the
mode of the ID pin, loses its clocks in reset and when the pin changes) and the
mutex and counters of the generic PHY framework.

## Runs

Runs that pass:

| Run | Question | Bounds |
|---|---|---|
| `vblank_ma35` | do references balance, is every frame counted once, every event safe and sent, with the Nuvoton driver's hardware counter, and with the disable timer or disabling in the handler | two tasks, count to 3, requests up to 2 ahead, a one-bit counter, so that it wraps |
| `vblank_work` | works next to events: references, interrupts, cancel, flush, nothing runs while off, with the Verisilicon driver's policy: no counter, disable timer | one work, two threads, one task and the flip, count to 3, requests up to 1 ahead |
| `vs_dc8200` | clock order, references, flips, settled hardware, rate changes | two framebuffers, two modes, count differences up to 3; planes may be attached invisibly; modesets for a connector |
| `vs_dc8000` | settled hardware with the hold bit; do commits, flips and stalls end | one framebuffer, two modes, negative off delay |
| `vscursor_safe` | is the cursor committed last shown, and at its place where it does not stick out at the left or the top | coordinates -33, -32, -1, 0, 127, 128 on a screen of 128, sizes 32, 48 (refused), 64, three framebuffers with pitches for each of them |
| `ma35planes_safe` | cursor hidden and placed, primary framebuffer held | two framebuffers, two hotspots, the cursor over the left edge, over the right edge and off the screen |
| `sched_safe` | one owner per job, credits, order, dependencies, entity teardown; does the scheduler implement `JobServer` | two entities, two jobs, one of them with more credits than the limit of 2, one dependency each on any earlier job or a foreign fence, drivers with and without `cancel_job` |
| `sched_live` | is every job freed, but for the documented leak without `cancel_job`, and does every flush return | one entity, two jobs, a foreign fence, a work queue that is destroyed |
| `usbphy_safe` | reset, clocks, every bring-up ends | the two host controllers of the OTG port and the gadget |

`vblankoffdelay` is a module parameter and `vblank_disable_immediate` a device
flag that neither driver sets; between them the runs cover the timer, disabling in
the put (`vs_dc8000`) and disabling in the interrupt handler (one of
the two initial states of `vblank_ma35`).

The safety properties of `vblank_ma35` are not repeated without a hardware counter
and with the other policies: they are proved for all of them. Two tasks are enough for the
vblank runs because tasks interact only through the
record and the list: one to hold a reference and one to race with the holder. Two
framebuffers are enough to tell the old from the new one. `Len(trail)` is at most
2 because `stall_checks` keeps it so. `MaxCount` in `VsDisplay` only stops
interrupts while an old sample is still in use; the count then moves down again.
In `vscursor_safe` the positive limit of the location field (2^15) is out of
reach, as it is in the driver, whose largest mode is 8192. `CHECK_DEADLOCK` is off
in `vs_dc8200` because there a commit can end in a NULL dereference, after which
nothing runs, and in the runs of the scheduler because a scheduler that is torn
down stops, as does one whose walk met a freed job.

Two jobs are enough for the scheduler because every list operation is on the head
of a list or on all of it: one job to be at the head, one behind it. With two
entities they are either two jobs of one entity (order, kill chain) or one of each
(dependencies, sharing of credits). The liveness run has one entity because the
progress of one entity needs nothing of another but a fence, which the foreign
fence stands for. One work is enough in `vblank_work`, since works meet only in
the reference count and in the queue of the worker; two threads are needed for a
cancel under a cancel and a flush under a cancel.

The type invariants of `VsDisplay`, `VsCursor`, `Ma35UsbPhy` and `DrmSched` are
stated in the modules, but no run has them: the other invariants compare the same
variables with more than their types. All four are proved.

Runs that show a disagreement between the code and what is said of it, each with
a finding in `PROJECT.json`:

| Run | Shows |
|---|---|
| `usbphy_guard` | the host driver resets a PHY that the gadget uses |
| `sched_forgotten` | an entity killed while the run worker takes its job is put back into the run queue and stays there after its owner has let it go |
| `sched_finiwalk` | a reset that is under way when `drm_sched_fini` is called starts the workers again; one of them frees the job that `drm_sched_cancel_remaining_jobs` is about to free, although "all other accessors are stopped" |

The models also contain the following behaviour of the code as it is; the hazards
of `PROJECT.json` name the lines:

* `drm_atomic_helper_wait_for_vblanks` reads `new_crtc_state` after `hw_done`, when
  a later commit may have freed it, against the helpers' own comment that it
  "cannot safely" be accessed then (`VsDisplay!NoUseAfterFree` fails);
* a vblank can fall between the plane write and the arming of its event
  (`VsDisplay!ArmRaceFree` fails);
* a Nuvoton cursor that is hidden, given another framebuffer and shown with
  another hotspot is scanned out from the released framebuffer
  (`Ma35Planes!CursorHeld` fails);
* a disabled Nuvoton overlay keeps scanning out (`Ma35Planes!OverlayHeld` fails);
* a fence callback that has seen `pause_submit` unset and queues the free worker
  only after `cancel_work_sync` lets it free a job under the walk of
  `drm_sched_stop`, against the comment that this is thread safe
  (`DrmSched!StopWalksAlive` fails);
* a job pushed to a killed entity may end before the jobs killed earlier;
* attaching the primary plane where none of it is visible dereferences the CRTC
  of its old state (`VsDisplay`, the commit stops at `"oops"`), the bug that
  `cursor_bug.md` describes for the cursor plane;
* turning the CRTC off makes the vblank wait of an older commit run into its
  timeout and warning (`VsDisplay!WaitTimeout`);
* `PANEL_CONFIG.RUNNING` is never set on the DC8000 family, though `README.md`
  of the repository says the panel runs when it is set;
* the offset of a cursor that sticks out at the left or the top is not shifted to
  its field and so stays 0, against the comment above it that it is the opposite
  number of the coordinate (`VsCursor!OffsetRight` fails);
* a Verisilicon cursor attached off the screen is turned on by `atomic_enable`
  (`VsCursor!AtomicEnable`);
* the asynchronous update of the Nuvoton cursor swaps two local pointers, the
  plane state keeps its framebuffer (`Ma35Planes!AsyncUpdate`);
* the role recorded by the role switch is not the one it reports;
* a cursor that is moved off the screen and back stays off: on the Verisilicon
  driver only `atomic_enable` writes the format again, on the Nuvoton driver only
  a change of framebuffer or hotspot does.

Seen on the way and outside the models: the Verisilicon interrupt is requested
before `dc->drm_dev` is set (`vs_dc.c`) and still registered when it is cleared
(`vs_drm.c`); `ma35_crtc_atomic_check` returns positive `MODE_*` values; a full
write of `FRAMEBUFFER_CONFIG` by a Nuvoton plane drops the gamma bit of the CRTC.

`ShownRight` therefore speaks of the axes on which the cursor does not stick out at
the left or the top, and `CursorPlaced` says nothing of the image. That one host
controller does not reset the PHY under another is no property here: the counters
of the generic PHY framework see to it, whatever the driver does.

For every property of a passing run `PROJECT.json` names a mutant of the model, a
plausible bug, under which the property fails.

## Fairness

* `DrmVblank!FairSpec`: the display refreshes while its interrupt is on, and the
  handler runs to its end. No fairness for tasks, timer or commits: an event must
  get out without their help.
* `VsDisplay!FairSpec`: the thread or worker in a commit tail runs, so do those
  that wait for a vblank, whose waits have a timeout; a display that is scanned
  out reaches its next blank; interrupts are served. Nobody has to submit.
* `Ma35UsbPhy!FairSpec`: a driver call that has begun goes on; sleeps end and
  polls time out. Nothing makes the PHY settle or the cable stay.

* `DrmSched!FairSpec`: threads go on, killed jobs are signalled, the hardware ends
  what does not hang, foreign fences signal, a killed entity is torn down and a
  teardown that has begun goes on; the timeout worker runs. Strong fairness for
  the two workers: they share one ordered work queue, which is first come, first
  served, so neither is passed over for ever although the other takes the queue
  again and again. Strong fairness for the free worker when the head of the
  pending list is finished: the timeout worker takes that head off the list and
  puts it back, and without the assumption could always do so just when the free
  worker looks; the timeout is milliseconds to seconds, the look one spinlock
  section. Nobody has to push, flush or kill.

All but the last is weak fairness, which schedulers and the hardware give.

## Proofs

Every theorem is of the form `Spec => []P` or `Spec => A`, for all values of the
constants that satisfy the `ASSUME`s of the modules.

| Module | Theorem | States that always |
|---|---|---|
| `DrmVblankProofs` | `Invariance` | `IInv(0)` |
| | `TypeCorrect`, `RefcountsBalance`, `NoOrphanEvent`, `OffStaysOff` | `TypeOK`, `RefcountBalance`, `EventsNeedIrq`, `OffIsOff` |
| | `CountFrozen`, `FramesCountedOnce` | the action properties `CountFrozenWhileOff`, `FramesCounted` |
| `DrmVblankWorkProofs` | `WorkInvariance` | the invariant of the works |
| | `WorkRefsBalance`, `NoOrphanWork`, `OffIsQuiet`, `CancelsAreFinal`, `WakeupsArrive` | `WorkRefBalance`, `WorksNeedIrq`, `QuietWhileOff`, `CancelIsFinal`, `NoLostWakeup` |
| `VsDisplayProofs` | `DisplayInvariance`, `DisplayTypeCorrect` | `IInv`, `TypeOK` |
| | `ClockFirstAndLast`, `ReferencesHeld`, `OneFlipAtATime`, `HardwareSettles` | `ClockOrder`, `RefsHeld`, `OneFlip`, `SettledHw` |
| | `RateChangesWhileOff` | the action property `RateSetWhileOff` |
| `VsCursorProofs` | `CursorInvariance`, `CursorTypeCorrect` | `IInv`, `TypeOK` |
| | `CursorShownRight`, `CursorDetachedOff` | `ShownRight`, `DetachedOff` |
| `Ma35PlanesProofs` | `PlanesInvariance`, `PlanesTypeCorrect` | `IInv`, `TypeOK` |
| | `HiddenIsOff`, `ShownInPlace`, `PrimaryFramebufferHeld` | `CursorHidden`, `CursorPlaced`, `PrimaryHeld` |
| `Ma35UsbPhyProofs` | `PhyInvariance`, `PhyTypeCorrect` | `IInv`, `TypeOK` |
| | `ResetEnds`, `ClocksBalance` | `NotStuckInReset`, `ClockBalance` |
| `DrmSchedProofs` | `SchedInvariance`, `SchedTypeCorrect` | `IInv`, `TypeOK`, each until `raced` |
| | `SchedOneOwner`, `SchedCreditBalance` | `OneOwner`, `CreditBalance` |
| | `SchedOrderKept`, `SchedDepsHonoured`, `SchedEntityHeld` | `OrderKept`, `DepsHonoured`, `EntityHeld`, each until `raced` |
| | `SchedImplementsJobServer` | the specification of `JobServer`, `ImplementsJobServer` |

Assumptions: the types of the constants; the sets that are counted (tasks, works,
threads, host controllers, entities) are finite; the special values (the flip event, the
commit thread, `None`) are members of none of the sets they stand next to. Beyond
that `VsDisplay` assumes that there is no hardware counter, which is the driver's
case, `VsCursor` the largest mode and the cursor sizes of the chip table. All other
policies (off delay, immediate disabling, counter width, chip generation) are
quantified over.

**Vblank core.** Each operator of `DrmVblankCore` has a contract in
`DrmVblankCoreProofs` that says what it does to the fields its callers test; the
proofs of `DrmVblank`, `DrmVblankWork` and `VsDisplay` use the contracts and not the
bodies. `IInv` is the conjunction of the properties with two additions: the
event list is finite, and a task inside an ioctl has no event on the list
(`HolderNotQueued`). The second is needed for the count: adding an event adds one
to the cardinality of the list only if it was not a member, which holds because
the task that queues it, as a holder, has none there. The parts need each other:
`EventsNeedIrq` survives the disable timer because a queued event holds a
reference, the reference count stays natural because puts are covered by holders,
and `OffIsOff` survives a late get because in a modeset the count is not zero.
`FramesCounted` needs one thing more, `OneUncounted`: the counter is never more than
one frame ahead of the count, and with the interrupt off no further interrupt is on
its way then; two frames would look like none to a counter of one bit.

**Vblank works.** A pending work is one more holder of a reference, so the
invariant of the pipe takes the number of other holders as a parameter:
`IInv(0)` for `DrmVblank`, `IInv(Cardinality(Pending))` here. One lemma then shows
for both that every action which leaves the works alone keeps the invariant.
The rest of the invariant is about the worker. `WellQueued`: nothing is on its
list twice, and no work is behind the commit thread's flush entry, which is what
makes the pipe quiet when that entry comes to the head. `QueueOK`: a thread that
is on the list waits there. `ModesetOK`: inside a modeset no work is pending.
`CancelOK`: `cancelling` is the number of threads in a cancel of that work, and
their work is not pending and, after the worker has dropped it, not on its list; a
scheduler of the work that finds `cancelling` positive refuses, so neither comes
back. A second group of lemmas says what appending, cutting, removing and
inserting do to a list without duplicates.

**Verisilicon commits.** The invariant says for each point of the commit tail what
has been done: whether the CRTC is on (`CrtcIsOn`, and `CrtcOK` for clock and
vblank code), whether the panel may run (`PanelOK`), which mode the rate belongs
to (`RateOK`), which state the plane shows (`PlaneOK`) and whose flip is in
flight (`FlipOK`). `SettledHw` alone is not inductive, it says nothing while a
commit is under way, and neither is `OneFlip`: it needs that only a commit which
still waits for its dependencies has a predecessor that has not flipped.

**Cursors and planes.** `VsCursor` needs that the registers of a visible cursor
agree with the state after `atomic_update` already, and that the check has put a
visible cursor on the screen, without which the location would be cut to its
field; the pitch it compared is what the size register stands for. `Ma35Planes` needs what holds while the hook of the cursor has not run:
its state is the new one, its registers are those of the old one, and a cursor
that had no framebuffer is off; changes in place keep both.

**USB PHY.** `NotStuckInReset` and `ClockBalance` rest on `OneInHook`: the external
framework's mutex and counters let one host into the init hook, and only while no
host is initialised.

**GPU scheduler.** The properties are about jobs, but what keeps them is what each
actor may rely on while others run, so `IInv` has a part for each. All of it holds
until a walk along the pending list begins in company: `SchedInv` is
`~raced => IInv /\ WalkOK`. With company it is false, as `sched_finiwalk` shows.

* `QueueOK`: the queue of an entity holds its last jobs by number, without a gap.
  So "before" can be read off the numbers, and a job that left the queue has left
  it after all jobs before it.
* `WorkerOK`: from the selection to the end of `run_job` the run worker holds an
  entity that is not idle, hence cannot be killed; the head of its queue stays the
  job it chose, and the credits it found free stay free until
  `drm_sched_job_begin`. This is where `EntityHeld` and the limit come from.
* `HandsOK`: a job is in state `run` exactly while one of the pending list, the
  timeout worker and the run worker has it, which is `OneOwner`. `BusyOK` adds that
  an unfinished job outside the run worker has a hardware callback unless
  `drm_sched_stop` took it away, and `TdrOK` that between `drm_sched_stop` and
  `drm_sched_start` none is left and nothing finished is on the list.
* `CreditOK` is `CreditBalance`. It survives a reset because, by the two parts
  before, the jobs with a callback that `drm_sched_stop` finds are all the busy
  ones, and those on the list at `drm_sched_start` are the same.
* `OrderOK` is what `OrderKept` lacks: the jobs of an entity are discarded only
  once it is stopped, all that are left at once, each chained to the one before,
  and `last_scheduled` is the job given out last. `DepOK` is what `DepsHonoured`
  lacks: a dependency that was taken off a queued job is settled, or the entity
  waits for it with that job at the head.
* `WalkOK`: a walk of `drm_sched_fini` that began alone stays alone, since nothing
  but the timeout worker lifts `pause_submit`, and that has been waited for. So it is
  always at the end of what is left of the list, and its `tmp` is the job before.

`SamePhases` and `EndPhases` carry the refinement: most steps leave every phase
alone, since freed jobs are finished and a popped job waits until
`drm_sched_job_begin`; four actions end a set of running jobs; `Push`, `KillJobs`,
`KillWork`, `JobBegin` and `FiniBegin` are `Submit`, `Withdraw`, `Discard`, `Start`
and `Close`. `FiniCancel` is an `End` of one job or nothing, and `FiniFree` frees a
job that has ended; the steps that make `raced` true are those on which `JobServer`
breaks.

Credits are counted as a set, one pair of a job and a number for each credit
(`CostOf`), and `drm_sched_stop` keeps jobs by rank in the list (`Kept`), so that
sums and filtered lists need no recursion: what they do follows from the theorems
on finite sets, products and intervals.

Only model-checked:

* liveness: `EventuallySent` of `DrmVblank` and the liveness properties of
  `VsDisplay`, `Ma35UsbPhy` and `DrmSched` (`JobsFreed`, `FlushEnds`), which are
  out of the prover's reach.

## Not modelled

* Probe, remove and the chip table of the Verisilicon driver. What can go wrong is
  an interrupt before `dc->drm_dev` is set or after it is cleared. The first
  depends on what the firmware left on, the second on a handler that read the
  status before the shutdown and runs after it; the repository promises nothing
  about either, and a model would have to invent the firmware.
* CRTC, interface and gamma of the Nuvoton driver beyond their vblank side: each
  hook writes registers from its arguments, without state that outlives the call
  except the gamma bit, which any plane update drops.
* The second output of the DC8200: outputs share two registers, but each access
  is one read-modify-write under the regmap lock and each output has its own bits.
* The dwc2, EHCI, OHCI and xHCI drivers, the rest of the DRM core, other DRM
  drivers, bridges and panels: copies of mainline code, of which this repository
  changes little and the MA35D1 uses only what is named above. They are most of
  the lines of the tree.
* Device trees and build files are data.

## Plan

Done: vblank core; vblank works; Verisilicon commits; both cursors; Nuvoton
planes; USB PHY0; GPU scheduler with its abstract specification; proofs of every
safety property that a run checks, and of the implementation of `JobServer`.

Next: a contract for the places where the models stop, so that more of the
hazards without a property can be stated (the frame an event belongs to, state
pointers read after `hw_done`), and an abstract specification of a pipe for
`DrmVblank`.
