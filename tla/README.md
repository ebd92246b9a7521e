# A TLA+ model of the V4L2 web camera filters

This directory models the web camera user filters of this repository: the
filters a host program invokes (`sources/main.cpp`), the camera object and its
capture thread (`sources/webcamera.cpp`), the frame queue between them
(`sources/paraqueue.cpp`) and the V4L2 wrapper that talks to the driver
(`libv4l2cpp/`). TLC checks the models on small instances; TLAPS proves every
safety property of the passing runs for every instance.

## The system

| Component | State | Operations | Used by |
|---|---|---|---|
| Filters (`main.cpp`) | `m_camera_index`, `m_camera` (a `shared_ptr`), the image a grab fills | `Init`, `Invoke` of ten filters | the host, one thread per running filter |
| `WebCameraManager` | map from index to camera | `get_device`, `add_device`, `remove_device`, no lock | filters |
| `WebCamera` | `m_running` (atomic), `m_cap_thread`, `video_capture`, `buffer`, `tv`, `m_max_framerate`, `m_exposure` | `start_acquisition`, `set_max_framerate`, `set_exposure`, `close_acquisition`, destructor, `captureLoop`, no lock | filters; the capture thread |
| `ParaQueue` | `m_queue` (16 frames), `m_time_queue` (30 stamps), `m_period` | `push`, `pop` (`m_mutex`), `get_fps` (`m_period_mutex`), `has_enqueued` (no lock) | capture thread pushes, grab filters pop |
| `V4l2Device` | `m_fd`, `m_format`, `m_bufferSize` | `create`, `init`, `setFormat`, `setFPS`, exposure controls | `WebCamera` |
| `V4l2MmapDevice` | `n_buffers`, `m_buffer[5]`, a partial write | `start`, `stop`, `readInternal`, `writeInternal`, partial writes | `WebCamera` through `V4l2Capture`; `V4l2Output` |
| the driver (external) | its buffers and two queues, its format, rate and exposure | ioctls | `V4l2Device`, `V4l2MmapDevice` |

What is hard here: filter threads and the capture thread meet in a queue one of
whose calls takes no lock; `set_max_framerate` and `close_acquisition` protect
the device only by the order of their statements; almost every result of a
system call is dropped somewhere; and several values exist twice (the frame rate
in four places, the exposure in two, the image size in two). Cameras live as
long as somebody holds a `shared_ptr` to them, and the registry that hands these
out is searched, filled and emptied in steps that other filters can come between.

What makes each part correct:

* queue: only overflow loses a frame; each frame reaches one filter, in order;
  the rate reported covers the frames delivered; a push ends;
* grab filters: what is written is a new image, with its rate; no frame is
  overlooked for good; timeouts and cancellations end an `Invoke`;
* camera: the device is touched only while no capture thread uses it; the loop
  uses only live objects; `is_running` tells the truth; the copies of the rate
  agree; calls end, and none ends the program;
* registry: there is one open camera for an index, and it is the registered one;
  a filter that is ready has an open camera; what is looked up can be used;
* opening a device: all or nothing;
* buffers: each is with the driver or with the program, never with both or none.

## The modules

| Module | Models | EXTENDS / INSTANCE |
|---|---|---|
| `LossyFifo` | what the queue promises: a bounded queue that drops its oldest frame | |
| `ParaQueue` | `paraqueue.cpp`, each lock, unlock and unlocked load a step | INSTANCE `LossyFifo` (refinement) |
| `GrabImage` | the two grab filters on one camera | EXTENDS `ParaQueue` |
| `Camera` | what a camera promises: it captures at the rate asked for last, which changes only while it does not capture | |
| `WebCamera` | one camera object, its callers and its capture thread, each statement that touches shared state a step | INSTANCE `Camera` (refinement) |
| `Registry` | the filters of several camera indices, the registry, and the lifetime of the cameras between them | |
| `CaptureTimer` | the timeval that `captureLoop` hands to `select` | |
| `Exposure` | `set_exposure`, the remembered and the real exposure | |
| `V4l2Device` | opening, configuring and releasing a device | |
| `FrameStream` | what the buffers of a capture promise: a stream of frames, none skipped or seen twice until it is stopped | |
| `V4l2MmapDevice` | the buffers of one device and the driver's queues | INSTANCE `FrameStream` (refinement) |
| `ParaQueueProofs`, `GrabImageProofs`, `WebCameraProofs`, `RegistryProofs`, `CaptureTimerProofs`, `ExposureProofs`, `V4l2DeviceProofs`, `V4l2MmapDeviceProofs` | theorems | EXTEND the modules they are about |
| `MCGrabImage`, `MCRegistry`, `MCV4l2Device`, `MCV4l2MmapDevice` | what TLC needs: the configurations' own definitions | EXTEND the modules they run |

A module's variables carry the names of the code's members where there is one;
variables called *history* in their declaration exist for the properties only.
Definitions whose comment begins with *Faulty* are mistakes somebody could make
in the code below them (a guard dropped, `>=` for `>`, a reset forgotten). No
specification uses them. Each is there to show that a property notices: put in
place of the definition that follows it, it makes a property fail. PROJECT.json
pairs them.

### ParaQueue

A frame is the number of its push, a time stamp the number of the frame it was
taken for, and a period the pair of frames it spans with the number of stamps it
was divided by, so that "which frames does this rate cover" and "how far is it
off" can be asked. (A steady camera is one frame per interval; the rate reported
is then `stamps / intervals` of the true one.) `push` is seven steps, from taking `m_mutex` to
letting it go; the frequency test in front of it is `if (false && ...)` and
never returns. `has_enqueued` compares the two ends of a `std::deque` without a
lock: two loads, in either order, any steps of others in between. That is a data
race; the model gives it the outcomes that two word-sized loads can have.
`MaxFrames` bounds how many frames are pushed, in `PushLock` only.

### GrabImage

`at[c]` is the statement of `Invoke` that filter *c* is at; `Timed` tells the
filters with a timeout from the synchronous ones. The calls into the queue are
ParaQueue's actions, conjoined with the filter's own step. `MaxTear` bounds how
many pushes fit between the two adjacent loads of one `has_enqueued` (`Prompt`,
on pushes only). It is a timing assumption: at 333 frames a second, the bound of
16 that the theorem needs is 48 ms between two adjacent instructions.

### WebCamera

`capture` is both the state of `m_cap_thread` (`"none"` is not joinable,
`"exited"` is to be joined) and the statement the loop is at. `stream` folds
`V4l2MmapDevice` into what a caller can tell: streaming with buffers, neither,
one of the two left by a call that failed half way, or `"holed"`: `start` goes on
after a slot it could not map, so the driver streams and the loop may copy a
frame through that slot. `process` records that a step ended the program, used a
pointer with nothing behind it, or read through such a slot (`"bad mapping"`); no
action is enabled afterwards. Deleting a null pointer does nothing, deleting one
that has no value or was freed is a misuse. The destructor runs only while no
call does: a caller holds a `shared_ptr`.

`set_max_framerate` is nine statements: the test against `m_max_framerate`, the
store (`new_max` is its argument in between), `m_running = false`, the join,
`stop`, `setFps`, `start`, and the two that start the loop again. `add_device` is two, the search
and the assignment, which other filters can come between. Only one camera object
is followed: the first that is assigned. A second assignment takes its place in
the registry (`Replaced`); the device may then be busy with the other object.

`faults` is what may fail in a behaviour, chosen at first from `FaultModes`, so
that one run covers the healthy camera, the one whose every call may fail, and
those with one kind of failure, which tell apart what each can lead to.
`overlapped` remembers whether two calls have been under way at once. Most of
what the camera promises needs the two: what it does when calls overlap or fail
is a matter of record (below), and what it does otherwise has to be right.
That is also what `Camera` says in a few lines: `WebCamera` implements it, with
all of "fails or overlaps" mapped to `"broken"`. A camera is `"on"` exactly
while its capture thread is in the loop, so the refinement says that the device
gets another rate only while nobody captures, that capturing goes on only when
driver and `max_framerate` agree, and that a closed camera stays closed.

### Registry

Who holds which camera. `devices` is the manager's map, `m_camera` the
`shared_ptr` an input filter keeps from `Init` on, `cam` the one an `Invoke`
holds; `Existing` are the cameras somebody refers to, and every step that lets a
reference go ends with `LetGo`, which runs the destructor of those nobody refers
to any more. `get_device` and `add_device`, `is_running` and
`start_acquisition`, `close_acquisition` and `remove_device` are separate steps,
and so are the search and the assignment inside `add_device`
(`webcamera_manager.cpp:9` and `:12`), so that all of them can be interleaved;
the calls on the camera itself
(`set_max_framerate`, `set_exposure`, `close_acquisition`) are one step each,
since `WebCamera` and `Exposure` have their statements. `GetDevice` and `Use` are
the `Invoke` of all six Set and Get filters. CloseAcquisition filters keep the
index they happen to be made with, any index (`main.cpp:117`). `Drop` is the
host destroying a filter. `index` is what `camera_index()` of a camera returns,
`None` for memory without one. As in `WebCamera`, `process` ends a behaviour at
the first misuse of a pointer; `overlapped` and `clashed` remember on which
indices calls were under way together, and which of these were an `Init` and a
`CloseAcquisition`. A device is busy while another capture object streams from
it, as the kernel has it.

### CaptureTimer, Exposure

CaptureTimer counts milliseconds, which pass while the loop waits in `select`.
The timer in milliseconds is `10000 \div rate`: the code floors `10000 / rate`
and scales by 1000 microseconds. A rate of 0 converts infinity to `int`, which
is undefined: the model takes either end of the range, as x86 and ARM do
(`Huge` stands for the upper end).

Exposure models `set_exposure` as test, mode, time and store, since any number
of filters may be in it. `synced` remembers that automatic exposure was set by a
call that was alone and that nothing was refused and no two calls overlapped
since; such a call makes up for whatever went wrong before it. A device in
automatic mode may keep or refuse a time; it does not use it.

### V4l2Device, V4l2MmapDevice

V4l2Device follows `create` through `init` and `initdevice`, one step per ioctl
and error path. The `else` in `V4l2Device::init` belongs to the `if` that the
`LOG` macro expands to, so with errors logged (the default) a path that is no
device is not opened at all, and with errors not logged a device whose
initialisation failed is opened again; `errorsLogged` says which. (With
log4cpp, which nothing in this repository's build asks for, the macro has no
`if`; that build is not modelled.) `mmap` tells a memory-mapped device from a
read/write one and `type` a capture from an output; what the driver behind the
node can do (`capabilities`) is compared with what they ask for, and changes
when the node does. An image size is named by the format it belongs to. Width and
height are left out.

V4l2MmapDevice has the driver's incoming and outgoing queues as sequences of
buffer indices. `Start` and `Stop` go on after a failing step as the code does.
The driver refuses REQBUFS with no effect while it streams or while its buffers
are mapped, so `Start` is only an action otherwise; a failed start that changes
nothing is a stutter. `memory` records an access past `m_buffer`, through
a slot that was not mapped, or past a buffer; `success` is what the start that
mapped the slots returned, `lost` the buffers a failed QBUF gave to nobody, and
`begun` tells a partial write that was begun since the last start from one cut in
two by a stop (`"earlier"`) and from one nobody began (`"never"`): no constructor
sets `m_partialWriteInProgress` and `m_partialWriteBuf` (`V4l2Device.h:145-146`),
so they start with any of `Leftovers`. For a capture, the frames in
the outgoing queue are the `pending` frames of `FrameStream`, which
`V4l2MmapDevice` implements: a finished buffer is a frame taken, a read copies
the oldest, whether or not its QBUF succeeds, and a start or a stop that empties
the driver's queue discards them all. An output has an empty stream.

## The runs

Passing runs:

| Run | Bounds | Shows |
|---|---|---|
| `queue` | 2 filters, limit 2, 4 frames, 3 stamps, period from 2 | only overflow loses a frame, frames come out once and in order, the period keeps up, the rate errs by one interval at most; `has_enqueued` is right about the frames that waited when it began; the queue implements `LossyFifo`; a push that has begun ends |
| `grab_one_filter` | 1 synchronous filter, limit 2, 5 frames | every image written is new |
| `grab_two_kinds` | 1 synchronous and 1 timed filter, limit 1, 2 frames, 2 stamps | image and rate belong together; no frame is written by both; no frame is overlooked for good; a timeout or a cancellation ends an `Invoke` |
| `camera` | 2 callers, 2 rates and the driver's own at first, no fault, every fault, or one kind of fault on its own (node missing, open, read, restart, a slot not mapped) | device and loop stay apart and the loop's objects exist while calls do not overlap, whatever fails; no thread outlives the destructor; each way in which the program can end has its cause; the remaining promises, and the refinement of `Camera`, while nothing fails |
| `capture_timer` | rates 1000, 2500, 20000 (timers of 10, 4 and 0 ms), and 0 | at every rate but 0 the join is bounded, and frames are taken even with a timer of 0 |
| `exposure` | 2 callers, 3 times, the device refuses at will | remembered and real exposure agree once a call has set automatic exposure on its own |
| `device` | 2 formats, lists of 0 to 2, 2 rates, captures and outputs, both ways of transfer, 4 kinds of driver, both log levels, every step failing | opening is all or nothing; sizes are right; `create` ends |
| `mmap_buffers` | 3 slots, 1, 3 or 4 buffers granted, 4 frames, pieces of 2 in buffers of 3, capture and output, every ioctl and `mmap` failing, 4 leftovers in the members nobody sets | frames are read once and in order; an access outside the mapped buffers has one of three causes; no buffer is lost but by a failed QBUF; partial writes stay inside their own; the buffers implement `FrameStream` |
| `registry` | 2 input filters, 1 Set or Get filter, 1 CloseAcquisition, 2 indices, 3 cameras, node missing and device refused or not, symmetry in the cameras | one open camera per index, the registered one; `INIT_OK` means an open camera; what is found can be used; the program ends only after failures or overlaps; without overlaps only the destructor meets a closed camera |

The constants of the code (16 frames, 30 stamps, 4 stamps for a period, 5
buffers) are small numbers here. The limits are reached, passed and reached
again within the bounds: in `queue`, four frames overflow the limit of two twice
and the time queue once; in `mmap_buffers`, every buffer comes round at least
once. In `registry`, three cameras is enough for two that two filters made for
one index and one of another index; `MakeDevice` waits for memory beyond that. The
leftovers of `mmap_buffers` are no write in progress, and a write in progress that is
longer than its buffer, that has used more than there is, or whose buffer does not
exist: one for each way a piece can miss. The safety properties hold beyond the
bounds by the theorems below; for the others, two filter threads are enough for
each way in which two calls can cross.

What `SoundMemory` says of `start` is what its caller can rely on. `start` goes on
after a failing `QUERYBUF` or `mmap`, and fills the slots a driver grants without
counting its own: so the property is not that all accesses are sound, but that a
slot without a mapping is only met after a start that returned false (a result
that `init` heeds and `set_max_framerate` drops: `EndingExplained` has that
ending), that `m_buffer` is only left for a driver that grants more than it is
asked for, and that a piece only leaves its buffer in a write that nobody began.

Runs that find a disagreement between the code and what its documentation,
comments or messages say (PROJECT.json, `findings`, has the lines):

| Run | Violated | What happens |
|---|---|---|
| `grab_two_filters_one_camera` | `FreshImage` | one filter empties the queue between the other's `can_grab` and `grab_image`; the other writes its previous image as new |
| `camera_read_fails` | `NeverTerminated` | the capture thread joins itself and the program ends |
| `registry_close` | `CloseIsClean` | CloseAcquisition deletes the capture object and the buffer; when the last filter lets the camera go, its destructor deletes them again |

Deadlock is checked except where the system really stops: after the program has
ended or the camera is gone (the configurations of `WebCamera` and `Registry`), after
an access outside its memory (`V4l2MmapDevice`), and when
the one kind of filter left has returned `INVOKE_END` and no more frames come
(`GrabImage_single`, `GrabImage_stale`).

## Other disagreements

Met while modelling. The models behave this way too, so the properties are
stated around it; no run singles it out.

* `start_acquisition` sets `m_running` first. When the device node is missing it
  throws with `m_running` set, `is_running` says true, and no later `Init`
  starts the camera (`webcamera.cpp:38`). `RunningMeansCapturing` is checked
  without faults.
* `V4l2Capture::create` returns a null pointer when a device cannot be opened;
  the next statement calls through it. The test that was meant to notice,
  `isReady() == -1`, compares a `bool` (`webcamera.cpp:54-56`).
* `set_max_framerate` ignores what `stop`, `setFps` and `start` return
  (`webcamera.cpp:110-116`). A refused rate is reported as the limit. After a
  failed restart `read` returns 0, which the loop takes for a frame, and empty
  images enter the queue; after one that left a slot without a mapping, the loop
  copies through a null or failed mapping. `RatesAgree` and `QueuesOnlyImages` are
  checked without faults; `EndingExplained` names the last.
* Calls that overlap let one touch the device under the capture thread that
  another has started, although each has seen to it that its own is gone
  ("Stoping capture thread", `webcamera.cpp:102`). `SerialExclusiveDevice` and
  `LoopUsesLiveObjects` are about calls that do not overlap.
* Calls that overlap can join one thread twice: one caller then waits for a
  thread that another caller has joined. `CallsComplete` is checked for calls
  that do not overlap.
* A camera that was never started is closed by its destructor like any other:
  it deletes two pointers that have no value (`webcamera.cpp:147,153`). That
  happens to the camera of a filter whose `add_device` threw, since another
  filter had been faster (`main.cpp:48`; the exception is not caught there, only
  the one of `start_acquisition` is), and to one whose device node was missing.
* Two filters can both pass the search in `add_device` (`webcamera_manager.cpp:9`)
  before either assigns (`:12`). The second assignment then replaces the camera
  of the first without "Attempted to add an already existing device."
  (`webcamera_manager.cpp:10`). The first camera captures, and nobody can find it
  to close it; the second finds the device busy, and its null pointer ends the
  program. `LiveIsRegistered` says that this is how it goes on: the replacing
  filter is still between its assignment and its opening.
* CloseAcquisition has the input "Device index." (`main.cpp:27,112`) and never
  reads it: `m_camera_index` is what was in the filter's memory (`main.cpp:115-119`).
* A `CloseAcquisition` during an `Init` of the same index can close the camera
  just before `Init` starts it again, and then take it off the registry: the
  camera captures and nobody can find it, and the next `Init` of that index finds
  the device busy. `LiveIsRegistered` excludes such an index (`clashed`).
* `select` uses `tv` up and `tv` is set again only by a rate change: after the
  first wait that timed out the loop polls without waiting (`webcamera.cpp:158`).
  The comment before the end of the loop says that nothing else need wait.
* The wait is computed as ten times the frame period, under a comment that says
  "Time per frame in usec" (`webcamera.cpp:27-30`). `JoinsSoon` is therefore
  stated with ten periods.
* With a frame rate of 0, which the input allows, the wait is infinite and its
  conversion to `int` undefined; on x86 it is negative, `select` fails, and no
  frame is ever delivered; elsewhere it may be the longest there is. `FramesTaken`
  excludes the rate 0, and `JoinsSoon`, a bound in periods, says nothing of it.
* The exposure a camera is made with is remembered but never set: the device is
  opened in automatic mode. A later manual exposure then leaves the mode
  automatic and does not take effect (`webcamera.cpp:138`, whose comment calls
  that very test unnecessary). A refused control, and two callers at once, make
  the remembered value wrong too. `ReportedOnceAuto` starts from the first
  automatic exposure that a call sets alone and ends with the first refusal or
  overlap.
* The mean period is the span of the stamps divided by their number, not by the
  intervals between them (`paraqueue.cpp:20`): a steady camera is reported a
  third too fast with four stamps and 3% too fast with thirty. `FpsNearlyRight`
  says that it is never worse and never too slow.
* `setFPS` sets the rate of the capture side of any device
  (`V4l2Device.cpp:299`): an output without one cannot be opened with a rate.
* "open a normal file" never happens while errors are logged, and with errors
  not logged a device whose initialisation failed is opened again for writing
  (`V4l2Device.cpp:77-84`). `ReadyIsConfigured` is stated for logged errors.
* `setFormat` keeps the image size that `VIDIOC_S_FMT` of v4l2loopback gets
  wrong and that opening a device replaces (`V4l2Device.h:113`).
  `BufferSizeRight` speaks of devices with buffers, where the driver refuses.
* `start` goes on after a failed `QUERYBUF` or `mmap` with one slot that is not
  mapped, queues and streams it like the others, and the reads that follow use it
  (`V4l2MmapDevice.cpp:82-133,203`). `SoundMemory` has it return false.
* A driver may grant more buffers than it was asked for; `start` has five slots
  and no test (`V4l2MmapDevice.cpp:75`). `Start` records the overrun in `memory`,
  and `SoundMemory` says that only such a driver makes it.
* `stop` in the middle of a partial write leaves the write in progress: after a
  `start` it goes on in a buffer that the driver owns. And the flag that says so
  is not initialised, nor are the index and length beside it: a write that nobody
  began may go anywhere (`V4l2Device.h:145-146`). `PartialWriteOwnsBuffer` is about
  writes begun since the last start; those begun before it stay inside the mapped
  buffers (`SoundMemory`), and their end loses no buffer (`BuffersAccounted`).

## Fairness

* A thread that can run leaves the statement it is in (weak fairness of its
  steps). The operating system's scheduler gives that.
* A mutex that is released over and over is obtained in the end (strong fairness
  of the locking steps). Grab filters sleep 5 ms between two polls and `get_fps`
  holds its mutex for one division.
* In `GrabImage` the host calls `Invoke` again after `INVOKE_LOOP`, and the
  clock passes every threshold. `system_clock` may be set back; that is not
  modelled.
* In `CaptureTimer` time passes.
* Nothing makes a camera deliver, a filter call or a host cancel.

## What is proved

`ParaQueueProofs`, for every set of filter threads, every limit, every length of
the time queue and any number of frames: `TypeCorrect`, `Bounded`,
`NoEarlyLoss`, `InOrder`, `PeriodCovers`, `FpsBounded`, `Polling` and `Refinement`
(the queue implements `LossyFifo`). None of these is inductive alone. The invariant that is, `IInv`,
adds to the types:

* `LockInv`: who holds which mutex follows from where each thread is;
* `ContentInv`: the waiting frames are exactly `start+1 .. finish`, without
  gaps, and at most one more than the limit, which only while `push` trims;
* `DeliveredInv`: what was delivered is increasing, lies at or below `start`,
  and every frame the limit protects is waiting or was delivered;
* `TimeInv`: the last time stamp is the frame that is in or about to enter the
  queue, the stamps are those of successive frames, and the period spans them;
* `PeriodInv`: a period was divided by the number of stamps from its first frame
  to its last, and by `MinTimes` at least;
* `LoadedInv`: the end of the deque that a `has_enqueued` has loaded may be old,
  but it never lies ahead of the real one.

`Polling` (`HasEnqueuedMeans`) is what the call without a lock is worth: a "yes"
means that a frame waits or was taken since the first load, a "no" overlooks only
frames that arrived after it. A "no" does not mean that the queue was ever empty:
a frame may arrive and an older one leave between the loads. Two theorems are the
part of `PushCompletes` that needs no fairness: `PushAdvances` (each step of a
push lowers the number of steps it has left, seven at most, and no filter raises
it, since the trimming loop runs at most once) and `PushWaitsForGetFps` (the only
wait inside a push is for a filter whose next step ends it).

`GrabImageProofs`: `GrabUsesQueue` shows that every behaviour of the filters is
one of the queue (so all of the above carries over), then `GrabTypeCorrect`,
`FpsIsCurrent` and `FramesNotShared` for any number of filters, and
`FreshWhenAlone`: with a single filter and `MaxTear < MaxQueueSize`, every image
written is newer than the one before. The last is the converse of the
counterexample of `grab_two_filters_one_camera`: one filter per camera is what
makes ignoring the result of `grab_image` harmless. Its heart is that a lone
filter that saw the queue non-empty can trust that answer until it pops.
`InvokeAdvances` is the part of `InvokeReturns` that needs no fairness: once the
threshold has passed or the host has cancelled, each step of an `Invoke` lowers
the number of steps it has left, ten at most, and no other thread raises it.

`WebCameraProofs`, for any number of callers, any rates and any faults:
`TypeCorrect`; `LoopSafe` and `DeviceSafe`, the two halves of what the order of
the statements buys as long as no two calls overlap (the loop only uses objects
that exist, and the device is only touched after a join); and `DestructorSafe`,
which needs no such condition; and `Endings`, that while calls do not overlap
each end of the program has the failure behind it that `EndingExplained` names.
Its invariant adds to the types:

* `SerialInv`, while calls have not overlapped: at most one caller is inside a
  call; from the join to the statement that starts the next thread there is no
  capture thread; a thread in the loop has its two objects; a thread that is not
  being joined shows in `m_running`; an image buffer comes with the capture
  object. The last two are what makes it safe to clear `m_running` and join at
  the start of the next call.
* `DestroyedInv`: nothing begins once the destructor has, and after its join
  there is no thread. Here the condition is not needed because the destructor
  runs alone however calls overlapped before.
* `CauseInv`, while calls have not overlapped: which failure lies behind a
  pointer that is null, was never set or was freed, behind a loop that is leaving
  by its exception, and behind a device that does not stream, at each statement
  of a call.

The same invariant has `HealthInv`, what a camera without failures and overlaps
is like at every statement of a call: made but not started, capturing, told to
stop, joined with a device that streams, is stopped or streams again, and closed.
It yields `RunningTold`, `OneRate` and `ImagesOnly`, the promises of the healthy
camera, and `Refinement`: every step of the object is a step of `Camera` or a
stutter. None of the three survives a failure, so each carries `Healthy`.

Three more follow. `Unharmed`: a camera without failures and overlaps ends the
program only in the destructor of a camera that was closed.
`TerminatedByReadsOnly` is the converse of `camera_read_fails`: with a single
caller, and reads and restarts that do not fail, no exception ends the program.
`JoinsEnd` is the part of `CallsComplete` that needs no fairness: while a call
waits in a join, each step of the capture thread brings it nearer to its return
and nobody else's step takes it back.

`RegistryProofs`, for any number of filters of each kind, any indices, cameras
and faults: `TypeCorrect`, `LiveRegistered`, `ReadyCamera`, `FoundOpen`,
`MisusesExplained` and `ClosedUnreachable`. The invariant says, while the program is alive:

* `HoldInv`: a filter that is under way or ready holds a camera of its index, and
  the map files each camera under its index; `FreeInv`: memory without a camera
  is as the constructor leaves it (also needed after the end: it is what makes a
  destructor's misuse explainable);
* `CrossInv`: the two histories know of every pair of calls under way together;
* `RegisteredInv`: until calls for an index overlap, its live camera and the one
  being started are the registered one; when `Init`s have crossed, another may
  have taken its place, but there is one live camera of an index at most, and, unless
  an `Init` and a close clashed, the index has some camera and a closer leaves
  no live one;
* `RunningInv`: `m_running` is set for a camera that is open, is being opened, or
  whose node was missing;
* `AloneInv`, `SoundInv`: what a call that nobody crossed finds: no camera when it
  registers one, no other live camera when it opens one, and an open camera when
  it uses or closes one. And whatever calls have crossed, as long as no node is
  missing a registered camera is open, about to be opened, or about to be taken
  off; that is what `FoundOpen` rests on.

Each action's lemma shows `Framed(f)` (what a step of filter *f* leaves alone)
and `Own(f)` (what it owes for itself and its index); one lemma, `StepKeeps`,
combines the two for all the other filters. `LetGoFacts` is what the destructor
of the cameras a step lets go of does to the rest.

`ClosedUnreachable` (`FreedByDestructor`) holds whatever fails. It has an
invariant of its own, `ClosedInv`, next to the one above: on an index whose calls
have not overlapped, the registry names a closed camera only between a
CloseAcquisition's two steps, and no filter is about to use, close or register
one. It is the converse of `registry_close`: the destructor is the only
place where a closed camera hurts a host that makes its calls one after another.

`ExposureProofs`, for any number of callers, any times and any refusals:
`TypeCorrect` and `ReportedExposure`. `ReportedOnceAuto` only speaks of idle
callers. The invariant adds that at most one call is under way while `synced`,
and what that call knows in between: at `setTime` the device is in manual mode,
at `store` it has been asked for what is about to be remembered. The type of the
device's time depends on it as well, since `SetTime` would otherwise send the
constant for automatic exposure.

`CaptureTimerProofs`, for any rates: `TypeCorrect` and `JoinBounded`. The
invariant relates three clocks: the time left in `tv` never exceeds ten periods,
the caller in the join has waited no longer than the `select` that is running,
and no time passes in the loop once that has returned. `FrameFound` is the part
of `FramesTaken` that needs no fairness: at every rate but 0, a frame that the
device has waits for two steps of the loop at most.

`V4l2DeviceProofs`, for any formats, lists, rates, drivers and failures:
`TypeCorrect`, `NothingLeaks`, `AllOrNothing` and `SizeFollows`. The invariant
says for each step of `create` which descriptor is open (`DescriptorInv`), what
has been set by then (`ConfiguredInv`) and from when on the size is the driver's
(`SizeInv`). `CreateAdvances` is the part of `CreateReturns` that needs no
fairness: every step of a `create` lowers the number of steps it has left, ten
and one for each format at the most, whichever error path it takes.

`V4l2MmapDeviceProofs`, for any number and length of buffers, any driver, any
leftovers and any failures: `TypeCorrect`, `ReadOrder`, `Accounted`,
`PartialOwned`, `MemorySound` and `Refinement` (the buffers implement
`FrameStream`). The invariant: no buffer is twice in a queue or in both (`Once`),
no finished frame is older than one before it or than what was read last
(`Ordered`), the slots in use are the driver's buffers, each queued, lost, or
being written (`Covered`), and a write that was begun has the length of its
buffer and has used no more of it (`Begun`). `MemorySound` adds to it that, while
the slots are in use, a start that returned true has mapped them all (`Mapped`):
with `Covered`, so is the slot of every buffer the driver gives back. The refinement rests on `Once`: a
buffer that the driver finishes is not in the outgoing queue already, so the
frame written into it changes none that waits.

The theorems assume what the modules assume of their constants
(`ParaQueueAssumption` and its like) and nothing else, except where a statement
names an assumption (`SingleFilter`, `MaxTear < MaxQueueSize`, `SingleCaller`,
`NoReadFailure`).

Every module has its type invariant proved, for every instance; no run checks one
again. Every invariant and every action property of the passing runs, and
every refinement, is stated by a theorem.

Only model-checked: the liveness properties (`PushCompletes`, `KeepsUp`,
`InvokeReturns`, `CallsComplete`, `FramesTaken`, `CreateReturns`), since fairness
and `ENABLED` are beyond the prover. For all but `KeepsUp` the theorems above say
why the steps that fairness brings about lead to the end. The runs that expect a
violation are counterexamples, which is TLC's work.

## What is not modelled

* What two operations at once do to the nodes of the manager's `unordered_map`,
  which has no lock: the model has every order of whole operations.
* A `system_clock` that is set back during a timed grab (`main.cpp:171`).
* The values that the Get filters write: each is one member of the camera.
* `set_max_frequency_hz`, `last_frame_time`: nothing reads what they set.
* `list_supported_framerates`, `test.cpp`, `libv4l2cpp/main.cpp`: listing, and
  loops over calls that are modelled.
* The logger, but for the `else` its macro takes.
* The Windows header, `cpu_stats.hpp`, `mean_calculator.hpp`: no implementation.
* Image contents, sizes, and the decoding of a frame.

## Plan

Done: queue with the arithmetic of its rate, grab filters, camera and the
abstract camera it implements, registry, timer, exposure, opening, buffers and
the abstract stream they implement, and theorems about all of them: every safety
and action property and every refinement, and what each liveness property but
`KeepsUp` rests on besides fairness.

Left, in this order:

1. Two devices at once in `V4l2MmapDevice`: a program that copies from a capture
   to an output, as `libv4l2cpp/main.cpp` is meant for.
2. A step of the clock in `GrabImage`, with the bound on an `Invoke` that is left.
3. `Registry` on top of `Camera`, so that a rate change is more than one step
   there.
4. What `KeepsUp` rests on besides fairness.
