# libusbp in TLA+

libusbp is a cross-platform C library for talking to USB devices: it lists
devices, finds the interface of a device, opens a handle to it, does synchronous
transfers, and reads an endpoint continuously through an asynchronous IN pipe.
This directory holds TLA+ models of it, TLC runs that check them on small
instances, and TLAPS proofs of the properties that matter most for every size.

Paths such as `src/src/async_in_pipe.c` are relative to the directory that holds
`src/` (the repository) and `tla/` (this project). `PROJECT.json` has the exact
map from definitions to source lines, the runs, the mutants, the findings, the
hazards and the theorems.

## 1. Inventory

The library creates no thread and has no mutable global state. Concurrency
comes from outside: the kernel and the device act between any two system calls,
devices come and go, and memory allocation can fail anywhere.

| Component | State | Operations | What makes it correct | Modelled |
|---|---|---|---|---|
| Asynchronous IN pipe (`async_in_pipe.c`) | ring of transfers: `next_submit`, `next_finish`, `pending_count`, `endless_transfers_enabled` | create, allocate, start, handle events, has pending, hand over, cancel, close | a transfer is never submitted twice; data arrives in order and none is lost; cancellation ends; the endless pipe never runs dry | `AsyncInPipe`, `PlatformPipe` |
| Asynchronous IN transfer (`async_in_transfer_linux.c`, `_windows.c`, `_mac.c`) | `pending`, `error`, count and buffer, URB or `OVERLAPPED` | create, submit, completion, results, cancel, free | memory the kernel may write to is not freed; results belong to the last submission | Linux `AsyncInPipe`; Windows, macOS `PlatformPipe` |
| usbfs ioctls (`usbfd_linux.c`) | file descriptor | submit, reap, discard; open, descriptor; control, bulk | which errno values are errors | `AsyncInPipe`, `DeviceAccess`, `SyncTransfer` |
| Generic handle (`generic_handle_linux.c`, `_windows.c`, `_mac.c`) | fd or handles, timeouts and indices per pipe | open, check descriptor, configure, close, set timeout, control, read, write, reap or dispatch for all pipes | the device that is opened is the one that was listed; nothing leaks on a failed open; the timeout used is the one set; the endpoint used is the one named | opening in `DeviceAccess`, `WindowsAccess`, `MacAccess`; transfers in `SyncTransfer` |
| Generic interface (`generic_interface_*.c`) | copies of device properties, path or id, interface number | create (with "not ready"), copy, free | an interface that is not ready yet is reported as such, every failure is reported | the three access modules |
| Device, device list, search (`list.c`, `find_device.c`, `list_*.c`, `device_*.c`) | growing array of owned devices | enumerate, append, find by vendor and product, copy, free | a failure in the middle frees what was built; a device that vanishes is skipped | the three access modules |
| Queries of the system (`udev_linux.c`, `interface_windows.c`, `device_instance_id_windows.c`, `iokit_mac.c`) | lists, keys, iterators and references while a call runs | walks and questions about entries | an entry that vanishes during a walk does no harm; everything is released | the three access modules |
| Serial port (`serial_port_*.c`) | name of the port | create, copy, free | the port belongs to the interface that was asked for | the three access modules |
| Error objects (`error.c`, `error_linux.c`, `error_windows.c`, `error_mac.c`) | message, codes, `do_not_free` | create, add text and code, copy, free, has code; from errno, URB status, Windows and Mach errors | ownership and the static no-memory objects under failing allocation; the code tells the cause | `ErrorObject`, `SyncTransfer` |
| Pipe ids (`pipe_id.c`) | none | checks | an endpoint address outside the valid set is refused | `SyncTransfer` |
| Strings (`string.c`) | none | copying | | not modelled |
| C++ wrapper, examples, tests, installer helper | | | | not modelled |

How they interact: a pipe calls its transfers, which call the system through
the handle. On Linux all pipes of a handle share one file descriptor, so
`handle_events` on one pipe reaps URBs of all of them, including URBs of pipes
that were closed in the meantime; the URB's `usercontext` leads back to the
transfer. On macOS the handle has one port for the messages of all its pipes; on
Windows each transfer is asked for itself. Handles are opened from generic
interfaces, those from devices, those from the list; each keeps copies of what it
needs, so each may be stale.

What is hard to test here is listed at its line under "hazards" in
`PROJECT.json`. The core ones: transfers complete, and the device is unplugged, in
the middle of the loops of start, events and cancel; the indices of a full and
an empty ring are the same; some submissions of a ring fail; discarding goes in
array order, not ring order; a pipe is closed with transfers in the kernel;
entries vanish and appear during the walks that look for a device, an interface
or a port; names and addresses are used again; any allocation fails, those of an
error object included.

## 2. Modules

* `TransferQueue` — what a pipe promises its user: a bounded queue of requests,
  answered by the device and handed over in order.
* `AsyncInPipe` — the asynchronous IN pipes of one handle on Linux, with the
  usbfs kernel and the device. It implements `TransferQueue` (`QueueView`,
  `ImplementsTransferQueue`).
* `PlatformPipe` — the same pipes on Windows and macOS. It EXTENDS `AsyncInPipe`,
  takes its actions for the shared code of `async_in_pipe.c`, and replaces those
  of the transfer and the kernel. It implements the same `TransferQueue`.
* `ErrorObject` — error objects as operators on a heap; `SyncTransfer` EXTENDS it.
* `SyncTransfer` — control transfers, reads, writes and timeouts on the three
  systems, and the error each failure builds.
* `UsbBus` — ports, the kernel and its tables as the library sees them: devices
  that are plugged in and removed, and what appears and vanishes with them
  (external). The three modules below compose with it.
* `DeviceAccess`, `WindowsAccess`, `MacAccess` — from the device list to an open
  handle on Linux, Windows and macOS.
* `AsyncInPipeProofs`, `PlatformPipeProofs`, `SyncTransferProofs`, `DeviceAccessProofs`,
  `WindowsAccessProofs`, `MacAccessProofs` — theorems about the modules they are named
  after; `UsbBusProofs` has the lemmas about the bus that the last three share.
* `AsyncInPipeRefinement` — proof that the pipes of Linux implement `TransferQueue`; the
  one for Windows and macOS is in `PlatformPipeProofs`.
* `MCAsyncInPipe`, `MCPlatformPipe`, `MCSyncTransfer`, `MCDeviceAccess`,
  `MCWindowsAccess`, `MCMacAccess` — instances for TLC.

### AsyncInPipe: state and actions

The variables keep the names of the struct members. Per pipe: `transfer_count`
(0 while `transfer_array` is NULL), `endless_transfers_enabled`,
`pending_count`, `next_finish`, `next_submit`; per transfer: `allocated`
(memory not freed), `pending`, `error`, `data` (what is in the URB's buffer, with
`actual_length`). The kernel: `connected`, `inflight` (URBs queued on an
endpoint), `completed` (URBs that can be reaped from the descriptor). History:
`produced` (chunks the device has sent), `received` (last chunk the user got).

`call` is the library call in progress. A call with several ioctls takes one
step per ioctl, so that kernel steps interleave: `start_endless_transfers`,
`start_submit`*, `start_return`; `handle_events`, `events_reap`*,
`events_return`; `cancel_transfers`, `cancel_discard`*, `cancel_return`. Every
other call is one step: `async_in_pipe_create`, `allocate_transfers`,
`handle_finished_transfer` (with the resubmission of an endless pipe),
`async_in_pipe_close`, `generic_handle_close`. Calls on one handle are made one
at a time, because `src/THREADS.md` says that they conflict; pipes are closed
before their handle.

The kernel and the device are external and modelled from how the code uses
them: URBs of an endpoint are filled in the order in which they were submitted
(`UrbCompletes`, with data or not, with an error or not), `USBDEVFS_DISCARDURB`
ends a queued URB before it returns and answers EINVAL for any other one
(`usbfd_discard_urb`), submission may fail at any time, an unplug
(`Disconnect`) makes ioctls fail at once and the kernel then ends the queued
URBs one by one (`UrbKilled`). `ReapAfterDisconnect` tells kernels from 4.0 on
from older ones (comment above `usbfd_reap_urb`). Closing the descriptor makes
the kernel forget its URBs.

Abstractions: the bytes of a transfer are a numbered chunk, 0 for no bytes;
errors are the four kinds the properties tell apart; a call that returns early
and changes nothing is a stuttering step, and so is an allocation that fails
and is rolled back. One pipe is opened per endpoint, once.

### PlatformPipe: state and actions

The variables of `AsyncInPipe`, with `platform` (the build) and `aborting[p]` (reads
that an abort will end). `completed` holds results that nobody has looked at: on
Windows in the `OVERLAPPED` structures, on macOS as messages in the port.
`windows_transfer_submit` may find the read completed at once, pending or refused;
`windows_transfer_pending` asks the system for the result of one transfer, which
`port_handle_finished_transfer` does for the one at `next_finish`; on macOS
`mac_handle_events` runs the callback of each message, whichever pipe it is for.
`port_cancel_transfers` is one request, `AbortPipe`, for the whole pipe; the driver ends
the reads it had at that moment later (`AbortedEnds`), or the request fails and the reads
stay queued although the pipe is no longer endless. `transfer_array[0]` is read without a
test there, so the model has the caller allocate the transfers first. `handle_events` may
end with messages left in the port (`mac_events_return`): a failed receive, also for a
message that is too large, leaves them there.

### ErrorObject and SyncTransfer: state and actions

An error is a struct with a message and an array of codes, up to three blocks of
`heap`. The functions of `error.c` take an error and a heap and yield the set of
results they may have, since any allocation in them may fail; the static errors
stand in. In `SyncTransfer` a call (`Transfer`) checks its arguments, asks the
system once and gets any of its answers; `todo` is what the call then adds to the
error, one step (`Adds`) for each addition. The user may copy an error and frees
both. `set_timeout` keeps timeouts in the two arrays of the handle on Linux and
macOS; on Windows `windows_set_timeout` leaves them with WinUSB (`policy`).
`endpoints` is the order in which the interface lists its endpoints, from which
`process_pipe_properties` makes the indices of macOS. URB statuses are answers as
well, for the errors of asynchronous transfers. A failed transfer may have moved any
number of bytes, all of them included (an overflow, a timeout of WinUSB). On macOS a failed
read reports that number or the size of the buffer, since `libusbp_read_pipe` stores the
variable that it presets with the size before it looks at the result (`MacReadCounts`).
`call.timeout` is what the system was given; `timed` is the set of pipes that ever had a
timeout, of which WinUSB may let an asynchronous read time out. Bytes are counted, not stored;
`MaxSize` stands for UINT_MAX and ULONG_MAX.

### UsbBus and DeviceAccess: state and actions

`UsbBus` numbers the devices that are plugged in over time (instances);
`identity[n]` is what instance `n` is (ids, serial number), `at[p]` the instance at
port `p`. A sysfs path is a port with an interface number, or with `WholeDevice`
for the device itself; so a later device at the same port has the same path. A
device node is named after an address, and addresses are used again
(`Address`). `nodes`, `initialized`, `ifaces`, `driver` and `ttys` are what the
kernel and udev have made of a device so far; each appears with a delay and
vanishes with the device, interfaces also without it.

In `DeviceAccess`, `frame` holds the local variables of the call in progress:
`pc`, the entries still to be visited (`todo`), the entry being looked at, the
device object being filled in (`obj`). Calls and their steps:

* `libusbp_list_connected_devices`, `libusbp_find_device_with_vid_pid`:
  `list_begin`, then per entry `add_udev_device_to_list_if_needed`, `read_ids` (three
  reads), `read_serial` (with the append), at the end `list_return` or
  `find_return`;
* `libusbp_generic_interface_create`, `libusbp_serial_port_create`:
  `search_begin`, then per entry `get_interface_entry` and `check_interface`;
  `check_driver_installation`, `get_devnode`, `check_existence` for an interface;
  `tty_scan`, `tty_entry`, `tty_name` for a port; the failures
  `interface_not_found`, `tty_not_found`, `search_out_of_memory`;
* `libusbp_generic_handle_open`: `generic_handle_setup`, `usbfd_open`,
  `check_device_descriptor`;
* one step each: the copies of devices, interfaces and ports (`Copies`,
  `CopyFails`) and the functions that free.

The user holds at most one object of each type; `list`, `device`, `gi`, `copied`,
`port` and `handle` are these. `devs` and `fds` count device objects and file
descriptors in existence, wherever they are referenced. `ooms` is the number of
allocations that may still fail. History, read by no action: `result` (what the last
call returned), `watch` (what the bus did during it), and the field `inst` of a
device object.

Abstractions: libudev lists entries in the order of their paths, the model in any
order. Questions about one entry that follow each other directly are one step where
a change between them has the effect of a change before or after them. Attribute
values are numbers, so that parsing does not fail. `/dev/bus/usb` can be searched,
so that `access` fails only with ENOENT; opening a node may fail with EACCES at any
time. Functions that only allocate and copy either succeed or leave nothing behind.

### WindowsAccess and MacAccess: state and actions

Both have the same shape: `frame` for the call in progress, `user` for the objects
of the user, `held[k]` for the number of resources of kind `k` that exist (objects,
device information lists, registry keys, files; on macOS objects, services,
iterators, plug-ins and exclusive accesses), `ooms` as above, and the history
`result` and `watch`. Their headers say how the variables of `UsbBus` are read.

Windows: a device instance id has the vendor, the product and the serial number, or
the port for a device without one, and not the revision. Lists are snapshots; nodes
are asked one by one and may be gone by then. `get_interface_non_composite` looks
for the node of the device, `get_interface_composite` walks over three lists (USB,
COM ports, modems) for a child of the device with the right interface number, and ends
at the first node that cannot be asked. `libusbp_serial_port_create` tries a second
time as if the device were composite.

macOS: an entry of the I/O registry has an id that is never used again, and objects
keep that id. Iterators are live: what appears during a walk may or may not be seen.
A device that has no configuration is opened exclusively, configured and closed
before its interface is looked for, and other programs may have it open
(`configured`, the exclusive accesses of others). `libusbp_serial_port_create` walks
over the subtree of the device and keeps the last ACM control and data interfaces
it saw; `fixed_interface` is its attribution of a port. Questions about an entry that is gone fail,
in `generic_interface_return` (the id of the interface) and in `port_entry` (its number). A device
that is there may refuse the configuration. Assumed: a device that has a configuration keeps
its interface entries when it is opened; the system could make new ones, with other
ids, which no definition follows. A serial port may lose its name while its object is made
(`port_name`); the user does not copy such an object, since `string_copy` asserts that there
is a name.

Definitions introduced by a comment `Mutant:` are not part of the model: each is
a wrong variant of the definition that follows, which the named property of
`PROJECT.json` must reject.

## 3. Runs

| Run | Instance | Shows |
|---|---|---|
| `one_pipe` | Linux from 4.0 on, 1 pipe, rings of 1 and 2, 3 chunks, fairness | `RingInv`, with the types, as a check of the inductive invariant; `NothingPendingMeansNothingLost`; `EndlessKeepsAllPending`; `CancelQuiesces`; `CloseWithoutPendingFreesAll`; `DeliveredInOrder`; `ImplementsTransferQueue`; `CancelDrains`: the loop that libusbp.h prescribes after a cancellation ends |
| `two_pipes` | Linux before 4.0, 2 pipes (symmetric), rings of 1 and 2, no data | `SubmitAssertions` (the assertions in the code hold, no URB is submitted twice) and `KernelMemorySafe` when pipes share the descriptor and outlive each other |
| `platform_pipe` | Windows and macOS, 1 pipe, rings of 1 to 3, 1 chunk, fairness | `KernelMemorySafe`; `FlagsMatchDriver`: what is pending will be answered, and an answer finds its transfer as it was submitted; `ReportedDataIsNew`, which fails on Linux; `ImplementsTransferQueue`; `CancelDrains` |
| `transfers` | three systems, endpoint 1 in both directions, ids that are no pipes, 6 blocks of memory | `HeapIsOwned`: no leak, no double free, no error shared by two owners; `FailureIsReported` and `CauseIsTold`, however little memory there is; `CopyTellsTheSame`; `TimeoutWasAskedFor`; `NamedEndpointIsUsed`; `CountIsTrusted`: successes report the exact count, failures no more than was moved, except reads on macOS |
| `device_open` | Linux, 2 ports, 2 kinds of devices, 3 plugs, 2 addresses | `AccessInv`, with the types, as a check of the inductive invariant; `ListIsComplete`: a device that is there all the time is listed once, with its own ids, whatever others do; `FindIsRight`; `HandleMatchesDevice`: no device of another kind is behind a handle; `OpensListedDevice`: while the listed device stays, it is the one that is opened |
| `device_ready` | Linux, 1 port, 2 interfaces, a foreign driver, ttys, all calls, 1 failing allocation, fairness | `ReadyInterfaceIsCreated`; `NotReadyIsTrue`: the not-ready answer is never given for what was ready all the time; `NothingLeaks` on every error path; `CallsReturn`, on a bus that never comes to rest |
| `windows_access` | Windows, 2 ports, a composite device with and a plain one without serial number, 2 plugs, 1 failing allocation | `NothingLeaks`, `ListIsComplete`, `OpensListedDevice`, `ReadyInterfaceIsCreated`, `NotReadyIsTrue`, stated for Windows |
| `mac_access` | macOS, 1 port, 2 devices of the same kind, an ACM function and a third interface with a serial port, 1 failing allocation | `NothingLeaks`, exclusive accesses included; `OpensListedDevice`; `SerialPortIsRight`: a port is attributed to its own function; `ReadyIsFound` |
| `stale`, `not_ready`, `copy_failure`, `no_memory` | Linux, small | expected violations, see Findings |

Bounds. `MaxCount` bounds the ring and `MaxChunks` the data. A ring of two has all
orders of submission, completion and discarding of two transfers, with its start
anywhere; three chunks let every slot be used and used again; `platform_pipe` has rings
of three, partly submitted, partly completed and partly handed over. Two pipes without
data are enough for the sharing of the descriptor, since data never crosses pipes. For
the safety properties of the passing runs the bounds do not matter in the end: they are
proved for every value.

In the access modules, two ports are one device of interest and one that interferes.
Three plugs are a device, its replacement on the same port, and another one; with
two addresses the third plug gets the address of the first, so that both path and
node name can lead to a wrong device. On Windows the name of a file has no address in
it, and two plugs are enough for a device that takes the place of another one. On
macOS a port is enough: ids make no difference between ports, and the interference
comes from the other interfaces of the device. Six blocks of memory are one error and
its copy; that there may be no memory at any time is an alternative of every
allocation and needs no bound.

Constraints. `OneChain`: the user frees an object before the next one of its kind is
made from another device, and holds a handle only together with its interface (objects
own copies of what they need, so no step reads another chain). In `windows_access` and
`mac_access` a copy is freed before the next call and the user stops after a call in
which memory ran out (what such a call leaves behind is still checked);
`CopiesAreShortLived` says of a copied error that it is freed before the next call. `device_ready` has no constraint.

Symmetry. `device_open` and `windows_access` use the permutations of the ports, and
`two_pipes` those of the pipes, which no definition tells apart; these runs have no
liveness property.

Deadlock is checked in all runs; `Terminated` and `PortTerminated` are the end of a
behaviour in which the handle is closed and the device gone, and `Crashed`, on Linux, that of a
program that is dead.

Fairness (`one_pipe`). `Continue`: a call that was made goes on, since it only
makes ioctls that do not block. `UrbKilled`: the kernel ends the URBs of a device
that is gone. The user's part is strong fairness of `handle_events` and
`handle_finished_transfer`: libusbp.h tells the user to call them repeatedly
until nothing is pending, and between two calls the pipe may be busy with other
ones. Nothing is assumed of the device, which may stay silent for ever, and of
the user's other calls.

Fairness (`platform_pipe`). The same, with `AbortedEnds` (the driver ends the reads
that an abort has asked it to end) and `ReadEnds` only after an unplug. Calls that can fail
without effect do not fail for ever: a user whose cancellation got an error cancels again
until one gets through (`CancelAgain`, possible only while a read of a pipe that is not
endless was not aborted), and receiving from a port with messages succeeds at some time
(`mac_events_receive`). Without the first, `CancelDrains` is false: one failed
`AbortPipe` on a silent device leaves the reads pending for ever.

Fairness (`device_ready`). Only that a call goes on (`CallStep`): its steps are
queries that do not block. Nothing is assumed of the bus.

## 4. Proofs

Eight modules hold theorems or lemmas. They prove every safety property, and both
refinements, that the passing runs check, for every value of the constants that
satisfies the named assumptions (`MaxCountAssumption`, ...) in the modules that declare
them. These say that bounds and, on macOS, interface numbers are natural numbers (a ring
has a slot and there is an address at least), that null and absent values are not members
of the sets they stand outside of (`NullAssumption`: NULL is no interface number and no
object; `AcmAssumption`: the absence of a driver is not the name of one), that pipe ids
are bytes, that 0 is a timeout, that endpoint layouts are sequences of pipe ids and that
each interface is matched by one of the drivers (`PersonalityAssumption`); nothing else is
assumed. The theorems are about `Spec` without the constraints of the runs.

None of the properties is inductive as it stands. Each module has an inductive
invariant, a conjunction of named parts, defined next to the properties and not with
the proofs. TLC has checked each of them before it was proved; `RingInv` and `AccessInv`
are invariants of runs, `WindowsInv` and `MacInv` hold as INVARIANTs in the
configurations of `windows_access` and `mac_access`.

### Asynchronous IN pipe on Linux (`AsyncInPipeProofs`)

The invariant has two layers.

* `RingInv` (`RingCorrect`) ties three descriptions of the same thing together:
  the indices (`RingIndices`: `next_submit` is `pending_count` slots after
  `next_finish`), the flags (`PendingInWindow`: only slots between the two
  indices are pending), and the kernel (`KernelHasPending`: the kernel has only
  pending transfers, each once). `EndlessIsFull` and `CancelProgress` say how far
  the loops of start and cancel are. `RingCore` is `RingInv` without
  `CancelProgress`, which is the only part that belongs to usbfs: there the
  transfers are discarded one by one. The step proofs have one lemma per action;
  `RingTurn` says how distances in the ring change when it turns by one slot.
* `StreamInv` (`StreamCorrect`) follows the data: `Holds(p, i, c)` says that chunk
  `c` is in slot `i`, in a URB to be reaped or in the memory of a reaped one.
  Queued URBs are in ring order (`QueueInRingOrder`), chunks lie in ring order
  and before all queued URBs (`ChunksInRingOrder`), and every chunk sent and not
  handed over lies somewhere (`AllChunksHeld`). From these, the first slot of the
  window holds either no chunk or exactly the next one (`NextChunkIsFirst`), which
  is delivery in order; and an empty window holds none, which is that nothing is
  lost.

Theorems: `TypeCorrect`, `SubmitAssertionsHold`, `KernelMemoryIsSafe`,
`EndlessStaysFull`, `CancelIsQuiet`, `CloseLeaksNothingElse`, `NothingIsLost`,
`DeliveryIsInOrder`.

### The pipe is a queue (`AsyncInPipeRefinement`)

`PipesAreQueues`: `Spec` implies `ImplementsTransferQueue`. The mapping reads the
window of the ring, from `next_finish` on, as the queue of requests (`QueueOf`); what
has become of a request is looked up in the kernel first and in the transfer then
(`Answered`). Under `RingCore` and `StreamInv`:

* a submission of `start_submit` is a `Request`; a hand-over is a `Deliver`, with the
  resubmission of an endless pipe;
* a URB that ends is a `Respond`, or a `Lose` when it brings data to a pipe that was
  closed; that data goes to the oldest request that waits is `QueueInRingOrder`;
* create, allocate and close are the actions of the same meaning, start and cancel are
  `Enable`, and everything else, `handle_events` above all, is a stuttering step: reaping
  moves an answer from the kernel to the transfer and changes nothing for the user
  (`ReapQueue`).

The lemmas (`AskStep`, `DeliverQueue`, `ReapQueue`, ...) are stated for the effect of
a step on the variables and not for an action, so that the other platforms use them too.

### Asynchronous IN pipes on Windows and macOS (`PlatformPipeProofs`)

`PortCorrect` proves `PortInv`: `RingCore`, the types of the two new variables (`PortType`),
and what these transfers promise. Whatever is pending is in the driver or has a
result that can be collected (`PendingIsInKernel`), without which a cancelled pipe could
wait for an answer that never comes. A pending transfer has the count and the error it
was submitted with (`PendingIsFresh`), which is what the callback asserts. A refused
submission has no bytes (`RefusedIsEmpty`); this is what the Linux code lacks, so that
`ReportedDataIsNew` is proved here (`PortReportedDataIsNew`) and violated there
(`stale`). `PortStreamCorrect` carries `StreamInv` over; with it follow the properties
of the Linux pipe, except those of the discarding loop (`PortMemoryIsSafe`,
`PortFlagsMatchDriver`, `PortSubmitAssertionsHold`, `PortEndlessStaysFull`,
`PortCloseLeaksNothingElse`, `PortNothingIsLost`, `PortDeliveryIsInOrder`), and
`PortPipesAreQueues`, the refinement. The shared code of `async_in_pipe.c` is covered by
the lemmas of `AsyncInPipeProofs`; results of reads are collected in any order, which
these allow.

### Synchronous transfers and errors (`SyncTransferProofs`)

`SyncInvariant` proves `SyncInv`, for any set of memory blocks and any pipe ids. The
first lemmas are about the operators of `ErrorObject`: each of the results they may
have owns its blocks alone, keeps what was on the heap, and tells every code that was
told before or is the static object for lack of memory. In a call that fails the error
grows step by step, and between two steps it tells less than it will: `Coming` is what
is still to be added, and the invariant counts it as told (`CauseIsComing`,
`TimeoutIsComing`, `FailureInProgress`). `TimeoutsAreKept` compares the arrays of the
handle, or the policy of WinUSB, with what the user asked for; with it, each transfer is
given the timeout that was last set for its pipe (`TimeoutIsGiven`). Theorems:
`HeapStaysOwned`, `FailuresAreReported`, `CausesAreTold`, `TimeoutsWereAskedFor`,
`NamedEndpointsAreUsed`, `CountsAreTrusted`, and the action property
`CopiesTellTheSame`.

### From the list to the handle on Linux (`DeviceAccessProofs`)

`AccessInvariant` proves `AccessInv` and the properties of answers, for any ports,
kinds of devices, interfaces and number of plugs. Its parts:

* `BusInv`: an instance is at one port, and connected devices have distinct addresses,
  so that a node leads to one device;
* `FrameInv`: which local variables are set at which `pc`; `CountInv`: how many device
  objects and descriptors exist at that `pc`. Between calls this is `NothingLeaks`;
* `ObjectInv`: an object knows the port of its device; with `BusInv` this
  gives `OpensListedDevice` and `HandleMatchesDevice`;
* `ReadyInv` (with `WatchInv`, the shape of the history): an interface that was ready all
  the time is ready now, and is still ahead of the walk, or it
  is the one being looked at. So the walk cannot end without it, which is
  `ReadyInterfaceIsCreated` and `NotReadyIsTrue`;
* `OnceInv` and `StableInv`: a device is listed once; a device that was there all the
  time is ahead of the walk, being read, or in the list. At the end of the walk this is
  `ListIsComplete` and `FindIsRight`.

Theorems: `NoLeak`, `HandlesMatchDevices`, `ListedDevicesAreOpened`,
`NotReadyIsNeverWrong`, `ReadyInterfacesAreCreated`, `ListsAreComplete`,
`FindsAreRight`.

### The bus (`UsbBusProofs`)

`BusInv`, in `UsbBus`, is shared by the three access modules: `BusPreserved` proves that
each event keeps it, and `BusMoves` says what an event cannot do: it gives a known
instance no other identity and no other port, and an interface that stays is one of the
same device.

### From the list to the handle on Windows (`WindowsAccessProofs`)

`WindowsInvariant` proves `WindowsInv`. Its parts:

* `NamesInv`: `BusInv`, and connected devices have distinct instance ids (`UniqueIds`, what
  the system promises). An instance id therefore leads to one device at any moment, but not
  to the same one at two moments, since ids are used again;
* `FrameInv`: the local variables at each `pc`; the node that an attempt asks questions
  about is the one it looked for (`TargetNode`);
* `CountInv`: what exists of each kind is what the user owns (`Owned`) and what the call
  in progress holds at this `pc` (`InUse`), or more once an allocation has failed. Between
  calls `InUse` is empty, and this is `NothingLeaks`;
* `ObjectInv`: a device object describes an instance that was plugged in, and has its
  id as long as it is connected (`Known`); what is behind a handle is of the same kind, and
  the same one while it is connected (`Opened`). This is `OpensListedDevice`;
* `ReadyInv`: what was ready all the time is ready now. If the attempt in progress can
  find it (`Aimed`), its node is still ahead: in the list that is walked over, or in the
  next one for a node with the driver of FTDI, which is in another list. When the
  second attempt is made, the port is that of interface 0, for which it looks, unless
  memory or a node was missing in the first one. So neither attempt can end without it (`NotReadyIsTrue`,
  `ReadyInterfaceIsCreated`);
* `OnceInv` and `StableInv`: as on Linux, for the list (`ListIsComplete`).

The step lemmas come in three layers with one lemma per action or group of actions:
`CoreInv` (frame, counts, objects), `FoundInv` and `ListedInv` (each with what it says of a
call that has returned). `MoveCore`, `FailCore` and `MoveFound` are the common cases of a
step that goes on and of one that fails. Theorems: `WindowsLeaksNothing`,
`WindowsOpensListedDevice`, `WindowsNotReadyIsTrue`, `WindowsReadyIsCreated`,
`WindowsListIsComplete`.

### From the list to the handle on macOS (`MacAccessProofs`)

`MacInvariant` proves `MacInv`. Its parts:

* `RegistryInv`: `BusInv`, and `RegistryInOrder`, the order in which interfaces, drivers and
  serial ports appear. `InterfacesKept`: a device that stays keeps its interfaces;
* `FrameInv`: where a call has a service, it is that of its target (`AtService`), and where
  it has an interface, it is the one that was asked for. `OpensListedDevice` is part of
  `ObjectInv` and follows when the object is made;
* `CountInv`: as on Windows, with services, iterators, plug-ins and exclusive accesses.
  `InUse` is not constant along a call: `set_configuration` gets a plug-in and the exclusive
  access of the device and gives them back before those of the interface are got;
* `WalkInv`: the walk over the subtree goes upwards; in a registry at rest, an ACM
  control interface right before one that is still ahead is the one in `frame.control`, and
  `frame.data` is behind. With `SerialFacts` (the port of an ACM data interface comes with
  its control interface), the interface to which a port is attributed is that of its
  function (`FunctionOf`): `SerialPortIsRight`;
* `ReadyInv`: what was there all the time is there, and ahead of the iterators, whatever
  appears behind them; an interface that vanishes, which would end the search
  with an error, would take its device along (`BusCandidate`). This is `ReadyIsFound`.

`MoveStep`, `FailStep` and `MadeStep` are the steps that go on, fail and succeed; `EnterStep`,
`FreeStep` and `CopyStep` those of the user. Theorems: `MacLeaksNothing`,
`MacOpensListedDevice`, `MacSerialPortIsRight`, `MacReadyIsFound`.

### Only model-checked

`CancelDrains` and `CallsReturn`: liveness under fairness is out of the prover's reach.
The expected violations of section 5 are shown by TLC.

## 5. Findings

* `stale`: when the resubmission of a transfer fails, `handle_finished_transfer`
  reports, next to the error, the byte count and the data of the transfer's
  previous use (`async_in_transfer_submit` does not reset `actual_length`). The
  Windows and macOS ports reset their count. `DeliveredInOrder` and the proofs
  count only data that comes with a URB that completed.
* `not_ready`: `udevw_get_interface` walks over the entries of all devices and gives
  up at the first one that is gone. If an unrelated device is unplugged during the
  walk, a missing interface is reported without the code NOT_READY that
  `libusbp.h` promises. (Ending the walk quietly instead would be wrong as well:
  that is the mutant of `NotReadyIsTrue`.)
* `copy_failure`: `libusbp_generic_interface_copy` returns NULL, success, when it
  could not make the copy.
* `no_memory`: `generic_handle_setup` tests the wrong pointer after `calloc`, and
  writes through NULL if the device node can be opened.

Weaknesses that are modelled as they are, without a run of their own:

* `libusbp.h` says that an interface bound to any driver but usbfs is refused;
  `check_driver_installation` accepts cp210x as well.
* A write that fails after a part of the data was moved reports a count of 0 on Linux
  and macOS; `src/test/write_pipe_test.cpp:149` expects that and calls it bad. Hence
  `CountIsTrusted` says equality for successes only.
* A read that fails on macOS may report the size of the buffer although less was read, or
  nothing (`generic_handle_mac.c:439-443`); `CountIsTrusted` exempts it.
* Windows and macOS leak when an allocation fails: the device that could not be
  appended (`list_windows.c:88`, `list_mac.c:82`), the registry key
  (`generic_interface_windows.c:128`), the list (`interface_windows.c:344`). Hence
  `NothingLeaks` of these ports is exact only without a failed allocation, and says that
  nothing is released twice otherwise.
* A serial port on macOS may have a NULL name, and copying it, or asking for the name,
  reaches an assertion (`serial_port_mac.c:179`, `:209`).
* `get_interface_non_composite` tests `list` instead of `new_list`
  (`interface_windows.c:29`): a list that could not be made is noticed by the next call
  that uses it, with another error.
* On macOS a port is attributed to an interface by the order of a walk over a registry
  that may change meanwhile; `SerialPortIsRight` is stated for a registry at rest. Which
  port is right while entries come and go is not said by the code, and not checked.
* A call that fails on Linux for lack of memory for one device lists the others and
  succeeds; `ListIsComplete` is stated for calls without a failed allocation.

## 6. Not modelled

* `string.c`: copying of C strings has no state; where a copy can fail, the step of its
  caller can.
* `libusbp.hpp`: unique ownership of the C objects and exceptions for errors; no
  protocol of its own.
* Getters, the texts of errors, logging, and the parsing of ids from strings: no state
  changes there.
* A second pipe on an endpoint whose first one was closed with URBs in the kernel.
* Examples, tests, and the helper of the Windows installer use the library only.

## 7. Plan

1. Done: the asynchronous IN pipe on Linux, Windows and macOS, its abstract queue, the
   proofs of their safety and of the refinements.
2. Done: devices that come and go, from the list to the handle, synchronous transfers
   and error objects, on the three systems, with the proofs of their safety.
3. Extension of the core: several pipes on one endpoint, one after the other.
