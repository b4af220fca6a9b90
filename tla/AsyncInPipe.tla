---------------------------- MODULE AsyncInPipe ----------------------------
(***************************************************************************)
(* The asynchronous IN pipes of one generic handle, on Linux.              *)
(*                                                                         *)
(* A pipe owns an array of transfers and uses it as a ring: transfers are  *)
(* submitted at next_submit and handed to the user at next_finish.  The    *)
(* library has no thread of its own.  What runs concurrently with a call   *)
(* is the kernel (usbfs) with the device behind it: URBs complete, and the *)
(* device is unplugged, between any two ioctls.  Therefore a call that     *)
(* makes several ioctls (start, events, cancel) takes one step per ioctl,  *)
(* recorded in the variable call; every other call is one step.            *)
(*                                                                         *)
(* The calls for one handle and its pipes are made one at a time:          *)
(* THREADS.md says that they conflict.  A call that returns early without  *)
(* changing anything (a NULL argument, transfers already allocated, a      *)
(* failed allocation that is rolled back, no finished transfer) is a       *)
(* stuttering step and is not written down.                                *)
(*                                                                         *)
(* Data: what the device sends in one transfer is a chunk, and the chunks  *)
(* of an endpoint are numbered 1, 2, ...  Chunk 0 stands for zero bytes.   *)
(***************************************************************************)
EXTENDS Integers, Sequences

CONSTANTS
    Pipes,        \* the pipes that may be opened on the handle, one per endpoint
    MaxCount,     \* bound on transfer_count
    MaxChunks,    \* bound on the chunks a device sends on one endpoint
    NoPipe,       \* "no pipe", when no call is in progress
    ReapAfterDisconnect  \* Linux 4.0 and later: URBs can be reaped after an unplug

ASSUME MaxCountAssumption == MaxCount \in Nat \ {0}
ASSUME MaxChunksAssumption == MaxChunks \in Nat
ASSUME NoPipeAssumption == NoPipe \notin Pipes
ASSUME ReapAssumption == ReapAfterDisconnect \in BOOLEAN

VARIABLES
    handle,                     \* the generic handle: "open" or "closed"
    pstate,                     \* pstate[p]: "none", "open" or "closed"
    \* struct libusbp_async_in_pipe
    transfer_count,             \* 0 while transfer_array is NULL
    endless_transfers_enabled,
    pending_count,
    next_finish,
    next_submit,
    \* struct async_in_transfer, for transfer_array[i] of pipe p
    allocated,                  \* allocated[p]: the i whose memory is not freed
    pending,                    \* pending[p][i]
    error,                      \* error[p][i]
    data,                       \* data[p][i]: chunk in the buffer of the URB
    \* the kernel and the device
    connected,
    inflight,                   \* inflight[p]: queue of the endpoint
    completed,                  \* URBs of the file descriptor that can be reaped
    produced,                   \* produced[p]: chunks the device has sent
    \* the caller
    call,                       \* the library call in progress
    received                    \* received[p]: last chunk handed to the user

pipeVars == <<transfer_count, endless_transfers_enabled, pending_count,
              next_finish, next_submit>>
transferVars == <<allocated, pending, error, data>>
kernelVars == <<connected, inflight, completed, produced>>
vars == <<handle, pstate, pipeVars, transferVars, kernelVars, call, received>>

Index == 0..MaxCount - 1

(***************************************************************************)
(* "none", or why the transfer failed: the URB was discarded, the URB      *)
(* completed with another bad status, or it could not be submitted.        *)
(***************************************************************************)
Errors == {"none", "cancelled", "failed", "submit"}

Calls == [op : {"idle", "start", "events", "cancel"},
          pipe : Pipes \cup {NoPipe}, i : 0..MaxCount]

Idle == [op |-> "idle", pipe |-> NoPipe, i |-> 0]

(* A URB that the kernel has finished: its transfer, status and data. *)
Completion == [pipe : Pipes, i : Index,
               status : Errors \ {"submit"}, chunk : 0..MaxChunks]

-----------------------------------------------------------------------------

(* Mutant: the index wraps one slot too late. *)
wrap_too_late(n, bound) == IF n + 1 > bound THEN 0 ELSE n + 1

increment_and_wrap_size(n, bound) == IF n + 1 >= bound THEN 0 ELSE n + 1

(* The sequence s without its k-th element. *)
Without(s, k) == [j \in 1..Len(s) - 1 |-> IF j < k THEN s[j] ELSE s[j + 1]]

(***************************************************************************)
(* The positions at which transfer i of pipe p is queued: none or one.     *)
(***************************************************************************)
Queued(p, i) == {k \in 1..Len(inflight[p]) : inflight[p][k] = i}

(***************************************************************************)
(* Kernel: the k-th URB queued on the endpoint of p is finished.           *)
(***************************************************************************)
Finish(p, k, status, chunk) ==
    /\ inflight' = [inflight EXCEPT ![p] = Without(@, k)]
    /\ completed' = Append(completed, [pipe |-> p, i |-> inflight[p][k],
                                       status |-> status, chunk |-> chunk])
    /\ produced' = [produced EXCEPT ![p] = IF chunk = 0 THEN @ ELSE chunk]

(***************************************************************************)
(* What the device may put in the k-th URB of an endpoint before the URB   *)
(* ends: the controller fills URBs in order, so only the first one can     *)
(* hold data, and that data is the next chunk.                             *)
(***************************************************************************)
ChunksFor(p, k) ==
    {0} \cup {c \in 1..MaxChunks : k = 1 /\ c = produced[p] + 1}

-----------------------------------------------------------------------------
(***************************************************************************)
(* Library calls.                                                          *)
(***************************************************************************)
InCall(op, p) == call.op = op /\ call.pipe = p

has_pending_transfers(p) == pending_count[p] # 0

(* The pipe functions are called with an open pipe. *)
CanCall(p) == call = Idle /\ pstate[p] = "open"

(* libusbp_generic_handle_open_async_in_pipe; calloc zeroes the struct. *)
async_in_pipe_create(p) ==
    /\ call = Idle /\ handle = "open" /\ pstate[p] = "none"
    /\ pstate' = [pstate EXCEPT ![p] = "open"]
    /\ UNCHANGED <<handle, pipeVars, transferVars, kernelVars, call, received>>

(* calloc again: pending, error and actual_length are zero, as in Init. *)
async_in_transfer_create(p, count) ==
    allocated' = [allocated EXCEPT ![p] = 0..count - 1]

allocate_transfers(p, count) ==
    /\ CanCall(p) /\ transfer_count[p] = 0
    /\ transfer_count' = [transfer_count EXCEPT ![p] = count]
    /\ async_in_transfer_create(p, count)
    /\ UNCHANGED <<handle, pstate, endless_transfers_enabled, pending_count,
                   next_finish, next_submit, pending, error, data, kernelVars,
                   call, received>>

(* Mutant: a failed submission does not record its error. *)
submit_error_lost(p, i) ==
    \/ /\ connected
       /\ inflight' = [inflight EXCEPT ![p] = Append(@, i)]
       /\ pending' = [pending EXCEPT ![p][i] = TRUE]
       /\ error' = [error EXCEPT ![p][i] = "none"]
    \/ /\ pending' = [pending EXCEPT ![p][i] = FALSE]
       /\ error' = [error EXCEPT ![p][i] = "none"]
       /\ UNCHANGED inflight

(***************************************************************************)
(* Submission can fail at any time (out of memory, device gone); then the  *)
(* transfer is at once not pending and its urb keeps the data it had.      *)
(***************************************************************************)
async_in_transfer_submit(p, i) ==
    \/ /\ connected
       /\ inflight' = [inflight EXCEPT ![p] = Append(@, i)]
       /\ pending' = [pending EXCEPT ![p][i] = TRUE]
       /\ error' = [error EXCEPT ![p][i] = "none"]
    \/ /\ pending' = [pending EXCEPT ![p][i] = FALSE]
       /\ error' = [error EXCEPT ![p][i] = "submit"]
       /\ UNCHANGED inflight

(* Mutant: next_submit is not advanced. *)
submit_in_place(p) ==
    /\ async_in_transfer_submit(p, next_submit[p])
    /\ UNCHANGED next_submit

submit_next_transfer(p) ==
    /\ async_in_transfer_submit(p, next_submit[p])
    /\ next_submit' = [next_submit EXCEPT
           ![p] = increment_and_wrap_size(@, transfer_count[p])]

start_endless_transfers(p) ==
    /\ CanCall(p) /\ transfer_count[p] # 0
    /\ endless_transfers_enabled' =
           [endless_transfers_enabled EXCEPT ![p] = TRUE]
    /\ call' = [op |-> "start", pipe |-> p, i |-> 0]
    /\ UNCHANGED <<handle, pstate, transfer_count, pending_count, next_finish,
                   next_submit, transferVars, kernelVars, received>>

(* One iteration of the loop. *)
start_submit(p) ==
    /\ InCall("start", p) /\ pending_count[p] < transfer_count[p]
    /\ submit_next_transfer(p)
    /\ pending_count' = [pending_count EXCEPT ![p] = @ + 1]
    /\ UNCHANGED <<handle, pstate, transfer_count, endless_transfers_enabled,
                   next_finish, allocated, data, connected, completed,
                   produced, call, received>>

(* Mutant: the loop ends one transfer early. *)
start_returns_early(p) ==
    /\ InCall("start", p) /\ pending_count[p] >= transfer_count[p] - 1
    /\ call' = Idle
    /\ UNCHANGED <<handle, pstate, pipeVars, transferVars, kernelVars, received>>

start_return(p) ==
    /\ InCall("start", p) /\ pending_count[p] >= transfer_count[p]
    /\ call' = Idle
    /\ UNCHANGED <<handle, pstate, pipeVars, transferVars, kernelVars, received>>

(***************************************************************************)
(* Reaps what the kernel has for the file descriptor, which is shared by   *)
(* all pipes of the handle, closed ones included.                          *)
(***************************************************************************)
handle_events(p) ==
    /\ CanCall(p)
    /\ call' = [op |-> "events", pipe |-> p, i |-> 0]
    /\ UNCHANGED <<handle, pstate, pipeVars, transferVars, kernelVars, received>>

CanReap == completed # <<>> /\ (connected \/ ReapAfterDisconnect)

(* Mutant: the completion goes to the same slot of the pipe that asked. *)
complete_for_caller(urb) ==
    /\ pending' = [pending EXCEPT ![call.pipe][urb.i] = FALSE]
    /\ error' = [error EXCEPT ![call.pipe][urb.i] = urb.status]
    /\ data' = [data EXCEPT ![call.pipe][urb.i] = urb.chunk]

(* The kernel has written the URB; usercontext leads to its transfer. *)
async_in_transfer_handle_completion(urb) ==
    /\ pending' = [pending EXCEPT ![urb.pipe][urb.i] = FALSE]
    /\ error' = [error EXCEPT ![urb.pipe][urb.i] = urb.status]
    /\ data' = [data EXCEPT ![urb.pipe][urb.i] = urb.chunk]

(* One iteration of the loop of generic_handle_events. *)
events_reap(p) ==
    /\ InCall("events", p) /\ CanReap
    /\ async_in_transfer_handle_completion(Head(completed))
    /\ completed' = Tail(completed)
    /\ UNCHANGED <<handle, pstate, pipeVars, allocated, connected, inflight,
                   produced, call, received>>

(* Nothing to reap (NULL), or the device is gone (an error). *)
events_return(p) ==
    /\ InCall("events", p) /\ ~CanReap
    /\ call' = Idle
    /\ UNCHANGED <<handle, pstate, pipeVars, transferVars, kernelVars, received>>

(* Mutant: the data of a transfer that failed is dropped. *)
results_without_error(p, i) ==
    [error |-> error[p][i],
     chunk |-> IF error[p][i] = "none" THEN data[p][i] ELSE 0]

(* What the caller is given: transfer_error, and transferred bytes. *)
async_in_transfer_get_results(p, i) ==
    [error |-> error[p][i], chunk |-> data[p][i]]

(* What the user has after these results: data of a URB that completed. *)
Taken(p, results) ==
    IF results.chunk = 0 \/ results.error = "submit" THEN received[p]
    ELSE results.chunk

(* Mutant: the transfer is handed over while it is pending. *)
finish_pending(p) ==
    /\ CanCall(p) /\ pending_count[p] # 0
    /\ LET i == next_finish[p] IN
       received' = [received EXCEPT
           ![p] = Taken(p, async_in_transfer_get_results(p, i))]
    /\ next_finish' = [next_finish EXCEPT
           ![p] = increment_and_wrap_size(@, transfer_count[p])]
    /\ \/ /\ endless_transfers_enabled[p]
          /\ submit_next_transfer(p)
          /\ UNCHANGED pending_count
       \/ /\ ~endless_transfers_enabled[p]
          /\ pending_count' = [pending_count EXCEPT ![p] = @ - 1]
          /\ UNCHANGED <<next_submit, inflight, pending, error>>
    /\ UNCHANGED <<handle, pstate, transfer_count, endless_transfers_enabled,
                   allocated, data, connected, completed, produced, call>>

(***************************************************************************)
(* Hands over the oldest transfer and, for an endless pipe, submits        *)
(* again.                                                                  *)
(***************************************************************************)
handle_finished_transfer(p) ==
    /\ CanCall(p) /\ pending_count[p] # 0
    /\ LET i == next_finish[p] IN
       /\ ~pending[p][i]
       /\ received' = [received EXCEPT
              ![p] = Taken(p, async_in_transfer_get_results(p, i))]
    /\ next_finish' = [next_finish EXCEPT
           ![p] = increment_and_wrap_size(@, transfer_count[p])]
    /\ \/ /\ endless_transfers_enabled[p]
          /\ submit_next_transfer(p)
          /\ UNCHANGED pending_count
       \/ /\ ~endless_transfers_enabled[p]
          /\ pending_count' = [pending_count EXCEPT ![p] = @ - 1]
          /\ UNCHANGED <<next_submit, inflight, pending, error>>
    /\ UNCHANGED <<handle, pstate, transfer_count, endless_transfers_enabled,
                   allocated, data, connected, completed, produced, call>>

cancel_transfers(p) ==
    /\ CanCall(p)
    /\ endless_transfers_enabled' =
           [endless_transfers_enabled EXCEPT ![p] = FALSE]
    /\ call' = [op |-> "cancel", pipe |-> p, i |-> 0]
    /\ UNCHANGED <<handle, pstate, transfer_count, pending_count, next_finish,
                   next_submit, transferVars, kernelVars, received>>

(***************************************************************************)
(* The kernel ends a queued URB before the ioctl returns; for a URB that   *)
(* is not queued it answers EINVAL, which is no error.                     *)
(***************************************************************************)
usbfd_discard_urb(p, i) ==
    \/ \E k \in Queued(p, i) :
           \E c \in ChunksFor(p, k) : Finish(p, k, "cancelled", c)
    \/ Queued(p, i) = {} /\ UNCHANGED <<inflight, completed, produced>>

(* One iteration of the loop. *)
cancel_discard(p) ==
    /\ InCall("cancel", p) /\ call.i < transfer_count[p] /\ connected
    /\ call' = [op |-> "cancel", pipe |-> p, i |-> call.i + 1]
    /\ usbfd_discard_urb(p, call.i)
    /\ UNCHANGED <<handle, pstate, pipeVars, transferVars, connected, received>>

(* Mutant: the last transfer is not discarded. *)
cancel_skips_last(p) ==
    /\ InCall("cancel", p)
    /\ call.i >= transfer_count[p] - 1 \/ ~connected
    /\ call' = Idle
    /\ UNCHANGED <<handle, pstate, pipeVars, transferVars, kernelVars, received>>

(* Mutant: EINVAL, for a URB that is not queued, ends the loop. *)
cancel_fails_on_EINVAL(p) ==
    /\ InCall("cancel", p)
    /\ call.i >= transfer_count[p] \/ ~connected \/ Queued(p, call.i) = {}
    /\ call' = Idle
    /\ UNCHANGED <<handle, pstate, pipeVars, transferVars, kernelVars, received>>

(* All transfers discarded, or the ioctl failed because the device is gone. *)
cancel_return(p) ==
    /\ InCall("cancel", p)
    /\ call.i >= transfer_count[p] \/ ~connected
    /\ call' = Idle
    /\ UNCHANGED <<handle, pstate, pipeVars, transferVars, kernelVars, received>>

(* Mutant: the first transfer is forgotten. *)
free_but_first(p, S) == {i \in S : pending[p][i] \/ i = 0}

(***************************************************************************)
(* What remains of the transfers in S: a pending transfer is leaked on     *)
(* purpose, because the kernel will still write to it.                     *)
(***************************************************************************)
async_in_transfer_free(p, S) == {i \in S : pending[p][i]}

async_in_transfer_array_free(p) ==
    allocated' = [allocated EXCEPT ![p] = async_in_transfer_free(p, @)]

async_in_pipe_close(p) ==
    /\ CanCall(p)
    /\ async_in_transfer_array_free(p)
    /\ pstate' = [pstate EXCEPT ![p] = "closed"]
    /\ UNCHANGED <<handle, pipeVars, pending, error, data, kernelVars, call,
                   received>>

(***************************************************************************)
(* The caller closes the pipes before the handle.  Closing the file        *)
(* descriptor makes the kernel forget the URBs.                            *)
(***************************************************************************)
generic_handle_close ==
    /\ call = Idle /\ handle = "open"
    /\ \A p \in Pipes : pstate[p] # "open"
    /\ handle' = "closed"
    /\ inflight' = [p \in Pipes |-> <<>>]
    /\ completed' = <<>>
    /\ UNCHANGED <<pstate, pipeVars, transferVars, connected, produced, call,
                   received>>

-----------------------------------------------------------------------------
(***************************************************************************)
(* The kernel and the device.                                              *)
(***************************************************************************)

(* The first URB of an endpoint ends: with data, without, or with an error. *)
UrbCompletes(p) ==
    /\ connected /\ inflight[p] # <<>>
    /\ \E status \in {"none", "failed"}, c \in ChunksFor(p, 1) :
           Finish(p, 1, status, c)
    /\ UNCHANGED <<handle, pstate, pipeVars, transferVars, connected, call,
                   received>>

(***************************************************************************)
(* Unplugging the device makes ioctls fail at once; the kernel ends the    *)
(* URBs that are still queued one after the other.  The first one may have *)
(* been filled with data before.                                           *)
(***************************************************************************)
Disconnect ==
    /\ connected
    /\ connected' = FALSE
    /\ UNCHANGED <<handle, pstate, pipeVars, transferVars, inflight, completed,
                   produced, call, received>>

UrbKilled(p) ==
    /\ ~connected /\ inflight[p] # <<>>
    /\ \E c \in ChunksFor(p, 1) : Finish(p, 1, "failed", c)
    /\ UNCHANGED <<handle, pstate, pipeVars, transferVars, connected, call,
                   received>>

(* After the handle is closed nothing more happens to it. *)
Terminated == handle = "closed" /\ ~connected /\ UNCHANGED vars

-----------------------------------------------------------------------------
Init ==
    /\ handle = "open"
    /\ pstate = [p \in Pipes |-> "none"]
    /\ transfer_count = [p \in Pipes |-> 0]
    /\ endless_transfers_enabled = [p \in Pipes |-> FALSE]
    /\ pending_count = [p \in Pipes |-> 0]
    /\ next_finish = [p \in Pipes |-> 0]
    /\ next_submit = [p \in Pipes |-> 0]
    /\ allocated = [p \in Pipes |-> {}]
    /\ pending = [p \in Pipes |-> [i \in Index |-> FALSE]]
    /\ error = [p \in Pipes |-> [i \in Index |-> "none"]]
    /\ data = [p \in Pipes |-> [i \in Index |-> 0]]
    /\ connected = TRUE
    /\ inflight = [p \in Pipes |-> <<>>]
    /\ completed = <<>>
    /\ produced = [p \in Pipes |-> 0]
    /\ call = Idle
    /\ received = [p \in Pipes |-> 0]

(* What the code of a pipe does until the current call returns. *)
Continue(p) ==
    \/ start_submit(p) \/ start_return(p)
    \/ events_reap(p) \/ events_return(p)
    \/ cancel_discard(p) \/ cancel_return(p)

Next ==
    \/ \E p \in Pipes :
        \/ async_in_pipe_create(p)
        \/ \E count \in 1..MaxCount : allocate_transfers(p, count)
        \/ start_endless_transfers(p)
        \/ handle_events(p)
        \/ handle_finished_transfer(p)
        \/ cancel_transfers(p)
        \/ async_in_pipe_close(p)
        \/ Continue(p)
        \/ UrbCompletes(p)
        \/ UrbKilled(p)
    \/ generic_handle_close
    \/ Disconnect
    \/ Terminated

Spec == Init /\ [][Next]_vars
-----------------------------------------------------------------------------
(***************************************************************************)
(* Vocabulary of the properties.  The window of a pipe is the part of the  *)
(* ring from next_finish to next_submit: what was submitted and has not    *)
(* been handed to the user.                                                *)
(***************************************************************************)
Slots(p) == 0..transfer_count[p] - 1

(* How far slot i is behind next_finish in the ring. *)
Distance(p, i) ==
    IF i >= next_finish[p] THEN i - next_finish[p]
    ELSE i + transfer_count[p] - next_finish[p]

Window(p) == {i \in Slots(p) : Distance(p, i) < pending_count[p]}

Reapable(p, i) ==
    {k \in 1..Len(completed) : completed[k].pipe = p /\ completed[k].i = i}

(* The kernel has the address of transfer i of pipe p. *)
InKernel(p, i) == Queued(p, i) # {} \/ Reapable(p, i) # {}

-----------------------------------------------------------------------------
(* Every variable holds a value of its C type or kernel queue. *)
TypeOK ==
    /\ handle \in {"open", "closed"}
    /\ pstate \in [Pipes -> {"none", "open", "closed"}]
    /\ transfer_count \in [Pipes -> 0..MaxCount]
    /\ endless_transfers_enabled \in [Pipes -> BOOLEAN]
    /\ pending_count \in [Pipes -> 0..MaxCount]
    /\ next_finish \in [Pipes -> Index]
    /\ next_submit \in [Pipes -> Index]
    /\ allocated \in [Pipes -> SUBSET Index]
    /\ pending \in [Pipes -> [Index -> BOOLEAN]]
    /\ error \in [Pipes -> [Index -> Errors]]
    /\ data \in [Pipes -> [Index -> 0..MaxChunks]]
    /\ connected \in BOOLEAN
    /\ inflight \in [Pipes -> Seq(Index)]
    /\ completed \in Seq(Completion)
    /\ produced \in [Pipes -> 0..MaxChunks]
    /\ call \in Calls
    /\ received \in [Pipes -> 0..MaxChunks]

(***************************************************************************)
(* The assertions of async_in_pipe_submit_next_transfer and                *)
(* async_in_transfer_submit hold whenever the code submits: in the loop of *)
(* start_endless_transfers, and in handle_finished_transfer, which submits *)
(* at next_submit right after handing over the transfer at next_finish.    *)
(* A URB is never given to the kernel while the kernel still has it.       *)
(***************************************************************************)
SubmitAssertions ==
    \A p \in Pipes : pstate[p] = "open" /\ transfer_count[p] # 0 =>
        /\ pending_count[p] <= transfer_count[p]
        /\ pending_count[p] < transfer_count[p] =>
               /\ ~pending[p][next_submit[p]]
               /\ ~InKernel(p, next_submit[p])
        /\ pending_count[p] = transfer_count[p] =>
               next_submit[p] = next_finish[p]

(***************************************************************************)
(* The kernel never has the address of freed memory: closing a pipe at any *)
(* moment, with URBs queued, finished but not reaped, or half discarded,   *)
(* keeps exactly what the kernel may still write to, and a later call of   *)
(* handle_events on another pipe that reaps such a URB is safe.            *)
(***************************************************************************)
KernelMemorySafe ==
    \A p \in Pipes, i \in Index : InKernel(p, i) => i \in allocated[p]

(***************************************************************************)
(* Closing a pipe with no pending transfers, as has_pending_transfers      *)
(* reports it, frees all its memory.                                       *)
(***************************************************************************)
CloseWithoutPendingFreesAll ==
    [][\A p \in Pipes :
        pstate[p] = "open" /\ pstate'[p] = "closed" /\ ~has_pending_transfers(p)
            => allocated'[p] = {}]_vars

(***************************************************************************)
(* The user receives the chunks of an endpoint in the order in which the   *)
(* device sent them, each of them once: whatever the order in which URBs   *)
(* were discarded, finished and reaped.                                    *)
(***************************************************************************)
DeliveredInOrder ==
    [][\A p \in Pipes : received'[p] \in {received[p], received[p] + 1}]_vars

(***************************************************************************)
(* No data is lost by cancelling: as soon as a pipe has no pending         *)
(* transfers, the user has everything the device sent on the endpoint.     *)
(***************************************************************************)
NothingPendingMeansNothingLost ==
    \A p \in Pipes :
        pstate[p] = "open" /\ ~has_pending_transfers(p)
            => received[p] = produced[p]

(***************************************************************************)
(* Between calls, an endless pipe has all its transfers pending, whatever  *)
(* submissions failed: the pipe never silently loses throughput.           *)
(***************************************************************************)
EndlessKeepsAllPending ==
    \A p \in Pipes :
        pstate[p] = "open" /\ endless_transfers_enabled[p] /\ call = Idle
            => pending_count[p] = transfer_count[p]

(***************************************************************************)
(* When cancel_transfers has returned, and until transfers are started     *)
(* again, the kernel is working on none of the pipe's URBs, unless the     *)
(* device was unplugged and the kernel is still ending them.               *)
(***************************************************************************)
CancelQuiesces ==
    \A p \in Pipes :
        pstate[p] = "open" /\ ~endless_transfers_enabled[p] /\ connected
            /\ ~InCall("cancel", p)
            => inflight[p] = <<>>

(***************************************************************************)
(* What handle_finished_transfer reports is new: the bytes counted in      *)
(* transferred were not handed to the user before.                         *)
(***************************************************************************)
ReportedDataIsNew ==
    \A p \in Pipes :
        pstate[p] = "open" /\ pending_count[p] # 0 /\ ~pending[p][next_finish[p]]
            => async_in_transfer_get_results(p, next_finish[p]).chunk
                   \in {0} \cup received[p] + 1..MaxChunks

-----------------------------------------------------------------------------
(***************************************************************************)
(* The inductive invariant, in named parts.  First the ring: where         *)
(* next_submit is, what the flags of the transfers say, and which call can *)
(* be in progress.                                                         *)
(***************************************************************************)
RingIndices ==
    \A p \in Pipes :
        /\ pending_count[p] <= transfer_count[p]
        /\ transfer_count[p] = 0 => next_finish[p] = 0 /\ next_submit[p] = 0
        /\ transfer_count[p] # 0 =>
            /\ next_finish[p] < transfer_count[p]
            /\ next_submit[p] =
                   IF next_finish[p] + pending_count[p] < transfer_count[p]
                   THEN next_finish[p] + pending_count[p]
                   ELSE next_finish[p] + pending_count[p] - transfer_count[p]

PendingInWindow ==
    \A p \in Pipes, i \in Index :
        pending[p][i] => i \in Window(p) /\ i \in allocated[p]

(* The kernel has only transfers that are flagged, and each of them once. *)
KernelHasPending ==
    /\ \A p \in Pipes : \A k \in 1..Len(inflight[p]) :
        /\ pending[p][inflight[p][k]]
        /\ \A l \in 1..Len(inflight[p]) :
               inflight[p][k] = inflight[p][l] => k = l
        /\ \A l \in 1..Len(completed) :
               ~(completed[l].pipe = p /\ completed[l].i = inflight[p][k])
    /\ \A k \in 1..Len(completed) :
        /\ pending[completed[k].pipe][completed[k].i]
        /\ \A l \in 1..Len(completed) :
               completed[k].pipe = completed[l].pipe
                   /\ completed[k].i = completed[l].i => k = l

PipeLife ==
    \A p \in Pipes :
        /\ pstate[p] = "open" => allocated[p] = Slots(p)
        /\ pstate[p] = "none" => transfer_count[p] = 0 /\ allocated[p] = {}
        /\ endless_transfers_enabled[p] => transfer_count[p] # 0

CallConsistent ==
    /\ call.op = "idle" => call = Idle
    /\ call.op # "idle" => call.pipe \in Pipes /\ pstate[call.pipe] = "open"
    /\ call.op = "start" => endless_transfers_enabled[call.pipe]
    /\ call.op = "cancel" => ~endless_transfers_enabled[call.pipe]
    /\ \A p \in Pipes : pstate[p] = "open" => handle = "open"

EndlessIsFull ==
    \A p \in Pipes :
        endless_transfers_enabled[p] /\ ~InCall("start", p)
            => pending_count[p] = transfer_count[p]

(* The part of a cancellation that is done while the device is there. *)
CancelProgress ==
    \A p \in Pipes :
        pstate[p] = "open" /\ ~endless_transfers_enabled[p] /\ connected =>
            \A k \in 1..Len(inflight[p]) :
                InCall("cancel", p) /\ inflight[p][k] >= call.i

(***************************************************************************)
(* The ring part of the invariant: it implies the assertions, the memory   *)
(* safety, and what endless and cancelled pipes promise.  RingCore does    *)
(* not depend on how a platform cancels.                                   *)
(***************************************************************************)
RingCore ==
    /\ TypeOK
    /\ RingIndices
    /\ PendingInWindow
    /\ KernelHasPending
    /\ PipeLife
    /\ CallConsistent
    /\ EndlessIsFull

RingInv == RingCore /\ CancelProgress

(***************************************************************************)
(* Then the data: chunk c is on its way to the user in transfer i, either  *)
(* in a URB that can be reaped or in the memory of a reaped one.           *)
(***************************************************************************)
Holds(p, i, c) ==
    \/ /\ i \in Window(p) /\ ~pending[p][i]
       /\ error[p][i] # "submit" /\ data[p][i] = c
    \/ \E k \in 1..Len(completed) :
           completed[k].pipe = p /\ completed[k].i = i /\ completed[k].chunk = c

Chunks == 1..MaxChunks

(* The endpoint's queue is in the order of the ring. *)
QueueInRingOrder ==
    \A p \in Pipes : pstate[p] = "open" =>
        \A k, l \in 1..Len(inflight[p]) :
            k < l => Distance(p, inflight[p][k]) < Distance(p, inflight[p][l])

(* Chunks lie in the ring in order, and before all URBs that still wait. *)
ChunksInRingOrder ==
    \A p \in Pipes : pstate[p] = "open" =>
        \A i \in Index, c \in Chunks : Holds(p, i, c) =>
            /\ received[p] < c /\ c <= produced[p]
            /\ \A j \in Index, d \in Chunks :
                Holds(p, j, d) /\ Distance(p, i) < Distance(p, j) => c < d
            /\ \A k \in 1..Len(inflight[p]) :
                Distance(p, i) < Distance(p, inflight[p][k])

(* Every chunk that was sent and not handed over is in the ring. *)
AllChunksHeld ==
    \A p \in Pipes : pstate[p] = "open" =>
        /\ received[p] <= produced[p]
        /\ \A c \in Chunks : received[p] < c /\ c <= produced[p] =>
               \E i \in Index : Holds(p, i, c)

(* Nothing was sent to a pipe that was never opened. *)
UnopenedIsSilent ==
    \A p \in Pipes : pstate[p] = "none" => produced[p] = 0 /\ received[p] = 0

StreamInv ==
    /\ UnopenedIsSilent
    /\ QueueInRingOrder
    /\ ChunksInRingOrder
    /\ AllChunksHeld

-----------------------------------------------------------------------------
(***************************************************************************)
(* Fairness.  A call that was made returns (Continue), the kernel ends the *)
(* URBs of a device that is gone (UrbKilled), and the user of an open pipe *)
(* keeps calling handle_events and handle_finished_transfer, in any order  *)
(* and between any other calls, as libusbp.h asks after a cancellation.    *)
(***************************************************************************)
Fairness ==
    \A p \in Pipes :
        /\ WF_vars(Continue(p))
        /\ WF_vars(UrbKilled(p))
        /\ SF_vars(handle_events(p))
        /\ SF_vars(handle_finished_transfer(p))

FairSpec == Spec /\ Fairness

(***************************************************************************)
(* After cancel_transfers, the loop that libusbp.h prescribes ends: there  *)
(* is a moment with no pending transfers, unless the user starts transfers *)
(* again or closes the pipe.                                               *)
(***************************************************************************)
CancelDrains ==
    \A p \in Pipes :
        (pstate[p] = "open" /\ ~endless_transfers_enabled[p])
            ~> (\/ ~has_pending_transfers(p)
                \/ endless_transfers_enabled[p]
                \/ pstate[p] # "open")
-----------------------------------------------------------------------------
(***************************************************************************)
(* The user's view of the ring: the window as a queue.  A transfer that is *)
(* queued in the kernel waits for its answer; the bytes that come with a   *)
(* failed submission mean nothing.                                         *)
(***************************************************************************)
Answered(p, i) ==
    IF Queued(p, i) # {} THEN [status |-> "waiting", chunk |-> 0]
    ELSE IF Reapable(p, i) # {}
         THEN LET k == CHOOSE k \in Reapable(p, i) : TRUE
              IN  [status |-> completed[k].status, chunk |-> completed[k].chunk]
    ELSE [status |-> error[p][i],
          chunk |-> IF error[p][i] = "submit" THEN 0 ELSE data[p][i]]

Slot(p, k) ==
    IF next_finish[p] + k - 1 < transfer_count[p] THEN next_finish[p] + k - 1
    ELSE next_finish[p] + k - 1 - transfer_count[p]

QueueOf(p) ==
    IF pstate[p] = "open"
    THEN [k \in 1..pending_count[p] |-> Answered(p, Slot(p, k))]
    ELSE <<>>

QueueView == INSTANCE TransferQueue WITH
    state <- pstate,
    capacity <- transfer_count,
    endless <- endless_transfers_enabled,
    queue <- [p \in Pipes |-> QueueOf(p)],
    sent <- produced

(***************************************************************************)
(* The ring of transfers, the URBs of the kernel and the calls that loop   *)
(* over them implement the queue of requests.                              *)
(***************************************************************************)
ImplementsTransferQueue == QueueView!Spec
=============================================================================
