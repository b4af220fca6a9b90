---------------------------- MODULE PlatformPipe ----------------------------
(***************************************************************************)
(* The asynchronous IN pipes of one generic handle on Windows and macOS.   *)
(*                                                                         *)
(* async_in_pipe.c is shared with Linux, and so are the actions of         *)
(* AsyncInPipe for it.  What differs is the transfer:                      *)
(*                                                                         *)
(*   Windows  WinUSB writes the result of a read into the OVERLAPPED of    *)
(*            the transfer.  Nothing collects results: the transfer at     *)
(*            next_finish is asked when the user wants to finish it, and   *)
(*            handle_events does nothing.  A read may complete at once.    *)
(*   macOS    I/O Kit sends a message to the port of the handle for each   *)
(*            read that ended, and handle_events calls the callback for    *)
(*            each message, whichever pipe it is for.                      *)
(*                                                                         *)
(* On both, cancelling is one request (AbortPipe) for the whole pipe; the  *)
(* kernel ends the reads it had at that moment one by one, later.          *)
(* completed holds the results nobody has looked at: on Windows in the     *)
(* OVERLAPPED structures, on macOS as messages in the port.                *)
(***************************************************************************)
EXTENDS AsyncInPipe

VARIABLES
    platform,     \* the build: "windows" or "macos"
    aborting      \* aborting[p]: queued transfers that AbortPipe will end

portVars == <<vars, platform, aborting>>

-----------------------------------------------------------------------------
(***************************************************************************)
(* The transfer.  t stands for all transfers before the step.              *)
(***************************************************************************)
Transfers == [pending |-> pending, error |-> error, data |-> data]

With(t, p, i, isPending, err, chunk) ==
    [pending |-> [t.pending EXCEPT ![p][i] = isPending],
     error |-> [t.error EXCEPT ![p][i] = err],
     data |-> [t.data EXCEPT ![p][i] = chunk]]

Become(t) == pending' = t.pending /\ error' = t.error /\ data' = t.data

(* The kernel queues the read. *)
ReadQueued(p, i, t) ==
    /\ connected
    /\ inflight' = [inflight EXCEPT ![p] = Append(@, i)]
    /\ Become(t)
    /\ UNCHANGED produced

(* Mutant: an immediate completion leaves the transfer pending. *)
immediate_stays_pending(p, i, t) ==
    \/ ReadQueued(p, i, With(t, p, i, TRUE, "none", 0))
    \/ /\ connected /\ inflight[p] = <<>>
       /\ \E c \in ChunksFor(p, 1) :
            /\ Become(With(t, p, i, TRUE, "none", c))
            /\ produced' = [produced EXCEPT ![p] = IF c = 0 THEN @ ELSE c]
       /\ UNCHANGED inflight
    \/ /\ Become(With(t, p, i, FALSE, "submit", 0))
       /\ UNCHANGED <<inflight, produced>>

(***************************************************************************)
(* WinUsb_ReadPipe: the read is pending, completes at once (when no other  *)
(* read is in front of it), or fails.                                      *)
(***************************************************************************)
windows_transfer_submit(p, i, t) ==
    \/ ReadQueued(p, i, With(t, p, i, TRUE, "none", 0))
    \/ /\ connected /\ inflight[p] = <<>>
       /\ \E c \in ChunksFor(p, 1) :
            /\ Become(With(t, p, i, FALSE, "none", c))
            /\ produced' = [produced EXCEPT ![p] = IF c = 0 THEN @ ELSE c]
       /\ UNCHANGED inflight
    \/ /\ Become(With(t, p, i, FALSE, "submit", 0))
       /\ UNCHANGED <<inflight, produced>>

(* Mutant: the count of the previous use is kept, as on Linux. *)
submit_keeps_transferred(p, i, t) ==
    \/ ReadQueued(p, i, With(t, p, i, TRUE, "none", t.data[p][i]))
    \/ /\ Become(With(t, p, i, FALSE, "submit", t.data[p][i]))
       /\ UNCHANGED <<inflight, produced>>

(* ReadPipeAsync: the read is queued, or fails. *)
mac_transfer_submit(p, i, t) ==
    \/ ReadQueued(p, i, With(t, p, i, TRUE, "none", 0))
    \/ /\ Become(With(t, p, i, FALSE, "submit", 0))
       /\ UNCHANGED <<inflight, produced>>

port_submit_next_transfer(p, t) ==
    /\ \/ platform = "windows" /\ windows_transfer_submit(p, next_submit[p], t)
       \/ platform = "macos" /\ mac_transfer_submit(p, next_submit[p], t)
    /\ next_submit' = [next_submit EXCEPT
           ![p] = increment_and_wrap_size(@, transfer_count[p])]

(* Mutant: the result of any read of the pipe is taken for this one's. *)
poll_any(p, i) ==
    IF \E j \in Index : Reapable(p, j) # {}
    THEN With(Transfers, p, i, FALSE, "none", 0)
    ELSE Transfers

(***************************************************************************)
(* WinUsb_GetOverlappedResult: what is known of the transfers after the    *)
(* i-th was asked.                                                         *)
(***************************************************************************)
windows_transfer_pending(p, i) ==
    IF Reapable(p, i) # {}
    THEN LET c == completed[CHOOSE k \in Reapable(p, i) : TRUE]
         IN  With(Transfers, p, i, FALSE, c.status, c.chunk)
    ELSE Transfers

(* On macOS the callback has told what there is to know. *)
mac_transfer_pending(p, i) == Transfers

(* The callback of a read; its assertions are CallbackAssertions. *)
mac_transfer_callback(c) ==
    Become(With(Transfers, c.pipe, c.i, FALSE, c.status, c.chunk))

-----------------------------------------------------------------------------
(***************************************************************************)
(* The pipe.                                                               *)
(***************************************************************************)

(* The calls that are the same on all platforms. *)
SharedCall(p) ==
    /\ \/ async_in_pipe_create(p)
       \/ \E count \in 1..MaxCount : allocate_transfers(p, count)
       \/ start_endless_transfers(p)
       \/ async_in_pipe_close(p)
    /\ UNCHANGED <<platform, aborting>>

port_start_submit(p) ==
    /\ InCall("start", p) /\ pending_count[p] < transfer_count[p]
    /\ port_submit_next_transfer(p, Transfers)
    /\ pending_count' = [pending_count EXCEPT ![p] = @ + 1]
    /\ UNCHANGED <<handle, pstate, transfer_count, endless_transfers_enabled,
                   next_finish, allocated, connected, completed, call,
                   received, platform, aborting>>

port_start_return(p) == start_return(p) /\ UNCHANGED <<platform, aborting>>

(* Windows has nothing to do here: the call changes nothing. *)
mac_handle_events(p) ==
    /\ platform = "macos"
    /\ handle_events(p)
    /\ UNCHANGED <<platform, aborting>>

(* One message of the port. *)
mac_events_receive(p) ==
    /\ platform = "macos" /\ InCall("events", p) /\ completed # <<>>
    /\ mac_transfer_callback(Head(completed))
    /\ completed' = Tail(completed)
    /\ UNCHANGED <<handle, pstate, pipeVars, allocated, connected, inflight,
                   produced, call, received, platform, aborting>>

(* The port is empty (MACH_RCV_TIMED_OUT), or the receive fails, and then *)
(* what is in the port stays there.                                       *)
mac_events_return(p) ==
    /\ platform = "macos" /\ InCall("events", p)
    /\ call' = Idle
    /\ UNCHANGED <<handle, pstate, pipeVars, transferVars, kernelVars, received,
                   platform, aborting>>

(* Asking the transfer takes its result out of the OVERLAPPED. *)
TakeResult(p, i) ==
    completed' =
        IF platform = "windows" /\ Reapable(p, i) # {}
        THEN Without(completed, CHOOSE k \in Reapable(p, i) : TRUE)
        ELSE completed

Known(p, i) == IF platform = "windows" THEN windows_transfer_pending(p, i)
                                       ELSE mac_transfer_pending(p, i)

(***************************************************************************)
(* Asks the oldest transfer, hands it over and, for an endless pipe,       *)
(* submits again.                                                          *)
(***************************************************************************)
port_handle_finished_transfer(p) ==
    /\ CanCall(p) /\ pending_count[p] # 0
    /\ LET i == next_finish[p]
           t == Known(p, i)
       IN  /\ ~t.pending[p][i]
           /\ received' = [received EXCEPT ![p] =
                  Taken(p, [error |-> t.error[p][i], chunk |-> t.data[p][i]])]
           /\ TakeResult(p, i)
           /\ next_finish' = [next_finish EXCEPT
                  ![p] = increment_and_wrap_size(@, transfer_count[p])]
           /\ \/ /\ endless_transfers_enabled[p]
                 /\ port_submit_next_transfer(p, t)
                 /\ UNCHANGED pending_count
              \/ /\ ~endless_transfers_enabled[p]
                 /\ pending_count' = [pending_count EXCEPT ![p] = @ - 1]
                 /\ Become(t)
                 /\ UNCHANGED <<next_submit, inflight, produced>>
    /\ UNCHANGED <<handle, pstate, transfer_count, endless_transfers_enabled,
                   allocated, connected, call, platform, aborting>>

(* Mutant: only the transfer whose handle is used is cancelled. *)
abort_first_only(p) == [aborting EXCEPT ![p] =
    @ \cup {i \in Index : i = 0 /\ Queued(p, i) # {}}]

(***************************************************************************)
(* An AbortPipe that succeeds concerns the reads that the kernel has at    *)
(* this moment.  When the device is gone there is nothing to abort.        *)
(***************************************************************************)
AbortPipe(p) == [aborting EXCEPT ![p] =
    @ \cup {i \in Index : connected /\ Queued(p, i) # {}}]

(***************************************************************************)
(* transfer_array[0] is read without a test, so the caller must have       *)
(* allocated the transfers; one call is all there is to do.  AbortPipe may *)
(* fail, and then the reads stay queued although the pipe is not endless.  *)
(***************************************************************************)
port_cancel_transfers(p) ==
    /\ CanCall(p) /\ transfer_count[p] # 0
    /\ endless_transfers_enabled' =
           [endless_transfers_enabled EXCEPT ![p] = FALSE]
    /\ aborting' = AbortPipe(p) \/ UNCHANGED aborting
    /\ UNCHANGED <<handle, pstate, transfer_count, pending_count, next_finish,
                   next_submit, transferVars, kernelVars, call, received,
                   platform>>

(* The driver cancels what is left, and the port of the handle is gone. *)
port_handle_close ==
    /\ generic_handle_close
    /\ aborting' = [p \in Pipes |-> {}]
    /\ UNCHANGED platform

-----------------------------------------------------------------------------
(***************************************************************************)
(* The kernel and the device.                                              *)
(***************************************************************************)

(* The k-th queued read has ended, and is not there to be aborted. *)
NoLongerAborting(p, k) ==
    aborting' = [aborting EXCEPT ![p] = @ \ {inflight[p][k]}]

ReadEnds(p) ==
    /\ UrbCompletes(p) \/ UrbKilled(p)
    /\ NoLongerAborting(p, 1)
    /\ UNCHANGED platform

(* An aborted read ends; the first one may have been filled before. *)
AbortedEnds(p) ==
    /\ connected
    /\ \E k \in 1..Len(inflight[p]) :
        /\ inflight[p][k] \in aborting[p]
        /\ \E c \in ChunksFor(p, k) : Finish(p, k, "cancelled", c)
        /\ NoLongerAborting(p, k)
    /\ UNCHANGED <<handle, pstate, pipeVars, transferVars, connected, call,
                   received, platform>>

PortDisconnect == Disconnect /\ UNCHANGED <<platform, aborting>>

PortTerminated == Terminated /\ UNCHANGED <<platform, aborting>>

-----------------------------------------------------------------------------
PortInit ==
    /\ Init
    /\ platform \in {"windows", "macos"}
    /\ aborting = [p \in Pipes |-> {}]

PortContinue(p) ==
    \/ port_start_submit(p) \/ port_start_return(p)
    \/ mac_events_receive(p) \/ mac_events_return(p)

PortNext ==
    \/ \E p \in Pipes :
        \/ SharedCall(p)
        \/ mac_handle_events(p)
        \/ port_handle_finished_transfer(p)
        \/ port_cancel_transfers(p)
        \/ PortContinue(p)
        \/ ReadEnds(p)
        \/ AbortedEnds(p)
    \/ port_handle_close
    \/ PortDisconnect
    \/ PortTerminated

PortSpec == PortInit /\ [][PortNext]_portVars

(***************************************************************************)
(* The user cancels again: there are reads that were not aborted although  *)
(* the pipe is cancelled, and the call gets through to them.               *)
(***************************************************************************)
CancelAgain(p) ==
    /\ port_cancel_transfers(p)
    /\ ~endless_transfers_enabled[p]
    /\ aborting' = AbortPipe(p)

(***************************************************************************)
(* Fairness.  A call returns, the kernel ends the reads that were aborted  *)
(* or whose device is gone, and the user keeps asking, as on Linux.  A     *)
(* call that fails is repeated, and does not fail forever: cancel while a  *)
(* read was not aborted, handle_events while there are messages.           *)
(***************************************************************************)
PortFairness ==
    \A p \in Pipes :
        /\ WF_portVars(PortContinue(p))
        /\ WF_portVars(ReadEnds(p) /\ ~connected)
        /\ WF_portVars(AbortedEnds(p))
        /\ SF_portVars(CancelAgain(p))
        /\ SF_portVars(mac_handle_events(p))
        /\ SF_portVars(mac_events_receive(p))
        /\ SF_portVars(port_handle_finished_transfer(p))

FairPortSpec == PortSpec /\ PortFairness

-----------------------------------------------------------------------------
(***************************************************************************)
(* The assertions of the macOS callback hold for every message that is in  *)
(* the port, whatever happened to its pipe since: the transfer is pending, *)
(* has no error, and nothing was transferred.  On Windows, where there is  *)
(* no callback, the same holds for the results that wait to be asked for.  *)
(***************************************************************************)
CallbackAssertions ==
    \A k \in 1..Len(completed) :
        LET c == completed[k]
        IN  /\ pending[c.pipe][c.i]
            /\ error[c.pipe][c.i] = "none"
            /\ data[c.pipe][c.i] = 0

(***************************************************************************)
(* Every transfer that the library believes to be pending is really in the *)
(* hands of the kernel: either its read is queued, or its result waits to  *)
(* be looked at.  A pending flag nobody will ever clear would block the    *)
(* ring forever, and leak the transfer when the pipe is closed.            *)
(***************************************************************************)
PendingIsInKernel ==
    \A p \in Pipes, i \in Index :
        handle = "open" /\ pending[p][i] => InKernel(p, i)

(***************************************************************************)
(* The flags of the library and the queues of the driver agree, in both    *)
(* directions: what is pending will be answered, and an answer finds the   *)
(* transfer as it was submitted (the flag pending of both ports).          *)
(***************************************************************************)
FlagsMatchDriver == PendingIsInKernel /\ CallbackAssertions

-----------------------------------------------------------------------------
(***************************************************************************)
(* The inductive invariant.  The ring is the one of AsyncInPipe; what is   *)
(* new is what the transfers of these ports promise: they are reset when   *)
(* they are submitted, and a refused read has transferred nothing.         *)
(***************************************************************************)
PortType ==
    /\ platform \in {"windows", "macos"}
    /\ aborting \in [Pipes -> SUBSET Index]

PendingIsFresh ==
    \A p \in Pipes, i \in Index :
        pending[p][i] => error[p][i] = "none" /\ data[p][i] = 0

RefusedIsEmpty ==
    \A p \in Pipes, i \in Index : error[p][i] = "submit" => data[p][i] = 0

PortInv ==
    /\ RingCore
    /\ PortType
    /\ PendingIsInKernel
    /\ PendingIsFresh
    /\ RefusedIsEmpty
=============================================================================
