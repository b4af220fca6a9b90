------------------------- MODULE AsyncInPipeProofs -------------------------
(***************************************************************************)
(* Proofs about AsyncInPipe, for any number of pipes, any bound on the     *)
(* size of the rings and on the data, and either kind of kernel.           *)
(***************************************************************************)
EXTENDS AsyncInPipe, TLAPS

(***************************************************************************)
(* Removing one URB from an endpoint's queue (Without, for the kernel's    *)
(* bookkeeping behind USBDEVFS_DISCARDURB) gives a queue that is shorter   *)
(* by one and keeps the order of the others.                               *)
(***************************************************************************)
LEMMA WithoutIsQueue ==
    ASSUME NEW S, NEW s \in Seq(S), NEW k \in 1..Len(s)
    PROVE  /\ Without(s, k) \in Seq(S)
           /\ Len(Without(s, k)) = Len(s) - 1
           /\ \A j \in 1..Len(s) - 1 :
                  Without(s, k)[j] = IF j < k THEN s[j] ELSE s[j + 1]
<1>1. Len(s) - 1 \in Nat
    OBVIOUS
<1>2. \A j \in 1..Len(s) - 1 : (IF j < k THEN s[j] ELSE s[j + 1]) \in S
    OBVIOUS
<1>. QED
    BY <1>1, <1>2 DEF Without

(***************************************************************************)
(* The effect of the kernel finishing a URB (Finish) on the kernel's       *)
(* variables: they keep their types.                                       *)
(***************************************************************************)
LEMMA FinishType ==
    ASSUME TypeOK, NEW p \in Pipes, NEW k \in 1..Len(inflight[p]),
           NEW status \in Errors \ {"submit"}, NEW c \in 0..MaxChunks,
           Finish(p, k, status, c)
    PROVE  /\ inflight' \in [Pipes -> Seq(Index)]
           /\ completed' \in Seq(Completion)
           /\ produced' \in [Pipes -> 0..MaxChunks]
<1>1. inflight[p] \in Seq(Index)
    BY DEF TypeOK
<1>2. inflight[p][k] \in Index
    BY <1>1
<1>3. [pipe |-> p, i |-> inflight[p][k], status |-> status, chunk |-> c]
          \in Completion
    BY <1>2 DEF Completion
<1>4. completed' \in Seq(Completion)
    BY <1>3 DEF Finish, TypeOK
<1>5. inflight' \in [Pipes -> Seq(Index)]
    BY <1>1, WithoutIsQueue DEF Finish, TypeOK
<1>. QED
    BY <1>4, <1>5 DEF Finish, TypeOK

(* The ring index stays inside the array. *)
LEMMA WrapType ==
    ASSUME NEW n \in Index, NEW bound \in 0..MaxCount
    PROVE  increment_and_wrap_size(n, bound) \in Index
BY MaxCountAssumption DEF increment_and_wrap_size, Index

(* Submitting the next transfer keeps the types. *)
LEMMA SubmitType ==
    ASSUME TypeOK, NEW p \in Pipes, submit_next_transfer(p)
    PROVE  /\ inflight' \in [Pipes -> Seq(Index)]
           /\ pending' \in [Pipes -> [Index -> BOOLEAN]]
           /\ error' \in [Pipes -> [Index -> Errors]]
           /\ next_submit' \in [Pipes -> Index]
<1>1. next_submit[p] \in Index /\ inflight[p] \in Seq(Index)
    BY DEF TypeOK
<1>2. Append(inflight[p], next_submit[p]) \in Seq(Index)
    BY <1>1
<1>3. next_submit' \in [Pipes -> Index]
    BY <1>1, WrapType DEF submit_next_transfer, TypeOK
<1>4. inflight' \in [Pipes -> Seq(Index)]
    BY ZenonT(40), <1>2 DEF submit_next_transfer, async_in_transfer_submit, TypeOK
<1>5. pending' \in [Pipes -> [Index -> BOOLEAN]]
    <2>. DEFINE i == next_submit[p]
    <2>1. \A b \in BOOLEAN :
              [pending EXCEPT ![p][i] = b] \in [Pipes -> [Index -> BOOLEAN]]
        BY <1>1 DEF TypeOK
    <2>2. \E b \in BOOLEAN : pending' = [pending EXCEPT ![p][i] = b]
        BY DEF submit_next_transfer, async_in_transfer_submit
    <2>. QED
        BY <2>1, <2>2
<1>6. error' \in [Pipes -> [Index -> Errors]]
    <2>. DEFINE i == next_submit[p]
    <2>1. \A e \in Errors :
              [error EXCEPT ![p][i] = e] \in [Pipes -> [Index -> Errors]]
        BY <1>1 DEF TypeOK
    <2>2. \E e \in Errors : error' = [error EXCEPT ![p][i] = e]
        BY DEF submit_next_transfer, async_in_transfer_submit, Errors
    <2>. QED
        BY <2>1, <2>2
<1>. QED
    BY <1>3, <1>4, <1>5, <1>6

(* The call that starts when the user calls a function that loops. *)
LEMMA CallType ==
    ASSUME NEW p \in Pipes, NEW op \in {"start", "events", "cancel"}
    PROVE  [op |-> op, pipe |-> p, i |-> 0] \in Calls
BY MaxCountAssumption DEF Calls

(* A step that leaves everything as it was changes no type. *)
LEMMA TypeStutter == ASSUME TypeOK, UNCHANGED vars PROVE TypeOK'
BY DEF TypeOK, vars, pipeVars, transferVars, kernelVars

(***************************************************************************)
(* Every step of the library, the kernel and the device keeps the types.   *)
(***************************************************************************)
LEMMA TypeStep == TypeOK /\ [Next]_vars => TypeOK'
<1>. SUFFICES ASSUME TypeOK, Next PROVE TypeOK'
    BY TypeStutter
<1>. DEFINE KernelTypes ==
        /\ inflight' \in [Pipes -> Seq(Index)]
        /\ completed' \in Seq(Completion)
        /\ produced' \in [Pipes -> 0..MaxChunks]
<1>. USE DEF pipeVars, transferVars, kernelVars
<1>1. ASSUME NEW p \in Pipes, async_in_pipe_create(p) PROVE TypeOK'
    BY <1>1 DEF TypeOK, async_in_pipe_create
<1>2. ASSUME NEW p \in Pipes, NEW count \in 1..MaxCount,
             allocate_transfers(p, count)
      PROVE  TypeOK'
    <2>1. count \in 0..MaxCount /\ 0..count - 1 \subseteq Index
        BY MaxCountAssumption DEF Index
    <2>. QED
        BY <1>2, <2>1 DEF TypeOK, allocate_transfers, async_in_transfer_create
<1>3. ASSUME NEW p \in Pipes, start_endless_transfers(p) PROVE TypeOK'
    BY <1>3, CallType DEF TypeOK, start_endless_transfers
<1>4. ASSUME NEW p \in Pipes, handle_events(p) PROVE TypeOK'
    BY <1>4, CallType DEF TypeOK, handle_events
<1>5. ASSUME NEW p \in Pipes, handle_finished_transfer(p) PROVE TypeOK'
    <2>1. next_finish' \in [Pipes -> Index]
        BY <1>5, WrapType DEF TypeOK, handle_finished_transfer
    <2>2. received' \in [Pipes -> 0..MaxChunks]
        BY <1>5 DEF TypeOK, handle_finished_transfer,
            async_in_transfer_get_results, Taken
    <2>3. /\ inflight' \in [Pipes -> Seq(Index)]
          /\ pending' \in [Pipes -> [Index -> BOOLEAN]]
          /\ error' \in [Pipes -> [Index -> Errors]]
          /\ next_submit' \in [Pipes -> Index]
        BY <1>5, SubmitType DEF TypeOK, handle_finished_transfer
    <2>4. pending_count' \in [Pipes -> 0..MaxCount]
        <3>1. pending_count[p] # 0 => pending_count[p] - 1 \in 0..MaxCount
            BY MaxCountAssumption DEF TypeOK
        <3>. QED
            BY <1>5, <3>1 DEF TypeOK, handle_finished_transfer
    <2>. QED
        BY <1>5, <2>1, <2>2, <2>3, <2>4 DEF TypeOK, handle_finished_transfer
<1>6. ASSUME NEW p \in Pipes, cancel_transfers(p) PROVE TypeOK'
    BY <1>6, CallType DEF TypeOK, cancel_transfers
<1>7. ASSUME NEW p \in Pipes, async_in_pipe_close(p) PROVE TypeOK'
    BY <1>7 DEF TypeOK, async_in_pipe_close, async_in_transfer_array_free,
           async_in_transfer_free
<1>8. ASSUME NEW p \in Pipes, start_submit(p) PROVE TypeOK'
    <2>1. pending_count' \in [Pipes -> 0..MaxCount]
        BY <1>8, MaxCountAssumption DEF TypeOK, start_submit
    <2>. QED
        BY <1>8, <2>1, SubmitType DEF TypeOK, start_submit
<1>9. ASSUME NEW p \in Pipes,
             start_return(p) \/ events_return(p) \/ cancel_return(p)
      PROVE  TypeOK'
    <2>1. Idle \in Calls
        BY MaxCountAssumption DEF Calls, Idle
    <2>. QED
        BY <1>9, <2>1 DEF TypeOK, start_return, events_return, cancel_return
<1>10. ASSUME NEW p \in Pipes, events_reap(p) PROVE TypeOK'
    <2>1. Head(completed) \in Completion /\ Tail(completed) \in Seq(Completion)
        BY <1>10 DEF TypeOK, events_reap, CanReap
    <2>. QED
        BY <1>10, <2>1 DEF TypeOK, events_reap,
           async_in_transfer_handle_completion, Completion
<1>11. ASSUME NEW p \in Pipes, cancel_discard(p) PROVE TypeOK'
    <2>1. call' \in Calls
        <3>1. call.i \in 0..MaxCount /\ transfer_count[p] \in 0..MaxCount
            BY DEF TypeOK, Calls
        <3>2. call.i + 1 \in 0..MaxCount
            BY <1>11, <3>1, MaxCountAssumption DEF cancel_discard
        <3>. QED
            BY <1>11, <3>2 DEF cancel_discard, Calls
    <2>2. KernelTypes
        <3>1. ASSUME NEW k \in Queued(p, call.i), NEW c \in ChunksFor(p, k),
                     Finish(p, k, "cancelled", c)
              PROVE  KernelTypes
            BY <3>1, FinishType, MaxChunksAssumption
            DEF Queued, ChunksFor, Errors
        <3>. QED
            BY <1>11, <3>1 DEF TypeOK, cancel_discard, usbfd_discard_urb
    <2>. QED
        BY <1>11, <2>1, <2>2 DEF TypeOK, cancel_discard
<1>12. ASSUME NEW p \in Pipes, UrbCompletes(p) PROVE TypeOK'
    <2>1. PICK status \in {"none", "failed"}, c \in ChunksFor(p, 1) :
              Finish(p, 1, status, c)
        BY <1>12 DEF UrbCompletes
    <2>2. 1 \in 1..Len(inflight[p])
        BY <1>12 DEF UrbCompletes, TypeOK
    <2>3. KernelTypes
        BY <2>1, <2>2, FinishType, MaxChunksAssumption DEF ChunksFor, Errors
    <2>. QED
        BY <1>12, <2>3 DEF TypeOK, UrbCompletes
<1>13. ASSUME NEW p \in Pipes, UrbKilled(p) PROVE TypeOK'
    <2>1. 1 \in 1..Len(inflight[p])
        BY <1>13 DEF UrbKilled, TypeOK
    <2>2. KernelTypes
        <3>1. PICK c \in ChunksFor(p, 1) : Finish(p, 1, "failed", c)
            BY <1>13 DEF UrbKilled
        <3>2. "failed" \in Errors \ {"submit"} /\ c \in 0..MaxChunks
            BY MaxChunksAssumption DEF Errors, ChunksFor
        <3>. QED
            BY <2>1, <3>1, <3>2, FinishType
    <2>. QED
        BY <1>13, <2>2 DEF TypeOK, UrbKilled
<1>14. ASSUME generic_handle_close PROVE TypeOK'
    BY <1>14 DEF TypeOK, generic_handle_close
<1>15. ASSUME Disconnect PROVE TypeOK'
    BY <1>15 DEF TypeOK, Disconnect
<1>16. ASSUME Terminated PROVE TypeOK'
    BY <1>16, TypeStutter DEF Terminated
<1>. QED
    BY <1>1, <1>2, <1>3, <1>4, <1>5, <1>6, <1>7, <1>8, <1>9, <1>10, <1>11,
       <1>12, <1>13, <1>14, <1>15, <1>16 DEF Next, Continue

(* The initial state, before any pipe is opened, has the types. *)
LEMMA InitType == Init => TypeOK
BY MaxCountAssumption, MaxChunksAssumption
DEF Init, TypeOK, Index, Errors, Calls, Idle

(***************************************************************************)
(* Type correctness: every variable of the pipes, the transfers and the    *)
(* kernel always has its type; in particular the ring indices stay inside  *)
(* the array, whatever the transfer count.                                 *)
(***************************************************************************)
THEOREM TypeCorrect == Spec => []TypeOK
BY InitType, TypeStep, PTL DEF Spec

(***************************************************************************)
(* The kernel has only transfers of the window, which lies in the array.   *)
(***************************************************************************)
LEMMA QueuedInWindow ==
    ASSUME RingCore, NEW p \in Pipes, NEW k \in 1..Len(inflight[p])
    PROVE  /\ inflight[p][k] \in Index
           /\ inflight[p][k] \in Window(p)
           /\ inflight[p][k] \in Slots(p)
           /\ transfer_count[p] # 0
           /\ inflight[p][k] < transfer_count[p]
<1>1. inflight[p][k] \in Index
    BY DEF RingCore, TypeOK
<1>2. inflight[p][k] \in Window(p)
    BY <1>1 DEF RingCore, KernelHasPending, PendingInWindow
<1>3. transfer_count[p] \in Nat
    BY MaxCountAssumption DEF RingCore, TypeOK
<1>. QED
    BY <1>1, <1>2, <1>3 DEF Window, Slots

(* A ring without transfers has nothing pending. *)
LEMMA EmptyRing ==
    ASSUME RingCore, NEW p \in Pipes, transfer_count[p] = 0
    PROVE  /\ \A i \in Index : ~pending[p][i]
           /\ inflight[p] = <<>>
           /\ pending_count[p] = 0
<1>1. \A i \in Index : ~pending[p][i]
    BY DEF RingCore, PendingInWindow, Window, Slots
<1>2. Len(inflight[p]) = 0
    BY QueuedInWindow DEF RingCore, TypeOK
<1>3. pending_count[p] = 0
    BY MaxCountAssumption DEF RingCore, TypeOK, RingIndices
<1>. QED
    BY <1>1, <1>2, <1>3 DEF RingCore, TypeOK

(***************************************************************************)
(* RingCore and the steps that touch neither transfers nor kernel queues:   *)
(* opening a pipe, allocating its transfers, entering and leaving a call.  *)
(***************************************************************************)
LEMMA RingCreate ==
    ASSUME RingCore, TypeOK', NEW p \in Pipes, async_in_pipe_create(p)
    PROVE  RingCore'
<1>. USE DEF pipeVars, transferVars, kernelVars
<1>1. transfer_count[p] = 0 /\ allocated[p] = {}
    BY DEF RingCore, PipeLife, async_in_pipe_create
<1>3. RingIndices'
    BY DEF RingCore, RingIndices, async_in_pipe_create
<1>4. PendingInWindow' /\ KernelHasPending'
    BY DEF RingCore, PendingInWindow, KernelHasPending, Window, Slots, Distance,
           async_in_pipe_create
<1>5. PipeLife'
    <2>1. \A q \in Pipes \ {p} : pstate'[q] = pstate[q]
        BY DEF RingCore, TypeOK, async_in_pipe_create
    <2>2. pstate'[p] = "open"
        BY DEF RingCore, TypeOK, async_in_pipe_create
    <2>3. Slots(p) = {}
        BY <1>1 DEF Slots
    <2>. QED
        BY <1>1, <2>1, <2>2, <2>3
        DEF RingCore, PipeLife, Slots, async_in_pipe_create
<1>6. CallConsistent'
    BY DEF RingCore, TypeOK, CallConsistent, Idle, async_in_pipe_create
<1>7. EndlessIsFull'
    BY DEF RingCore, EndlessIsFull, InCall, async_in_pipe_create
<1>. QED
    BY <1>3, <1>4, <1>5, <1>6, <1>7 DEF RingCore

(* Allocating the transfers of a pipe: nothing is pending. *)
LEMMA RingAllocate ==
    ASSUME RingCore, TypeOK', NEW p \in Pipes, NEW count \in 1..MaxCount,
           allocate_transfers(p, count)
    PROVE  RingCore'
<1>. USE DEF pipeVars, transferVars, kernelVars
<1>1. transfer_count[p] = 0
    BY DEF allocate_transfers
<1>2. /\ transfer_count'[p] = count
      /\ allocated'[p] = 0..count - 1
      /\ \A q \in Pipes \ {p} : /\ transfer_count'[q] = transfer_count[q]
                                /\ allocated'[q] = allocated[q]
    BY DEF RingCore, TypeOK, allocate_transfers, async_in_transfer_create
<1>3. RingIndices'
    <2>1. pending_count[p] = 0 /\ next_finish[p] = 0 /\ next_submit[p] = 0
        BY <1>1, EmptyRing DEF RingCore, RingIndices
    <2>2. count # 0 /\ count > 0
        BY MaxCountAssumption
    <2>. QED
        BY <1>2, <2>1, <2>2 DEF RingCore, RingIndices, allocate_transfers
<1>4. PendingInWindow'
    BY <1>1, <1>2, EmptyRing
    DEF RingCore, PendingInWindow, Window, Slots, Distance, allocate_transfers
<1>5. KernelHasPending'
    BY DEF RingCore, KernelHasPending, allocate_transfers
<1>6. PipeLife'
    BY <1>1, <1>2, MaxCountAssumption
    DEF RingCore, PipeLife, Slots, allocate_transfers, CanCall
<1>7. CallConsistent'
    BY DEF RingCore, CallConsistent, allocate_transfers, CanCall, Idle
<1>8. EndlessIsFull'
    BY <1>1, <1>2 DEF RingCore, EndlessIsFull, PipeLife, InCall, allocate_transfers
<1>. QED
    BY <1>3, <1>4, <1>5, <1>6, <1>7, <1>8 DEF RingCore

(***************************************************************************)
(* Entering a call.                                                        *)
(***************************************************************************)
LEMMA RingEnter ==
    ASSUME RingCore, TypeOK', NEW p \in Pipes,
           \/ start_endless_transfers(p)
           \/ handle_events(p)
           \/ cancel_transfers(p)
    PROVE  RingCore'
<1>. USE DEF pipeVars, transferVars, kernelVars
<1>1. /\ CanCall(p) /\ call'.pipe = p
      /\ call'.op \in {"start", "events", "cancel"}
      /\ \A q \in Pipes \ {p} :
             endless_transfers_enabled'[q] = endless_transfers_enabled[q]
      /\ UNCHANGED <<handle, pstate, transfer_count, pending_count, next_finish,
                     next_submit, transferVars, kernelVars, received>>
      /\ call'.op = "start" => endless_transfers_enabled'[p]
      /\ call'.op = "cancel" => ~endless_transfers_enabled'[p]
    <2>1. CASE start_endless_transfers(p)
        BY <2>1 DEF RingCore, TypeOK, start_endless_transfers
    <2>2. CASE handle_events(p)
        BY <2>2 DEF RingCore, TypeOK, handle_events
    <2>3. CASE cancel_transfers(p)
        BY <2>3 DEF RingCore, TypeOK, cancel_transfers
    <2>. QED
        BY <2>1, <2>2, <2>3
<1>2. \A q \in Pipes : ~InCall("start", q) /\ ~InCall("cancel", q)
    BY <1>1 DEF CanCall, InCall, Idle
<1>3. \A q \in Pipes \ {p} : ~InCall("start", q)' /\ ~InCall("cancel", q)'
    BY <1>1 DEF InCall
<1>4. RingIndices' /\ PendingInWindow' /\ KernelHasPending'
    BY <1>1 DEF RingCore, RingIndices, PendingInWindow, KernelHasPending, Window,
           Slots, Distance
<1>5. endless_transfers_enabled'[p] => transfer_count[p] # 0
    BY DEF RingCore, TypeOK, PipeLife, start_endless_transfers, handle_events,
           cancel_transfers
<1>6. PipeLife'
    BY <1>1, <1>5 DEF RingCore, PipeLife, Slots
<1>7. CallConsistent'
    BY <1>1 DEF RingCore, CallConsistent, CanCall
<1>8. EndlessIsFull'
    <2>1. endless_transfers_enabled'[p] /\ ~InCall("start", p)'
              => endless_transfers_enabled[p]
        BY DEF RingCore, TypeOK, start_endless_transfers, handle_events,
               cancel_transfers, InCall
    <2>. QED
        BY <1>1, <1>2, <2>1 DEF RingCore, EndlessIsFull
<1>. QED
    BY <1>4, <1>6, <1>7, <1>8 DEF RingCore

(* Leaving a call: start_endless_transfers returns with a full ring. *)
LEMMA RingLeave ==
    ASSUME RingCore, TypeOK', NEW p \in Pipes, call.op # "idle", call.pipe = p,
           call.op = "start" => pending_count[p] >= transfer_count[p],
           call' = Idle,
           UNCHANGED <<handle, pstate, pipeVars, transferVars, kernelVars>>
    PROVE  RingCore'
<1>. USE DEF pipeVars, transferVars, kernelVars
<1>1. UNCHANGED <<handle, pstate, pipeVars, transferVars, kernelVars>>
    OBVIOUS
<1>2. RingIndices' /\ PendingInWindow' /\ KernelHasPending' /\ PipeLife'
    BY <1>1 DEF RingCore, RingIndices, PendingInWindow, KernelHasPending,
           PipeLife, Window, Slots, Distance
<1>3. CallConsistent'
    BY <1>1 DEF RingCore, CallConsistent, Idle
<1>4. EndlessIsFull'
    <2>1. ASSUME NEW q \in Pipes, endless_transfers_enabled[q]
          PROVE  pending_count[q] = transfer_count[q]
        <3>1. CASE InCall("start", q)
            <4>1. /\ q = p /\ pending_count[p] >= transfer_count[p]
                  /\ pending_count[p] <= transfer_count[p]
                BY <3>1 DEF InCall, RingCore, RingIndices
            <4>2. pending_count[p] \in Nat /\ transfer_count[p] \in Nat
                BY MaxCountAssumption DEF RingCore, TypeOK
            <4>. QED
                BY <4>1, <4>2
        <3>2. CASE ~InCall("start", q)
            BY <2>1, <3>2 DEF RingCore, EndlessIsFull
        <3>. QED
            BY <3>1, <3>2
    <2>. QED
        BY <1>1, <2>1 DEF EndlessIsFull
<1>. QED
    BY <1>2, <1>3, <1>4 DEF RingCore

(* What the kernel's queues are made of. *)
LEMMA KernelElements ==
    ASSUME TypeOK
    PROVE  /\ \A q \in Pipes : \A k \in 1..Len(inflight[q]) :
                  inflight[q][k] \in Index
           /\ \A k \in 1..Len(completed) :
                  /\ completed[k].pipe \in Pipes /\ completed[k].i \in Index
                  /\ completed[k].chunk \in 0..MaxChunks
<1>1. ASSUME NEW q \in Pipes PROVE inflight[q] \in Seq(Index)
    BY DEF TypeOK
<1>2. completed \in Seq(Completion)
    BY DEF TypeOK
<1>3. ASSUME NEW k \in 1..Len(completed) PROVE completed[k] \in Completion
    BY <1>2
<1>. QED
    BY <1>1, <1>3 DEF Completion

(* The sizes and indices of a ring, as numbers. *)
LEMMA RingNumbers ==
    ASSUME RingCore, NEW p \in Pipes
    PROVE  /\ transfer_count[p] \in Nat /\ transfer_count[p] <= MaxCount
           /\ pending_count[p] \in Nat /\ pending_count[p] <= transfer_count[p]
           /\ next_finish[p] \in Nat /\ next_submit[p] \in Nat
           /\ next_finish[p] \in Index /\ next_submit[p] \in Index
BY MaxCountAssumption DEF RingCore, TypeOK, RingIndices, Index

(***************************************************************************)
(* Where the next transfer is submitted: just behind the window, at a      *)
(* transfer that is not pending, or at next_finish when the ring is full.  *)
(***************************************************************************)
LEMMA NextSubmitSlot ==
    ASSUME RingCore, NEW p \in Pipes, transfer_count[p] # 0
    PROVE  /\ next_submit[p] \in Slots(p)
           /\ next_finish[p] \in Slots(p)
           /\ Distance(p, next_finish[p]) = 0
           /\ pending_count[p] < transfer_count[p] =>
                  /\ Distance(p, next_submit[p]) = pending_count[p]
                  /\ ~pending[p][next_submit[p]]
           /\ pending_count[p] = transfer_count[p] =>
                  next_submit[p] = next_finish[p]
<1>1. /\ next_finish[p] < transfer_count[p]
      /\ next_submit[p] =
             IF next_finish[p] + pending_count[p] < transfer_count[p]
             THEN next_finish[p] + pending_count[p]
             ELSE next_finish[p] + pending_count[p] - transfer_count[p]
    BY DEF RingCore, RingIndices
<1>2. /\ next_submit[p] \in Slots(p)
      /\ next_finish[p] \in Slots(p)
      /\ Distance(p, next_finish[p]) = 0
      /\ pending_count[p] < transfer_count[p] =>
             Distance(p, next_submit[p]) = pending_count[p]
      /\ pending_count[p] = transfer_count[p] => next_submit[p] = next_finish[p]
    BY <1>1, RingNumbers DEF Slots, Distance
<1>3. pending_count[p] < transfer_count[p] => next_submit[p] \notin Window(p)
    BY <1>2, RingNumbers DEF Window
<1>. QED
    BY <1>2, <1>3, RingNumbers DEF RingCore, PendingInWindow

(***************************************************************************)
(* Submitting a transfer that is not pending keeps the kernel's queues in  *)
(* step with the flags.                                                    *)
(***************************************************************************)
LEMMA RingSubmit ==
    ASSUME RingCore, NEW p \in Pipes, ~pending[p][next_submit[p]],
           submit_next_transfer(p), completed' = completed
    PROVE  /\ KernelHasPending'
           /\ \A q \in Pipes, i \in Index : pending'[q][i] =>
                  pending[q][i] \/ (q = p /\ i = next_submit[p])
           /\ \A q \in Pipes \ {p} :
                  inflight'[q] = inflight[q] /\ next_submit'[q] = next_submit[q]
<1>. DEFINE s == next_submit[p]
<1>1. s \in Index
    BY RingNumbers
<1>2. \A q \in Pipes, i \in Index :
          q # p \/ i # s => pending'[q][i] = pending[q][i]
    <2>1. pending \in [Pipes -> [Index -> BOOLEAN]]
        BY DEF RingCore, TypeOK
    <2>2. \E b \in BOOLEAN : pending' = [pending EXCEPT ![p][s] = b]
        BY DEF submit_next_transfer, async_in_transfer_submit
    <2>. QED
        BY <1>1, <2>1, <2>2
<1>3. \A q \in Pipes \ {p} :
          inflight'[q] = inflight[q] /\ next_submit'[q] = next_submit[q]
    BY DEF RingCore, TypeOK, submit_next_transfer, async_in_transfer_submit
<1>4. /\ \A k \in 1..Len(inflight[p]) :
             inflight[p][k] \in Index /\ inflight[p][k] # s
      /\ \A k \in 1..Len(completed) :
             /\ completed[k].pipe \in Pipes /\ completed[k].i \in Index
             /\ ~(completed[k].pipe = p /\ completed[k].i = s)
    <2>1. TypeOK
        BY DEF RingCore
    <2>2. \A k \in 1..Len(inflight[p]) : inflight[p][k] # s
        BY DEF RingCore, KernelHasPending
    <2>3. \A k \in 1..Len(completed) :
              ~(completed[k].pipe = p /\ completed[k].i = s)
        BY DEF RingCore, KernelHasPending
    <2>. QED
        BY <2>1, <2>2, <2>3, KernelElements
<1>5. CASE inflight'[p] = inflight[p]
    <2>1. \A q \in Pipes : inflight'[q] = inflight[q]
        BY <1>3, <1>5
    <2>2. \A q \in Pipes : \A k \in 1..Len(inflight[q]) :
              pending'[q][inflight[q][k]]
        BY <1>2, <1>4, KernelElements DEF RingCore, KernelHasPending
    <2>3. \A k \in 1..Len(completed) :
              pending'[completed[k].pipe][completed[k].i]
        BY <1>2, <1>4 DEF RingCore, KernelHasPending
    <2>4. KernelHasPending'
        BY <2>1, <2>2, <2>3 DEF RingCore, KernelHasPending
    <2>. QED
        BY <1>2, <1>3, <2>4
<1>6. CASE inflight'[p] = Append(inflight[p], s) /\ pending'[p][s]
    <2>. DEFINE n == Len(inflight[p])
    <2>1. inflight[p] \in Seq(Index) /\ n \in Nat
        BY DEF RingCore, TypeOK
    <2>2. /\ Len(inflight'[p]) = n + 1
          /\ inflight'[p][n + 1] = s
          /\ \A k \in 1..n : inflight'[p][k] = inflight[p][k]
        BY <1>1, <1>6, <2>1
    <2>3. \A k \in 1..n + 1 : k \in 1..n \/ k = n + 1
        BY <2>1
    <2>4. \A k \in 1..Len(completed) :
              pending'[completed[k].pipe][completed[k].i]
        BY <1>2, <1>4 DEF RingCore, KernelHasPending
    <2>5. ASSUME NEW q \in Pipes, NEW k \in 1..Len(inflight'[q])
          PROVE  /\ pending'[q][inflight'[q][k]]
                 /\ \A l \in 1..Len(inflight'[q]) :
                        inflight'[q][k] = inflight'[q][l] => k = l
                 /\ \A l \in 1..Len(completed) :
                        ~(completed[l].pipe = q
                          /\ completed[l].i = inflight'[q][k])
        <3>1. CASE q # p
            <4>1. inflight'[q] = inflight[q] /\ inflight[q][k] \in Index
                BY <1>3, <2>5, <3>1, KernelElements DEF RingCore
            <4>. QED
                BY <1>2, <2>5, <3>1, <4>1 DEF RingCore, KernelHasPending
        <3>2. CASE q = p /\ k \in 1..n
            <4>1. inflight'[q][k] = inflight[p][k]
                BY <2>2, <3>2
            <4>2. pending'[q][inflight'[q][k]]
                BY <1>2, <1>4, <3>2, <4>1 DEF RingCore, KernelHasPending
            <4>3. \A l \in 1..n + 1 : inflight'[q][k] = inflight'[q][l] => k = l
                BY SMTT(30), <1>4, <2>2, <2>3, <3>2, <4>1 DEF RingCore, KernelHasPending
            <4>. QED
                BY <2>2, <3>2, <4>1, <4>2, <4>3 DEF RingCore, KernelHasPending
        <3>3. CASE q = p /\ k = n + 1
            BY <1>4, <1>6, <2>2, <2>3, <3>3
        <3>. QED
            BY <2>2, <2>3, <2>5, <3>1, <3>2, <3>3
    <2>6. KernelHasPending'
        BY <2>4, <2>5 DEF RingCore, KernelHasPending
    <2>. QED
        BY <1>2, <1>3, <2>6
<1>. QED
    BY <1>1, <1>5, <1>6
    DEF RingCore, TypeOK, submit_next_transfer, async_in_transfer_submit

(***************************************************************************)
(* An iteration of the loop of start_endless_transfers: the window grows   *)
(* by the transfer that is submitted.                                      *)
(***************************************************************************)
LEMMA RingGrows ==
    ASSUME RingCore, TypeOK', NEW p \in Pipes, InCall("start", p),
           pending_count[p] < transfer_count[p],
           KernelHasPending',
           \A q \in Pipes, i \in Index : pending'[q][i] =>
               pending[q][i] \/ (q = p /\ i = next_submit[p]),
           next_submit' = [next_submit EXCEPT
               ![p] = increment_and_wrap_size(@, transfer_count[p])],
           pending_count' = [pending_count EXCEPT ![p] = @ + 1],
           UNCHANGED <<handle, pstate, transfer_count, endless_transfers_enabled,
                       next_finish, allocated, call>>
    PROVE  RingCore'
<1>1. /\ pstate[p] = "open" /\ endless_transfers_enabled[p]
      /\ call.op = "start" /\ call.pipe = p
    BY DEF RingCore, CallConsistent, InCall
<1>2. transfer_count[p] # 0 /\ pending_count[p] < transfer_count[p]
    BY <1>1 DEF RingCore, PipeLife
<1>3. /\ next_submit[p] \in Slots(p)
      /\ Distance(p, next_submit[p]) = pending_count[p]
    BY <1>2, NextSubmitSlot
<1>4. /\ UNCHANGED <<handle, pstate, transfer_count, endless_transfers_enabled,
                     next_finish, allocated, call>>
      /\ pending_count'[p] = pending_count[p] + 1
      /\ \A q \in Pipes \ {p} : pending_count'[q] = pending_count[q]
    BY DEF RingCore, TypeOK
<1>5. /\ \A q \in Pipes, i \in Index : pending'[q][i] =>
             pending[q][i] \/ (q = p /\ i = next_submit[p])
      /\ \A q \in Pipes \ {p} : next_submit'[q] = next_submit[q]
    BY DEF RingCore, TypeOK
<1>6. RingIndices'
    <2>1. next_submit'[p] =
              increment_and_wrap_size(next_submit[p], transfer_count[p])
        BY DEF RingCore, TypeOK
    <2>2. /\ next_finish[p] < transfer_count[p]
          /\ next_submit[p] =
                 IF next_finish[p] + pending_count[p] < transfer_count[p]
                 THEN next_finish[p] + pending_count[p]
                 ELSE next_finish[p] + pending_count[p] - transfer_count[p]
        BY <1>2 DEF RingCore, RingIndices
    <2>3. next_submit'[p] =
              IF next_finish[p] + pending_count'[p] < transfer_count[p]
              THEN next_finish[p] + pending_count'[p]
              ELSE next_finish[p] + pending_count'[p] - transfer_count[p]
        BY <1>2, <1>4, <2>1, <2>2, RingNumbers DEF increment_and_wrap_size
    <2>4. pending_count'[p] <= transfer_count[p]
        BY <1>2, <1>4, RingNumbers
    <2>. QED
        BY <1>2, <1>4, <1>5, <2>2, <2>3, <2>4 DEF RingCore, RingIndices
<1>7. PendingInWindow'
    <2>1. ASSUME NEW q \in Pipes, NEW i \in Index, pending'[q][i]
          PROVE  i \in Slots(q) /\ Distance(q, i) < pending_count'[q]
                     /\ i \in allocated[q]
        <3>1. CASE pending[q][i]
            <4>1. i \in Slots(q) /\ Distance(q, i) < pending_count[q]
                      /\ i \in allocated[q]
                BY <3>1 DEF RingCore, PendingInWindow, Window
            <4>2. Distance(q, i) \in Int
                BY RingNumbers DEF Distance, Index
            <4>. QED
                BY <1>4, <4>1, <4>2, RingNumbers
        <3>2. CASE q = p /\ i = next_submit[p]
            BY <1>1, <1>3, <1>4, <3>2, RingNumbers DEF RingCore, PipeLife
        <3>. QED
            BY <1>5, <2>1, <3>1, <3>2
    <2>. QED
        BY <1>4, <2>1 DEF PendingInWindow, Window, Slots, Distance
<1>8. PipeLife' /\ CallConsistent'
    BY <1>4 DEF RingCore, PipeLife, CallConsistent, Slots
<1>9. EndlessIsFull'
    BY <1>1, <1>4 DEF RingCore, EndlessIsFull, InCall
<1>. QED
    BY <1>6, <1>7, <1>8, <1>9 DEF RingCore

LEMMA RingStartSubmit ==
    ASSUME RingCore, TypeOK', NEW p \in Pipes, start_submit(p)
    PROVE  RingCore'
<1>1. transfer_count[p] # 0 /\ pending_count[p] < transfer_count[p]
    BY DEF RingCore, CallConsistent, PipeLife, start_submit, InCall
<1>2. ~pending[p][next_submit[p]]
    BY <1>1, NextSubmitSlot
<1>3. submit_next_transfer(p) /\ completed' = completed
    BY DEF start_submit
<1>4. /\ KernelHasPending'
      /\ \A q \in Pipes, i \in Index : pending'[q][i] =>
             pending[q][i] \/ (q = p /\ i = next_submit[p])
    BY <1>2, <1>3, RingSubmit
<1>. QED
    BY <1>3, <1>4, RingGrows DEF start_submit, submit_next_transfer

(***************************************************************************)
(* How handing over the transfer at next_finish turns the ring: every      *)
(* other slot comes one closer, and the slot that was first is now last.   *)
(***************************************************************************)
LEMMA RingTurn ==
    ASSUME RingCore, NEW p \in Pipes, transfer_count[p] # 0,
           next_finish'[p] =
               increment_and_wrap_size(next_finish[p], transfer_count[p]),
           transfer_count'[p] = transfer_count[p]
    PROVE  /\ next_finish'[p] \in Slots(p)
           /\ \A i \in Slots(p) : i # next_finish[p] =>
                  /\ Distance(p, i) # 0
                  /\ Distance(p, i)' = Distance(p, i) - 1
           /\ Distance(p, next_finish[p]) = 0
           /\ \A i \in Slots(p) : i = next_finish[p] =>
                  Distance(p, i)' = transfer_count[p] - 1
<1>1. next_finish[p] < transfer_count[p]
    BY DEF RingCore, RingIndices
<1>. QED
    BY <1>1, RingNumbers DEF increment_and_wrap_size, Slots, Distance

(***************************************************************************)
(* Handing over a transfer: the first one leaves the window and, for an    *)
(* endless pipe, is submitted again at the end of the window.              *)
(***************************************************************************)
LEMMA RingHandsOver ==
    ASSUME RingCore, TypeOK', NEW p \in Pipes, CanCall(p), pending_count[p] # 0,
           KernelHasPending',
           \A q \in Pipes, i \in Index : pending'[q][i] =>
               \/ pending[q][i]
               \/ endless_transfers_enabled[p] /\ q = p /\ i = next_finish[p],
           next_finish' = [next_finish EXCEPT
               ![p] = increment_and_wrap_size(@, transfer_count[p])],
           \/ /\ endless_transfers_enabled[p]
              /\ next_submit' = [next_submit EXCEPT
                     ![p] = increment_and_wrap_size(@, transfer_count[p])]
              /\ UNCHANGED pending_count
           \/ /\ ~endless_transfers_enabled[p]
              /\ ~pending'[p][next_finish[p]]
              /\ pending_count' = [pending_count EXCEPT ![p] = @ - 1]
              /\ UNCHANGED next_submit,
           UNCHANGED <<handle, pstate, transfer_count, endless_transfers_enabled,
                       allocated, call>>
    PROVE  RingCore'
<1>. DEFINE f == next_finish[p]
<1>1. /\ pstate[p] = "open" /\ call = Idle /\ pending_count[p] # 0
      /\ next_finish'[p] = increment_and_wrap_size(f, transfer_count[p])
      /\ \A q \in Pipes \ {p} : next_finish'[q] = next_finish[q]
      /\ UNCHANGED <<handle, pstate, transfer_count, endless_transfers_enabled,
                     allocated, call>>
    BY DEF RingCore, TypeOK, CanCall
<1>2. transfer_count[p] # 0
    BY <1>1, RingNumbers
<1>3. \A q \in Pipes : ~InCall("start", q)
    BY <1>1 DEF InCall, Idle
<1>4. CASE endless_transfers_enabled[p]
    <2>1. pending_count[p] = transfer_count[p] /\ next_submit[p] = f
        BY <1>2, <1>3, <1>4, NextSubmitSlot DEF RingCore, EndlessIsFull
    <2>2. /\ pending_count' = pending_count
          /\ next_submit'[p] = increment_and_wrap_size(f, transfer_count[p])
          /\ \A q \in Pipes \ {p} : next_submit'[q] = next_submit[q]
        BY <1>4, <2>1 DEF RingCore, TypeOK
    <2>3. \A q \in Pipes, i \in Index : pending'[q][i] =>
              pending[q][i] \/ (q = p /\ i = f)
        OBVIOUS
    <2>4. next_submit'[p] = next_finish'[p]
        BY <1>1, <2>2
    <2>5. next_finish'[p] \in Slots(p)
        BY <1>1, <1>2, RingTurn
    <2>6. RingIndices'
        <3>1. /\ next_finish'[p] < transfer_count[p]
              /\ next_submit'[p] =
                     IF next_finish'[p] + pending_count[p] < transfer_count[p]
                     THEN next_finish'[p] + pending_count[p]
                     ELSE next_finish'[p] + pending_count[p] - transfer_count[p]
            BY <2>1, <2>4, <2>5, RingNumbers DEF Slots
        <3>. QED
            BY <1>1, <1>2, <2>2, <3>1 DEF RingCore, RingIndices
    <2>7. PendingInWindow'
        <3>1. ASSUME NEW q \in Pipes, NEW i \in Index, pending'[q][i]
              PROVE  i \in Slots(q) /\ Distance(q, i)' < pending_count[q]
                         /\ i \in allocated[q]
            <4>1. CASE q # p
                <5>1. pending[q][i] /\ Distance(q, i)' = Distance(q, i)
                    BY <1>1, <2>3, <3>1, <4>1 DEF Distance
                <5>. QED
                    BY <5>1 DEF RingCore, PendingInWindow, Window
            <4>2. CASE q = p
                <5>1. i \in Slots(p) /\ i \in allocated[p]
                    <6>1. f \in Slots(p) /\ allocated[p] = Slots(p)
                        BY <1>1, <1>2, NextSubmitSlot DEF RingCore, PipeLife
                    <6>. QED
                        BY <2>3, <3>1, <4>2, <6>1
                        DEF RingCore, PendingInWindow, Window
                <5>2. Distance(p, i) \in 0..transfer_count[p] - 1
                    BY <1>2, <5>1, RingNumbers
                    DEF Distance, Slots, RingCore, RingIndices
                <5>3. Distance(p, i)' < transfer_count[p]
                    BY <1>1, <1>2, <5>1, <5>2, RingTurn, RingNumbers
                <5>. QED
                    BY <2>1, <4>2, <5>1, <5>3
            <4>. QED
                BY <4>1, <4>2
        <3>. QED
            BY <1>1, <2>2, <3>1 DEF PendingInWindow, Window, Slots
    <2>8. PipeLife' /\ CallConsistent' /\ EndlessIsFull'
        BY <1>1, <1>3, <2>2
        DEF RingCore, PipeLife, CallConsistent, EndlessIsFull, Slots, InCall
    <2>. QED
        BY <2>6, <2>7, <2>8 DEF RingCore
<1>5. CASE ~endless_transfers_enabled[p]
    <2>1. /\ pending_count'[p] = pending_count[p] - 1
          /\ \A q \in Pipes \ {p} : pending_count'[q] = pending_count[q]
          /\ next_submit' = next_submit /\ ~pending'[p][f]
          /\ \A q \in Pipes, i \in Index : pending'[q][i] => pending[q][i]
        BY <1>5 DEF RingCore, TypeOK
    <2>2. RingIndices'
        <3>1. /\ f < transfer_count[p]
              /\ next_submit[p] =
                     IF f + pending_count[p] < transfer_count[p]
                     THEN f + pending_count[p]
                     ELSE f + pending_count[p] - transfer_count[p]
            BY <1>2 DEF RingCore, RingIndices
        <3>2. /\ next_finish'[p] < transfer_count[p]
              /\ pending_count'[p] <= transfer_count[p]
              /\ next_submit[p] =
                     IF next_finish'[p] + pending_count'[p] < transfer_count[p]
                     THEN next_finish'[p] + pending_count'[p]
                     ELSE next_finish'[p] + pending_count'[p]
                              - transfer_count[p]
            BY <1>1, <1>2, <2>1, <3>1, RingNumbers DEF increment_and_wrap_size
        <3>. QED
            BY <1>1, <1>2, <2>1, <3>2 DEF RingCore, RingIndices
    <2>3. PendingInWindow'
        <3>1. ASSUME NEW q \in Pipes, NEW i \in Index, pending'[q][i]
              PROVE  i \in Slots(q) /\ Distance(q, i)' < pending_count'[q]
                         /\ i \in allocated[q]
            <4>1. i \in Slots(q) /\ Distance(q, i) < pending_count[q]
                      /\ i \in allocated[q]
                BY <2>1, <3>1 DEF RingCore, PendingInWindow, Window
            <4>2. CASE q # p
                BY <1>1, <2>1, <4>1, <4>2 DEF Distance
            <4>3. CASE q = p
                <5>1. i # f
                    BY <2>1, <3>1, <4>3
                <5>2. Distance(p, i)' = Distance(p, i) - 1
                    BY <1>1, <1>2, <4>1, <4>3, <5>1, RingTurn
                <5>3. Distance(p, i) \in Int
                    BY RingNumbers DEF Distance, Index
                <5>. QED
                    BY <2>1, <4>1, <4>3, <5>2, <5>3, RingNumbers
            <4>. QED
                BY <4>2, <4>3
        <3>. QED
            BY <1>1, <2>1, <3>1 DEF PendingInWindow, Window, Slots
    <2>4. PipeLife' /\ CallConsistent'
        BY <1>1, <2>1 DEF RingCore, PipeLife, CallConsistent, Slots
    <2>5. EndlessIsFull'
        BY <1>1, <1>5, <2>1 DEF RingCore, EndlessIsFull, InCall
    <2>. QED
        BY <2>2, <2>3, <2>4, <2>5 DEF RingCore
<1>. QED
    BY <1>4, <1>5

(* A transfer that is handed over was not pending. *)
LEMMA RingHandOver ==
    ASSUME RingCore, TypeOK', NEW p \in Pipes, handle_finished_transfer(p)
    PROVE  RingCore'
<1>. DEFINE f == next_finish[p]
<1>1. /\ pstate[p] = "open" /\ CanCall(p) /\ ~InCall("start", p)
      /\ pending_count[p] # 0 /\ ~pending[p][f]
      /\ completed' = completed
    BY DEF handle_finished_transfer, CanCall, InCall, Idle
<1>2. transfer_count[p] # 0
    BY <1>1, RingNumbers
<1>3. /\ KernelHasPending'
      /\ \A q \in Pipes, i \in Index : pending'[q][i] =>
             \/ pending[q][i]
             \/ endless_transfers_enabled[p] /\ q = p /\ i = f
    <2>1. CASE endless_transfers_enabled[p]
        <3>1. pending_count[p] = transfer_count[p] /\ next_submit[p] = f
            BY <1>1, <1>2, <2>1, NextSubmitSlot DEF RingCore, EndlessIsFull
        <3>2. submit_next_transfer(p)
            BY <2>1 DEF handle_finished_transfer
        <3>. QED
            BY <1>1, <2>1, <3>1, <3>2, RingSubmit
    <2>2. CASE ~endless_transfers_enabled[p]
        <3>1. UNCHANGED <<inflight, pending>>
            BY <2>2 DEF handle_finished_transfer
        <3>. QED
            BY <1>1, <3>1 DEF RingCore, KernelHasPending
    <2>. QED
        BY <2>1, <2>2
<1>. QED
    BY <1>1, <1>3, RingHandsOver
    DEF handle_finished_transfer, submit_next_transfer

(***************************************************************************)
(* handle_events reaps a URB: the transfer is no longer in the kernel and  *)
(* no longer flagged, and it stays in the window of its pipe.              *)
(***************************************************************************)
LEMMA RingReap ==
    ASSUME RingCore, TypeOK', completed # <<>>,
           async_in_transfer_handle_completion(Head(completed)),
           completed' = Tail(completed),
           UNCHANGED <<handle, pstate, pipeVars, allocated, inflight, call>>
    PROVE  RingCore'
<1>. USE DEF pipeVars, transferVars, kernelVars
<1>. DEFINE u == completed[1]
<1>1. /\ completed # <<>> /\ completed' = Tail(completed)
      /\ pending' = [pending EXCEPT ![u.pipe][u.i] = FALSE]
      /\ UNCHANGED <<handle, pstate, pipeVars, allocated, inflight, call>>
    <2>1. completed # <<>> /\ completed \in Seq(Completion)
        BY DEF RingCore, TypeOK
    <2>2. Head(completed) = u
        BY <2>1
    <2>. QED
        BY <2>1, <2>2 DEF async_in_transfer_handle_completion
<1>2. completed \in Seq(Completion) /\ pending \in [Pipes -> [Index -> BOOLEAN]]
    BY DEF RingCore, TypeOK
<1>3. /\ Len(completed) \in Nat /\ 1 \in 1..Len(completed)
      /\ Len(completed') = Len(completed) - 1
      /\ \A k \in 1..Len(completed') :
             completed'[k] = completed[k + 1] /\ k + 1 \in 1..Len(completed)
    BY <1>1, <1>2
<1>4. u.pipe \in Pipes /\ u.i \in Index
    BY <1>3, KernelElements DEF RingCore
<1>5. \A q \in Pipes, i \in Index :
          /\ q # u.pipe \/ i # u.i => pending'[q][i] = pending[q][i]
          /\ pending'[q][i] => pending[q][i]
    BY <1>1, <1>2, <1>4
<1>6. RingIndices' /\ PipeLife' /\ CallConsistent' /\ EndlessIsFull'
    BY <1>1 DEF RingCore, RingIndices, PipeLife, CallConsistent, EndlessIsFull,
           Slots, InCall
<1>7. PendingInWindow'
    BY <1>1, <1>5 DEF RingCore, PendingInWindow, Window, Slots, Distance
<1>8. KernelHasPending'
    <2>1. ASSUME NEW q \in Pipes, NEW k \in 1..Len(inflight[q])
          PROVE  /\ pending'[q][inflight[q][k]]
                 /\ \A l \in 1..Len(completed') :
                        ~(completed'[l].pipe = q
                          /\ completed'[l].i = inflight[q][k])
        <3>1. inflight[q][k] \in Index
            BY KernelElements DEF RingCore
        <3>2. ~(u.pipe = q /\ u.i = inflight[q][k])
            BY <1>3 DEF RingCore, KernelHasPending
        <3>3. pending'[q][inflight[q][k]]
            BY <1>5, <3>1, <3>2 DEF RingCore, KernelHasPending
        <3>. QED
            BY <1>3, <3>3 DEF RingCore, KernelHasPending
    <2>2. ASSUME NEW k \in 1..Len(completed')
          PROVE  /\ pending'[completed'[k].pipe][completed'[k].i]
                 /\ \A l \in 1..Len(completed') :
                        completed'[k].pipe = completed'[l].pipe
                            /\ completed'[k].i = completed'[l].i => k = l
        <3>1. /\ completed'[k] = completed[k + 1] /\ k + 1 \in 1..Len(completed)
              /\ k + 1 # 1
            BY <1>3
        <3>2. ~(completed[k + 1].pipe = u.pipe /\ completed[k + 1].i = u.i)
            BY <1>3, <3>1 DEF RingCore, KernelHasPending
        <3>3. completed[k + 1].pipe \in Pipes /\ completed[k + 1].i \in Index
            BY <3>1, KernelElements DEF RingCore
        <3>4. pending'[completed'[k].pipe][completed'[k].i]
            BY <1>5, <3>1, <3>2, <3>3 DEF RingCore, KernelHasPending
        <3>5. ASSUME NEW l \in 1..Len(completed'),
                     completed'[k].pipe = completed'[l].pipe,
                     completed'[k].i = completed'[l].i
              PROVE  k = l
            <4>1. /\ completed'[l] = completed[l + 1]
                  /\ l + 1 \in 1..Len(completed)
                BY <1>3
            <4>2. k + 1 = l + 1
                BY <3>1, <3>5, <4>1 DEF RingCore, KernelHasPending
            <4>. QED
                BY <1>3, <4>2
        <3>. QED
            BY <3>4, <3>5
    <2>. QED
        BY <1>1, <2>1, <2>2 DEF RingCore, KernelHasPending
<1>. QED
    BY <1>6, <1>7, <1>8 DEF RingCore

(***************************************************************************)
(* The kernel finishes a URB, because it is done, discarded, or because    *)
(* the device is gone: the transfer moves from the endpoint's queue to the *)
(* URBs that can be reaped.                                                *)
(***************************************************************************)
LEMMA RingFinish ==
    ASSUME RingCore, NEW p \in Pipes, NEW k \in 1..Len(inflight[p]),
           NEW status, NEW c, Finish(p, k, status, c), pending' = pending
    PROVE  /\ KernelHasPending'
           /\ \A q \in Pipes : \A l \in 1..Len(inflight'[q]) :
                  \E m \in 1..Len(inflight[q]) :
                      /\ inflight'[q][l] = inflight[q][m]
                      /\ q = p => m # k
<1>. DEFINE n == Len(completed)
<1>. DEFINE x == inflight[p][k]
<1>1. inflight[p] \in Seq(Index) /\ completed \in Seq(Completion) /\ n \in Nat
    BY DEF RingCore, TypeOK
<1>2. /\ \A q \in Pipes \ {p} : inflight'[q] = inflight[q]
      /\ inflight'[p] = Without(inflight[p], k)
    BY DEF Finish, RingCore, TypeOK
<1>3. /\ Len(inflight'[p]) = Len(inflight[p]) - 1
      /\ \A j \in 1..Len(inflight[p]) - 1 : inflight'[p][j] =
             IF j < k THEN inflight[p][j] ELSE inflight[p][j + 1]
    BY <1>1, <1>2, WithoutIsQueue
<1>4. /\ Len(completed') = n + 1
      /\ completed'[n + 1].pipe = p /\ completed'[n + 1].i = x
      /\ \A l \in 1..n : completed'[l] = completed[l]
    BY <1>1 DEF Finish
<1>5. ASSUME NEW l \in 1..Len(inflight'[p])
      PROVE  \E m \in 1..Len(inflight[p]) :
                 inflight'[p][l] = inflight[p][m] /\ m # k
                     /\ m = (IF l < k THEN l ELSE l + 1)
    BY <1>1, <1>3
<1>6. \A q \in Pipes : \A l \in 1..Len(inflight'[q]) :
          \E m \in 1..Len(inflight[q]) :
              inflight'[q][l] = inflight[q][m] /\ (q = p => m # k)
    BY <1>2, <1>5
<1>7. \A l \in 1..n + 1 : l \in 1..n \/ l = n + 1
    BY <1>1
<1>8. ASSUME NEW q \in Pipes, NEW l \in 1..Len(inflight'[q])
      PROVE  /\ pending[q][inflight'[q][l]]
             /\ \A m \in 1..Len(inflight'[q]) :
                    inflight'[q][l] = inflight'[q][m] => l = m
             /\ \A m \in 1..Len(completed') :
                    ~(completed'[m].pipe = q
                      /\ completed'[m].i = inflight'[q][l])
    <2>1. PICK a \in 1..Len(inflight[q]) :
              inflight'[q][l] = inflight[q][a] /\ (q = p => a # k)
        BY <1>6
    <2>2. pending[q][inflight'[q][l]]
        BY <2>1 DEF RingCore, KernelHasPending
    <2>3. ASSUME NEW m \in 1..Len(inflight'[q]),
                 inflight'[q][l] = inflight'[q][m]
          PROVE  l = m
        <3>1. CASE q # p
            BY <1>2, <1>8, <2>3, <3>1 DEF RingCore, KernelHasPending
        <3>2. CASE q = p
            <4>1. PICK b \in 1..Len(inflight[p]) :
                      /\ inflight'[p][l] = inflight[p][b]
                      /\ b = IF l < k THEN l ELSE l + 1
                BY <1>5, <1>8, <3>2
            <4>2. PICK d \in 1..Len(inflight[p]) :
                      /\ inflight'[p][m] = inflight[p][d]
                      /\ d = IF m < k THEN m ELSE m + 1
                BY <1>5, <2>3, <3>2
            <4>3. b = d
                BY <2>3, <3>2, <4>1, <4>2 DEF RingCore, KernelHasPending
            <4>4. l \in Nat /\ m \in Nat
                BY <1>1, <1>3, <3>2
            <4>. QED
                BY <4>1, <4>2, <4>3, <4>4
        <3>. QED
            BY <3>1, <3>2
    <2>4. ASSUME NEW m \in 1..Len(completed'), completed'[m].pipe = q,
                 completed'[m].i = inflight'[q][l]
          PROVE  FALSE
        <3>1. CASE m \in 1..n
            BY <1>4, <2>1, <2>4, <3>1 DEF RingCore, KernelHasPending
        <3>2. CASE m = n + 1
            BY <1>4, <2>1, <2>4, <3>2 DEF RingCore, KernelHasPending
        <3>. QED
            BY <1>4, <1>7, <2>4, <3>1, <3>2
    <2>. QED
        BY <2>2, <2>3, <2>4
<1>9. ASSUME NEW l \in 1..Len(completed')
      PROVE  /\ pending[completed'[l].pipe][completed'[l].i]
             /\ \A m \in 1..Len(completed') :
                    completed'[l].pipe = completed'[m].pipe
                        /\ completed'[l].i = completed'[m].i => l = m
    <2>1. pending[p][x]
        BY DEF RingCore, KernelHasPending
    <2>2. \A m \in 1..n : ~(completed[m].pipe = p /\ completed[m].i = x)
        BY DEF RingCore, KernelHasPending
    <2>3. CASE l \in 1..n
        BY SMTT(30), <1>4, <1>7, <2>2, <2>3 DEF RingCore, KernelHasPending
    <2>4. CASE l = n + 1
        BY <1>4, <1>7, <2>1, <2>2, <2>4
    <2>. QED
        BY <1>4, <1>7, <1>9, <2>3, <2>4
<1>10. KernelHasPending'
    BY <1>8, <1>9 DEF KernelHasPending
<1>. QED
    BY <1>6, <1>10

(* A URB is finished by the device or by the kernel, outside any call. *)
LEMMA RingUrbEnds ==
    ASSUME RingCore, TypeOK', NEW p \in Pipes, NEW k \in 1..Len(inflight[p]),
           NEW status, NEW c, Finish(p, k, status, c),
           UNCHANGED <<handle, pstate, pipeVars, transferVars, call>>
    PROVE  RingCore'
<1>. USE DEF pipeVars, transferVars, kernelVars
<1>1. KernelHasPending'
    BY RingFinish
<1>2. RingIndices' /\ PendingInWindow' /\ PipeLife' /\ CallConsistent'
          /\ EndlessIsFull'
    BY DEF RingCore, RingIndices, PendingInWindow, PipeLife, CallConsistent,
           EndlessIsFull, Window, Slots, Distance, InCall
<1>. QED
    BY <1>1, <1>2 DEF RingCore

(* An iteration of the loop of cancel_transfers. *)
LEMMA RingDiscard ==
    ASSUME RingCore, TypeOK', NEW p \in Pipes, cancel_discard(p)
    PROVE  RingCore'
<1>. USE DEF pipeVars, transferVars, kernelVars
<1>1. /\ UNCHANGED <<handle, pstate, pipeVars, transferVars>>
      /\ call.op = "cancel" /\ call.pipe = p
      /\ call'.op = "cancel" /\ call'.pipe = p
    BY DEF cancel_discard, InCall
<1>2. KernelHasPending'
    <2>1. CASE UNCHANGED <<inflight, completed>>
        BY <1>1, <2>1 DEF RingCore, KernelHasPending
    <2>2. ASSUME NEW k \in Queued(p, call.i), NEW c,
                 Finish(p, k, "cancelled", c)
          PROVE  KernelHasPending'
        BY <1>1, <2>2, RingFinish DEF Queued
    <2>. QED
        BY <2>1, <2>2 DEF cancel_discard, usbfd_discard_urb
<1>3. RingIndices' /\ PendingInWindow' /\ PipeLife' /\ CallConsistent'
          /\ EndlessIsFull'
    BY <1>1 DEF RingCore, RingIndices, PendingInWindow, PipeLife, CallConsistent,
           EndlessIsFull, Window, Slots, Distance, InCall
<1>. QED
    BY <1>2, <1>3 DEF RingCore

(* Closing a pipe keeps the memory of the transfers that are flagged. *)
LEMMA RingClose ==
    ASSUME RingCore, TypeOK', NEW p \in Pipes, async_in_pipe_close(p)
    PROVE  RingCore'
<1>. USE DEF pipeVars, transferVars, kernelVars
<1>1. /\ UNCHANGED <<handle, pipeVars, pending, kernelVars, call>> /\ call = Idle
      /\ pstate'[p] = "closed"
      /\ allocated'[p] = {i \in allocated[p] : pending[p][i]}
      /\ \A q \in Pipes \ {p} :
             pstate'[q] = pstate[q] /\ allocated'[q] = allocated[q]
    BY DEF RingCore, TypeOK, async_in_pipe_close, async_in_transfer_array_free,
           async_in_transfer_free,
           CanCall
<1>2. RingIndices' /\ KernelHasPending' /\ EndlessIsFull'
    BY <1>1 DEF RingCore, RingIndices, KernelHasPending, EndlessIsFull, InCall
<1>3. PendingInWindow'
    BY <1>1 DEF RingCore, PendingInWindow, Window, Slots, Distance
<1>4. PipeLife'
    BY <1>1 DEF RingCore, PipeLife, Slots
<1>5. CallConsistent'
    BY <1>1 DEF RingCore, CallConsistent, Idle
<1>. QED
    BY <1>2, <1>3, <1>4, <1>5 DEF RingCore

(* Closing the handle empties the kernel's queues. *)
LEMMA RingHandleClose ==
    ASSUME RingCore, TypeOK', generic_handle_close
    PROVE  RingCore'
<1>. USE DEF pipeVars, transferVars, kernelVars
<1>1. /\ UNCHANGED <<pstate, pipeVars, transferVars, connected, call>>
      /\ call = Idle /\ \A p \in Pipes : pstate[p] # "open"
      /\ \A p \in Pipes : inflight'[p] = <<>>
      /\ completed' = <<>>
    BY DEF generic_handle_close
<1>2. RingIndices' /\ PipeLife' /\ EndlessIsFull'
    BY <1>1 DEF RingCore, RingIndices, PipeLife, EndlessIsFull, Slots, InCall
<1>3. PendingInWindow'
    BY <1>1 DEF RingCore, PendingInWindow, Window, Slots, Distance
<1>4. KernelHasPending'
    <2>1. 1..Len(completed') = {} /\ \A p \in Pipes : 1..Len(inflight'[p]) = {}
        BY <1>1
    <2>. QED
        BY <2>1 DEF KernelHasPending
<1>5. CallConsistent'
    BY <1>1 DEF RingCore, CallConsistent, Idle
<1>. QED
    BY <1>2, <1>3, <1>4, <1>5 DEF RingCore

(* Unplugging the device, and steps that change nothing. *)
LEMMA RingDisconnect ==
    ASSUME RingCore, TypeOK', Disconnect \/ UNCHANGED vars
    PROVE  RingCore'
<1>. USE DEF pipeVars, transferVars, kernelVars
<1>1. UNCHANGED <<handle, pstate, pipeVars, transferVars, inflight, completed,
                  call>>
    BY DEF Disconnect, vars
<1>3. RingIndices' /\ PipeLife' /\ CallConsistent' /\ EndlessIsFull'
          /\ KernelHasPending'
    BY <1>1 DEF RingCore, RingIndices, PipeLife, CallConsistent, EndlessIsFull,
           KernelHasPending, Slots, InCall
<1>4. PendingInWindow'
    BY <1>1 DEF RingCore, PendingInWindow, Window, Slots, Distance
<1>. QED
    BY <1>3, <1>4 DEF RingCore

(* Nothing is open and nothing is pending at first. *)
LEMMA RingInit == Init => RingCore
<1>. SUFFICES ASSUME Init PROVE RingCore
    OBVIOUS
<1>1. TypeOK
    BY InitType
<1>2. RingIndices /\ PendingInWindow
    BY DEF Init, RingIndices, PendingInWindow
<1>3. KernelHasPending
    <2>1. 1..Len(completed) = {} /\ \A p \in Pipes : 1..Len(inflight[p]) = {}
        BY DEF Init
    <2>. QED
        BY <2>1 DEF KernelHasPending
<1>4. PipeLife /\ CallConsistent /\ EndlessIsFull
    BY DEF Init, PipeLife, CallConsistent, EndlessIsFull, Idle
<1>. QED
    BY <1>1, <1>2, <1>3, <1>4 DEF RingCore

(* Every step keeps the part of the ring invariant that all platforms share. *)
LEMMA RingStep == RingCore /\ [Next]_vars => RingCore'
<1>. SUFFICES ASSUME RingCore, [Next]_vars PROVE RingCore'
    OBVIOUS
<1>1. TypeOK'
    BY TypeStep DEF RingCore
<1>2. ASSUME NEW p \in Pipes,
             start_return(p) \/ events_return(p) \/ cancel_return(p)
      PROVE  RingCore'
    BY <1>1, <1>2, RingLeave
    DEF start_return, events_return, cancel_return, InCall
<1>3. ASSUME NEW p \in Pipes, events_reap(p) PROVE RingCore'
    BY <1>1, <1>3, RingReap DEF events_reap, CanReap
<1>4. ASSUME NEW p \in Pipes, UrbCompletes(p) \/ UrbKilled(p) PROVE RingCore'
    <2>1. 1 \in 1..Len(inflight[p])
        BY <1>4 DEF RingCore, TypeOK, UrbCompletes, UrbKilled
    <2>2. PICK status, c : Finish(p, 1, status, c)
        BY <1>4 DEF UrbCompletes, UrbKilled
    <2>3. UNCHANGED <<handle, pstate, pipeVars, transferVars, call>>
        BY <1>4 DEF UrbCompletes, UrbKilled
    <2>. QED
        BY <1>1, <2>1, <2>2, <2>3, RingUrbEnds
<1>5. CASE UNCHANGED vars
    BY <1>1, <1>5, RingDisconnect
<1>6. CASE Next
    BY <1>1, <1>2, <1>3, <1>4, <1>6, RingCreate, RingAllocate, RingEnter,
       RingStartSubmit, RingHandOver, RingDiscard, RingClose, RingHandleClose,
       RingDisconnect
    DEF Next, Continue, Terminated
<1>. QED
    BY <1>5, <1>6

(***************************************************************************)
(* A step that queues nothing on a pipe that is cancelled, and leaves the  *)
(* call, the flags and the device as they were, keeps the progress of the  *)
(* cancellation.                                                           *)
(***************************************************************************)
LEMMA CancelFrame ==
    ASSUME CancelProgress, call' = call, connected' => connected,
           \A q \in Pipes : pstate'[q] = "open" /\ ~endless_transfers_enabled'[q] =>
               /\ pstate[q] = "open" /\ ~endless_transfers_enabled[q]
               /\ \A l \in 1..Len(inflight'[q]) :
                      \E m \in 1..Len(inflight[q]) :
                          inflight'[q][l] = inflight[q][m]
    PROVE  CancelProgress'
<1>. SUFFICES ASSUME NEW q \in Pipes, pstate'[q] = "open",
                     ~endless_transfers_enabled'[q], connected',
                     NEW l \in 1..Len(inflight'[q])
              PROVE  InCall("cancel", q)' /\ inflight'[q][l] >= call'.i
    BY DEF CancelProgress
<1>1. PICK m \in 1..Len(inflight[q]) : inflight'[q][l] = inflight[q][m]
    OBVIOUS
<1>. QED
    BY <1>1 DEF CancelProgress, InCall

(***************************************************************************)
(* Entering and leaving a call.  A cancellation begins with the first      *)
(* transfer, and returns with nothing queued or because the device is gone.*)
(***************************************************************************)
LEMMA CancelEnter ==
    ASSUME RingCore, CancelProgress, NEW p \in Pipes,
           \/ start_endless_transfers(p)
           \/ handle_events(p)
           \/ cancel_transfers(p)
    PROVE  CancelProgress'
<1>. USE DEF transferVars, kernelVars
<1>1. /\ CanCall(p) /\ UNCHANGED <<pstate, connected, inflight>>
      /\ \A q \in Pipes \ {p} :
             endless_transfers_enabled'[q] = endless_transfers_enabled[q]
    BY DEF RingCore, TypeOK, start_endless_transfers, handle_events,
           cancel_transfers, pipeVars
<1>2. \A q \in Pipes : ~InCall("cancel", q)
    BY <1>1 DEF CanCall, InCall, Idle
<1>3. ASSUME NEW q \in Pipes, pstate[q] = "open", connected,
             ~endless_transfers_enabled'[q], NEW k \in 1..Len(inflight[q])
      PROVE  InCall("cancel", q)' /\ inflight[q][k] >= call'.i
    <2>1. endless_transfers_enabled[q]
        BY <1>2, <1>3 DEF CancelProgress
    <2>2. q = p /\ cancel_transfers(p)
        BY <1>1, <1>3, <2>1
        DEF RingCore, TypeOK, start_endless_transfers, handle_events, pipeVars
    <2>3. InCall("cancel", q)' /\ call'.i = 0
        BY <2>2 DEF cancel_transfers, InCall
    <2>. QED
        BY <2>3, QueuedInWindow DEF Index
<1>. QED
    BY <1>1, <1>3 DEF CancelProgress

LEMMA CancelLeave ==
    ASSUME RingCore, CancelProgress, NEW p \in Pipes,
           start_return(p) \/ events_return(p) \/ cancel_return(p)
    PROVE  CancelProgress'
<1>1. call.pipe = p /\ UNCHANGED <<pstate, pipeVars, connected, inflight>>
    BY DEF start_return, events_return, cancel_return, InCall, kernelVars
<1>2. ASSUME NEW q \in Pipes, pstate[q] = "open", connected,
             ~endless_transfers_enabled[q], NEW k \in 1..Len(inflight[q])
      PROVE  FALSE
    <2>1. InCall("cancel", q) /\ inflight[q][k] >= call.i
        BY <1>2 DEF CancelProgress
    <2>2. q = p /\ call.i >= transfer_count[p]
        BY <1>1, <1>2, <2>1
        DEF InCall, start_return, events_return, cancel_return
    <2>3. inflight[q][k] < transfer_count[p] /\ inflight[q][k] \in Nat
        BY <2>2, QueuedInWindow DEF Index
    <2>4. call.i \in Nat /\ transfer_count[p] \in Nat
        BY MaxCountAssumption DEF RingCore, TypeOK, Calls
    <2>. QED
        BY <2>1, <2>2, <2>3, <2>4
<1>. QED
    BY <1>1, <1>2 DEF CancelProgress, pipeVars

(***************************************************************************)
(* An iteration of the loop of cancel_transfers: the transfer it discards  *)
(* is not queued afterwards, and those before it were discarded before.    *)
(***************************************************************************)
LEMMA CancelDiscard ==
    ASSUME RingCore, CancelProgress, NEW p \in Pipes, cancel_discard(p)
    PROVE  CancelProgress'
<1>1. /\ UNCHANGED <<pstate, pipeVars, pending, connected>>
      /\ call.op = "cancel" /\ call.pipe = p
      /\ call'.op = "cancel" /\ call'.pipe = p /\ call'.i = call.i + 1
    BY DEF cancel_discard, InCall, transferVars
<1>2. ASSUME NEW q \in Pipes, NEW l \in 1..Len(inflight'[q])
      PROVE  \E m \in 1..Len(inflight[q]) :
                 /\ inflight'[q][l] = inflight[q][m]
                 /\ q = p => inflight[q][m] # call.i
    <2>1. CASE UNCHANGED <<inflight, completed>> /\ Queued(p, call.i) = {}
        BY <1>2, <2>1 DEF Queued
    <2>2. ASSUME NEW k \in Queued(p, call.i), NEW c,
                 Finish(p, k, "cancelled", c)
          PROVE  \E m \in 1..Len(inflight[q]) :
                     /\ inflight'[q][l] = inflight[q][m]
                     /\ q = p => inflight[q][m] # call.i
        <3>1. k \in 1..Len(inflight[p]) /\ inflight[p][k] = call.i
            BY <2>2 DEF Queued
        <3>2. PICK m \in 1..Len(inflight[q]) :
                  inflight'[q][l] = inflight[q][m] /\ (q = p => m # k)
            BY <1>1, <1>2, <2>2, <3>1, RingFinish
        <3>3. \A n \in 1..Len(inflight[p]) : n # k => inflight[p][n] # call.i
            BY <3>1 DEF RingCore, KernelHasPending
        <3>. QED
            BY <3>2, <3>3
    <2>. QED
        BY <2>1, <2>2 DEF cancel_discard, usbfd_discard_urb
<1>3. ASSUME NEW q \in Pipes, pstate[q] = "open", connected,
             ~endless_transfers_enabled[q], NEW l \in 1..Len(inflight'[q])
      PROVE  InCall("cancel", q)' /\ inflight'[q][l] >= call'.i
    <2>1. PICK m \in 1..Len(inflight[q]) :
              /\ inflight'[q][l] = inflight[q][m]
              /\ q = p => inflight[q][m] # call.i
        BY <1>2, <1>3
    <2>2. InCall("cancel", q) /\ inflight[q][m] >= call.i
        BY <1>3 DEF CancelProgress
    <2>3. q = p
        BY <1>1, <2>2 DEF InCall
    <2>4. inflight[q][m] \in Nat /\ call.i \in Nat
        <3>1. inflight[q][m] \in Index
            BY QueuedInWindow
        <3>. QED
            BY <3>1, MaxCountAssumption DEF RingCore, TypeOK, Calls, Index
    <2>. QED
        BY <1>1, <2>1, <2>2, <2>3, <2>4 DEF InCall
<1>. QED
    BY <1>1, <1>3 DEF CancelProgress, pipeVars

(* Submission happens on endless pipes only. *)
LEMMA CancelSubmit ==
    ASSUME RingCore, CancelProgress, NEW p \in Pipes,
           start_submit(p) \/ handle_finished_transfer(p)
    PROVE  CancelProgress'
<1>1. /\ UNCHANGED <<pstate, endless_transfers_enabled, connected, call>>
      /\ start_submit(p) => endless_transfers_enabled[p]
    BY DEF start_submit, handle_finished_transfer, RingCore, CallConsistent,
           InCall
<1>2. ASSUME NEW q \in Pipes, ~endless_transfers_enabled[q]
      PROVE  inflight'[q] = inflight[q]
    <2>1. CASE submit_next_transfer(p) /\ q # p
        BY <2>1 DEF submit_next_transfer, async_in_transfer_submit, RingCore,
               TypeOK
    <2>2. CASE UNCHANGED inflight
        BY <2>2
    <2>3. CASE submit_next_transfer(p) /\ q = p
        BY <1>1, <1>2, <2>3 DEF handle_finished_transfer
    <2>. QED
        BY <2>1, <2>2, <2>3 DEF start_submit, handle_finished_transfer
<1>. QED
    BY <1>1, <1>2, CancelFrame

(* Every step keeps the progress of a cancellation. *)
LEMMA CancelStep ==
    RingCore /\ CancelProgress /\ [Next]_vars => CancelProgress'
<1>. SUFFICES ASSUME RingCore, CancelProgress, [Next]_vars
              PROVE  CancelProgress'
    OBVIOUS
<1>. USE DEF pipeVars, transferVars, kernelVars
<1>1. ASSUME NEW p \in Pipes, async_in_pipe_create(p) PROVE CancelProgress'
    <2>1. /\ UNCHANGED <<inflight, endless_transfers_enabled, connected, call>>
          /\ \A q \in Pipes \ {p} : pstate'[q] = pstate[q]
        BY <1>1 DEF async_in_pipe_create, RingCore, TypeOK
    <2>2. 1..Len(inflight[p]) = {}
        BY <1>1, EmptyRing DEF async_in_pipe_create, RingCore, PipeLife
    <2>. QED
        BY <2>1, <2>2 DEF CancelProgress, InCall
<1>2. ASSUME NEW p \in Pipes, async_in_pipe_close(p) PROVE CancelProgress'
    <2>1. \A q \in Pipes : pstate'[q] = "open" => pstate[q] = "open"
        BY <1>2 DEF async_in_pipe_close, RingCore, TypeOK
    <2>. QED
        BY <1>2, <2>1, CancelFrame DEF async_in_pipe_close
<1>3. ASSUME NEW p \in Pipes, UrbCompletes(p) \/ UrbKilled(p)
      PROVE  CancelProgress'
    <2>1. 1 \in 1..Len(inflight[p])
        BY <1>3 DEF RingCore, TypeOK, UrbCompletes, UrbKilled
    <2>2. PICK status, c : Finish(p, 1, status, c)
        BY <1>3 DEF UrbCompletes, UrbKilled
    <2>3. /\ UNCHANGED <<pstate, endless_transfers_enabled, connected, call>>
          /\ pending' = pending
        BY <1>3 DEF UrbCompletes, UrbKilled
    <2>4. \A q \in Pipes : \A l \in 1..Len(inflight'[q]) :
              \E m \in 1..Len(inflight[q]) : inflight'[q][l] = inflight[q][m]
        <3>. HIDE DEF pipeVars, transferVars, kernelVars
        <3>1. \A q \in Pipes : \A l \in 1..Len(inflight'[q]) :
                  \E m \in 1..Len(inflight[q]) :
                      inflight'[q][l] = inflight[q][m] /\ (q = p => m # 1)
            BY <2>1, <2>2, <2>3, RingFinish
        <3>. QED
            BY <3>1
    <2>. QED
        BY <2>3, <2>4, CancelFrame
<1>4. CASE generic_handle_close
    <2>1. \A q \in Pipes : 1..Len(inflight'[q]) = {}
        BY <1>4 DEF generic_handle_close
    <2>. QED
        BY <2>1 DEF CancelProgress
<1>5. ASSUME NEW p \in Pipes,
             (\E count \in 1..MaxCount : allocate_transfers(p, count)) \/ events_reap(p)
      PROVE  CancelProgress'
    BY <1>5, CancelFrame DEF allocate_transfers, events_reap
<1>6. CASE Disconnect
    BY <1>6, CancelFrame DEF Disconnect
<1>7. CASE UNCHANGED vars
    BY <1>7, CancelFrame DEF vars
<1>. QED
    BY <1>1, <1>2, <1>3, <1>4, <1>5, <1>6, <1>7, CancelEnter, CancelLeave,
       CancelDiscard, CancelSubmit DEF Next, Continue, Terminated

(***************************************************************************)
(* The ring invariant of the pipes holds in every reachable state.         *)
(***************************************************************************)
THEOREM RingCorrect == Spec => []RingInv
<1>1. Init => RingInv
    <2>1. Init => CancelProgress
        BY DEF Init, CancelProgress
    <2>. QED
        BY <2>1, RingInit DEF RingInv
<1>2. RingInv /\ [Next]_vars => RingInv'
    BY RingStep, CancelStep DEF RingInv
<1>. QED
    BY <1>1, <1>2, PTL DEF Spec

(* Its part that all platforms share. *)
LEMMA CoreCorrect == Spec => []RingCore
<1>1. RingInv => RingCore
    BY DEF RingInv
<1>. QED
    BY <1>1, RingCorrect, PTL

-----------------------------------------------------------------------------
(***************************************************************************)
(* What the ring invariant says of every platform.                         *)
(***************************************************************************)
LEMMA CoreAsserts == RingCore => SubmitAssertions
<1>. SUFFICES ASSUME RingCore, NEW p \in Pipes, transfer_count[p] # 0
              PROVE  /\ pending_count[p] <= transfer_count[p]
                     /\ pending_count[p] < transfer_count[p] =>
                            /\ ~pending[p][next_submit[p]]
                            /\ ~InKernel(p, next_submit[p])
                     /\ pending_count[p] = transfer_count[p] =>
                            next_submit[p] = next_finish[p]
    BY DEF SubmitAssertions
<1>1. \A i \in Index : InKernel(p, i) => pending[p][i]
    BY DEF InKernel, Queued, Reapable, RingCore, KernelHasPending
<1>. QED
    BY <1>1, NextSubmitSlot, RingNumbers

LEMMA CoreMemory == RingCore => KernelMemorySafe
<1>. SUFFICES ASSUME RingCore, NEW p \in Pipes, NEW i \in Index, InKernel(p, i)
              PROVE  i \in allocated[p]
    BY DEF KernelMemorySafe
<1>1. pending[p][i]
    BY DEF InKernel, Queued, Reapable, RingCore, KernelHasPending
<1>. QED
    BY <1>1 DEF RingCore, PendingInWindow

LEMMA CoreEndless == RingCore => EndlessKeepsAllPending
BY DEF EndlessKeepsAllPending, RingCore, EndlessIsFull, InCall, Idle

LEMMA CoreClose ==
    ASSUME RingCore, NEW p \in Pipes, async_in_pipe_close(p), pending_count[p] = 0
    PROVE  allocated'[p] = {}
<1>1. \A i \in Index : ~pending[p][i]
    <2>1. Window(p) = {}
        BY RingNumbers, MaxCountAssumption
        DEF Window, Slots, Distance, RingCore, RingIndices
    <2>. QED
        BY <2>1 DEF RingCore, PendingInWindow
<1>2. allocated[p] \subseteq Index
    BY DEF RingCore, TypeOK
<1>. QED
    BY <1>1, <1>2
    DEF async_in_pipe_close, async_in_transfer_array_free,
        async_in_transfer_free, RingCore, TypeOK

(***************************************************************************)
(* The assertions in async_in_pipe_submit_next_transfer and                *)
(* async_in_transfer_submit never fail, and a URB is never submitted while *)
(* the kernel has it.                                                      *)
(***************************************************************************)
THEOREM SubmitAssertionsHold == Spec => []SubmitAssertions
BY CoreAsserts, CoreCorrect, PTL

(***************************************************************************)
(* Memory that the kernel may write to is never freed, whenever pipes are  *)
(* closed and whichever pipe's handle_events reaps.                        *)
(***************************************************************************)
THEOREM KernelMemoryIsSafe == Spec => []KernelMemorySafe
BY CoreMemory, CoreCorrect, PTL

(***************************************************************************)
(* Between calls, an endless pipe has all its transfers pending.           *)
(***************************************************************************)
THEOREM EndlessStaysFull == Spec => []EndlessKeepsAllPending
BY CoreEndless, CoreCorrect, PTL

(***************************************************************************)
(* After a cancellation the kernel works on none of the pipe's URBs.       *)
(***************************************************************************)
THEOREM CancelIsQuiet == Spec => []CancelQuiesces
<1>1. RingInv => CancelQuiesces
    <2>. SUFFICES ASSUME RingInv, NEW p \in Pipes, pstate[p] = "open",
                         ~endless_transfers_enabled[p], connected,
                         ~InCall("cancel", p)
                  PROVE  inflight[p] = <<>>
        BY DEF CancelQuiesces
    <2>1. inflight[p] \in Seq(Index) /\ Len(inflight[p]) \in Nat
        BY DEF RingInv, RingCore, TypeOK
    <2>2. ~(1 \in 1..Len(inflight[p]))
        BY DEF RingInv, CancelProgress
    <2>3. Len(inflight[p]) = 0
        BY <2>1, <2>2
    <2>. QED
        BY <2>1, <2>3
<1>. QED
    BY <1>1, RingCorrect, PTL

(***************************************************************************)
(* Closing a pipe for which has_pending_transfers reports nothing pending  *)
(* leaks no memory.                                                        *)
(***************************************************************************)
THEOREM CloseLeaksNothingElse == Spec => CloseWithoutPendingFreesAll
<1>1. RingCore /\ [Next]_vars =>
          [\A p \in Pipes :
              pstate[p] = "open" /\ pstate'[p] = "closed"
                      /\ ~has_pending_transfers(p)
                  => allocated'[p] = {}]_vars
    <2>. SUFFICES ASSUME RingCore, Next, NEW p \in Pipes, pstate[p] = "open",
                         pstate'[p] = "closed", pending_count[p] = 0
                  PROVE  allocated'[p] = {}
        BY DEF has_pending_transfers
    <2>1. async_in_pipe_close(p)
        BY DEF Next, Continue, Terminated, vars, pipeVars, transferVars,
               kernelVars, RingCore, TypeOK, async_in_pipe_create, allocate_transfers,
               start_endless_transfers, handle_events, handle_finished_transfer,
               cancel_transfers, async_in_pipe_close, start_submit, start_return,
               events_reap, events_return, cancel_discard, cancel_return,
               UrbCompletes, UrbKilled, generic_handle_close, Disconnect
    <2>. QED
        BY <2>1, CoreClose
<1>. QED
    BY <1>1, CoreCorrect, PTL DEF Spec, CloseWithoutPendingFreesAll

-----------------------------------------------------------------------------
(***************************************************************************)
(* The data.  A chunk is held by a transfer of the window, and two slots   *)
(* of the array never have the same distance from next_finish.             *)
(***************************************************************************)
LEMMA HolderInWindow ==
    ASSUME RingCore, NEW p \in Pipes, NEW i \in Index, NEW c, Holds(p, i, c)
    PROVE  i \in Window(p) /\ i \in Slots(p)
<1>1. i \in Window(p)
    BY DEF Holds, RingCore, KernelHasPending, PendingInWindow
<1>. QED
    BY <1>1 DEF Window

(* Distances of slots are ring positions, and different for different slots. *)
LEMMA DistanceFacts ==
    ASSUME RingCore, NEW p \in Pipes, transfer_count[p] # 0
    PROVE  /\ \A i \in Slots(p) : Distance(p, i) \in 0..transfer_count[p] - 1
           /\ \A i, j \in Slots(p) : Distance(p, i) = Distance(p, j) => i = j
<1>1. next_finish[p] < transfer_count[p]
    BY DEF RingCore, RingIndices
<1>. QED
    BY <1>1, RingNumbers DEF Distance, Slots

(***************************************************************************)
(* A step that does not touch the queues, the data or the ring of any pipe *)
(* that is open keeps the data part of the invariant.                      *)
(***************************************************************************)
LEMMA StreamFrame ==
    ASSUME StreamInv,
           \A p \in Pipes : pstate'[p] = "none" =>
               /\ pstate[p] = "none"
               /\ produced'[p] = produced[p] /\ received'[p] = received[p],
           \A p \in Pipes : pstate'[p] = "open" =>
               /\ pstate[p] = "open"
               /\ inflight'[p] = inflight[p]
               /\ produced'[p] = produced[p] /\ received'[p] = received[p]
               /\ \A i \in Index : Distance(p, i)' = Distance(p, i)
               /\ \A i \in Index, c \in Chunks :
                      Holds(p, i, c)' <=> Holds(p, i, c),
           TypeOK
    PROVE  StreamInv'
<1>1. UnopenedIsSilent'
    BY DEF StreamInv, UnopenedIsSilent
<1>2. QueueInRingOrder'
    <2>. SUFFICES ASSUME NEW p \in Pipes, pstate'[p] = "open",
                         NEW k \in 1..Len(inflight[p]),
                         NEW l \in 1..Len(inflight[p]), k < l
                  PROVE  Distance(p, inflight[p][k])'
                             < Distance(p, inflight[p][l])'
        BY DEF QueueInRingOrder, Distance
    <2>1. inflight[p][k] \in Index /\ inflight[p][l] \in Index
        BY KernelElements
    <2>. QED
        BY <2>1 DEF StreamInv, QueueInRingOrder, Distance
<1>3. ChunksInRingOrder'
    <2>. SUFFICES ASSUME NEW p \in Pipes, pstate'[p] = "open",
                         NEW i \in Index, NEW c \in Chunks, Holds(p, i, c)'
                  PROVE  /\ received'[p] < c /\ c <= produced'[p]
                         /\ \A j \in Index, d \in Chunks :
                                /\ Holds(p, j, d)'
                                /\ Distance(p, i)' < Distance(p, j)'
                                => c < d
                         /\ \A k \in 1..Len(inflight'[p]) :
                                Distance(p, i)' < Distance(p, inflight[p][k])'
        BY DEF ChunksInRingOrder, Distance
    <2>1. Holds(p, i, c) /\ pstate[p] = "open"
        OBVIOUS
    <2>2. \A k \in 1..Len(inflight[p]) : inflight[p][k] \in Index
        BY KernelElements
    <2>3. \A k \in 1..Len(inflight'[p]) :
              Distance(p, i)' < Distance(p, inflight[p][k])'
        BY <2>1, <2>2 DEF StreamInv, ChunksInRingOrder, Distance
    <2>. QED
        BY <2>1, <2>3 DEF StreamInv, ChunksInRingOrder
<1>4. AllChunksHeld'
    BY DEF StreamInv, AllChunksHeld
<1>. QED
    BY <1>1, <1>2, <1>3, <1>4 DEF StreamInv

(* Opening a pipe: its ring is empty, and nothing was sent to it. *)
LEMMA StreamCreate ==
    ASSUME RingCore, StreamInv, NEW p \in Pipes, async_in_pipe_create(p)
    PROVE  StreamInv'
<1>. USE DEF pipeVars, transferVars, kernelVars
<1>1. /\ UNCHANGED <<pipeVars, transferVars, kernelVars, received>>
      /\ pstate[p] = "none" /\ pstate'[p] = "open"
      /\ \A q \in Pipes \ {p} : pstate'[q] = pstate[q]
    BY DEF async_in_pipe_create, RingCore, TypeOK
<1>2. transfer_count[p] = 0
    BY <1>1 DEF RingCore, PipeLife
<1>3. 1..Len(inflight[p]) = {} /\ Slots(p) = {}
    BY <1>2, EmptyRing DEF Slots
<1>4. \A i \in Index, c \in Chunks : ~Holds(p, i, c)
    BY <1>3, HolderInWindow
<1>5. \A q \in Pipes, i \in Index, c \in Chunks :
          /\ Holds(q, i, c)' <=> Holds(q, i, c)
          /\ Distance(q, i)' = Distance(q, i)
    BY <1>1 DEF Holds, Window, Slots, Distance
<1>6. produced[p] = 0 /\ received[p] = 0
    BY <1>1 DEF StreamInv, UnopenedIsSilent
<1>7. UnopenedIsSilent'
    BY <1>1 DEF StreamInv, UnopenedIsSilent
<1>8. QueueInRingOrder'
    BY <1>1, <1>3 DEF StreamInv, QueueInRingOrder, Distance
<1>9. ChunksInRingOrder'
    BY <1>1, <1>4, <1>5 DEF StreamInv, ChunksInRingOrder, Distance
<1>10. AllChunksHeld'
    <2>1. \A c \in Chunks : ~(c <= 0)
        BY DEF Chunks
    <2>. QED
        BY <1>1, <1>5, <1>6, <2>1 DEF StreamInv, AllChunksHeld
<1>. QED
    BY <1>7, <1>8, <1>9, <1>10 DEF StreamInv

(* Allocating the transfers: the window is empty before and after. *)
LEMMA StreamAllocate ==
    ASSUME RingCore, RingCore', StreamInv, NEW p \in Pipes,
           NEW count \in 1..MaxCount, allocate_transfers(p, count)
    PROVE  StreamInv'
<1>. USE DEF pipeVars, transferVars, kernelVars
<1>1. /\ UNCHANGED <<pstate, pending_count, next_finish, pending, error, data,
                     kernelVars, received>>
      /\ transfer_count[p] = 0 /\ pstate[p] = "open"
      /\ \A q \in Pipes \ {p} : transfer_count'[q] = transfer_count[q]
    BY DEF allocate_transfers, RingCore, TypeOK, CanCall
<1>2. /\ 1..Len(inflight[p]) = {} /\ Slots(p) = {} /\ pending_count[p] = 0
      /\ \A i \in Index : ~pending[p][i]
    BY <1>1, EmptyRing DEF Slots
<1>3. \A i \in Index, c \in Chunks : ~Holds(p, i, c)
    BY <1>2, HolderInWindow
<1>4. \A i \in Index, c \in Chunks : ~Holds(p, i, c)'
    <2>1. \A i \in Index : i \notin Window(p)'
        <3>1. \A i \in Index : i \in Slots(p)' => Distance(p, i)' \in Nat
            <4>1. next_finish'[p] = 0
                BY <1>1 DEF RingCore, RingIndices
            <4>. QED
                BY <4>1 DEF Distance, Index
        <3>. QED
            BY <1>1, <1>2, <3>1 DEF Window
    <2>2. \A k \in 1..Len(completed) :
              completed[k].pipe # p
        BY <1>2, KernelElements DEF RingCore, KernelHasPending
    <2>. QED
        BY <1>1, <2>1, <2>2 DEF Holds
<1>5. \A q \in Pipes \ {p}, i \in Index, c \in Chunks :
          /\ Holds(q, i, c)' <=> Holds(q, i, c)
          /\ Distance(q, i)' = Distance(q, i)
    BY <1>1 DEF Holds, Window, Slots, Distance
<1>6. UnopenedIsSilent'
    BY <1>1 DEF StreamInv, UnopenedIsSilent
<1>7. QueueInRingOrder'
    BY <1>1, <1>2 DEF StreamInv, QueueInRingOrder, Distance
<1>8. ChunksInRingOrder'
    BY <1>1, <1>4, <1>5 DEF StreamInv, ChunksInRingOrder, Distance
<1>9. AllChunksHeld'
    BY <1>1, <1>3, <1>5 DEF StreamInv, AllChunksHeld
<1>. QED
    BY <1>6, <1>7, <1>8, <1>9 DEF StreamInv

(* Entering and leaving calls, closing, unplugging: the data stays. *)
LEMMA StreamQuiet ==
    ASSUME RingCore, StreamInv,
           \/ \E p \in Pipes :
                \/ start_endless_transfers(p) \/ handle_events(p)
                \/ cancel_transfers(p)
                \/ start_return(p) \/ events_return(p) \/ cancel_return(p)
                \/ async_in_pipe_close(p)
           \/ generic_handle_close
           \/ Disconnect
           \/ UNCHANGED vars
    PROVE  StreamInv'
<1>. USE DEF pipeVars, transferVars, kernelVars
<1>1. CASE generic_handle_close
    <2>1. /\ UNCHANGED <<pstate, produced, received>>
          /\ \A p \in Pipes : pstate[p] # "open"
        BY <1>1 DEF generic_handle_close
    <2>. QED
        BY <2>1 DEF StreamInv, UnopenedIsSilent, QueueInRingOrder,
               ChunksInRingOrder, AllChunksHeld
<1>2. CASE ~generic_handle_close
    <2>1. /\ UNCHANGED <<transfer_count, pending_count, next_finish, pending,
                         error, data, inflight, completed, produced, received>>
        BY <1>2 DEF start_endless_transfers, handle_events, cancel_transfers,
               start_return, events_return, cancel_return, async_in_pipe_close,
               Disconnect, vars
    <2>2. \A p \in Pipes : /\ pstate'[p] = "open" => pstate[p] = "open"
                           /\ pstate'[p] = "none" => pstate[p] = "none"
        BY <1>2 DEF start_endless_transfers, handle_events, cancel_transfers,
               start_return, events_return, cancel_return, async_in_pipe_close,
               Disconnect, vars, RingCore, TypeOK
    <2>3. \A q \in Pipes, i \in Index, c \in Chunks :
              /\ Holds(q, i, c)' <=> Holds(q, i, c)
              /\ Distance(q, i)' = Distance(q, i)
        BY <2>1 DEF Holds, Window, Slots, Distance
    <2>4. \A q \in Pipes, i \in Index : Distance(q, i)' = Distance(q, i)
        BY <2>1 DEF Distance
    <2>5. TypeOK
        BY DEF RingCore
    <2>. QED
        BY <2>1, <2>2, <2>3, <2>4, <2>5, StreamFrame
<1>. QED
    BY <1>1, <1>2

(***************************************************************************)
(* What submitting at slot s does to the endpoint's queue: s is appended,  *)
(* or nothing changes; either way s holds no chunk.                        *)
(***************************************************************************)
LEMMA SubmitEffect ==
    ASSUME RingCore, NEW p \in Pipes, ~pending[p][next_submit[p]],
           submit_next_transfer(p), UNCHANGED <<completed, data>>
    PROVE  /\ pending'[p][next_submit[p]] \/ error'[p][next_submit[p]] = "submit"
           /\ \/ inflight'[p] = inflight[p]
              \/ /\ Len(inflight'[p]) = Len(inflight[p]) + 1
                 /\ inflight'[p][Len(inflight[p]) + 1] = next_submit[p]
                 /\ \A k \in 1..Len(inflight[p]) :
                        inflight'[p][k] = inflight[p][k]
           /\ \A q \in Pipes, i \in Index : q # p \/ i # next_submit[p] =>
                  /\ pending'[q][i] = pending[q][i]
                  /\ error'[q][i] = error[q][i]
           /\ \A q \in Pipes \ {p} : inflight'[q] = inflight[q]
           /\ \A k \in 1..Len(completed) :
                  ~(completed[k].pipe = p /\ completed[k].i = next_submit[p])
<1>. DEFINE s == next_submit[p]
<1>1. /\ s \in Index
      /\ pending \in [Pipes -> [Index -> BOOLEAN]]
      /\ error \in [Pipes -> [Index -> Errors]]
      /\ inflight \in [Pipes -> Seq(Index)]
    BY RingNumbers DEF RingCore, TypeOK
<1>2. \A k \in 1..Len(completed) :
          ~(completed[k].pipe = p /\ completed[k].i = s)
    BY DEF RingCore, KernelHasPending
<1>3. \A q \in Pipes \ {p} : inflight'[q] = inflight[q]
    BY <1>1 DEF submit_next_transfer, async_in_transfer_submit
<1>4. \A q \in Pipes, i \in Index : q # p \/ i # s =>
          pending'[q][i] = pending[q][i] /\ error'[q][i] = error[q][i]
    <2>1. \E b \in BOOLEAN, e \in Errors :
              /\ pending' = [pending EXCEPT ![p][s] = b]
              /\ error' = [error EXCEPT ![p][s] = e]
        BY DEF submit_next_transfer, async_in_transfer_submit, Errors
    <2>. QED
        BY <1>1, <2>1
<1>5. CASE /\ inflight' = [inflight EXCEPT ![p] = Append(@, s)]
           /\ pending' = [pending EXCEPT ![p][s] = TRUE]
    <2>1. inflight'[p] = Append(inflight[p], s) /\ pending'[p][s]
        BY <1>1, <1>5
    <2>2. inflight[p] \in Seq(Index)
        BY <1>1
    <2>3. /\ Len(inflight'[p]) = Len(inflight[p]) + 1
          /\ inflight'[p][Len(inflight[p]) + 1] = s
          /\ \A k \in 1..Len(inflight[p]) : inflight'[p][k] = inflight[p][k]
        BY <1>1, <2>1, <2>2
    <2>. QED
        BY <1>2, <1>3, <1>4, <2>1, <2>3
<1>6. CASE /\ inflight' = inflight
           /\ error' = [error EXCEPT ![p][s] = "submit"]
    <2>1. error'[p][s] = "submit"
        BY <1>1, <1>6
    <2>. QED
        BY <1>2, <1>4, <1>6, <2>1
<1>. QED
    BY <1>5, <1>6 DEF submit_next_transfer, async_in_transfer_submit

(***************************************************************************)
(* A slot gets to the end of the ring: start_endless_transfers submits it, *)
(* or it is handed over and submitted again.  If it held a chunk, that     *)
(* chunk is handed over; it is queued last or not at all; and if it holds  *)
(* a chunk afterwards, because the read completed at once, no other        *)
(* transfer is queued.  The order of all other slots stays the same.       *)
(***************************************************************************)
LEMMA StreamAppend ==
    ASSUME RingCore, TypeOK', StreamInv, NEW p \in Pipes, NEW s \in Index,
           pstate' = pstate, pstate[p] = "open",
           \A k \in 1..Len(inflight[p]) : inflight[p][k] # s,
           \A i, j \in Window(p) \ {s} :
               Distance(p, i)' < Distance(p, j)' <=> Distance(p, i) < Distance(p, j),
           \A i \in Window(p) \ {s} : Distance(p, i)' < Distance(p, s)',
           \A i \in Index, c \in Chunks : i # s =>
               (Holds(p, i, c)' <=> Holds(p, i, c)),
           \/ inflight'[p] = inflight[p]
           \/ /\ Len(inflight'[p]) = Len(inflight[p]) + 1
              /\ inflight'[p][Len(inflight[p]) + 1] = s
              /\ \A k \in 1..Len(inflight[p]) : inflight'[p][k] = inflight[p][k],
           \/ /\ received'[p] = received[p]
              /\ \A c \in Chunks : ~Holds(p, s, c)
           \/ /\ received'[p] = received[p] + 1 /\ received'[p] \in Chunks
              /\ \A c \in Chunks : Holds(p, s, c) <=> c = received'[p],
           \/ /\ produced'[p] = produced[p]
              /\ \A c \in Chunks : ~Holds(p, s, c)'
           \/ /\ produced'[p] = produced[p] + 1
              /\ Len(inflight[p]) = 0 /\ Len(inflight'[p]) = 0
              /\ \A c \in Chunks : Holds(p, s, c)' <=> c = produced'[p],
           \A q \in Pipes \ {p} :
               /\ inflight'[q] = inflight[q]
               /\ produced'[q] = produced[q] /\ received'[q] = received[q]
               /\ \A i \in Index : Distance(q, i)' = Distance(q, i)
               /\ \A i \in Index, c \in Chunks : Holds(q, i, c)' <=> Holds(q, i, c)
    PROVE  StreamInv'
<1>. DEFINE n == Len(inflight[p])
<1>. DEFINE D(q, i) == IF i >= next_finish'[q] THEN i - next_finish'[q]
                       ELSE i + transfer_count'[q] - next_finish'[q]
<1>0. \A q \in Pipes, i \in Index : Distance(q, i)' = D(q, i)
    BY DEF Distance
<1>1. /\ \A q \in Pipes \ {p}, i \in Index : D(q, i) = Distance(q, i)
      /\ \A i, j \in Window(p) \ {s} :
             D(p, i) < D(p, j) <=> Distance(p, i) < Distance(p, j)
      /\ \A i \in Window(p) \ {s} : D(p, i) < D(p, s)
    <2>1. Window(p) \subseteq Index
        BY RingNumbers, MaxCountAssumption DEF Window, Slots, Index
    <2>. QED
        BY <1>0, <2>1
<1>. HIDE DEF D
<1>2. /\ n \in Nat
      /\ \A q \in Pipes : /\ received[q] \in 0..MaxChunks
                          /\ produced[q] \in 0..MaxChunks
    <2>1. inflight[p] \in Seq(Index)
        BY DEF RingCore, TypeOK
    <2>2. n \in Nat
        BY <2>1
    <2>. QED
        BY <2>2 DEF RingCore, TypeOK
<1>3. \A k \in 1..n : inflight[p][k] \in Window(p) \ {s}
    BY QueuedInWindow
<1>4. \A i \in Index, c \in Chunks : Holds(p, i, c) => i \in Window(p)
    BY HolderInWindow
<1>5. UnopenedIsSilent'
    BY DEF StreamInv, UnopenedIsSilent
<1>6. \A k \in 1..Len(inflight'[p]) :
          \/ k \in 1..n /\ inflight'[p][k] = inflight[p][k]
          \/ k = n + 1 /\ inflight'[p][k] = s
    BY <1>2
<1>7. QueueInRingOrder'
    <2>1. ASSUME NEW k \in 1..Len(inflight'[p]),
                 NEW l \in 1..Len(inflight'[p]), k < l
          PROVE  D(p, inflight'[p][k]) < D(p, inflight'[p][l])
        <3>1. k \in 1..n /\ inflight'[p][k] = inflight[p][k]
            BY <1>2, <1>6, <2>1
        <3>2. CASE l \in 1..n /\ inflight'[p][l] = inflight[p][l]
            <4>1. Distance(p, inflight[p][k]) < Distance(p, inflight[p][l])
                BY <2>1, <3>1, <3>2 DEF StreamInv, QueueInRingOrder
            <4>. QED
                BY <1>1, <1>3, <3>1, <3>2, <4>1
        <3>3. CASE inflight'[p][l] = s
            BY <1>1, <1>3, <3>1, <3>3
        <3>. QED
            BY <1>6, <3>2, <3>3
    <2>2. ASSUME NEW q \in Pipes \ {p}, pstate[q] = "open",
                 NEW k \in 1..Len(inflight'[q]),
                 NEW l \in 1..Len(inflight'[q]), k < l
          PROVE  D(q, inflight'[q][k]) < D(q, inflight'[q][l])
        <3>1. inflight'[q] = inflight[q]
            OBVIOUS
        <3>2. inflight[q][k] \in Index /\ inflight[q][l] \in Index
            BY <3>1, QueuedInWindow
        <3>3. Distance(q, inflight[q][k]) < Distance(q, inflight[q][l])
            BY <2>2, <3>1 DEF StreamInv, QueueInRingOrder
        <3>. QED
            BY <1>1, <3>1, <3>2, <3>3
    <2>3. ASSUME NEW q \in Pipes, pstate'[q] = "open",
                 NEW k \in 1..Len(inflight'[q]),
                 NEW l \in 1..Len(inflight'[q]), k < l
          PROVE  D(q, inflight'[q][k]) < D(q, inflight'[q][l])
        BY <2>1, <2>2, <2>3
    <2>. QED
        BY <2>3 DEF QueueInRingOrder, Distance, D
<1>8. \A c \in Chunks : Holds(p, s, c)' => c = produced[p] + 1
    OBVIOUS
<1>9. \A i \in Index, c \in Chunks : Holds(p, i, c) => c <= produced[p]
    BY DEF StreamInv, ChunksInRingOrder
<1>10. ASSUME NEW i \in Index, i # s, NEW c \in Chunks, Holds(p, i, c)
       PROVE  received'[p] < c
    <2>1. received[p] < c
        BY <1>10 DEF StreamInv, ChunksInRingOrder
    <2>2. CASE received'[p] = received[p]
        BY <2>1, <2>2
    <2>3. CASE received'[p] = received[p] + 1 /\ Holds(p, s, received'[p])
        <3>1. received'[p] \in Chunks
            BY <1>2, <2>3 DEF Chunks
        <3>2. c # received'[p]
            <4>1. SUFFICES ASSUME c = received'[p] PROVE FALSE
                OBVIOUS
            <4>2. i \in Window(p) /\ s \in Window(p)
                BY <1>4, <1>10, <2>3, <3>1
            <4>3. Distance(p, i) < Distance(p, s) \/ Distance(p, s) < Distance(p, i)
                <5>1. i \in Slots(p) /\ s \in Slots(p) /\ transfer_count[p] # 0
                    BY <4>2, RingNumbers DEF Window, Slots
                <5>. QED
                    BY <1>10, <5>1, DistanceFacts, RingNumbers
            <4>. QED
                BY <1>10, <2>3, <3>1, <4>1, <4>3 DEF StreamInv, ChunksInRingOrder, Chunks
        <3>. QED
            BY <1>2, <2>1, <2>3, <3>2 DEF Chunks
    <2>. QED
        BY <2>2, <2>3
<1>11. received'[p] <= produced[p]
    <2>1. received[p] <= produced[p]
        BY DEF StreamInv, AllChunksHeld
    <2>. QED
        BY <1>9, <2>1
<1>12. ChunksInRingOrder'
    <2>1. ASSUME NEW i \in Index, NEW c \in Chunks, Holds(p, i, c)'
          PROVE  /\ received'[p] < c /\ c <= produced'[p]
                 /\ \A j \in Index, e \in Chunks :
                        Holds(p, j, e)' /\ D(p, i) < D(p, j) => c < e
                 /\ \A k \in 1..Len(inflight'[p]) :
                        D(p, i) < D(p, inflight'[p][k])
        <3>1. CASE i = s
            <4>1. /\ c = produced[p] + 1 /\ produced'[p] = produced[p] + 1
                  /\ Len(inflight'[p]) = 0
                BY <2>1, <3>1
            <4>2. received'[p] < c /\ c <= produced'[p]
                BY <1>2, <1>11, <4>1 DEF Chunks
            <4>3. ASSUME NEW j \in Index, NEW e \in Chunks, Holds(p, j, e)',
                         D(p, i) < D(p, j)
                  PROVE  c < e
                <5>1. D(p, i) \in Int /\ D(p, j) \in Int
                    <6>1. /\ next_finish'[p] \in Int /\ transfer_count'[p] \in Int
                          /\ i \in Int /\ j \in Int
                        BY DEF Index, TypeOK
                    <6>. QED
                        BY <6>1 DEF D
                <5>2. j # s
                    BY <3>1, <4>3, <5>1
                <5>3. j \in Window(p) \ {s}
                    BY <1>4, <4>3, <5>2
                <5>4. D(p, j) < D(p, s)
                    BY <1>1, <5>3
                <5>. QED
                    BY <3>1, <4>3, <5>1, <5>4
            <4>. QED
                BY <4>1, <4>2, <4>3
        <3>2. CASE i # s
            <4>1. Holds(p, i, c) /\ i \in Window(p) \ {s}
                BY <1>4, <2>1, <3>2
            <4>2. received'[p] < c /\ c <= produced'[p]
                BY <1>2, <1>9, <1>10, <3>2, <4>1 DEF Chunks
            <4>3. ASSUME NEW j \in Index, NEW e \in Chunks, Holds(p, j, e)',
                         D(p, i) < D(p, j)
                  PROVE  c < e
                <5>1. CASE j = s
                    BY <1>2, <1>8, <1>9, <4>1, <4>3, <5>1 DEF Chunks
                <5>2. CASE j # s
                    <6>1. Holds(p, j, e) /\ j \in Window(p) \ {s}
                        BY <1>4, <4>3, <5>2
                    <6>2. Distance(p, i) < Distance(p, j)
                        BY <1>1, <4>1, <4>3, <6>1
                    <6>. QED
                        BY <4>1, <6>1, <6>2 DEF StreamInv, ChunksInRingOrder
                <5>. QED
                    BY <5>1, <5>2
            <4>4. ASSUME NEW k \in 1..Len(inflight'[p])
                  PROVE  D(p, i) < D(p, inflight'[p][k])
                <5>1. CASE k \in 1..n /\ inflight'[p][k] = inflight[p][k]
                    <6>1. Distance(p, i) < Distance(p, inflight[p][k])
                        BY <4>1, <5>1 DEF StreamInv, ChunksInRingOrder
                    <6>. QED
                        BY <1>1, <1>3, <4>1, <5>1, <6>1
                <5>2. CASE inflight'[p][k] = s
                    BY <1>1, <4>1, <5>2
                <5>. QED
                    BY <1>6, <5>1, <5>2
            <4>. QED
                BY <4>2, <4>3, <4>4
        <3>. QED
            BY <3>1, <3>2
    <2>2. ASSUME NEW q \in Pipes \ {p}, pstate[q] = "open",
                 NEW i \in Index, NEW c \in Chunks, Holds(q, i, c)'
          PROVE  /\ received'[q] < c /\ c <= produced'[q]
                 /\ \A j \in Index, e \in Chunks :
                        Holds(q, j, e)' /\ D(q, i) < D(q, j) => c < e
                 /\ \A k \in 1..Len(inflight'[q]) :
                        D(q, i) < D(q, inflight'[q][k])
        <3>1. /\ Holds(q, i, c) /\ inflight'[q] = inflight[q]
              /\ received'[q] = received[q] /\ produced'[q] = produced[q]
            BY <2>2
        <3>2. \A k \in 1..Len(inflight[q]) : inflight[q][k] \in Index
            BY QueuedInWindow
        <3>3. /\ received[q] < c /\ c <= produced[q]
              /\ \A j \in Index, e \in Chunks :
                     Holds(q, j, e) /\ Distance(q, i) < Distance(q, j) => c < e
              /\ \A k \in 1..Len(inflight[q]) :
                     Distance(q, i) < Distance(q, inflight[q][k])
            BY <2>2, <3>1 DEF StreamInv, ChunksInRingOrder
        <3>. QED
            BY <1>1, <3>1, <3>2, <3>3
    <2>3. ASSUME NEW q \in Pipes, pstate'[q] = "open",
                 NEW i \in Index, NEW c \in Chunks, Holds(q, i, c)'
          PROVE  /\ received'[q] < c /\ c <= produced'[q]
                 /\ \A j \in Index, e \in Chunks :
                        Holds(q, j, e)' /\ D(q, i) < D(q, j) => c < e
                 /\ \A k \in 1..Len(inflight'[q]) :
                        D(q, i) < D(q, inflight'[q][k])
        BY <2>1, <2>2, <2>3
    <2>. QED
        BY <2>3 DEF ChunksInRingOrder, Distance, D
<1>13. AllChunksHeld'
    <2>1. received'[p] <= produced'[p]
        BY <1>2, <1>11 DEF Chunks
    <2>2. ASSUME NEW c \in Chunks, received'[p] < c, c <= produced'[p]
          PROVE  \E i \in Index : Holds(p, i, c)'
        <3>1. CASE c <= produced[p]
            <4>1. received[p] < c
                BY <1>2, <2>2 DEF Chunks
            <4>2. PICK i \in Index : Holds(p, i, c)
                BY <3>1, <4>1 DEF StreamInv, AllChunksHeld
            <4>3. i # s
                <5>1. c # received'[p]
                    BY <2>2 DEF Chunks
                <5>. QED
                    BY <4>2, <5>1
            <4>. QED
                BY <4>2, <4>3
        <3>2. CASE ~(c <= produced[p])
            <4>1. produced'[p] = produced[p] + 1 /\ c = produced'[p]
                BY <1>2, <2>2, <3>2 DEF Chunks
            <4>2. produced'[p] # produced[p]
                BY <1>2, <4>1
            <4>. QED
                BY <4>1, <4>2
        <3>. QED
            BY <3>1, <3>2
    <2>3. ASSUME NEW q \in Pipes, pstate'[q] = "open"
          PROVE  /\ received'[q] <= produced'[q]
                 /\ \A c \in Chunks : received'[q] < c /\ c <= produced'[q] =>
                        \E i \in Index : Holds(q, i, c)'
        <3>1. CASE q = p
            BY <2>1, <2>2, <3>1
        <3>2. CASE q # p
            BY <2>3, <3>2 DEF StreamInv, AllChunksHeld
        <3>. QED
            BY <3>1, <3>2
    <2>. QED
        BY <2>3 DEF AllChunksHeld
<1>. QED
    BY <1>5, <1>7, <1>12, <1>13 DEF StreamInv

(***************************************************************************)
(* How the window grows in the loop of start_endless_transfers: by the     *)
(* slot behind it, which holds no chunk and is not in the kernel.          *)
(***************************************************************************)
LEMMA WindowGrows ==
    ASSUME RingCore, NEW p \in Pipes, NEW s \in Index, s = next_submit[p],
           InCall("start", p), pending_count[p] < transfer_count[p],
           pending_count' = [pending_count EXCEPT ![p] = @ + 1],
           transfer_count' = transfer_count, next_finish' = next_finish
    PROVE  /\ pstate[p] = "open" /\ ~pending[p][s]
           /\ \A k \in 1..Len(inflight[p]) : inflight[p][k] # s
           /\ \A k \in 1..Len(completed) :
                  ~(completed[k].pipe = p /\ completed[k].i = s)
           /\ \A c \in Chunks : ~Holds(p, s, c)
           /\ \A q \in Pipes, i \in Index :
                  /\ Distance(q, i)' = Distance(q, i)
                  /\ q # p \/ i # s => (i \in Window(q)' <=> i \in Window(q))
           /\ \A i \in Window(p) : Distance(p, i) < Distance(p, s)
<1>1. /\ pending_count'[p] = pending_count[p] + 1
      /\ \A q \in Pipes \ {p} : pending_count'[q] = pending_count[q]
      /\ call.op = "start" /\ call.pipe = p
    BY DEF RingCore, TypeOK, InCall
<1>2. transfer_count[p] # 0 /\ pstate[p] = "open"
    BY <1>1 DEF RingCore, CallConsistent, PipeLife
<1>3. /\ s \in Slots(p)
      /\ Distance(p, s) = pending_count[p] /\ ~pending[p][s]
    BY <1>2, NextSubmitSlot
<1>4. \A q \in Pipes, i \in Index : Distance(q, i)' = Distance(q, i)
    BY DEF Distance
<1>5. \A q \in Pipes, i \in Index : q # p \/ i # s =>
          (i \in Window(q)' <=> i \in Window(q))
    <2>1. \A q \in Pipes \ {p}, i \in Index : i \in Window(q)' <=> i \in Window(q)
        BY <1>1, <1>4 DEF Window, Slots
    <2>2. ASSUME NEW i \in Index, i # s
          PROVE  i \in Window(p)' <=> i \in Window(p)
        <3>1. i \in Slots(p) => /\ Distance(p, i) # pending_count[p]
                                /\ Distance(p, i) \in Nat
            BY <1>2, <1>3, <2>2, DistanceFacts
        <3>. QED
            BY <1>1, <1>4, <3>1, RingNumbers DEF Window, Slots
    <2>. QED
        BY <2>1, <2>2
<1>6. s \notin Window(p)
    BY <1>3, RingNumbers DEF Window
<1>7. /\ \A k \in 1..Len(inflight[p]) : inflight[p][k] # s
      /\ \A k \in 1..Len(completed) :
             ~(completed[k].pipe = p /\ completed[k].i = s)
    BY <1>3 DEF RingCore, KernelHasPending
<1>8. \A i \in Window(p) : Distance(p, i) < Distance(p, s)
    BY <1>3 DEF Window
<1>9. \A c \in Chunks : ~Holds(p, s, c)
    BY <1>6, HolderInWindow
<1>. QED
    BY <1>2, <1>3, <1>4, <1>5, <1>7, <1>8, <1>9

(* An iteration of the loop of start_endless_transfers. *)
LEMMA StreamStartSubmit ==
    ASSUME RingCore, RingCore', StreamInv, NEW p \in Pipes, start_submit(p)
    PROVE  StreamInv'
<1>0. PICK s \in Index : s = next_submit[p]
    BY RingNumbers
<1>1. /\ pstate' = pstate /\ transfer_count' = transfer_count
      /\ next_finish' = next_finish /\ data' = data /\ completed' = completed
      /\ produced' = produced /\ received' = received
      /\ submit_next_transfer(p)
      /\ pending_count' = [pending_count EXCEPT ![p] = @ + 1]
      /\ InCall("start", p) /\ pending_count[p] < transfer_count[p]
    BY DEF start_submit
<1>2. /\ pstate[p] = "open" /\ ~pending[p][s]
      /\ \A k \in 1..Len(inflight[p]) : inflight[p][k] # s
      /\ \A k \in 1..Len(completed) :
             ~(completed[k].pipe = p /\ completed[k].i = s)
      /\ \A c \in Chunks : ~Holds(p, s, c)
      /\ \A q \in Pipes, i \in Index :
             /\ Distance(q, i)' = Distance(q, i)
             /\ q # p \/ i # s => (i \in Window(q)' <=> i \in Window(q))
      /\ \A i \in Window(p) : Distance(p, i) < Distance(p, s)
    BY <1>0, <1>1, WindowGrows
<1>3. /\ pending'[p][s] \/ error'[p][s] = "submit"
      /\ \/ inflight'[p] = inflight[p]
         \/ /\ Len(inflight'[p]) = Len(inflight[p]) + 1
            /\ inflight'[p][Len(inflight[p]) + 1] = s
            /\ \A k \in 1..Len(inflight[p]) : inflight'[p][k] = inflight[p][k]
      /\ \A q \in Pipes, i \in Index : q # p \/ i # s =>
             pending'[q][i] = pending[q][i] /\ error'[q][i] = error[q][i]
      /\ \A q \in Pipes \ {p} : inflight'[q] = inflight[q]
    BY <1>0, <1>1, <1>2, SubmitEffect
<1>4. \A q \in Pipes, i \in Index, c \in Chunks : q # p \/ i # s =>
          (Holds(q, i, c)' <=> Holds(q, i, c))
    BY <1>1, <1>2, <1>3 DEF Holds
<1>5. \A c \in Chunks : ~Holds(p, s, c)'
    BY <1>1, <1>2, <1>3 DEF Holds
<1>6. TypeOK' /\ Window(p) \subseteq Index
    BY RingNumbers, MaxCountAssumption DEF RingCore, Window, Slots, Index
<1>7. /\ \A i, j \in Window(p) \ {s} :
             Distance(p, i)' < Distance(p, j)' <=> Distance(p, i) < Distance(p, j)
      /\ \A i \in Window(p) \ {s} : Distance(p, i)' < Distance(p, s)'
    BY <1>2, <1>6
<1>. QED
    BY <1>1, <1>2, <1>3, <1>4, <1>5, <1>6, <1>7, StreamAppend

(***************************************************************************)
(* How handing over turns the ring: the slot at next_finish becomes the    *)
(* last one, and leaves the window unless the pipe is endless.             *)
(***************************************************************************)
LEMMA WindowTurns ==
    ASSUME RingCore, NEW p \in Pipes, NEW f \in Index, f = next_finish[p],
           CanCall(p), pending_count[p] # 0,
           next_finish' = [next_finish EXCEPT
               ![p] = increment_and_wrap_size(@, transfer_count[p])],
           transfer_count' = transfer_count,
           \/ endless_transfers_enabled[p] /\ pending_count' = pending_count
           \/ /\ ~endless_transfers_enabled[p]
              /\ pending_count' = [pending_count EXCEPT ![p] = @ - 1]
    PROVE  /\ pstate[p] = "open" /\ transfer_count[p] # 0
           /\ f \in Slots(p) /\ f \in Window(p) /\ Distance(p, f) = 0
           /\ \A i \in Slots(p) : i # f =>
                  Distance(p, i) > 0 /\ Distance(p, i)' = Distance(p, i) - 1
           /\ Distance(p, f)' = transfer_count[p] - 1
           /\ \A i \in Index : i # f => (i \in Window(p)' <=> i \in Window(p))
           /\ f \in Window(p)' <=> endless_transfers_enabled[p]
           /\ \A q \in Pipes \ {p}, i \in Index :
                  /\ Distance(q, i)' = Distance(q, i)
                  /\ i \in Window(q)' <=> i \in Window(q)
           /\ endless_transfers_enabled[p] => next_submit[p] = f
<1>1. /\ pstate[p] = "open" /\ call = Idle
      /\ next_finish'[p] = increment_and_wrap_size(f, transfer_count[p])
      /\ \A q \in Pipes \ {p} : /\ next_finish'[q] = next_finish[q]
                                /\ pending_count'[q] = pending_count[q]
    BY DEF RingCore, TypeOK, CanCall
<1>2. transfer_count[p] # 0
    BY <1>1, RingNumbers
<1>3. /\ \A i \in Slots(p) : Distance(p, i) \in 0..transfer_count[p] - 1
      /\ \A i \in Slots(p) : i # f =>
             Distance(p, i) > 0 /\ Distance(p, i)' = Distance(p, i) - 1
      /\ Distance(p, f)' = transfer_count[p] - 1
      /\ f \in Slots(p) /\ Distance(p, f) = 0
    <2>1. \A i \in Slots(p) : Distance(p, i) \in 0..transfer_count[p] - 1
        BY <1>2, DistanceFacts
    <2>2. f \in Slots(p) /\ Distance(p, f) = 0
        BY <1>2, NextSubmitSlot
    <2>3. /\ \A i \in Slots(p) : i # f =>
                 Distance(p, i) # 0 /\ Distance(p, i)' = Distance(p, i) - 1
          /\ \A i \in Slots(p) : i = f =>
                 Distance(p, i)' = transfer_count[p] - 1
        BY <1>1, <1>2, RingTurn
    <2>. QED
        BY <2>1, <2>2, <2>3, RingNumbers
<1>4. f \in Window(p)
    BY <1>3, RingNumbers DEF Window
<1>5. \A q \in Pipes \ {p}, i \in Index :
          /\ Distance(q, i)' = Distance(q, i)
          /\ i \in Window(q)' <=> i \in Window(q)
    BY <1>1 DEF Window, Slots, Distance
<1>6. endless_transfers_enabled[p] =>
          pending_count[p] = transfer_count[p] /\ next_submit[p] = f
    <2>1. ~InCall("start", p)
        BY <1>1 DEF InCall, Idle
    <2>. QED
        BY <1>2, <2>1, NextSubmitSlot DEF RingCore, EndlessIsFull
<1>7. /\ \A i \in Index : i # f => (i \in Window(p)' <=> i \in Window(p))
      /\ f \in Window(p)' <=> endless_transfers_enabled[p]
    <2>1. CASE endless_transfers_enabled[p]
        <3>1. \A i \in Slots(p) : /\ Distance(p, i) < transfer_count[p]
                                  /\ Distance(p, i)' < transfer_count[p]
            <4>. SUFFICES ASSUME NEW i \in Slots(p)
                          PROVE  /\ Distance(p, i) < transfer_count[p]
                                 /\ Distance(p, i)' < transfer_count[p]
                OBVIOUS
            <4>1. Distance(p, i) \in 0..transfer_count[p] - 1
                BY <1>3
            <4>2. \/ Distance(p, i)' = Distance(p, i) - 1
                  \/ Distance(p, i)' = transfer_count[p] - 1
                BY <1>3
            <4>. QED
                BY <4>1, <4>2, RingNumbers
        <3>. QED
            BY <1>3, <1>6, <2>1, <3>1 DEF Window, Slots
    <2>2. CASE ~endless_transfers_enabled[p]
        <3>1. pending_count'[p] = pending_count[p] - 1
            BY <2>2 DEF RingCore, TypeOK
        <3>2. \A i \in Index : i # f => (i \in Window(p)' <=> i \in Window(p))
            BY <1>3, <3>1, RingNumbers DEF Window, Slots
        <3>3. f \notin Window(p)'
            BY <1>3, <3>1, RingNumbers DEF Window, Slots
        <3>. QED
            BY <2>2, <3>2, <3>3
    <2>. QED
        BY <2>1, <2>2
<1>. QED
    BY <1>1, <1>2, <1>3, <1>4, <1>5, <1>6, <1>7

(***************************************************************************)
(* The first slot of the window holds either no chunk or the next one,     *)
(* because the chunks lie in the ring in order and none that was sent is   *)
(* missing.  d and e are the bytes and the error that are handed over.     *)
(***************************************************************************)
LEMMA NextChunkIsFirst ==
    ASSUME RingCore, StreamInv, NEW p \in Pipes, NEW f \in Index,
           f = next_finish[p], pstate[p] = "open", transfer_count[p] # 0,
           NEW d \in 0..MaxChunks, NEW e,
           \A c \in Chunks : Holds(p, f, c) <=> d = c /\ e # "submit",
           received'[p] = IF d = 0 \/ e = "submit" THEN received[p] ELSE d
    PROVE  \/ /\ received'[p] = received[p]
              /\ \A c \in Chunks : ~Holds(p, f, c)
           \/ /\ received'[p] = received[p] + 1
              /\ received'[p] \in Chunks
              /\ \A c \in Chunks : Holds(p, f, c) <=> c = received'[p]
<1>1. \A i \in Slots(p) : i # f => Distance(p, i) > Distance(p, f)
    <2>1. f \in Slots(p) /\ Distance(p, f) = 0
        BY NextSubmitSlot
    <2>. QED
        BY <2>1, DistanceFacts, RingNumbers
<1>2. received[p] \in 0..MaxChunks /\ produced[p] \in 0..MaxChunks
    BY DEF RingCore, TypeOK
<1>3. CASE d = 0 \/ e = "submit"
    <2>1. \A c \in Chunks : c # 0
        BY DEF Chunks
    <2>. QED
        BY <1>3, <2>1
<1>4. CASE ~(d = 0 \/ e = "submit")
    <2>1. d \in Chunks /\ Holds(p, f, d)
        BY <1>4, MaxChunksAssumption DEF Chunks
    <2>2. received[p] < d /\ d <= produced[p]
        BY <2>1 DEF StreamInv, ChunksInRingOrder
    <2>3. /\ received[p] + 1 \in Chunks /\ received[p] < received[p] + 1
          /\ received[p] + 1 <= produced[p]
        BY <1>2, <2>1, <2>2, MaxChunksAssumption DEF Chunks
    <2>4. PICK j \in Index : Holds(p, j, received[p] + 1)
        BY <2>3 DEF StreamInv, AllChunksHeld
    <2>5. CASE j = f
        BY <1>4, <2>1, <2>3, <2>4, <2>5
    <2>6. CASE j # f
        <3>1. Distance(p, f) < Distance(p, j)
            BY <1>1, <2>3, <2>4, <2>6, HolderInWindow
        <3>2. d < received[p] + 1
            BY <2>1, <2>3, <2>4, <3>1 DEF StreamInv, ChunksInRingOrder
        <3>. QED
            BY <1>2, <2>2, <3>2
    <2>. QED
        BY <2>5, <2>6
<1>. QED
    BY <1>3, <1>4

(***************************************************************************)
(* What handle_finished_transfer does to the first slot f: it holds no     *)
(* chunk any more, and its chunk, if it had one, was the next one.         *)
(***************************************************************************)
LEMMA HandOverEffect ==
    ASSUME RingCore, NEW p \in Pipes, NEW f \in Index, f = next_finish[p],
           handle_finished_transfer(p)
    PROVE  /\ \A q \in Pipes, i \in Index, c \in Chunks : q # p \/ i # f =>
                  (Holds(q, i, c)' <=> Holds(q, i, c))
           /\ \A c \in Chunks :
                  /\ ~Holds(p, f, c)'
                  /\ Holds(p, f, c) <=> data[p][f] = c /\ error[p][f] # "submit"
           /\ \/ inflight'[p] = inflight[p]
              \/ /\ Len(inflight'[p]) = Len(inflight[p]) + 1
                 /\ inflight'[p][Len(inflight[p]) + 1] = f
                 /\ \A k \in 1..Len(inflight[p]) :
                        inflight'[p][k] = inflight[p][k]
           /\ \A q \in Pipes \ {p} : inflight'[q] = inflight[q]
           /\ \A k \in 1..Len(inflight[p]) : inflight[p][k] # f
           /\ received'[p] = IF data[p][f] = 0 \/ error[p][f] = "submit"
                             THEN received[p] ELSE data[p][f]
           /\ \A q \in Pipes \ {p} : received'[q] = received[q]
<1>1. /\ CanCall(p) /\ pending_count[p] # 0 /\ ~pending[p][f]
      /\ next_finish' = [next_finish EXCEPT
             ![p] = increment_and_wrap_size(@, transfer_count[p])]
      /\ transfer_count' = transfer_count /\ data' = data
      /\ completed' = completed
      /\ \/ endless_transfers_enabled[p] /\ pending_count' = pending_count
         \/ /\ ~endless_transfers_enabled[p]
            /\ pending_count' = [pending_count EXCEPT ![p] = @ - 1]
    BY DEF handle_finished_transfer
<1>2. /\ f \in Window(p)
      /\ \A i \in Index : i # f => (i \in Window(p)' <=> i \in Window(p))
      /\ f \in Window(p)' <=> endless_transfers_enabled[p]
      /\ \A q \in Pipes \ {p}, i \in Index : i \in Window(q)' <=> i \in Window(q)
      /\ endless_transfers_enabled[p] => next_submit[p] = f
    BY <1>1, WindowTurns
<1>3. /\ \A k \in 1..Len(completed) :
             ~(completed[k].pipe = p /\ completed[k].i = f)
      /\ \A k \in 1..Len(inflight[p]) : inflight[p][k] # f
    BY <1>1 DEF RingCore, KernelHasPending
<1>. DEFINE Effect ==
        /\ \A q \in Pipes, i \in Index : q # p \/ i # f =>
               pending'[q][i] = pending[q][i] /\ error'[q][i] = error[q][i]
        /\ f \notin Window(p)' \/ pending'[p][f] \/ error'[p][f] = "submit"
        /\ \/ inflight'[p] = inflight[p]
           \/ /\ Len(inflight'[p]) = Len(inflight[p]) + 1
              /\ inflight'[p][Len(inflight[p]) + 1] = f
              /\ \A k \in 1..Len(inflight[p]) : inflight'[p][k] = inflight[p][k]
        /\ \A q \in Pipes \ {p} : inflight'[q] = inflight[q]
<1>4. ASSUME endless_transfers_enabled[p] PROVE Effect
    <2>1. submit_next_transfer(p) /\ next_submit[p] = f
        BY <1>2, <1>4 DEF handle_finished_transfer
    <2>. QED
        BY <1>1, <2>1, SubmitEffect
<1>5. ASSUME ~endless_transfers_enabled[p] PROVE Effect
    BY <1>2, <1>5 DEF handle_finished_transfer
<1>6. Effect
    BY <1>4, <1>5
<1>7. \A q \in Pipes, i \in Index, c \in Chunks : q # p \/ i # f =>
          (Holds(q, i, c)' <=> Holds(q, i, c))
    BY <1>1, <1>2, <1>6 DEF Holds
<1>8. \A c \in Chunks :
          /\ ~Holds(p, f, c)'
          /\ Holds(p, f, c) <=> data[p][f] = c /\ error[p][f] # "submit"
    BY <1>1, <1>2, <1>3, <1>6 DEF Holds
<1>9. /\ received'[p] = IF data[p][f] = 0 \/ error[p][f] = "submit"
                        THEN received[p] ELSE data[p][f]
      /\ \A q \in Pipes \ {p} : received'[q] = received[q]
    BY DEF handle_finished_transfer, async_in_transfer_get_results, Taken,
           RingCore, TypeOK
<1>. QED
    BY <1>3, <1>6, <1>7, <1>8, <1>9

(***************************************************************************)
(* A slot that is handed over: it gets to the end of the ring, queued,     *)
(* finished or outside the window.                                         *)
(***************************************************************************)
LEMMA StreamTurn ==
    ASSUME RingCore, TypeOK', StreamInv, NEW p \in Pipes, NEW f \in Index,
           f = next_finish[p], CanCall(p), pending_count[p] # 0,
           pstate' = pstate,
           next_finish' = [next_finish EXCEPT
               ![p] = increment_and_wrap_size(@, transfer_count[p])],
           transfer_count' = transfer_count,
           \/ endless_transfers_enabled[p] /\ pending_count' = pending_count
           \/ /\ ~endless_transfers_enabled[p]
              /\ pending_count' = [pending_count EXCEPT ![p] = @ - 1],
           \A k \in 1..Len(inflight[p]) : inflight[p][k] # f,
           \A q \in Pipes, i \in Index, c \in Chunks : q # p \/ i # f =>
               (Holds(q, i, c)' <=> Holds(q, i, c)),
           \/ inflight'[p] = inflight[p]
           \/ /\ Len(inflight'[p]) = Len(inflight[p]) + 1
              /\ inflight'[p][Len(inflight[p]) + 1] = f
              /\ \A k \in 1..Len(inflight[p]) : inflight'[p][k] = inflight[p][k],
           \/ /\ received'[p] = received[p]
              /\ \A c \in Chunks : ~Holds(p, f, c)
           \/ /\ received'[p] = received[p] + 1 /\ received'[p] \in Chunks
              /\ \A c \in Chunks : Holds(p, f, c) <=> c = received'[p],
           \/ /\ produced'[p] = produced[p]
              /\ \A c \in Chunks : ~Holds(p, f, c)'
           \/ /\ produced'[p] = produced[p] + 1
              /\ Len(inflight[p]) = 0 /\ Len(inflight'[p]) = 0
              /\ \A c \in Chunks : Holds(p, f, c)' <=> c = produced'[p],
           \A q \in Pipes \ {p} :
               /\ inflight'[q] = inflight[q]
               /\ produced'[q] = produced[q] /\ received'[q] = received[q]
    PROVE  StreamInv'
<1>1. /\ pstate[p] = "open" /\ transfer_count[p] # 0
      /\ f \in Slots(p) /\ f \in Window(p) /\ Distance(p, f) = 0
      /\ \A i \in Slots(p) : i # f =>
             Distance(p, i) > 0 /\ Distance(p, i)' = Distance(p, i) - 1
      /\ Distance(p, f)' = transfer_count[p] - 1
      /\ \A q \in Pipes \ {p}, i \in Index : Distance(q, i)' = Distance(q, i)
    BY WindowTurns
<1>2. /\ Window(p) \subseteq Slots(p)
      /\ \A i \in Slots(p) : Distance(p, i) \in 0..transfer_count[p] - 1
      /\ transfer_count[p] \in Nat
    BY <1>1, DistanceFacts, RingNumbers DEF Window
<1>3. \A i, j \in Window(p) \ {f} :
          Distance(p, i)' < Distance(p, j)' <=> Distance(p, i) < Distance(p, j)
    <2>. SUFFICES ASSUME NEW i \in Window(p) \ {f}, NEW j \in Window(p) \ {f}
                  PROVE  Distance(p, i)' < Distance(p, j)'
                             <=> Distance(p, i) < Distance(p, j)
        OBVIOUS
    <2>1. /\ Distance(p, i)' = Distance(p, i) - 1
          /\ Distance(p, j)' = Distance(p, j) - 1
          /\ Distance(p, i) \in Int /\ Distance(p, j) \in Int
        BY <1>1, <1>2
    <2>. QED
        BY <2>1
<1>4. \A i \in Window(p) \ {f} : Distance(p, i)' < Distance(p, f)'
    <2>. SUFFICES ASSUME NEW i \in Window(p) \ {f}
                  PROVE  Distance(p, i)' < Distance(p, f)'
        OBVIOUS
    <2>1. /\ Distance(p, i)' = Distance(p, i) - 1
          /\ Distance(p, i) \in 0..transfer_count[p] - 1
          /\ Distance(p, f)' = transfer_count[p] - 1
        BY <1>1, <1>2
    <2>. QED
        BY <1>2, <2>1
<1>. QED
    BY <1>1, <1>3, <1>4, StreamAppend

(***************************************************************************)
(* handle_finished_transfer keeps the data part of the invariant: the ring *)
(* turns by one slot, so the order of chunks and queued URBs is kept.      *)
(***************************************************************************)
LEMMA StreamHandOver ==
    ASSUME RingCore, RingCore', StreamInv, NEW p \in Pipes,
           handle_finished_transfer(p)
    PROVE  /\ StreamInv'
           /\ received'[p] \in {received[p], received[p] + 1}
<1>0. PICK f \in Index : f = next_finish[p]
    BY RingNumbers
<1>1. /\ CanCall(p) /\ pending_count[p] # 0
      /\ pstate' = pstate /\ produced' = produced
      /\ next_finish' = [next_finish EXCEPT
             ![p] = increment_and_wrap_size(@, transfer_count[p])]
      /\ transfer_count' = transfer_count
      /\ \/ endless_transfers_enabled[p] /\ pending_count' = pending_count
         \/ /\ ~endless_transfers_enabled[p]
            /\ pending_count' = [pending_count EXCEPT ![p] = @ - 1]
    BY DEF handle_finished_transfer
<1>2. pstate[p] = "open" /\ transfer_count[p] # 0
    BY <1>1, RingNumbers DEF CanCall
<1>3. PICK d \in 0..MaxChunks, e \in Errors : d = data[p][f] /\ e = error[p][f]
    BY DEF RingCore, TypeOK
<1>4. \/ /\ received'[p] = received[p]
         /\ \A c \in Chunks : ~Holds(p, f, c)
      \/ /\ received'[p] = received[p] + 1
         /\ received'[p] \in Chunks
         /\ \A c \in Chunks : Holds(p, f, c) <=> c = received'[p]
    <2>1. /\ \A c \in Chunks : Holds(p, f, c) <=> d = c /\ e # "submit"
          /\ received'[p] = IF d = 0 \/ e = "submit" THEN received[p] ELSE d
        BY <1>0, <1>3, HandOverEffect
    <2>. QED
        BY <1>0, <1>2, <2>1, NextChunkIsFirst
<1>5. /\ \A q \in Pipes, i \in Index, c \in Chunks : q # p \/ i # f =>
             (Holds(q, i, c)' <=> Holds(q, i, c))
      /\ \A c \in Chunks : ~Holds(p, f, c)'
      /\ \/ inflight'[p] = inflight[p]
         \/ /\ Len(inflight'[p]) = Len(inflight[p]) + 1
            /\ inflight'[p][Len(inflight[p]) + 1] = f
            /\ \A k \in 1..Len(inflight[p]) : inflight'[p][k] = inflight[p][k]
      /\ \A k \in 1..Len(inflight[p]) : inflight[p][k] # f
      /\ \A q \in Pipes \ {p} :
             inflight'[q] = inflight[q] /\ received'[q] = received[q]
    BY <1>0, HandOverEffect
<1>6. TypeOK'
    BY DEF RingCore
<1>7. StreamInv'
    BY <1>0, <1>1, <1>4, <1>5, <1>6, StreamTurn
<1>. QED
    BY <1>4, <1>7

(***************************************************************************)
(* handle_events reaps a URB: its chunk moves from the kernel's list into  *)
(* the memory of the same transfer.                                        *)
(***************************************************************************)
LEMMA StreamReap ==
    ASSUME RingCore, StreamInv, completed # <<>>,
           async_in_transfer_handle_completion(Head(completed)),
           completed' = Tail(completed),
           UNCHANGED <<pstate, transfer_count, pending_count, next_finish,
                       inflight, produced, received>>
    PROVE  StreamInv'
<1>. DEFINE u == completed[1]
<1>1. completed # <<>> /\ completed \in Seq(Completion)
    BY DEF RingCore, TypeOK
<1>2. /\ completed' = Tail(completed)
      /\ pending' = [pending EXCEPT ![u.pipe][u.i] = FALSE]
      /\ error' = [error EXCEPT ![u.pipe][u.i] = u.status]
      /\ data' = [data EXCEPT ![u.pipe][u.i] = u.chunk]
      /\ UNCHANGED <<pstate, transfer_count, pending_count, next_finish,
                     inflight, produced, received>>
    <2>1. Head(completed) = u
        BY <1>1
    <2>. QED
        BY <2>1 DEF async_in_transfer_handle_completion
<1>3. /\ 1 \in 1..Len(completed)
      /\ \A k \in 1..Len(completed') :
             completed'[k] = completed[k + 1] /\ k + 1 \in 1..Len(completed) \ {1}
      /\ \A k \in 1..Len(completed) \ {1} :
             k - 1 \in 1..Len(completed') /\ completed'[k - 1] = completed[k]
    BY <1>1, <1>2
<1>4. u.pipe \in Pipes /\ u.i \in Index /\ u.status # "submit"
    <2>1. u \in Completion
        BY <1>1, <1>3
    <2>. QED
        BY <2>1 DEF Completion
<1>5. \A q \in Pipes, i \in Index :
          /\ q = u.pipe /\ i = u.i =>
                 ~pending'[q][i] /\ error'[q][i] = u.status
                     /\ data'[q][i] = u.chunk
          /\ q # u.pipe \/ i # u.i =>
                 /\ pending'[q][i] = pending[q][i]
                 /\ error'[q][i] = error[q][i]
                 /\ data'[q][i] = data[q][i]
    BY <1>2, <1>4 DEF RingCore, TypeOK
<1>6. \A q \in Pipes, i \in Index : /\ Distance(q, i)' = Distance(q, i)
                                    /\ i \in Window(q)' <=> i \in Window(q)
    BY <1>2 DEF Window, Slots, Distance
<1>7. ASSUME NEW q \in Pipes, NEW i \in Index, NEW c \in Chunks
      PROVE  Holds(q, i, c)' <=> Holds(q, i, c)
    <2>1. CASE q = u.pipe /\ i = u.i
        <3>1. \A k \in 1..Len(completed) \ {1} :
                  ~(completed[k].pipe = q /\ completed[k].i = i)
            BY <1>3, <2>1 DEF RingCore, KernelHasPending
        <3>2. \A k \in 1..Len(completed') :
                  ~(completed'[k].pipe = q /\ completed'[k].i = i)
            BY <1>3, <3>1
        <3>3. pending[q][i] /\ i \in Window(q)
            BY <1>3, <2>1 DEF RingCore, KernelHasPending, PendingInWindow
        <3>4. Holds(q, i, c) <=> u.chunk = c
            BY <1>3, <2>1, <3>1, <3>3 DEF Holds
        <3>5. Holds(q, i, c)' <=> u.chunk = c
            BY <1>4, <1>5, <1>6, <2>1, <3>2, <3>3 DEF Holds
        <3>. QED
            BY <3>4, <3>5
    <2>2. CASE q # u.pipe \/ i # u.i
        <3>1. ASSUME NEW k \in 1..Len(completed), completed[k].pipe = q,
                     completed[k].i = i, completed[k].chunk = c
              PROVE  \E l \in 1..Len(completed') :
                         /\ completed'[l].pipe = q /\ completed'[l].i = i
                         /\ completed'[l].chunk = c
            BY <1>3, <2>2, <3>1
        <3>2. ASSUME NEW l \in 1..Len(completed'), completed'[l].pipe = q,
                     completed'[l].i = i, completed'[l].chunk = c
              PROVE  \E k \in 1..Len(completed) :
                         /\ completed[k].pipe = q /\ completed[k].i = i
                         /\ completed[k].chunk = c
            BY <1>3, <3>2
        <3>. QED
            BY <1>5, <1>6, <2>2, <3>1, <3>2 DEF Holds
    <2>. QED
        BY <2>1, <2>2
<1>8. TypeOK
    BY DEF RingCore
<1>. QED
    BY <1>2, <1>6, <1>7, <1>8, StreamFrame

(***************************************************************************)
(* The kernel finishes the k-th URB of an endpoint: the others stay in     *)
(* order, and if there is data, k is the first, so the new chunk lies      *)
(* behind all chunks that were sent and before all URBs that wait.         *)
(***************************************************************************)
LEMMA StreamFinish ==
    ASSUME RingCore, StreamInv, NEW p \in Pipes, NEW k \in 1..Len(inflight[p]),
           NEW status, NEW c \in ChunksFor(p, k), Finish(p, k, status, c),
           UNCHANGED <<pstate, pipeVars, transferVars, received>>
    PROVE  StreamInv'
<1>. USE DEF pipeVars, transferVars
<1>. DEFINE n == Len(completed)
<1>. DEFINE x == inflight[p][k]
<1>1. /\ inflight[p] \in Seq(Index) /\ completed \in Seq(Completion) /\ n \in Nat
      /\ \A q \in Pipes : /\ produced[q] \in 0..MaxChunks
                          /\ received[q] \in 0..MaxChunks
    BY DEF RingCore, TypeOK
<1>2. /\ \A q \in Pipes \ {p} :
             inflight'[q] = inflight[q] /\ produced'[q] = produced[q]
      /\ inflight'[p] = Without(inflight[p], k)
      /\ produced'[p] = IF c = 0 THEN produced[p] ELSE c
    BY DEF Finish, RingCore, TypeOK
<1>3. /\ c = 0 \/ (c \in Chunks /\ k = 1 /\ c = produced[p] + 1)
      /\ produced[p] <= produced'[p]
    BY <1>1, <1>2 DEF ChunksFor, Chunks
<1>4. /\ Len(inflight'[p]) = Len(inflight[p]) - 1
      /\ \A j \in 1..Len(inflight'[p]) :
             LET m == IF j < k THEN j ELSE j + 1 IN
             m \in 1..Len(inflight[p]) /\ inflight'[p][j] = inflight[p][m]
    <2>1. /\ Len(inflight'[p]) = Len(inflight[p]) - 1
          /\ \A j \in 1..Len(inflight[p]) - 1 : inflight'[p][j] =
                 IF j < k THEN inflight[p][j] ELSE inflight[p][j + 1]
        BY ZenonT(40), <1>1, <1>2, WithoutIsQueue
    <2>. QED
        BY <1>1, <2>1
<1>5. /\ Len(completed') = n + 1
      /\ completed'[n + 1].pipe = p /\ completed'[n + 1].i = x
      /\ completed'[n + 1].chunk = c
      /\ \A l \in 1..n : completed'[l] = completed[l]
      /\ \A l \in 1..n + 1 : l \in 1..n \/ l = n + 1
    BY <1>1 DEF Finish
<1>6. \A q \in Pipes : \A l \in 1..Len(inflight[q]) : inflight[q][l] \in Index
    BY QueuedInWindow
<1>7. \A q \in Pipes, i \in Index : /\ Distance(q, i)' = Distance(q, i)
                                    /\ i \in Window(q)' <=> i \in Window(q)
    BY DEF Window, Slots, Distance
<1>8. ASSUME NEW q \in Pipes, NEW i \in Index, NEW d \in Chunks
      PROVE  Holds(q, i, d)' <=> Holds(q, i, d) \/ (q = p /\ i = x /\ d = c)
    <2>1. (\E l \in 1..Len(completed') :
               /\ completed'[l].pipe = q /\ completed'[l].i = i
               /\ completed'[l].chunk = d)
          <=> \/ \E l \in 1..n : /\ completed[l].pipe = q /\ completed[l].i = i
                                 /\ completed[l].chunk = d
              \/ q = p /\ i = x /\ d = c
        <3>1. n + 1 \in 1..n + 1 /\ 1..n \subseteq 1..n + 1
            BY <1>1
        <3>. QED
            BY <1>5, <3>1
    <2>. QED
        BY <1>7, <2>1 DEF Holds
<1>9. UnopenedIsSilent'
    <2>1. pstate[p] # "none"
        BY <1>6, EmptyRing DEF RingCore, PipeLife
    <2>. QED
        BY <1>2, <2>1 DEF StreamInv, UnopenedIsSilent
<1>10. QueueInRingOrder'
    <2>1. ASSUME NEW q \in Pipes, pstate[q] = "open",
                 NEW j \in 1..Len(inflight'[q]),
                 NEW l \in 1..Len(inflight'[q]), j < l
          PROVE  Distance(q, inflight'[q][j]) < Distance(q, inflight'[q][l])
        <3>1. CASE q # p
            BY <1>2, <2>1, <3>1 DEF StreamInv, QueueInRingOrder
        <3>2. CASE q = p
            <4>1. PICK a \in 1..Len(inflight[p]) :
                      /\ a = IF j < k THEN j ELSE j + 1
                      /\ inflight'[p][j] = inflight[p][a]
                BY <1>4, <2>1, <3>2
            <4>2. PICK b \in 1..Len(inflight[p]) :
                      /\ b = IF l < k THEN l ELSE l + 1
                      /\ inflight'[p][l] = inflight[p][b]
                BY <1>4, <2>1, <3>2
            <4>3. a < b
                BY <1>1, <1>4, <2>1, <3>2, <4>1, <4>2
            <4>. QED
                BY <2>1, <3>2, <4>1, <4>2, <4>3 DEF StreamInv, QueueInRingOrder
        <3>. QED
            BY <3>1, <3>2
    <2>. QED
        BY <2>1 DEF QueueInRingOrder, Distance
<1>11. ChunksInRingOrder'
    <2>1. ASSUME NEW q \in Pipes, pstate[q] = "open", NEW i \in Index,
                 NEW d \in Chunks, Holds(q, i, d)
          PROVE  /\ received[q] < d /\ d <= produced'[q]
                 /\ \A j \in Index, e \in Chunks :
                        Holds(q, j, e)' /\ Distance(q, i) < Distance(q, j)
                            => d < e
                 /\ \A l \in 1..Len(inflight'[q]) :
                        Distance(q, i) < Distance(q, inflight'[q][l])
        <3>1. /\ received[q] < d /\ d <= produced[q]
              /\ \A j \in Index, e \in Chunks :
                     Holds(q, j, e) /\ Distance(q, i) < Distance(q, j) => d < e
              /\ \A l \in 1..Len(inflight[q]) :
                     Distance(q, i) < Distance(q, inflight[q][l])
            BY <2>1 DEF StreamInv, ChunksInRingOrder
        <3>2. d <= produced'[q] /\ (q = p /\ c \in Chunks => d < c)
            BY <1>1, <1>2, <1>3, <3>1 DEF Chunks
        <3>3. \A l \in 1..Len(inflight'[q]) : \E m \in 1..Len(inflight[q]) :
                  inflight'[q][l] = inflight[q][m]
            BY <1>2, <1>4
        <3>. QED
            BY <1>8, <3>1, <3>2, <3>3
    <2>2. ASSUME pstate[p] = "open", c \in Chunks
          PROVE  /\ received[p] < c /\ c <= produced'[p]
                 /\ \A j \in Index, e \in Chunks :
                        Holds(p, j, e)' => ~(Distance(p, x) < Distance(p, j))
                 /\ \A l \in 1..Len(inflight'[p]) :
                        Distance(p, x) < Distance(p, inflight'[p][l])
        <3>1. k = 1 /\ c = produced[p] + 1 /\ produced'[p] = c
            BY <1>2, <1>3, <2>2 DEF Chunks
        <3>2. received[p] < c /\ c <= produced'[p]
            <4>1. received[p] <= produced[p]
                BY <2>2 DEF StreamInv, AllChunksHeld
            <4>. QED
                BY <1>1, <3>1, <4>1
        <3>3. x \in Slots(p) /\ x \in Index
            BY QueuedInWindow DEF Window
        <3>4. transfer_count[p] # 0
            BY EmptyRing
        <3>5. \A i \in Slots(p) : Distance(p, i) \in Int
            BY <3>4, DistanceFacts
        <3>6. ASSUME NEW j \in Index, NEW e \in Chunks, Holds(p, j, e)'
              PROVE  ~(Distance(p, x) < Distance(p, j))
            <4>1. CASE j = x
                BY <3>3, <3>5, <4>1
            <4>2. CASE Holds(p, j, e)
                <5>1. Distance(p, j) < Distance(p, x) /\ j \in Slots(p)
                    BY <2>2, <4>2, HolderInWindow
                    DEF StreamInv, ChunksInRingOrder
                <5>. QED
                    BY <3>3, <3>5, <5>1
            <4>. QED
                BY <1>8, <3>6, <4>1, <4>2
        <3>7. ASSUME NEW l \in 1..Len(inflight'[p])
              PROVE  Distance(p, x) < Distance(p, inflight'[p][l])
            <4>1. /\ l + 1 \in 1..Len(inflight[p]) /\ k < l + 1
                  /\ inflight'[p][l] = inflight[p][l + 1]
                BY <1>1, <1>4, <3>1
            <4>. QED
                BY <2>2, <4>1 DEF StreamInv, QueueInRingOrder
        <3>. QED
            BY <3>2, <3>6, <3>7
    <2>3. ASSUME NEW q \in Pipes, pstate[q] = "open", NEW i \in Index,
                 NEW d \in Chunks, Holds(q, i, d)'
          PROVE  /\ received[q] < d /\ d <= produced'[q]
                 /\ \A j \in Index, e \in Chunks :
                        Holds(q, j, e)' /\ Distance(q, i) < Distance(q, j)
                            => d < e
                 /\ \A l \in 1..Len(inflight'[q]) :
                        Distance(q, i) < Distance(q, inflight'[q][l])
        <3>1. CASE Holds(q, i, d)
            BY <2>1, <2>3, <3>1
        <3>2. CASE q = p /\ i = x /\ d = c
            BY <2>2, <2>3, <3>2
        <3>. QED
            BY <1>8, <2>3, <3>1, <3>2
    <2>4. ASSUME NEW q \in Pipes, pstate[q] = "open", NEW i \in Index,
                 NEW d \in Chunks, Holds(q, i, d)'
          PROVE  \A j \in Index, e \in Chunks :
                     Holds(q, j, e)' /\ Distance(q, i)' < Distance(q, j)'
                         => d < e
        BY <1>7, <2>3, <2>4
    <2>. QED
        BY <2>3, <2>4 DEF ChunksInRingOrder, Distance
<1>12. AllChunksHeld'
    <2>1. ASSUME NEW q \in Pipes, pstate[q] = "open"
          PROVE  received[q] <= produced'[q]
        <3>1. received[q] <= produced[q]
            BY <2>1 DEF StreamInv, AllChunksHeld
        <3>. QED
            BY <1>1, <1>2, <1>3, <3>1 DEF Chunks
    <2>2. ASSUME NEW q \in Pipes, pstate[q] = "open", NEW d \in Chunks,
                 received[q] < d, d <= produced'[q]
          PROVE  \E i \in Index : Holds(q, i, d)'
        <3>1. CASE d <= produced[q]
            BY <1>8, <2>2, <3>1 DEF StreamInv, AllChunksHeld
        <3>2. CASE ~(d <= produced[q])
            <4>1. q = p /\ d = c
                BY <1>1, <1>2, <1>3, <2>2, <3>2 DEF Chunks
            <4>2. x \in Index
                BY <1>6
            <4>. QED
                BY <1>8, <4>1, <4>2
        <3>. QED
            BY <3>1, <3>2
    <2>. QED
        BY <2>1, <2>2 DEF AllChunksHeld
<1>. QED
    BY <1>9, <1>10, <1>11, <1>12 DEF StreamInv

(* A URB is finished by the device, by the kernel, or by cancel_transfers. *)
LEMMA StreamUrbEnds ==
    ASSUME RingCore, StreamInv, NEW p \in Pipes,
           UrbCompletes(p) \/ UrbKilled(p) \/ cancel_discard(p)
    PROVE  StreamInv'
<1>. USE DEF pipeVars, transferVars, kernelVars
<1>1. UNCHANGED <<pstate, pipeVars, transferVars, received>>
    BY DEF UrbCompletes, UrbKilled, cancel_discard
<1>2. CASE \E k \in 1..Len(inflight[p]), status \in Errors :
               \E c \in ChunksFor(p, k) : Finish(p, k, status, c)
    BY <1>1, <1>2, StreamFinish
<1>3. CASE UNCHANGED <<inflight, completed, produced>>
    <2>1. \A q \in Pipes, i \in Index, c \in Chunks :
              /\ Holds(q, i, c)' <=> Holds(q, i, c)
              /\ Distance(q, i)' = Distance(q, i)
        BY <1>1, <1>3 DEF Holds, Window, Slots, Distance
    <2>2. \A q \in Pipes, i \in Index : Distance(q, i)' = Distance(q, i)
        BY <1>1 DEF Distance
    <2>3. TypeOK
        BY DEF RingCore
    <2>. QED
        BY <1>1, <1>3, <2>1, <2>2, <2>3, StreamFrame
<1>4. CASE UrbCompletes(p) \/ UrbKilled(p)
    <2>1. inflight[p] \in Seq(Index) /\ inflight[p] # <<>>
        BY <1>4 DEF UrbCompletes, UrbKilled, RingCore, TypeOK
    <2>2. 1 \in 1..Len(inflight[p])
        BY <2>1
    <2>3. \E status \in Errors :
              \E c \in ChunksFor(p, 1) : Finish(p, 1, status, c)
        BY <1>4 DEF UrbCompletes, UrbKilled, Errors, ChunksFor
    <2>. QED
        BY <1>2, <2>2, <2>3
<1>5. CASE cancel_discard(p)
    BY <1>2, <1>3, <1>5 DEF cancel_discard, usbfd_discard_urb, Queued, Errors
<1>. QED
    BY <1>4, <1>5

(* Nothing was sent yet. *)
LEMMA StreamInit == Init => StreamInv
<1>. SUFFICES ASSUME Init PROVE StreamInv
    OBVIOUS
<1>. QED
    BY DEF Init, StreamInv, UnopenedIsSilent, QueueInRingOrder,
           ChunksInRingOrder, AllChunksHeld

(* Every step keeps the data part of the invariant. *)
LEMMA StreamStep ==
    RingCore /\ RingCore' /\ StreamInv /\ [Next]_vars => StreamInv'
<1>. SUFFICES ASSUME RingCore, RingCore', StreamInv, [Next]_vars
              PROVE  StreamInv'
    OBVIOUS
<1>1. ASSUME NEW p \in Pipes,
             \/ async_in_pipe_create(p)
             \/ \E count \in 1..MaxCount : allocate_transfers(p, count)
             \/ handle_finished_transfer(p)
             \/ start_submit(p) \/ cancel_discard(p)
             \/ UrbCompletes(p) \/ UrbKilled(p)
      PROVE  StreamInv'
    BY <1>1, StreamCreate, StreamAllocate, StreamHandOver, StreamStartSubmit,
       StreamUrbEnds
<1>2. ASSUME NEW p \in Pipes, events_reap(p) PROVE StreamInv'
    BY <1>2, StreamReap DEF events_reap, CanReap, pipeVars
<1>. QED
    BY <1>1, <1>2, StreamQuiet DEF Next, Continue, Terminated

(***************************************************************************)
(* The ring and the data it carries: RingCore and StreamInv are invariants *)
(* of the asynchronous IN pipes, for any number of pipes, transfers and    *)
(* chunks.                                                                 *)
(***************************************************************************)
THEOREM StreamCorrect == Spec => [](RingCore /\ StreamInv)
<1>1. Init => RingCore /\ StreamInv
    BY RingInit, StreamInit
<1>2. RingCore /\ StreamInv /\ [Next]_vars => RingCore' /\ StreamInv'
    BY RingStep, StreamStep
<1>. QED
    BY <1>1, <1>2, PTL DEF Spec

(* When the window is empty, no chunk can be on its way. *)
LEMMA CoreNothingLost == RingCore /\ StreamInv => NothingPendingMeansNothingLost
<1>. SUFFICES ASSUME RingCore, StreamInv, NEW p \in Pipes,
                     pstate[p] = "open", pending_count[p] = 0
              PROVE  received[p] = produced[p]
    BY DEF NothingPendingMeansNothingLost, has_pending_transfers
<1>1. Window(p) = {}
    BY RingNumbers, MaxCountAssumption
    DEF Window, Slots, Distance, RingCore, RingIndices
<1>2. \A i \in Index, c \in Chunks : ~Holds(p, i, c)
    BY <1>1, HolderInWindow
<1>3. /\ received[p] <= produced[p]
      /\ ~(produced[p] \in Chunks /\ received[p] < produced[p]
           /\ produced[p] <= produced[p])
    BY <1>2 DEF StreamInv, AllChunksHeld
<1>4. received[p] \in 0..MaxChunks /\ produced[p] \in 0..MaxChunks
    BY DEF RingCore, TypeOK
<1>. QED
    BY <1>3, <1>4, MaxChunksAssumption DEF Chunks

(***************************************************************************)
(* Cancelling loses no data: when has_pending_transfers says that nothing  *)
(* is pending, the user has received every chunk the device sent.          *)
(***************************************************************************)
THEOREM NothingIsLost == Spec => []NothingPendingMeansNothingLost
BY CoreNothingLost, StreamCorrect, PTL

(***************************************************************************)
(* The chunks of an endpoint reach the user in the order in which the      *)
(* device sent them, each once, in whatever order URBs are discarded,      *)
(* finished and reaped.                                                    *)
(***************************************************************************)
THEOREM DeliveryIsInOrder == Spec => DeliveredInOrder
<1>1. ASSUME RingCore, StreamInv, [Next]_vars, NEW p \in Pipes
      PROVE  received'[p] \in {received[p], received[p] + 1}
    <2>1. CASE \E q \in Pipes : handle_finished_transfer(q)
        <3>1. PICK q \in Pipes : handle_finished_transfer(q)
            BY <2>1
        <3>2. CASE p = q
            BY <1>1, <3>1, <3>2, RingStep, StreamHandOver
        <3>3. CASE p # q
            BY <1>1, <3>1, <3>3 DEF handle_finished_transfer, RingCore, TypeOK
        <3>. QED
            BY <3>2, <3>3
    <2>2. CASE ~(\E q \in Pipes : handle_finished_transfer(q))
        <3>1. received' = received
            BY <1>1, <2>2
            DEF Next, Continue, Terminated, vars, async_in_pipe_create,
                allocate_transfers, start_endless_transfers, handle_events,
                cancel_transfers, async_in_pipe_close, start_submit,
                start_return, events_reap, events_return, cancel_discard,
                cancel_return, UrbCompletes, UrbKilled, generic_handle_close,
                Disconnect
        <3>. QED
            BY <3>1
    <2>. QED
        BY <2>1, <2>2
<1>2. RingCore /\ StreamInv /\ [Next]_vars =>
          [\A p \in Pipes : received'[p] \in {received[p], received[p] + 1}]_vars
    BY <1>1
<1>. QED
    BY <1>2, StreamCorrect, PTL DEF Spec, DeliveredInOrder
=============================================================================
