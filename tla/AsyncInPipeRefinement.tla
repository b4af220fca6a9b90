----------------------- MODULE AsyncInPipeRefinement -----------------------
(***************************************************************************)
(* Proof that the asynchronous IN pipes implement the queue of requests of *)
(* TransferQueue, for any number of pipes, transfers and chunks: the       *)
(* window of the ring, read through the state of the kernel (QueueOf), is  *)
(* the queue.                                                              *)
(***************************************************************************)
EXTENDS AsyncInPipeProofs

Wait == [status |-> "waiting", chunk |-> 0]
NotSubmitted == [status |-> "submit", chunk |-> 0]
Reply == [status : Errors \cup {"waiting"}, chunk : 0..MaxChunks]

(* What a transfer that the kernel does not have was answered. *)
Settled(p, i) ==
    [status |-> error[p][i],
     chunk |-> IF error[p][i] = "submit" THEN 0 ELSE data[p][i]]

(***************************************************************************)
(* What the user will be answered for a transfer: a queued URB waits, the  *)
(* result of one that can be reaped counts already, and otherwise it is    *)
(* what the transfer has in memory.                                        *)
(***************************************************************************)
AnswersAreKnown ==
    \A p \in Pipes, i \in Index :
        /\ Queued(p, i) # {} => Answered(p, i) = Wait
        /\ \A k \in Reapable(p, i) : Answered(p, i) =
               [status |-> completed[k].status, chunk |-> completed[k].chunk]
        /\ ~InKernel(p, i) => Answered(p, i) = Settled(p, i)
        /\ Answered(p, i) \in Reply
        /\ Answered(p, i) = Wait => Queued(p, i) # {}

LEMMA AnswersKnown == RingCore => AnswersAreKnown
<1>. SUFFICES ASSUME RingCore, NEW p \in Pipes, NEW i \in Index
              PROVE  /\ Queued(p, i) # {} => Answered(p, i) = Wait
                     /\ \A k \in Reapable(p, i) : Answered(p, i) =
                            [status |-> completed[k].status, chunk |-> completed[k].chunk]
                     /\ ~InKernel(p, i) => Answered(p, i) = Settled(p, i)
                     /\ Answered(p, i) \in Reply
                     /\ Answered(p, i) = Wait => Queued(p, i) # {}
    BY DEF AnswersAreKnown
<1>1. Queued(p, i) # {} => Answered(p, i) = Wait
    BY DEF Answered, Wait
<1>2. ASSUME NEW k \in Reapable(p, i)
      PROVE  Answered(p, i) =
                 [status |-> completed[k].status, chunk |-> completed[k].chunk]
    <2>1. Queued(p, i) = {}
        BY DEF Reapable, Queued, RingCore, KernelHasPending
    <2>2. \A l \in Reapable(p, i) : l = k
        BY DEF Reapable, RingCore, KernelHasPending
    <2>3. (CHOOSE l \in Reapable(p, i) : TRUE) = k
        BY <2>2
    <2>. QED
        BY <2>1, <2>3 DEF Answered
<1>3. ~InKernel(p, i) => Answered(p, i) = Settled(p, i)
    BY DEF Answered, InKernel, Settled
<1>4. \A k \in Reapable(p, i) :
          /\ completed[k].status \in Errors
          /\ completed[k].chunk \in 0..MaxChunks
    <2>. SUFFICES ASSUME NEW k \in 1..Len(completed)
                  PROVE  /\ completed[k].status \in Errors
                         /\ completed[k].chunk \in 0..MaxChunks
        BY DEF Reapable
    <2>1. completed[k] \in Completion
        BY DEF RingCore, TypeOK
    <2>. QED
        BY <2>1 DEF Completion
<1>5. /\ error[p][i] \in Errors
      /\ data[p][i] \in 0..MaxChunks
      /\ 0 \in 0..MaxChunks
    BY MaxChunksAssumption DEF RingCore, TypeOK
<1>6. "waiting" \notin Errors
    BY DEF Errors
<1>7. CASE Queued(p, i) # {}
    <2>1. Wait \in Reply
        BY <1>5 DEF Wait, Reply
    <2>. QED
        BY <1>1, <1>2, <1>3, <1>7, <2>1
<1>8. CASE Queued(p, i) = {} /\ Reapable(p, i) # {}
    <2>1. PICK k \in Reapable(p, i) : TRUE
        BY <1>8
    <2>2. Answered(p, i) =
              [status |-> completed[k].status, chunk |-> completed[k].chunk]
        BY <1>2
    <2>3. Answered(p, i) \in Reply /\ Answered(p, i) # Wait
        BY <2>2, <1>4, <1>6 DEF Wait, Reply
    <2>. QED
        BY <1>2, <1>8, <2>3 DEF InKernel
<1>9. CASE ~InKernel(p, i)
    <2>1. Settled(p, i) \in Reply /\ Settled(p, i) # Wait
        BY <1>5, <1>6 DEF Settled, Wait, Reply
    <2>. QED
        BY <1>3, <1>9, <2>1 DEF InKernel
<1>. QED
    BY <1>7, <1>8, <1>9 DEF InKernel

LEMMA AnswersKnownNext == RingCore' => AnswersAreKnown'
BY AnswersKnown, PTL

-----------------------------------------------------------------------------
(* Queues as functions.                                                    *)

LEMMA FunctionIsQueue ==
    ASSUME NEW S, NEW n \in Nat, NEW f \in [1..n -> S]
    PROVE  f \in Seq(S) /\ Len(f) = n /\ DOMAIN f = 1..n
<1>1. f \in Seq(S)
    OBVIOUS
<1>. QED
    BY <1>1

(* One more at the end. *)
LEMMA AppendIsExtension ==
    ASSUME NEW S, NEW n \in Nat, NEW f \in [1..n -> S], NEW r \in S,
           NEW g \in [1..n + 1 -> S], \A k \in 1..n : g[k] = f[k], g[n + 1] = r
    PROVE  g = Append(f, r)
<1>1. f \in Seq(S) /\ Len(f) = n /\ g \in Seq(S) /\ Len(g) = n + 1
    BY FunctionIsQueue
<1>2. /\ Append(f, r) \in Seq(S) /\ Len(Append(f, r)) = n + 1
      /\ Append(f, r)[n + 1] = r
      /\ \A k \in 1..n : Append(f, r)[k] = f[k]
    BY <1>1
<1>3. \A k \in 1..n + 1 : g[k] = Append(f, r)[k]
    BY <1>2
<1>. QED
    BY <1>1, <1>2, <1>3

(* One less at the beginning. *)
LEMMA TailIsShift ==
    ASSUME NEW S, NEW n \in Nat \ {0}, NEW f \in [1..n -> S],
           NEW g \in [1..n - 1 -> S], \A k \in 1..n - 1 : g[k] = f[k + 1]
    PROVE  /\ g = Tail(f) /\ Head(f) = f[1] /\ f # <<>>
           /\ Tail(f) \in [1..n - 1 -> S]
<1>1. f \in Seq(S) /\ Len(f) = n /\ g \in Seq(S) /\ Len(g) = n - 1
    BY FunctionIsQueue
<1>2. f # <<>> /\ Head(f) = f[1]
    BY <1>1
<1>3. /\ Tail(f) \in Seq(S) /\ Len(Tail(f)) = n - 1
      /\ \A k \in 1..n - 1 : Tail(f)[k] = f[k + 1]
    BY <1>1, <1>2
<1>4. g = Tail(f)
    BY <1>1, <1>3
<1>. QED
    BY <1>2, <1>4

-----------------------------------------------------------------------------
(* The queue of a pipe.                                                    *)

(* The k-th request is the transfer k - 1 slots behind next_finish. *)
LEMMA SlotFacts ==
    ASSUME RingCore, NEW p \in Pipes, NEW k \in 1..transfer_count[p]
    PROVE  /\ Slot(p, k) \in Slots(p) /\ Slot(p, k) \in Index
           /\ Distance(p, Slot(p, k)) = k - 1
           /\ transfer_count[p] # 0
<1>0. transfer_count[p] # 0 /\ k \in Nat /\ k # 0 /\ k <= transfer_count[p]
    BY RingNumbers
<1>1. next_finish[p] < transfer_count[p]
    BY <1>0 DEF RingCore, RingIndices
<1>. QED
    BY <1>0, <1>1, RingNumbers, MaxCountAssumption DEF Slot, Slots, Distance, Index

(* Every slot of the window is the transfer of one request. *)
LEMMA RequestOfSlot ==
    ASSUME RingCore, NEW p \in Pipes, NEW i \in Window(p)
    PROVE  /\ Distance(p, i) + 1 \in 1..pending_count[p]
           /\ Slot(p, Distance(p, i) + 1) = i
<1>1. i \in Slots(p) /\ Distance(p, i) < pending_count[p] /\ transfer_count[p] # 0
    BY RingNumbers DEF Window, Slots
<1>2. next_finish[p] < transfer_count[p]
    BY <1>1 DEF RingCore, RingIndices
<1>. QED
    BY <1>1, <1>2, RingNumbers DEF Slot, Slots, Distance

(* The queue of an open pipe as a function. *)
LEMMA QueueFacts ==
    ASSUME RingCore, NEW p \in Pipes, pstate[p] = "open"
    PROVE  /\ QueueOf(p) \in [1..pending_count[p] -> Reply]
           /\ QueueOf(p) \in Seq(Reply) /\ Len(QueueOf(p)) = pending_count[p]
           /\ \A k \in 1..pending_count[p] : QueueOf(p)[k] = Answered(p, Slot(p, k))
<1>1. \A k \in 1..pending_count[p] : k \in 1..transfer_count[p]
    BY RingNumbers
<1>2. \A k \in 1..pending_count[p] : Slot(p, k) \in Index
    BY <1>1, SlotFacts
<1>3. \A k \in 1..pending_count[p] : Answered(p, Slot(p, k)) \in Reply
    BY <1>2, AnswersKnown DEF AnswersAreKnown
<1>4. QueueOf(p) = [k \in 1..pending_count[p] |-> Answered(p, Slot(p, k))]
    BY DEF QueueOf
<1>5. QueueOf(p) \in [1..pending_count[p] -> Reply]
    BY <1>3, <1>4
<1>. QED
    BY <1>4, <1>5, RingNumbers, FunctionIsQueue


(* A transfer that a step does not touch is answered the same. *)
LEMMA AnsweredFrame ==
    ASSUME NEW q \in Pipes, NEW i \in Index, inflight'[q] = inflight[q],
           completed' = completed, error'[q][i] = error[q][i],
           data'[q][i] = data[q][i]
    PROVE  Answered(q, i)' = Answered(q, i)
<1>1. Queued(q, i)' = Queued(q, i) /\ Reapable(q, i)' = Reapable(q, i)
    BY DEF Queued, Reapable
<1>. QED
    BY <1>1 DEF Answered

(* A pipe whose ring and answers do not change keeps its queue. *)
LEMMA QueueFrame ==
    ASSUME RingCore, NEW q \in Pipes, pstate'[q] = pstate[q],
           pstate[q] = "open" =>
               /\ transfer_count'[q] = transfer_count[q]
               /\ pending_count'[q] = pending_count[q]
               /\ next_finish'[q] = next_finish[q]
               /\ \A i \in Index : Answered(q, i)' = Answered(q, i)
    PROVE  QueueOf(q)' = QueueOf(q)
<1>1. CASE pstate[q] = "open"
    <2>1. ASSUME NEW k \in 1..pending_count[q]
          PROVE  Answered(q, Slot(q, k))' = Answered(q, Slot(q, k))
        <3>1. k \in 1..transfer_count[q]
            BY RingNumbers
        <3>2. Slot(q, k) \in Index
            BY <3>1, SlotFacts
        <3>3. Slot(q, k)' = Slot(q, k)
            BY <1>1 DEF Slot
        <3>. QED
            BY <1>1, <3>2, <3>3
    <2>. QED
        BY <1>1, <2>1 DEF QueueOf
<1>2. CASE pstate[q] # "open"
    BY <1>2 DEF QueueOf
<1>. QED
    BY <1>1, <1>2


-----------------------------------------------------------------------------
(* Every step of the pipes is a step of the queues, or none.               *)

QueueStep == [QueueView!Next]_(QueueView!queueVars)

(* Calls that are entered or return, and the unplugging of the device. *)
LEMMA QuietQueue ==
    ASSUME RingCore,
           UNCHANGED <<pstate, pipeVars, error, data, inflight, completed,
                       produced, received>>
    PROVE  QueueStep
<1>1. \A q \in Pipes : QueueOf(q)' = QueueOf(q)
    BY QueueFrame, AnsweredFrame DEF pipeVars
<1>. QED
    BY <1>1 DEF QueueStep, QueueView!queueVars, pipeVars

(* start_endless_transfers and cancel_transfers switch the endless mode. *)
LEMMA EnableQueue ==
    ASSUME RingCore, NEW p \in Pipes,
           start_endless_transfers(p) \/ cancel_transfers(p)
    PROVE  QueueStep
<1>1. \A q \in Pipes : QueueOf(q)' = QueueOf(q)
    BY QueueFrame, AnsweredFrame
       DEF start_endless_transfers, cancel_transfers, transferVars, kernelVars
<1>2. CASE start_endless_transfers(p)
    <2>1. QueueView!Enable(p, TRUE)
        BY <1>1, <1>2 DEF QueueView!Enable, start_endless_transfers, CanCall,
               transferVars, kernelVars
    <2>. QED
        BY <2>1 DEF QueueStep, QueueView!Next
<1>3. CASE cancel_transfers(p)
    <2>1. QueueView!Enable(p, FALSE)
        BY <1>1, <1>3 DEF QueueView!Enable, cancel_transfers, CanCall,
               transferVars, kernelVars
    <2>. QED
        BY <2>1 DEF QueueStep, QueueView!Next
<1>. QED
    BY <1>2, <1>3

LEMMA CreateQueue ==
    ASSUME RingCore, NEW p \in Pipes, async_in_pipe_create(p)
    PROVE  QueueStep
<1>1. ASSUME NEW q \in Pipes PROVE QueueOf(q)' = QueueOf(q)
    <2>1. CASE q = p
        <3>1. pending_count'[p] = 0
            BY EmptyRing DEF RingCore, PipeLife, async_in_pipe_create, pipeVars
        <3>2. QueueOf(p) = <<>>
            BY DEF QueueOf, async_in_pipe_create
        <3>3. pstate'[p] = "open"
            BY DEF async_in_pipe_create, RingCore, TypeOK
        <3>4. QueueOf(p)' = [k \in 1..0 |-> Answered(p, Slot(p, k))']
            BY <3>1, <3>3 DEF QueueOf
        <3>5. [k \in 1..0 |-> Answered(p, Slot(p, k))'] = <<>>
            OBVIOUS
        <3>. QED
            BY <2>1, <3>2, <3>4, <3>5
    <2>2. CASE q # p
        BY <2>2, QueueFrame, AnsweredFrame
           DEF async_in_pipe_create, RingCore, TypeOK, pipeVars, transferVars, kernelVars
    <2>. QED
        BY <2>1, <2>2
<1>2. QueueView!Open(p)
    BY <1>1 DEF QueueView!Open, async_in_pipe_create, pipeVars, kernelVars
<1>. QED
    BY <1>2 DEF QueueStep, QueueView!Next

LEMMA AllocateQueue ==
    ASSUME RingCore, NEW p \in Pipes, NEW count \in 1..MaxCount,
           allocate_transfers(p, count)
    PROVE  QueueStep
<1>1. ASSUME NEW q \in Pipes PROVE QueueOf(q)' = QueueOf(q)
    <2>1. CASE q = p
        <3>1. pending_count[p] = 0 /\ pending_count'[p] = 0
            BY EmptyRing DEF allocate_transfers
        <3>2. pstate[p] = "open" /\ pstate'[p] = "open"
            BY DEF allocate_transfers, CanCall
        <3>3. QueueOf(p) = [k \in 1..0 |-> Answered(p, Slot(p, k))]
            BY <3>1, <3>2 DEF QueueOf
        <3>4. QueueOf(p)' = [k \in 1..0 |-> Answered(p, Slot(p, k))']
            BY <3>1, <3>2 DEF QueueOf
        <3>. QED
            BY <2>1, <3>3, <3>4
    <2>2. CASE q # p
        BY <2>2, QueueFrame, AnsweredFrame
           DEF allocate_transfers, RingCore, TypeOK, kernelVars
    <2>. QED
        BY <2>1, <2>2
<1>2. QueueView!Allocate(p, count)
    BY <1>1 DEF QueueView!Allocate, allocate_transfers, CanCall, kernelVars
<1>. QED
    BY <1>2 DEF QueueStep, QueueView!Next

(* Closing a pipe gives up its queue. *)
LEMMA CloseQueue ==
    ASSUME RingCore, NEW p \in Pipes, async_in_pipe_close(p)
    PROVE  QueueStep
<1>1. \A q \in Pipes \ {p} : QueueOf(q)' = QueueOf(q)
    BY QueueFrame, AnsweredFrame
       DEF async_in_pipe_close, RingCore, TypeOK, pipeVars, kernelVars
<1>2. QueueOf(p)' = <<>>
    BY DEF QueueOf, async_in_pipe_close, RingCore, TypeOK
<1>3. [q \in Pipes |-> QueueOf(q)'] =
          [[q \in Pipes |-> QueueOf(q)] EXCEPT ![p] = <<>>]
    BY <1>1, <1>2
<1>4. QueueView!Close(p)
    BY <1>3 DEF QueueView!Close, async_in_pipe_close, CanCall, pipeVars, kernelVars
<1>. QED
    BY <1>4 DEF QueueStep, QueueView!Next

(* Closing the handle: no pipe is open, and closed pipes have no queue. *)
LEMMA HandleCloseQueue ==
    ASSUME RingCore, generic_handle_close
    PROVE  QueueStep
<1>1. \A q \in Pipes : QueueOf(q)' = QueueOf(q)
    BY QueueFrame DEF generic_handle_close
<1>. QED
    BY <1>1 DEF QueueStep, QueueView!queueVars, generic_handle_close, pipeVars


(***************************************************************************)
(* Reaping moves the result of a URB from the kernel to its transfer: the  *)
(* queue of no pipe changes, whichever pipe asked for events.              *)
(***************************************************************************)
LEMMA ReapQueue ==
    ASSUME RingCore, RingCore', completed # <<>>,
           async_in_transfer_handle_completion(Head(completed)),
           completed' = Tail(completed), inflight' = inflight,
           UNCHANGED <<pstate, pipeVars, produced, received>>
    PROVE  QueueStep
<1>. DEFINE u == completed[1]
<1>0. /\ completed \in Seq(Completion) /\ completed # <<>>
      /\ u = Head(completed) /\ 1 \in 1..Len(completed)
      /\ completed' = Tail(completed)
    BY DEF RingCore, TypeOK
<1>1. u.pipe \in Pipes /\ u.i \in Index /\ u.status # "submit"
    <2>1. u \in Completion
        BY <1>0
    <2>. QED
        BY <2>1 DEF Completion, Errors
<1>2. /\ Len(completed') = Len(completed) - 1
      /\ \A k \in 1..Len(completed') :
             completed'[k] = completed[k + 1] /\ k + 1 \in 1..Len(completed)
      /\ \A k \in 1..Len(completed) :
             k # 1 => k - 1 \in 1..Len(completed') /\ completed'[k - 1] = completed[k]
    BY <1>0
<1>3. /\ \A q \in Pipes, i \in Index : q # u.pipe \/ i # u.i =>
             error'[q][i] = error[q][i] /\ data'[q][i] = data[q][i]
      /\ error'[u.pipe][u.i] = u.status /\ data'[u.pipe][u.i] = u.chunk
    <2>1. /\ error' = [error EXCEPT ![u.pipe][u.i] = u.status]
          /\ data' = [data EXCEPT ![u.pipe][u.i] = u.chunk]
        BY <1>0 DEF async_in_transfer_handle_completion
    <2>2. error \in [Pipes -> [Index -> Errors]]
        BY DEF RingCore, TypeOK
    <2>3. data \in [Pipes -> [Index -> 0..MaxChunks]]
        BY DEF RingCore, TypeOK
    <2>4. /\ \A q \in Pipes, i \in Index : q # u.pipe \/ i # u.i =>
                 error'[q][i] = error[q][i]
          /\ error'[u.pipe][u.i] = u.status
        BY <1>1, <2>1, <2>2
    <2>5. /\ \A q \in Pipes, i \in Index : q # u.pipe \/ i # u.i =>
                 data'[q][i] = data[q][i]
          /\ data'[u.pipe][u.i] = u.chunk
        BY <1>1, <2>1, <2>3
    <2>. QED
        BY <2>4, <2>5
<1>4. \A q \in Pipes, i \in Index : Queued(q, i)' = Queued(q, i)
    BY DEF Queued
<1>5. AnswersAreKnown /\ AnswersAreKnown'
    BY AnswersKnown, AnswersKnownNext
<1>6. ASSUME NEW q \in Pipes, NEW i \in Index
      PROVE  Answered(q, i)' = Answered(q, i)
    <2>1. CASE q = u.pipe /\ i = u.i
        <3>1. 1 \in Reapable(q, i)
            BY <1>0, <2>1 DEF Reapable
        <3>2. Answered(q, i) = [status |-> u.status, chunk |-> u.chunk]
            BY <1>5, <3>1 DEF AnswersAreKnown
        <3>3. Queued(q, i) = {}
            BY <1>0, <2>1 DEF Queued, RingCore, KernelHasPending
        <3>4. Reapable(q, i)' = {}
            BY <1>0, <1>2, <2>1 DEF Reapable, RingCore, KernelHasPending
        <3>5. Answered(q, i)' = Settled(q, i)'
            BY <1>4, <1>5, <3>3, <3>4 DEF AnswersAreKnown, InKernel
        <3>6. Settled(q, i)' = [status |-> u.status, chunk |-> u.chunk]
            BY <1>1, <1>3, <2>1 DEF Settled
        <3>. QED
            BY <3>2, <3>5, <3>6
    <2>2. CASE ~(q = u.pipe /\ i = u.i) /\ Queued(q, i) # {}
        BY <1>4, <1>5, <2>2 DEF AnswersAreKnown, Wait
    <2>3. CASE ~(q = u.pipe /\ i = u.i) /\ Reapable(q, i) # {}
        <3>1. PICK k \in Reapable(q, i) : TRUE
            BY <2>3
        <3>2. k \in 1..Len(completed) /\ k # 1
            BY <2>3, <3>1 DEF Reapable
        <3>3. k - 1 \in Reapable(q, i)' /\ completed'[k - 1] = completed[k]
            BY <1>2, <3>1, <3>2 DEF Reapable
        <3>4. Answered(q, i) =
                  [status |-> completed[k].status, chunk |-> completed[k].chunk]
            BY <1>5, <3>1 DEF AnswersAreKnown
        <3>5. Answered(q, i)' = [status |-> completed'[k - 1].status,
                                 chunk |-> completed'[k - 1].chunk]
            BY <1>5, <3>3 DEF AnswersAreKnown
        <3>. QED
            BY <3>3, <3>4, <3>5
    <2>4. CASE ~(q = u.pipe /\ i = u.i) /\ ~InKernel(q, i)
        <3>1. Reapable(q, i)' = {}
            BY <1>2, <2>4 DEF Reapable, InKernel
        <3>2. Answered(q, i) = Settled(q, i) /\ Answered(q, i)' = Settled(q, i)'
            BY <1>4, <1>5, <2>4, <3>1 DEF AnswersAreKnown, InKernel
        <3>. QED
            BY <1>3, <2>4, <3>2 DEF Settled
    <2>. QED
        BY <2>1, <2>2, <2>3, <2>4 DEF InKernel
<1>7. \A q \in Pipes : QueueOf(q)' = QueueOf(q)
    BY <1>6, QueueFrame DEF pipeVars
<1>. QED
    BY <1>7 DEF QueueStep, QueueView!queueVars, pipeVars


-----------------------------------------------------------------------------
(* Submitting and handing over.                                            *)

(* QueueFacts for all pipes, so that it can be used after a step too. *)
QueuesAreKnown ==
    \A p \in Pipes : pstate[p] = "open" =>
        /\ QueueOf(p) \in [1..pending_count[p] -> Reply]
        /\ \A k \in 1..pending_count[p] : QueueOf(p)[k] = Answered(p, Slot(p, k))

LEMMA QueuesKnown == RingCore => QueuesAreKnown
BY QueueFacts DEF QueuesAreKnown

LEMMA QueuesKnownNext == RingCore' => QueuesAreKnown'
BY QueuesKnown, PTL

(* A submitted transfer waits, or failed; all others are as they were. *)
LEMMA SubmittedAnswer ==
    ASSUME RingCore, RingCore', NEW p \in Pipes, ~pending[p][next_submit[p]],
           submit_next_transfer(p), UNCHANGED <<completed, data>>
    PROVE  /\ \A i \in Index : i = next_submit[p] =>
                  Answered(p, i)' \in {Wait, NotSubmitted}
           /\ \A q \in Pipes, i \in Index : q # p \/ i # next_submit[p] =>
                  Answered(q, i)' = Answered(q, i)
<1>0. AnswersAreKnown'
    BY AnswersKnownNext
<1>1. ASSUME NEW i \in Index, i = next_submit[p]
      PROVE  Answered(p, i)' \in {Wait, NotSubmitted}
    <2>1. CASE Queued(p, i)' # {}
        BY <1>0, <2>1 DEF AnswersAreKnown, Wait
    <2>2. CASE Queued(p, i)' = {}
        <3>1. Reapable(p, i)' = {}
            BY <1>1, SubmitEffect DEF Reapable
        <3>2. Answered(p, i)' = Settled(p, i)'
            BY <1>0, <2>2, <3>1 DEF AnswersAreKnown, InKernel
        <3>3. CASE inflight' = [inflight EXCEPT ![p] = Append(@, i)]
            <4>1. inflight[p] \in Seq(Index) /\ inflight'[p] = Append(inflight[p], i)
                BY <3>3 DEF RingCore, TypeOK
            <4>2. Len(inflight[p]) + 1 \in Queued(p, i)'
                BY <4>1 DEF Queued
            <4>. QED
                BY <2>2, <4>2
        <3>4. CASE error' = [error EXCEPT ![p][i] = "submit"]
            <4>1. error'[p][i] = "submit"
                BY <3>4 DEF RingCore, TypeOK
            <4>. QED
                BY <3>2, <4>1 DEF Settled, NotSubmitted
        <3>. QED
            BY <1>1, <3>3, <3>4 DEF submit_next_transfer, async_in_transfer_submit
    <2>. QED
        BY <2>1, <2>2
<1>2. ASSUME NEW q \in Pipes, NEW i \in Index, q # p \/ i # next_submit[p]
      PROVE  Answered(q, i)' = Answered(q, i)
    <2>1. CASE q # p
        BY <1>2, <2>1, SubmitEffect, AnsweredFrame
    <2>2. CASE q = p /\ i # next_submit[p]
        <3>1. Queued(p, i)' = Queued(p, i)
            <4>1. inflight[p] \in Seq(Index)
                BY DEF RingCore, TypeOK
            <4>2. CASE inflight'[p] = inflight[p]
                BY <4>2 DEF Queued
            <4>3. CASE /\ Len(inflight'[p]) = Len(inflight[p]) + 1
                       /\ inflight'[p][Len(inflight[p]) + 1] = next_submit[p]
                       /\ \A k \in 1..Len(inflight[p]) :
                              inflight'[p][k] = inflight[p][k]
                BY <2>2, <4>1, <4>3 DEF Queued
            <4>. QED
                BY <4>2, <4>3, SubmitEffect
        <3>2. Reapable(p, i)' = Reapable(p, i) /\ error'[p][i] = error[p][i]
            BY <2>2, SubmitEffect DEF Reapable
        <3>. QED
            BY <2>2, <3>1, <3>2 DEF Answered
    <2>. QED
        BY <1>2, <2>1, <2>2
<1>. QED
    BY <1>1, <1>2

(***************************************************************************)
(* What submitting can lead to at once: the request waits, it could not be *)
(* made, or it is answered, with the next chunk only if nothing is queued  *)
(* before it.                                                              *)
(***************************************************************************)
Outcome(p, r) ==
    \/ r \in {Wait, NotSubmitted} /\ produced' = produced
    \/ /\ r \in QueueView!Answer
       /\ \/ r.chunk = 0 /\ produced' = produced
          \/ /\ r.chunk = produced[p] + 1 /\ inflight[p] = <<>>
             /\ produced' = [produced EXCEPT ![p] = r.chunk]

(* The abstract queue is asked when its queue gets one request more. *)
LEMMA AskStep ==
    ASSUME RingCore, NEW p \in Pipes, NEW q, NEW r, Outcome(p, r), Len(q) \in Nat,
           \A k \in 1..Len(q) : \E i \in Index : q[k] = Answered(p, i),
           \A o \in Pipes \ {p} : QueueOf(o)' = QueueOf(o),
           QueueOf(p)' = Append(q, r)
    PROVE  QueueView!Ask(p, q)
<1>1. [o \in Pipes |-> QueueOf(o)'] =
          [[o \in Pipes |-> QueueOf(o)] EXCEPT ![p] = Append(q, r)]
    OBVIOUS
<1>2. produced[p] \in 0..MaxChunks /\ produced \in [Pipes -> 0..MaxChunks]
    BY DEF RingCore, TypeOK
<1>3. QueueView!Send(p, r)
    <2>1. CASE r \in {Wait, NotSubmitted} /\ produced' = produced
        <3>1. r.chunk = 0
            BY <2>1 DEF Wait, NotSubmitted
        <3>. QED
            BY <1>2, <2>1, <3>1 DEF QueueView!Send
    <2>2. CASE r.chunk = 0 /\ produced' = produced
        BY <1>2, <2>2 DEF QueueView!Send
    <2>3. CASE /\ r.chunk = produced[p] + 1
               /\ produced' = [produced EXCEPT ![p] = r.chunk]
        <3>1. r.chunk # 0
            BY <1>2, <2>3
        <3>. QED
            BY <2>3, <3>1 DEF QueueView!Send
    <2>. QED
        BY <2>1, <2>2, <2>3 DEF Outcome
<1>4. CASE r \in {Wait, NotSubmitted}
    BY <1>1, <1>3, <1>4
       DEF QueueView!Ask, Wait, NotSubmitted, QueueView!Waiting, QueueView!NotMade
<1>5. CASE r \in QueueView!Answer
    <2>1. CASE r.chunk = 0
        <3>1. r \in QueueView!Answers(p, q, Len(q) + 1)
            BY <1>5, <2>1 DEF QueueView!Answers
        <3>. QED
            BY <1>1, <1>3, <3>1 DEF QueueView!Ask
    <2>2. CASE r.chunk = produced[p] + 1 /\ inflight[p] = <<>>
        <3>1. ASSUME NEW k \in 1..(Len(q) + 1) - 1 PROVE q[k] # QueueView!Waiting
            <4>1. k \in 1..Len(q)
                OBVIOUS
            <4>2. PICK i \in Index : q[k] = Answered(p, i)
                BY <4>1
            <4>3. Queued(p, i) = {}
                BY <2>2 DEF Queued
            <4>. QED
                BY <4>2, <4>3, AnswersKnown
                   DEF AnswersAreKnown, Wait, QueueView!Waiting
        <3>2. r \in QueueView!Answers(p, q, Len(q) + 1)
            BY <1>5, <2>2, <3>1 DEF QueueView!Answers
        <3>. QED
            BY <1>1, <1>3, <3>2 DEF QueueView!Ask
    <2>. QED
        BY <1>4, <2>1, <2>2 DEF Outcome
<1>. QED
    BY <1>4, <1>5 DEF Outcome

(***************************************************************************)
(* A step of the loop of start_endless_transfers, on any platform, is a    *)
(* request: s is the slot that was submitted and r what became of it.      *)
(***************************************************************************)
LEMMA RequestQueue ==
    ASSUME RingCore, RingCore', NEW p \in Pipes, NEW s \in Index,
           s = next_submit[p], InCall("start", p),
           pending_count[p] < transfer_count[p],
           pending_count' = [pending_count EXCEPT ![p] = @ + 1],
           transfer_count' = transfer_count, next_finish' = next_finish,
           pstate' = pstate, received' = received,
           endless_transfers_enabled' = endless_transfers_enabled,
           NEW r, Outcome(p, r), Answered(p, s)' = r,
           \A q \in Pipes, i \in Index : q # p \/ i # s =>
               Answered(q, i)' = Answered(q, i)
    PROVE  QueueStep
<1>. DEFINE n == pending_count[p]
<1>0. /\ pstate[p] = "open" /\ pstate'[p] = "open"
      /\ transfer_count[p] # 0 /\ n < transfer_count[p]
      /\ endless_transfers_enabled[p]
    BY RingNumbers DEF InCall, RingCore, CallConsistent
<1>1. n \in Nat /\ pending_count'[p] = n + 1
    BY RingNumbers DEF RingCore, TypeOK
<1>2. \A k \in 1..n + 1 : Slot(p, k)' = Slot(p, k)
    BY DEF Slot
<1>3. /\ QueueOf(p) \in [1..n -> Reply]
      /\ \A k \in 1..n : QueueOf(p)[k] = Answered(p, Slot(p, k))
    BY <1>0, QueuesKnown DEF QueuesAreKnown
<1>4. /\ QueueOf(p)' \in [1..n + 1 -> Reply]
      /\ \A k \in 1..n + 1 : QueueOf(p)'[k] = Answered(p, Slot(p, k))'
    BY <1>0, <1>1, QueuesKnownNext DEF QueuesAreKnown
<1>5. \A k \in 1..n : Slot(p, k) \in Index /\ Slot(p, k) # s
    <2>. SUFFICES ASSUME NEW k \in 1..n PROVE Slot(p, k) \in Index /\ Slot(p, k) # s
        OBVIOUS
    <2>1. k \in 1..transfer_count[p]
        BY <1>0, <1>1, RingNumbers
    <2>2. Slot(p, k) \in Index /\ Distance(p, Slot(p, k)) = k - 1
        BY <2>1, SlotFacts
    <2>. QED
        BY <1>0, <1>1, <2>2, NextSubmitSlot
<1>6. ASSUME NEW k \in 1..n PROVE QueueOf(p)'[k] = QueueOf(p)[k]
    <2>1. k \in 1..n + 1
        BY <1>1
    <2>2. Answered(p, Slot(p, k))' = Answered(p, Slot(p, k))
        BY <1>2, <1>5, <2>1
    <2>. QED
        BY <1>3, <1>4, <2>1, <2>2
<1>7. QueueOf(p)'[n + 1] = r
    <2>1. Slot(p, n + 1) = s
        BY <1>0, <1>1, RingNumbers DEF Slot, RingCore, RingIndices
    <2>2. n + 1 \in 1..n + 1
        BY <1>1
    <2>. QED
        BY <1>1, <1>2, <1>4, <2>1, <2>2
<1>8. r \in Reply
    BY <1>1, <1>4, <1>7
<1>9. QueueOf(p)' = Append(QueueOf(p), r)
    BY <1>1, <1>3, <1>4, <1>6, <1>7, <1>8, AppendIsExtension
<1>10. \A q \in Pipes \ {p} : QueueOf(q)' = QueueOf(q)
    BY QueueFrame DEF RingCore, TypeOK
<1>11. Len(QueueOf(p)) = n
    BY <1>1, <1>3, FunctionIsQueue
<1>12. \A k \in 1..Len(QueueOf(p)) : \E i \in Index : QueueOf(p)[k] = Answered(p, i)
    BY <1>3, <1>5, <1>11
<1>13. QueueView!Ask(p, QueueOf(p))
    BY <1>1, <1>9, <1>10, <1>11, <1>12, AskStep
<1>14. QueueView!Request(p)
    BY <1>0, <1>11, <1>13 DEF QueueView!Request
<1>. QED
    BY <1>14 DEF QueueStep, QueueView!Next

(* One iteration of the loop of start_endless_transfers on Linux. *)
LEMMA SubmitQueue ==
    ASSUME RingCore, RingCore', NEW p \in Pipes, start_submit(p)
    PROVE  QueueStep
<1>1. PICK s \in Index : s = next_submit[p]
    BY RingNumbers
<1>2. /\ InCall("start", p) /\ pending_count[p] < transfer_count[p]
      /\ pending_count' = [pending_count EXCEPT ![p] = @ + 1]
      /\ transfer_count' = transfer_count /\ next_finish' = next_finish
      /\ pstate' = pstate /\ received' = received /\ produced' = produced
      /\ endless_transfers_enabled' = endless_transfers_enabled
      /\ submit_next_transfer(p) /\ UNCHANGED <<completed, data>>
    BY DEF start_submit
<1>3. ~pending[p][s]
    <2>1. transfer_count[p] # 0
        BY <1>2, RingNumbers
    <2>. QED
        BY <1>1, <1>2, <2>1, NextSubmitSlot
<1>4. /\ Answered(p, s)' \in {Wait, NotSubmitted}
      /\ \A q \in Pipes, i \in Index : q # p \/ i # s =>
             Answered(q, i)' = Answered(q, i)
    BY <1>1, <1>2, <1>3, SubmittedAnswer
<1>5. PICK r \in {Wait, NotSubmitted} : Answered(p, s)' = r
    BY <1>4
<1>6. Outcome(p, r)
    BY <1>2 DEF Outcome
<1>. QED
    BY <1>1, <1>2, <1>4, <1>5, <1>6, RequestQueue


(* When next_finish advances, every request moves up by one. *)
LEMMA SlotMovesUp ==
    ASSUME RingCore, NEW p \in Pipes, transfer_count[p] # 0,
           next_finish'[p] =
               increment_and_wrap_size(next_finish[p], transfer_count[p]),
           transfer_count'[p] = transfer_count[p]
    PROVE  /\ \A k \in 1..transfer_count[p] - 1 : Slot(p, k)' = Slot(p, k + 1)
           /\ \A k \in {transfer_count[p]} : Slot(p, k)' = next_finish[p]
           /\ Slot(p, 1) = next_finish[p]
<1>1. next_finish[p] < transfer_count[p]
    BY DEF RingCore, RingIndices
<1>2. transfer_count[p] \in Nat /\ next_finish[p] \in Nat
    BY RingNumbers
<1>3. CASE next_finish[p] + 1 >= transfer_count[p]
    <2>1. next_finish'[p] = 0
        BY <1>3 DEF increment_and_wrap_size
    <2>. QED
        BY <1>1, <1>2, <1>3, <2>1 DEF Slot
<1>4. CASE next_finish[p] + 1 < transfer_count[p]
    <2>1. next_finish'[p] = next_finish[p] + 1
        BY <1>2, <1>4 DEF increment_and_wrap_size
    <2>. QED
        BY <1>1, <1>2, <1>4, <2>1 DEF Slot
<1>. QED
    BY <1>2, <1>3, <1>4

(***************************************************************************)
(* Handing over the transfer at next_finish, on any platform, delivers the *)
(* head of the queue and, on an endless pipe, makes the next request: f is *)
(* the slot that is handed over, a its answer, and r what became of it     *)
(* when it was submitted again.                                            *)
(***************************************************************************)
LEMMA DeliverQueue ==
    ASSUME RingCore, RingCore', NEW p \in Pipes, NEW f \in Index,
           f = next_finish[p], CanCall(p), pending_count[p] # 0,
           pstate' = pstate, transfer_count' = transfer_count,
           endless_transfers_enabled' = endless_transfers_enabled,
           next_finish' = [next_finish EXCEPT
               ![p] = increment_and_wrap_size(@, transfer_count[p])],
           NEW a, Answered(p, f) = a, a # Wait,
           received' = [received EXCEPT ![p] = IF a.chunk = 0 THEN @ ELSE a.chunk],
           \A q \in Pipes, i \in Index : q # p \/ i # f =>
               Answered(q, i)' = Answered(q, i),
           NEW r,
           \/ /\ endless_transfers_enabled[p] /\ pending_count' = pending_count
              /\ Outcome(p, r) /\ Answered(p, f)' = r
           \/ /\ ~endless_transfers_enabled[p] /\ produced' = produced
              /\ pending_count' = [pending_count EXCEPT ![p] = @ - 1]
    PROVE  QueueStep
<1>. DEFINE n == pending_count[p]
            Q == QueueOf(p)
<1>0. /\ pstate[p] = "open" /\ pstate'[p] = "open"
      /\ n \in Nat /\ n # 0 /\ n <= transfer_count[p]
      /\ transfer_count[p] # 0 /\ transfer_count[p] \in Nat
    BY RingNumbers DEF CanCall
<1>1. /\ next_finish'[p] = increment_and_wrap_size(f, transfer_count[p])
      /\ \A q \in Pipes \ {p} : next_finish'[q] = next_finish[q]
    BY DEF RingCore, TypeOK
<1>2. /\ \A k \in 1..transfer_count[p] - 1 : Slot(p, k)' = Slot(p, k + 1)
      /\ \A k \in {transfer_count[p]} : Slot(p, k)' = f
      /\ Slot(p, 1) = f
    BY <1>0, <1>1, SlotMovesUp
<1>3. /\ Q \in [1..n -> Reply]
      /\ \A k \in 1..n : Q[k] = Answered(p, Slot(p, k))
    BY <1>0, QueuesKnown DEF QueuesAreKnown
<1>5. Q[1] = a
    <2>1. 1 \in 1..n
        BY <1>0
    <2>. QED
        BY <1>2, <1>3, <2>1
<1>6. \A k \in 1..n - 1 :
          /\ Slot(p, k)' = Slot(p, k + 1) /\ Slot(p, k + 1) \in Index
          /\ Slot(p, k + 1) # f
    <2>. SUFFICES ASSUME NEW k \in 1..n - 1
                  PROVE  /\ Slot(p, k)' = Slot(p, k + 1)
                         /\ Slot(p, k + 1) \in Index /\ Slot(p, k + 1) # f
        OBVIOUS
    <2>1. k \in 1..transfer_count[p] - 1 /\ k + 1 \in 1..transfer_count[p]
        BY <1>0
    <2>2. Slot(p, k + 1) \in Index /\ Distance(p, Slot(p, k + 1)) = (k + 1) - 1
        BY <2>1, SlotFacts
    <2>3. Distance(p, f) = 0
        BY <1>0, NextSubmitSlot
    <2>. QED
        BY <1>2, <2>1, <2>2, <2>3
<1>7. /\ Q # <<>> /\ Head(Q) = Q[1] /\ Tail(Q) \in [1..n - 1 -> Reply]
      /\ \A k \in 1..n - 1 : Tail(Q)[k] = Q[k + 1]
    <2>. DEFINE g == [k \in 1..n - 1 |-> Q[k + 1]]
    <2>1. g \in [1..n - 1 -> Reply] /\ \A k \in 1..n - 1 : g[k] = Q[k + 1]
        BY <1>0, <1>3
    <2>. HIDE DEF g
    <2>2. /\ g = Tail(Q) /\ Head(Q) = Q[1] /\ Q # <<>>
          /\ Tail(Q) \in [1..n - 1 -> Reply]
        BY <1>0, <1>3, <2>1, TailIsShift
    <2>. QED
        BY <2>1, <2>2
<1>8. received' = [received EXCEPT ![p] = IF Head(Q).chunk = 0 THEN @ ELSE Head(Q).chunk]
    BY <1>5, <1>7
<1>9. Head(Q) # QueueView!Waiting
    BY <1>5, <1>7 DEF QueueView!Waiting, Wait
<1>10. CASE /\ ~endless_transfers_enabled[p] /\ produced' = produced
            /\ pending_count' = [pending_count EXCEPT ![p] = @ - 1]
    <2>1. /\ pending_count'[p] = n - 1 /\ n - 1 \in Nat
          /\ \A q \in Pipes \ {p} : pending_count'[q] = pending_count[q]
        BY <1>0, <1>10 DEF RingCore, TypeOK
    <2>3. /\ QueueOf(p)' \in [1..n - 1 -> Reply]
          /\ \A k \in 1..n - 1 : QueueOf(p)'[k] = Answered(p, Slot(p, k))'
        BY <1>0, <2>1, QueuesKnownNext DEF QueuesAreKnown
    <2>4. ASSUME NEW k \in 1..n - 1 PROVE QueueOf(p)'[k] = Q[k + 1]
        <3>1. k + 1 \in 1..n
            BY <1>0
        <3>2. Answered(p, Slot(p, k))' = Answered(p, Slot(p, k + 1))
            BY <1>6
        <3>. QED
            BY <1>3, <2>3, <3>1, <3>2
    <2>5. QueueOf(p)' = Tail(Q)
        BY <1>0, <1>3, <2>3, <2>4, TailIsShift
    <2>6. \A q \in Pipes \ {p} : QueueOf(q)' = QueueOf(q)
        BY <1>1, <2>1, QueueFrame
    <2>7. [q \in Pipes |-> QueueOf(q)'] =
              [[q \in Pipes |-> QueueOf(q)] EXCEPT ![p] = Tail(@)]
        BY <2>5, <2>6
    <2>8. QueueView!Deliver(p)
        BY <1>0, <1>7, <1>8, <1>9, <1>10, <2>7 DEF QueueView!Deliver
    <2>. QED
        BY <2>8 DEF QueueStep, QueueView!Next
<1>11. CASE /\ endless_transfers_enabled[p] /\ pending_count' = pending_count
            /\ Outcome(p, r) /\ Answered(p, f)' = r
    <2>1. n = transfer_count[p]
        <3>1. ~InCall("start", p)
            BY DEF CanCall, Idle, InCall
        <3>. QED
            BY <1>11, <3>1 DEF RingCore, EndlessIsFull
    <2>5. /\ QueueOf(p)' \in [1..n -> Reply]
          /\ \A k \in 1..n : QueueOf(p)'[k] = Answered(p, Slot(p, k))'
        BY <1>0, <1>11, QueuesKnownNext DEF QueuesAreKnown
    <2>6. ASSUME NEW k \in 1..n - 1
          PROVE  /\ QueueOf(p)'[k] = Tail(Q)[k]
                 /\ \E i \in Index : Tail(Q)[k] = Answered(p, i)
        <3>1. k + 1 \in 1..n /\ k \in 1..n
            BY <1>0
        <3>2. Answered(p, Slot(p, k))' = Answered(p, Slot(p, k + 1))
            BY <1>6
        <3>. QED
            BY <1>3, <1>6, <1>7, <2>5, <3>1, <3>2
    <2>7. QueueOf(p)'[n] = r
        <3>1. n \in 1..n /\ n \in {transfer_count[p]}
            BY <1>0, <2>1
        <3>. QED
            BY <1>0, <1>2, <1>11, <2>5, <3>1
    <2>8. QueueOf(p)' = Append(Tail(Q), r) /\ Len(Tail(Q)) = n - 1
        <3>1. (n - 1) + 1 = n /\ n - 1 \in Nat /\ n \in 1..n
            BY <1>0
        <3>2. r \in Reply
            BY <2>5, <2>7, <3>1
        <3>. DEFINE g == QueueOf(p)'
                    t == Tail(Q)
                    m == n - 1
        <3>3. /\ g \in [1..m + 1 -> Reply] /\ g[m + 1] = r
              /\ t \in [1..m -> Reply] /\ \A k \in 1..m : g[k] = t[k]
            BY <1>7, <2>5, <2>6, <2>7, <3>1
        <3>4. m \in Nat
            BY <3>1
        <3>. HIDE DEF g, t, m
        <3>5. g = Append(t, r) /\ Len(t) = m
            BY <3>2, <3>3, <3>4, AppendIsExtension, FunctionIsQueue
        <3>. QED
            BY <3>5 DEF g, t, m
    <2>9. \A q \in Pipes \ {p} : QueueOf(q)' = QueueOf(q)
        BY <1>1, <1>11, QueueFrame
    <2>10. QueueView!Ask(p, Tail(Q))
        <3>1. /\ Len(Tail(Q)) \in Nat
              /\ \A k \in 1..Len(Tail(Q)) : \E i \in Index :
                     Tail(Q)[k] = Answered(p, i)
            BY <1>0, <2>6, <2>8
        <3>. QED
            BY <1>11, <2>8, <2>9, <3>1, AskStep
    <2>11. QueueView!Deliver(p)
        BY <1>0, <1>7, <1>8, <1>9, <1>11, <2>10 DEF QueueView!Deliver
    <2>. QED
        BY <2>11 DEF QueueStep, QueueView!Next
<1>. QED
    BY <1>10, <1>11

(* handle_finished_transfer on Linux. *)
LEMMA HandOverQueue ==
    ASSUME RingCore, RingCore', NEW p \in Pipes, handle_finished_transfer(p)
    PROVE  QueueStep
<1>1. PICK f \in Index : f = next_finish[p]
    BY RingNumbers
<1>2. /\ CanCall(p) /\ pending_count[p] # 0 /\ ~pending[p][f]
      /\ pstate' = pstate /\ transfer_count' = transfer_count
      /\ endless_transfers_enabled' = endless_transfers_enabled
      /\ next_finish' = [next_finish EXCEPT
             ![p] = increment_and_wrap_size(@, transfer_count[p])]
      /\ produced' = produced
    BY <1>1 DEF handle_finished_transfer
<1>3. PICK a : a = Settled(p, f)
    OBVIOUS
<1>4. Answered(p, f) = a /\ a # Wait
    <2>1. ~InKernel(p, f)
        BY <1>2 DEF InKernel, Queued, Reapable, RingCore, KernelHasPending
    <2>. QED
        BY <1>3, <2>1, AnswersKnown DEF AnswersAreKnown, InKernel
<1>5. received' = [received EXCEPT ![p] = IF a.chunk = 0 THEN @ ELSE a.chunk]
    <2>1. a.chunk = IF error[p][f] = "submit" THEN 0 ELSE data[p][f]
        BY <1>3 DEF Settled
    <2>2. received' = [received EXCEPT ![p] =
              IF data[p][f] = 0 \/ error[p][f] = "submit" THEN received[p]
              ELSE data[p][f]]
        BY <1>1 DEF handle_finished_transfer, Taken, async_in_transfer_get_results
    <2>. QED
        BY <2>1, <2>2
<1>6. CASE ~endless_transfers_enabled[p]
    <2>1. pending_count' = [pending_count EXCEPT ![p] = @ - 1]
        BY <1>6 DEF handle_finished_transfer
    <2>2. \A q \in Pipes, i \in Index : Answered(q, i)' = Answered(q, i)
        BY <1>6, AnsweredFrame DEF handle_finished_transfer
    <2>. QED
        BY <1>1, <1>2, <1>4, <1>5, <1>6, <2>1, <2>2, DeliverQueue
<1>7. CASE endless_transfers_enabled[p]
    <2>1. next_submit[p] = f
        <3>1. ~InCall("start", p)
            BY <1>2 DEF CanCall, Idle, InCall
        <3>2. pending_count[p] = transfer_count[p] /\ transfer_count[p] # 0
            BY <1>2, <1>7, <3>1, RingNumbers DEF RingCore, EndlessIsFull
        <3>. QED
            BY <1>1, <3>2, NextSubmitSlot
    <2>2. /\ submit_next_transfer(p) /\ pending_count' = pending_count
          /\ UNCHANGED <<completed, data>>
        BY <1>7 DEF handle_finished_transfer
    <2>3. /\ Answered(p, f)' \in {Wait, NotSubmitted}
          /\ \A q \in Pipes, i \in Index : q # p \/ i # f =>
                 Answered(q, i)' = Answered(q, i)
        BY <1>2, <2>1, <2>2, SubmittedAnswer
    <2>4. PICK r \in {Wait, NotSubmitted} : Answered(p, f)' = r
        BY <2>3
    <2>5. Outcome(p, r)
        BY <1>2 DEF Outcome
    <2>. QED
        BY <1>1, <1>2, <1>4, <1>5, <1>7, <2>2, <2>3, <2>4, <2>5, DeliverQueue
<1>. QED
    BY <1>6, <1>7


-----------------------------------------------------------------------------
(* A URB ends: completed by the device, killed or discarded.               *)

LEMMA FinishAnswers ==
    ASSUME RingCore, RingCore', NEW p \in Pipes, NEW k \in 1..Len(inflight[p]),
           NEW status, NEW c, Finish(p, k, status, c), UNCHANGED transferVars
    PROVE  \A q \in Pipes, i \in Index :
               /\ q = p /\ i = inflight[p][k] =>
                      /\ Answered(q, i) = Wait
                      /\ Answered(q, i)' = [status |-> status, chunk |-> c]
               /\ q # p \/ i # inflight[p][k] => Answered(q, i)' = Answered(q, i)
<1>. DEFINE x == inflight[p][k]
            n == Len(completed)
            u == [pipe |-> p, i |-> x, status |-> status, chunk |-> c]
<1>0. AnswersAreKnown /\ AnswersAreKnown'
    BY AnswersKnown, AnswersKnownNext
<1>1. inflight[p] \in Seq(Index) /\ completed \in Seq(Completion)
    BY DEF RingCore, TypeOK
<1>2. /\ completed' = Append(completed, u)
      /\ inflight' = [inflight EXCEPT ![p] = Without(@, k)]
    BY DEF Finish
<1>3. /\ n \in Nat /\ Len(completed') = n + 1 /\ completed'[n + 1] = u
      /\ \A l \in 1..n : completed'[l] = completed[l]
    <2>. HIDE DEF u
    <2>1. completed' \in Seq(Completion)
        BY DEF RingCore, TypeOK
    <2>2. completed \in Seq(Completion \cup {u})
        BY <1>1
    <2>. QED
        BY <1>2, <2>1, <2>2
<1>4. /\ inflight'[p] = Without(inflight[p], k)
      /\ \A q \in Pipes \ {p} : inflight'[q] = inflight[q]
    BY <1>2 DEF RingCore, TypeOK
<1>5. /\ Len(inflight'[p]) = Len(inflight[p]) - 1
      /\ \A j \in 1..Len(inflight[p]) - 1 : inflight'[p][j] =
             IF j < k THEN inflight[p][j] ELSE inflight[p][j + 1]
    BY <1>1, <1>4, WithoutIsQueue
<1>6. ASSUME NEW i \in Index, i = x
      PROVE  /\ Answered(p, i) = Wait
             /\ Answered(p, i)' = [status |-> status, chunk |-> c]
    <2>1. k \in Queued(p, i)
        BY <1>6 DEF Queued
    <2>2. n + 1 \in Reapable(p, i)'
        BY <1>3, <1>6 DEF Reapable
    <2>3. Answered(p, i)' = [status |-> completed'[n + 1].status,
                             chunk |-> completed'[n + 1].chunk]
        BY <1>0, <2>2 DEF AnswersAreKnown
    <2>. QED
        BY <1>0, <1>3, <2>1, <2>3 DEF AnswersAreKnown
<1>7. ASSUME NEW q \in Pipes, NEW i \in Index, q # p \/ i # x
      PROVE  Answered(q, i)' = Answered(q, i)
    <2>1. Reapable(q, i)' = Reapable(q, i)
        BY <1>3, <1>7 DEF Reapable
    <2>2. Queued(q, i) # {} <=> Queued(q, i)' # {}
        <3>1. CASE q # p
            BY <1>4, <3>1 DEF Queued
        <3>2. CASE q = p /\ i # x
            <4>1. ASSUME NEW l \in Queued(p, i) PROVE Queued(p, i)' # {}
                <5>1. l \in 1..Len(inflight[p]) /\ inflight[p][l] = i /\ l # k
                    BY <3>2 DEF Queued
                <5>2. CASE l < k
                    <6>1. l \in 1..Len(inflight[p]) - 1
                        BY <1>1, <5>1, <5>2
                    <6>2. l \in Queued(p, i)'
                        BY <1>5, <5>1, <5>2, <6>1 DEF Queued
                    <6>. QED
                        BY <6>2
                <5>3. CASE l > k
                    <6>1. /\ l - 1 \in 1..Len(inflight[p]) - 1
                          /\ ~(l - 1 < k) /\ (l - 1) + 1 = l
                        BY <1>1, <5>1, <5>3
                    <6>2. l - 1 \in Queued(p, i)'
                        BY <1>5, <5>1, <6>1 DEF Queued
                    <6>. QED
                        BY <6>2
                <5>. QED
                    BY <1>1, <5>1, <5>2, <5>3
            <4>2. ASSUME NEW l \in Queued(p, i)' PROVE Queued(p, i) # {}
                <5>1. l \in 1..Len(inflight[p]) - 1 /\ inflight'[p][l] = i
                    BY <1>5 DEF Queued
                <5>2. l \in Queued(p, i) \/ l + 1 \in Queued(p, i)
                    BY <1>1, <1>5, <5>1 DEF Queued
                <5>. QED
                    BY <5>2
            <4>. QED
                BY <3>2, <4>1, <4>2
        <3>. QED
            BY <1>7, <3>1, <3>2
    <2>3. CASE Queued(q, i) # {}
        BY <1>0, <2>2, <2>3 DEF AnswersAreKnown, Wait
    <2>4. CASE Reapable(q, i) # {}
        <3>1. PICK l \in Reapable(q, i) : TRUE
            BY <2>4
        <3>2. completed'[l] = completed[l]
            BY <1>3, <3>1 DEF Reapable
        <3>. QED
            BY <1>0, <2>1, <3>1, <3>2 DEF AnswersAreKnown
    <2>5. CASE ~InKernel(q, i)
        <3>1. Answered(q, i) = Settled(q, i) /\ Answered(q, i)' = Settled(q, i)'
            BY <1>0, <2>1, <2>2, <2>5 DEF AnswersAreKnown, InKernel
        <3>. QED
            BY <3>1 DEF Settled, transferVars
    <2>. QED
        BY <2>3, <2>4, <2>5 DEF InKernel
<1>. QED
    BY <1>6, <1>7

(***************************************************************************)
(* The end of a URB answers the request of its transfer; data goes to the  *)
(* first URB of the endpoint, which belongs to the oldest request that     *)
(* waits.  On a closed pipe the data is lost.                              *)
(***************************************************************************)
LEMMA FinishQueue ==
    ASSUME RingCore, RingCore', StreamInv, NEW p \in Pipes,
           NEW k \in 1..Len(inflight[p]),
           NEW status \in {"none", "cancelled", "failed"},
           NEW c \in ChunksFor(p, k), Finish(p, k, status, c),
           UNCHANGED <<pstate, pipeVars, transferVars, received>>
    PROVE  QueueStep
<1>. DEFINE x == inflight[p][k]
            a == [status |-> status, chunk |-> c]
            Q == QueueOf(p)
<1>0. /\ c \in 0..MaxChunks
      /\ c # 0 => k = 1 /\ c = produced[p] + 1
      /\ produced[p] \in 0..MaxChunks
      /\ produced' = [produced EXCEPT ![p] = IF c = 0 THEN @ ELSE c]
    <2>1. c \in 0..MaxChunks /\ (c # 0 => k = 1 /\ c = produced[p] + 1)
        BY MaxChunksAssumption DEF ChunksFor
    <2>2. produced[p] \in 0..MaxChunks
        BY DEF RingCore, TypeOK
    <2>. QED
        BY <2>1, <2>2 DEF Finish
<1>1. x \in Index /\ x \in Window(p) /\ transfer_count[p] # 0
    BY QueuedInWindow
<1>2. pstate[p] # "none"
    BY <1>1 DEF RingCore, PipeLife
<1>3. /\ Answered(p, x) = Wait
      /\ \A i \in Index : i = x => Answered(p, i)' = a
      /\ \A q \in Pipes, i \in Index :
             q # p \/ i # x => Answered(q, i)' = Answered(q, i)
    BY <1>1, FinishAnswers
<1>4. \A q \in Pipes \ {p} : QueueOf(q)' = QueueOf(q)
    BY <1>3, QueueFrame DEF pipeVars
<1>5. CASE pstate[p] = "open"
    <2>. DEFINE m == Distance(p, x) + 1
    <2>1. /\ m \in 1..pending_count[p] /\ Slot(p, m) = x
          /\ pending_count[p] \in Nat /\ pending_count[p] <= transfer_count[p]
          /\ transfer_count[p] \in Nat /\ transfer_count[p] <= MaxCount
        BY <1>1, RequestOfSlot, RingNumbers
    <2>. HIDE DEF m
    <2>2. /\ Q \in [1..pending_count[p] -> Reply]
          /\ \A j \in 1..pending_count[p] : Q[j] = Answered(p, Slot(p, j))
        BY <1>5, QueuesKnown DEF QueuesAreKnown
    <2>3. /\ QueueOf(p)' \in [1..pending_count[p] -> Reply]
          /\ \A j \in 1..pending_count[p] : QueueOf(p)'[j] = Answered(p, Slot(p, j))'
        BY <1>5, QueuesKnownNext DEF QueuesAreKnown, pipeVars
    <2>4. \A j \in 1..pending_count[p] :
              /\ Slot(p, j)' = Slot(p, j) /\ Slot(p, j) \in Index
              /\ Distance(p, Slot(p, j)) = j - 1
        <3>1. \A j \in 1..pending_count[p] : j \in 1..transfer_count[p]
            BY <2>1
        <3>. QED
            BY <3>1, SlotFacts DEF Slot, pipeVars
    <2>5. ASSUME NEW j \in 1..pending_count[p], j # m
          PROVE  QueueOf(p)'[j] = Q[j]
        <3>1. Slot(p, j) # x
            BY <2>1, <2>4, <2>5
        <3>2. Answered(p, Slot(p, j))' = Answered(p, Slot(p, j))
            BY <1>3, <2>4, <3>1
        <3>. QED
            BY <2>2, <2>3, <3>2
    <2>6. QueueOf(p)'[m] = a
        BY <1>1, <1>3, <2>1, <2>3, <2>4
    <2>7. QueueOf(p)' = [Q EXCEPT ![m] = a]
        BY <2>1, <2>2, <2>3, <2>5, <2>6
    <2>8. [q \in Pipes |-> QueueOf(q)'] =
              [[q \in Pipes |-> QueueOf(q)] EXCEPT ![p][m] = a]
        BY <1>4, <2>7
    <2>9. Q[m] = QueueView!Waiting
        BY <1>3, <2>1, <2>2 DEF Wait, QueueView!Waiting
    <2>10. ASSUME c # 0, NEW j \in 1..m - 1
           PROVE  Q[j] # QueueView!Waiting
        <3>. SUFFICES ASSUME Q[j] = Wait PROVE FALSE
            BY DEF Wait, QueueView!Waiting
        <3>1. j \in 1..pending_count[p] /\ j < m
            BY <2>1
        <3>2. Answered(p, Slot(p, j)) = Wait
            BY <2>2, <3>1
        <3>3. Queued(p, Slot(p, j)) # {}
            BY <2>4, <3>1, <3>2, AnswersKnown DEF AnswersAreKnown
        <3>4. PICK l \in 1..Len(inflight[p]) : inflight[p][l] = Slot(p, j)
            BY <3>3 DEF Queued
        <3>5. Distance(p, inflight[p][l]) < Distance(p, x)
            BY <2>1, <2>4, <3>1, <3>4
        <3>6. Distance(p, x) \in Int /\ Distance(p, inflight[p][l]) \in Int
            BY <2>1, <2>4, <3>1, <3>4
        <3>7. k = 1 /\ Len(inflight[p]) \in Nat
            BY <1>0, <2>10 DEF RingCore, TypeOK
        <3>8. CASE l = k
            BY <3>5, <3>6, <3>8
        <3>9. CASE k < l
            <4>1. Distance(p, x) < Distance(p, inflight[p][l])
                BY <1>5, <3>9 DEF StreamInv, QueueInRingOrder
            <4>. QED
                BY <3>5, <3>6, <4>1
        <3>. QED
            BY <3>7, <3>8, <3>9
    <2>11. a \in QueueView!Answers(p, Q, m)
        BY <1>0, <2>10 DEF QueueView!Answers, QueueView!Answer
    <2>12. QueueView!Send(p, a)
        BY <1>0 DEF QueueView!Send
    <2>13. m \in 1..Len(Q) /\ m \in 1..MaxCount
        <3>. HIDE DEF Q
        <3>1. pending_count[p] \in Nat /\ Q \in [1..pending_count[p] -> Reply]
            BY <2>1, <2>2
        <3>2. Len(Q) = pending_count[p]
            BY <3>1, FunctionIsQueue
        <3>. QED
            BY <2>1, <3>2, MaxCountAssumption
    <2>14. QueueView!Respond(p, m)
        <3>1. [q \in Pipes |-> QueueOf(q)][p] = Q
            OBVIOUS
        <3>. HIDE DEF Q, a
        <3>. QED
            BY <2>8, <2>9, <2>11, <2>12, <2>13, <3>1
               DEF QueueView!Respond, pipeVars
    <2>. QED
        BY <2>13, <2>14 DEF QueueStep, QueueView!Next
<1>6. CASE pstate[p] = "closed"
    <2>1. QueueOf(p)' = QueueOf(p)
        BY <1>6 DEF QueueOf
    <2>2. CASE c = 0
        BY <1>0, <1>4, <2>1, <2>2
           DEF QueueStep, QueueView!queueVars, pipeVars, RingCore, TypeOK
    <2>3. CASE c # 0
        <3>1. QueueView!Lose(p)
            <4>1. produced[p] < MaxChunks
                BY <1>0, <2>3, MaxChunksAssumption
            <4>2. produced' = [produced EXCEPT ![p] = @ + 1]
                BY <1>0, <2>3
            <4>3. [q \in Pipes |-> QueueOf(q)'] = [q \in Pipes |-> QueueOf(q)]
                BY <1>4, <2>1
            <4>. QED
                BY <1>6, <4>1, <4>2, <4>3 DEF QueueView!Lose, pipeVars
        <3>. QED
            BY <3>1 DEF QueueStep, QueueView!Next
    <2>. QED
        BY <2>2, <2>3
<1>. QED
    BY <1>2, <1>5, <1>6 DEF RingCore, TypeOK


(* The three ways in which the kernel ends a URB. *)
LEMMA UrbEndQueue ==
    ASSUME RingCore, RingCore', StreamInv, NEW p \in Pipes,
           UrbCompletes(p) \/ UrbKilled(p) \/ cancel_discard(p)
    PROVE  QueueStep
<1>0. inflight[p] \in Seq(Index)
    BY DEF RingCore, TypeOK
<1>1. CASE UrbCompletes(p)
    <2>1. 1 \in 1..Len(inflight[p])
        BY <1>0, <1>1 DEF UrbCompletes
    <2>2. PICK status \in {"none", "failed"}, c \in ChunksFor(p, 1) :
              Finish(p, 1, status, c)
        BY <1>1 DEF UrbCompletes
    <2>3. UNCHANGED <<pstate, pipeVars, transferVars, received>>
        BY <1>1 DEF UrbCompletes
    <2>. QED
        BY <2>1, <2>2, <2>3, FinishQueue
<1>2. CASE UrbKilled(p)
    <2>1. 1 \in 1..Len(inflight[p])
        BY <1>0, <1>2 DEF UrbKilled
    <2>2. PICK c \in ChunksFor(p, 1) : Finish(p, 1, "failed", c)
        BY <1>2 DEF UrbKilled
    <2>3. UNCHANGED <<pstate, pipeVars, transferVars, received>>
        BY <1>2 DEF UrbKilled
    <2>. QED
        BY <2>1, <2>2, <2>3, FinishQueue
<1>3. CASE cancel_discard(p)
    <2>1. UNCHANGED <<pstate, pipeVars, transferVars, received>>
        BY <1>3 DEF cancel_discard
    <2>2. ASSUME NEW k \in Queued(p, call.i), NEW c \in ChunksFor(p, k),
                 Finish(p, k, "cancelled", c)
          PROVE  QueueStep
        <3>1. k \in 1..Len(inflight[p])
            BY DEF Queued
        <3>. QED
            BY <2>1, <2>2, <3>1, FinishQueue
    <2>3. CASE UNCHANGED <<inflight, completed, produced>>
        BY <2>1, <2>3, QuietQueue DEF transferVars
    <2>. QED
        BY <1>3, <2>2, <2>3 DEF cancel_discard, usbfd_discard_urb
<1>. QED
    BY <1>1, <1>2, <1>3

LEMMA QueueNext ==
    RingCore /\ RingCore' /\ StreamInv /\ [Next]_vars => QueueStep
<1>. SUFFICES ASSUME RingCore, RingCore', StreamInv, [Next]_vars PROVE QueueStep
    OBVIOUS
<1>1. ASSUME NEW p \in Pipes,
             handle_events(p) \/ start_return(p) \/ events_return(p) \/ cancel_return(p)
      PROVE  QueueStep
    BY <1>1, QuietQueue DEF handle_events, start_return, events_return,
           cancel_return, transferVars, kernelVars
<1>2. CASE Disconnect \/ Terminated \/ UNCHANGED vars
    BY <1>2, QuietQueue DEF Disconnect, Terminated, vars, transferVars, kernelVars
<1>3. ASSUME NEW p \in Pipes, events_reap(p) PROVE QueueStep
    BY <1>3, ReapQueue DEF events_reap, CanReap
<1>. QED
    BY <1>1, <1>2, <1>3, CreateQueue, AllocateQueue, EnableQueue, SubmitQueue,
       HandOverQueue, UrbEndQueue, CloseQueue, HandleCloseQueue
       DEF Next, Continue

LEMMA QueueInit == Init => QueueView!Init
<1>. SUFFICES ASSUME Init PROVE QueueView!Init
    OBVIOUS
<1>1. \A p \in Pipes : QueueOf(p) = <<>>
    BY DEF QueueOf, Init
<1>. QED
    BY <1>1 DEF Init, QueueView!Init

(***************************************************************************)
(* The ring, the URBs of the kernel and the calls that loop over them      *)
(* implement the queue of requests, for any number of pipes, any           *)
(* transfer_count and any amount of data: results are handed over in the   *)
(* order of submission, data goes to the oldest request that waits, and a  *)
(* cancelled or failed request keeps its place.                            *)
(***************************************************************************)
THEOREM PipesAreQueues == Spec => ImplementsTransferQueue
<1>1. RingCore /\ StreamInv /\ RingCore' /\ StreamInv' /\ [Next]_vars
          => [QueueView!Next]_(QueueView!queueVars)
    BY QueueNext DEF QueueStep
<1>2. Init => QueueView!Init
    BY QueueInit
<1>. QED
    BY <1>1, <1>2, StreamCorrect, PTL DEF Spec, ImplementsTransferQueue, QueueView!Spec
=============================================================================
