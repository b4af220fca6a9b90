------------------------- MODULE PlatformPipeProofs -------------------------
(***************************************************************************)
(* Proofs about PlatformPipe, for any number of pipes, any bound on the    *)
(* size of the rings and on the data, on Windows and on macOS.  The ring   *)
(* is the one of AsyncInPipe: its lemmas are stated for what a step does   *)
(* to the ring, and this module shows that the steps of the ports do that. *)
(***************************************************************************)
EXTENDS PlatformPipe, AsyncInPipeRefinement

(***************************************************************************)
(* The outcome of submitting transfer i, whatever was known of it before:  *)
(* the read is queued, it ends at once with the next chunk or without      *)
(* data, or it is refused.                                                 *)
(***************************************************************************)
ReadSubmitted(p, i) ==
    \E b \in BOOLEAN, e \in {"none", "submit"}, c \in 0..MaxChunks :
        /\ pending' = [pending EXCEPT ![p][i] = b]
        /\ error' = [error EXCEPT ![p][i] = e]
        /\ data' = [data EXCEPT ![p][i] = c]
        /\ e = "submit" => c = 0
        /\ b => e = "none" /\ c = 0
        /\ \/ /\ b /\ inflight' = [inflight EXCEPT ![p] = Append(@, i)]
              /\ produced' = produced
           \/ ~b /\ c = 0 /\ inflight' = inflight /\ produced' = produced
           \/ /\ ~b /\ e = "none" /\ c = produced[p] + 1
              /\ inflight[p] = <<>> /\ inflight' = inflight
              /\ produced' = [produced EXCEPT ![p] = c]

(* Transfer i of p, and nothing else, may differ between t and now. *)
Asked(p, i, t) ==
    \E b \in BOOLEAN, e \in Errors, c \in 0..MaxChunks :
        t = With(Transfers, p, i, b, e, c)

(* What was known before does not matter to a transfer that is set. *)
LEMMA LastUpdateWins ==
    ASSUME TypeOK, NEW p \in Pipes, NEW i \in Index, NEW t, Asked(p, i, t),
           NEW b, NEW e, NEW c, Become(With(t, p, i, b, e, c))
    PROVE  /\ pending' = [pending EXCEPT ![p][i] = b]
           /\ error' = [error EXCEPT ![p][i] = e]
           /\ data' = [data EXCEPT ![p][i] = c]
<1>1. PICK b1 \in BOOLEAN, e1 \in Errors, c1 \in 0..MaxChunks :
          t = With(Transfers, p, i, b1, e1, c1)
    BY DEF Asked
<1>2. /\ t.pending = [pending EXCEPT ![p][i] = b1]
      /\ t.error = [error EXCEPT ![p][i] = e1]
      /\ t.data = [data EXCEPT ![p][i] = c1]
    BY <1>1 DEF With, Transfers
<1>3. /\ pending' = [t.pending EXCEPT ![p][i] = b]
      /\ error' = [t.error EXCEPT ![p][i] = e]
      /\ data' = [t.data EXCEPT ![p][i] = c]
    BY DEF Become, With
<1>4. pending' = [pending EXCEPT ![p][i] = b]
    <2>1. pending \in [Pipes -> [Index -> BOOLEAN]]
        BY DEF TypeOK
    <2>2. t.pending[p] = [pending[p] EXCEPT ![i] = b1]
        BY <1>2, <2>1
    <2>3. [t.pending[p] EXCEPT ![i] = b] = [pending[p] EXCEPT ![i] = b]
        BY <2>1, <2>2
    <2>. QED
        BY <1>2, <1>3, <2>1, <2>3
<1>5. error' = [error EXCEPT ![p][i] = e]
    <2>1. error \in [Pipes -> [Index -> Errors]]
        BY DEF TypeOK
    <2>2. t.error[p] = [error[p] EXCEPT ![i] = e1]
        BY <1>2, <2>1
    <2>3. [t.error[p] EXCEPT ![i] = e] = [error[p] EXCEPT ![i] = e]
        BY <2>1, <2>2
    <2>. QED
        BY <1>2, <1>3, <2>1, <2>3
<1>6. data' = [data EXCEPT ![p][i] = c]
    <2>1. data \in [Pipes -> [Index -> 0..MaxChunks]]
        BY DEF TypeOK
    <2>2. t.data[p] = [data[p] EXCEPT ![i] = c1]
        BY <1>2, <2>1
    <2>3. [t.data[p] EXCEPT ![i] = c] = [data[p] EXCEPT ![i] = c]
        BY <2>1, <2>2
    <2>. QED
        BY <1>2, <1>3, <2>1, <2>3
<1>. QED
    BY <1>4, <1>5, <1>6

(* What is known of the transfers without asking. *)
LEMMA NothingAsked ==
    ASSUME TypeOK, NEW p \in Pipes, NEW i \in Index
    PROVE  Asked(p, i, Transfers)
<1>1. /\ pending[p][i] \in BOOLEAN /\ error[p][i] \in Errors
      /\ data[p][i] \in 0..MaxChunks
    BY DEF TypeOK
<1>2. /\ [pending EXCEPT ![p][i] = pending[p][i]] = pending
      /\ [error EXCEPT ![p][i] = error[p][i]] = error
      /\ [data EXCEPT ![p][i] = data[p][i]] = data
    BY DEF TypeOK
<1>3. With(Transfers, p, i, pending[p][i], error[p][i], data[p][i]) = Transfers
    BY <1>2 DEF With, Transfers
<1>. QED
    BY <1>1, <1>3 DEF Asked

(* Both ports submit that way. *)
LEMMA PortSubmits ==
    ASSUME TypeOK, NEW p \in Pipes, NEW i \in Index, NEW t, Asked(p, i, t),
           windows_transfer_submit(p, i, t) \/ mac_transfer_submit(p, i, t)
    PROVE  ReadSubmitted(p, i)
<1>. DEFINE Set(b, e, c) ==
        /\ pending' = [pending EXCEPT ![p][i] = b]
        /\ error' = [error EXCEPT ![p][i] = e]
        /\ data' = [data EXCEPT ![p][i] = c]
<1>0. \A b, e, c : Become(With(t, p, i, b, e, c)) => Set(b, e, c)
    BY LastUpdateWins
<1>. DEFINE Queue(b, e, c) ==
        \/ /\ b /\ inflight' = [inflight EXCEPT ![p] = Append(@, i)]
           /\ produced' = produced
        \/ ~b /\ c = 0 /\ inflight' = inflight /\ produced' = produced
        \/ /\ ~b /\ e = "none" /\ c = produced[p] + 1
           /\ inflight[p] = <<>> /\ inflight' = inflight
           /\ produced' = [produced EXCEPT ![p] = c]
<1>1. ASSUME NEW b \in BOOLEAN, NEW e \in {"none", "submit"},
             NEW c \in 0..MaxChunks, Set(b, e, c), Queue(b, e, c),
             e = "submit" => c = 0, b => e = "none" /\ c = 0
      PROVE  ReadSubmitted(p, i)
    BY <1>1 DEF ReadSubmitted
<1>2. 0 \in 0..MaxChunks
    BY MaxChunksAssumption
<1>3. CASE ReadQueued(p, i, With(t, p, i, TRUE, "none", 0))
    <2>1. Set(TRUE, "none", 0)
        <3>1. Become(With(t, p, i, TRUE, "none", 0))
            BY <1>3 DEF ReadQueued
        <3>. HIDE DEF Set
        <3>. QED
            BY <1>0, <3>1, Zenon
    <2>2. Queue(TRUE, "none", 0)
        BY <1>3 DEF ReadQueued
    <2>. HIDE DEF Set, Queue
    <2>. QED
        BY <1>1, <1>2, <2>1, <2>2
<1>4. CASE /\ Become(With(t, p, i, FALSE, "submit", 0))
           /\ UNCHANGED <<inflight, produced>>
    <2>1. Set(FALSE, "submit", 0)
        <3>. HIDE DEF Set
        <3>. QED
            BY <1>0, <1>4, Zenon
    <2>2. Queue(FALSE, "submit", 0)
        BY <1>4
    <2>. HIDE DEF Set, Queue
    <2>. QED
        BY <1>1, <1>2, <2>1, <2>2
<1>5. CASE \E c \in ChunksFor(p, 1) :
               /\ inflight[p] = <<>>
               /\ Become(With(t, p, i, FALSE, "none", c))
               /\ produced' = [produced EXCEPT ![p] = IF c = 0 THEN @ ELSE c]
               /\ UNCHANGED inflight
    <2>1. PICK c \in ChunksFor(p, 1) :
              /\ inflight[p] = <<>>
              /\ Become(With(t, p, i, FALSE, "none", c))
              /\ produced' = [produced EXCEPT ![p] = IF c = 0 THEN @ ELSE c]
              /\ UNCHANGED inflight
        BY <1>5
    <2>2. Set(FALSE, "none", c)
        <3>. HIDE DEF Set
        <3>. QED
            BY <1>0, <2>1, Zenon
    <2>3. c \in 0..MaxChunks /\ (c # 0 => c = produced[p] + 1)
        BY MaxChunksAssumption DEF ChunksFor
    <2>4. Queue(FALSE, "none", c)
        <3>1. CASE c = 0
            BY <2>1, <3>1 DEF TypeOK
        <3>2. CASE c # 0
            BY <2>1, <2>3, <3>2
        <3>. QED
            BY <3>1, <3>2
    <2>. HIDE DEF Set, Queue
    <2>. QED
        BY <1>1, <2>2, <2>3, <2>4
<1>. QED
    BY <1>3, <1>4, <1>5 DEF windows_transfer_submit, mac_transfer_submit


-----------------------------------------------------------------------------
(***************************************************************************)
(* Handing over transfer f with error e and chunk c: its result was known, *)
(* or it is taken from the driver now (k is its place there), and then it  *)
(* is submitted again or left as it is.                                    *)
(***************************************************************************)
ResultTaken(p, f, e, c) ==
    \/ /\ ~pending[p][f] /\ completed' = completed
       /\ e = error[p][f] /\ c = data[p][f]
    \/ \E k \in 1..Len(completed) :
        /\ completed[k].pipe = p /\ completed[k].i = f
        /\ completed' = Without(completed, k)
        /\ e = completed[k].status /\ c = completed[k].chunk

HandedOver(p, f, e, c) ==
    /\ ResultTaken(p, f, e, c)
    /\ received' = [received EXCEPT
           ![p] = IF c = 0 \/ e = "submit" THEN @ ELSE c]
    /\ \/ endless_transfers_enabled[p] /\ ReadSubmitted(p, f)
       \/ /\ ~endless_transfers_enabled[p]
          /\ pending' = [pending EXCEPT ![p][f] = FALSE]
          /\ error' = [error EXCEPT ![p][f] = e]
          /\ data' = [data EXCEPT ![p][f] = c]
          /\ inflight' = inflight /\ produced' = produced

(* An endless pipe between calls submits the transfer it hands over. *)
LEMMA SubmitsFirst ==
    ASSUME RingCore, NEW p \in Pipes, CanCall(p), pending_count[p] # 0,
           endless_transfers_enabled[p]
    PROVE  next_submit[p] = next_finish[p]
<1>1. ~InCall("start", p) /\ transfer_count[p] # 0
    BY RingNumbers DEF CanCall, InCall, Idle
<1>. QED
    BY <1>1, NextSubmitSlot DEF RingCore, EndlessIsFull

(* What the driver stores with a result. *)
LEMMA ResultType ==
    ASSUME TypeOK, NEW k \in 1..Len(completed)
    PROVE  /\ completed[k].pipe \in Pipes /\ completed[k].i \in Index
           /\ completed[k].status \in Errors \ {"submit"}
           /\ completed[k].chunk \in 0..MaxChunks
<1>1. completed \in Seq(Completion)
    BY DEF TypeOK
<1>2. completed[k] \in Completion
    BY <1>1
<1>. QED
    BY <1>2 DEF Completion

(* The handing over, once it is known what the transfer holds. *)
LEMMA HandsOverKnown ==
    ASSUME RingCore, NEW p \in Pipes, NEW f \in Index, f = next_finish[p],
           port_handle_finished_transfer(p),
           NEW e \in Errors, NEW c \in 0..MaxChunks,
           Known(p, f) = With(Transfers, p, f, FALSE, e, c),
           ResultTaken(p, f, e, c)
    PROVE  HandedOver(p, f, e, c)
<1>. DEFINE t == Known(p, f)
<1>1. /\ pending \in [Pipes -> [Index -> BOOLEAN]]
      /\ error \in [Pipes -> [Index -> Errors]]
      /\ data \in [Pipes -> [Index -> 0..MaxChunks]]
      /\ TypeOK
    BY DEF RingCore, TypeOK
<1>2. /\ t.pending = [pending EXCEPT ![p][f] = FALSE]
      /\ t.error = [error EXCEPT ![p][f] = e]
      /\ t.data = [data EXCEPT ![p][f] = c]
    BY DEF With, Transfers
<1>3. t.error[p][f] = e /\ t.data[p][f] = c
    <2>1. /\ [error EXCEPT ![p][f] = e][p][f] = e
          /\ [data EXCEPT ![p][f] = c][p][f] = c
        BY <1>1
    <2>. HIDE DEF t
    <2>. QED
        BY <1>2, <2>1
<1>4. /\ CanCall(p) /\ pending_count[p] # 0
      /\ received' = [received EXCEPT
             ![p] = Taken(p, [error |-> t.error[p][f], chunk |-> t.data[p][f]])]
      /\ \/ /\ endless_transfers_enabled[p]
            /\ port_submit_next_transfer(p, t)
         \/ /\ ~endless_transfers_enabled[p]
            /\ Become(t)
            /\ inflight' = inflight /\ produced' = produced
    <2>1. /\ CanCall(p) /\ pending_count[p] # 0
          /\ received' = [received EXCEPT
                 ![p] = Taken(p, [error |-> t.error[p][f],
                                  chunk |-> t.data[p][f]])]
        BY DEF port_handle_finished_transfer
    <2>2. \/ /\ endless_transfers_enabled[p]
             /\ port_submit_next_transfer(p, t)
          \/ /\ ~endless_transfers_enabled[p]
             /\ Become(t)
             /\ inflight' = inflight /\ produced' = produced
        BY DEF port_handle_finished_transfer
    <2>. QED
        BY <2>1, <2>2
<1>. HIDE DEF t
<1>5. received' = [received EXCEPT
          ![p] = IF c = 0 \/ e = "submit" THEN @ ELSE c]
    BY <1>3, <1>4 DEF Taken
<1>6. CASE endless_transfers_enabled[p]
    <2>1. next_submit[p] = f
        BY <1>4, <1>6, SubmitsFirst
    <2>2. windows_transfer_submit(p, f, t) \/ mac_transfer_submit(p, f, t)
        BY <1>4, <1>6, <2>1 DEF port_submit_next_transfer
    <2>3. Asked(p, f, t)
        BY DEF Asked, t
    <2>4. ReadSubmitted(p, f)
        BY <1>1, <2>2, <2>3, PortSubmits
    <2>. QED
        BY <1>5, <1>6, <2>4 DEF HandedOver
<1>7. CASE ~endless_transfers_enabled[p]
    <2>1. Become(t) /\ inflight' = inflight /\ produced' = produced
        BY <1>4, <1>7
    <2>2. /\ pending' = [pending EXCEPT ![p][f] = FALSE]
          /\ error' = [error EXCEPT ![p][f] = e]
          /\ data' = [data EXCEPT ![p][f] = c]
        BY <1>2, <2>1 DEF Become
    <2>. QED
        BY <1>5, <1>7, <2>1, <2>2 DEF HandedOver
<1>. QED
    BY <1>6, <1>7

(* handle_finished_transfer of both ports. *)
LEMMA PortHandsOver ==
    ASSUME RingCore, PortType, NEW p \in Pipes, NEW f \in Index,
           f = next_finish[p], port_handle_finished_transfer(p)
    PROVE  \E e \in Errors, c \in 0..MaxChunks : HandedOver(p, f, e, c)
<1>1. /\ ~Known(p, f).pending[p][f]
      /\ completed' = IF platform = "windows" /\ Reapable(p, f) # {}
                      THEN Without(completed, CHOOSE k \in Reapable(p, f) : TRUE)
                      ELSE completed
    BY DEF port_handle_finished_transfer, TakeResult
<1>2. TypeOK
    BY DEF RingCore
<1>3. CASE platform = "windows" /\ Reapable(p, f) # {}
    <2>1. PICK k \in Reapable(p, f) : k = CHOOSE l \in Reapable(p, f) : TRUE
        BY <1>3
    <2>2. /\ k \in 1..Len(completed)
          /\ completed[k].pipe = p /\ completed[k].i = f
        BY DEF Reapable
    <2>3. PICK e \in Errors, c \in 0..MaxChunks :
              e = completed[k].status /\ c = completed[k].chunk
        BY <1>2, <2>2, ResultType
    <2>4. ResultTaken(p, f, e, c)
        BY <1>1, <1>3, <2>1, <2>2, <2>3 DEF ResultTaken
    <2>5. Known(p, f) = With(Transfers, p, f, FALSE, e, c)
        BY <1>3, <2>1, <2>3 DEF Known, windows_transfer_pending
    <2>. QED
        BY <2>4, <2>5, HandsOverKnown
<1>4. CASE ~(platform = "windows" /\ Reapable(p, f) # {})
    <2>1. Known(p, f) = Transfers
        BY <1>4 DEF Known, windows_transfer_pending, mac_transfer_pending
    <2>2. ~pending[p][f]
        BY <1>1, <2>1 DEF Transfers
    <2>3. PICK e \in Errors, c \in 0..MaxChunks :
              e = error[p][f] /\ c = data[p][f]
        BY <1>2 DEF TypeOK
    <2>4. ResultTaken(p, f, e, c)
        BY <1>1, <1>4, <2>2, <2>3 DEF ResultTaken
    <2>5. With(Transfers, p, f, FALSE, e, c) = Transfers
        <3>1. /\ [pending EXCEPT ![p][f] = FALSE] = pending
              /\ [error EXCEPT ![p][f] = e] = error
              /\ [data EXCEPT ![p][f] = c] = data
            BY <1>2, <2>2, <2>3 DEF TypeOK
        <3>. QED
            BY <3>1 DEF With, Transfers
    <2>. QED
        BY <2>1, <2>4, <2>5, HandsOverKnown
<1>. QED
    BY <1>3, <1>4


-----------------------------------------------------------------------------
(***************************************************************************)
(* The driver has no result of transfer f any more, and the results of all *)
(* other transfers still wait, once each.                                  *)
(***************************************************************************)
Cleared(p, f) ==
    /\ completed' \in Seq(Completion)
    /\ \A k \in 1..Len(completed') : \E l \in 1..Len(completed) :
           /\ completed'[k] = completed[l]
           /\ ~(completed[l].pipe = p /\ completed[l].i = f)
    /\ \A l \in 1..Len(completed) :
           ~(completed[l].pipe = p /\ completed[l].i = f) =>
               \E k \in 1..Len(completed') : completed'[k] = completed[l]
    /\ \A k, l \in 1..Len(completed') :
           /\ completed'[k].pipe = completed'[l].pipe
           /\ completed'[k].i = completed'[l].i
           => k = l
    /\ \A k \in 1..Len(inflight[p]) : inflight[p][k] # f

(* A transfer that is not pending is nowhere in the driver. *)
LEMMA IdleIsCleared ==
    ASSUME RingCore, NEW p \in Pipes, NEW f \in Index, ~pending[p][f],
           completed' = completed
    PROVE  Cleared(p, f)
<1>1. completed \in Seq(Completion)
    BY DEF RingCore, TypeOK
<1>2. /\ \A k \in 1..Len(completed) :
             ~(completed[k].pipe = p /\ completed[k].i = f)
      /\ \A k \in 1..Len(inflight[p]) : inflight[p][k] # f
      /\ \A k, l \in 1..Len(completed) :
             completed[k].pipe = completed[l].pipe
                 /\ completed[k].i = completed[l].i => k = l
    BY DEF RingCore, KernelHasPending
<1>. QED
    BY <1>1, <1>2 DEF Cleared

(* Taking the result of a transfer out of the driver. *)
LEMMA TakenIsCleared ==
    ASSUME RingCore, NEW p \in Pipes, NEW f \in Index,
           NEW e, NEW c, ResultTaken(p, f, e, c)
    PROVE  Cleared(p, f)
<1>1. CASE ~pending[p][f] /\ completed' = completed
    BY <1>1, IdleIsCleared
<1>2. CASE \E k \in 1..Len(completed) :
               /\ completed[k].pipe = p /\ completed[k].i = f
               /\ completed' = Without(completed, k)
    <2>1. PICK k \in 1..Len(completed) :
              /\ completed[k].pipe = p /\ completed[k].i = f
              /\ completed' = Without(completed, k)
        BY <1>2
    <2>. DEFINE n == Len(completed)
    <2>2. completed \in Seq(Completion)
        BY DEF RingCore, TypeOK
    <2>3. /\ completed' \in Seq(Completion)
          /\ Len(completed') = n - 1
          /\ \A j \in 1..n - 1 :
                 completed'[j] = IF j < k THEN completed[j] ELSE completed[j + 1]
        BY <2>1, <2>2, WithoutIsQueue
    <2>4. n \in Nat /\ k \in 1..n
        BY <2>2
    <2>5. \A l \in 1..n : l # k => ~(completed[l].pipe = p /\ completed[l].i = f)
        BY <2>1 DEF RingCore, KernelHasPending
    <2>6. \A l \in 1..Len(inflight[p]) : inflight[p][l] # f
        BY <2>1 DEF RingCore, KernelHasPending
    <2>. HIDE DEF n
    <2>7. ASSUME NEW j \in 1..Len(completed')
          PROVE  \E l \in 1..n :
                     /\ l = IF j < k THEN j ELSE j + 1
                     /\ completed'[j] = completed[l] /\ l # k
        BY <2>3, <2>4
    <2>8. ASSUME NEW l \in 1..n, l # k
          PROVE  \E j \in 1..Len(completed') : completed'[j] = completed[l]
        <3>1. CASE l < k
            BY <2>3, <2>4, <3>1
        <3>2. CASE l > k
            <4>1. l - 1 \in 1..n - 1 /\ ~(l - 1 < k) /\ (l - 1) + 1 = l
                BY <2>4, <3>2
            <4>. QED
                BY <2>3, <4>1
        <3>. QED
            BY <2>4, <2>8, <3>1, <3>2
    <2>9. ASSUME NEW j \in 1..Len(completed'), NEW m \in 1..Len(completed'),
                 completed'[j].pipe = completed'[m].pipe,
                 completed'[j].i = completed'[m].i
          PROVE  j = m
        <3>1. PICK a \in 1..n : /\ a = IF j < k THEN j ELSE j + 1
                                /\ completed'[j] = completed[a] /\ a # k
            BY <2>7
        <3>2. PICK b \in 1..n : /\ b = IF m < k THEN m ELSE m + 1
                                /\ completed'[m] = completed[b] /\ b # k
            BY <2>7
        <3>3. a = b
            BY <2>9, <3>1, <3>2 DEF RingCore, KernelHasPending, n
        <3>. QED
            BY <2>3, <2>4, <3>1, <3>2, <3>3
    <2>10. \A j \in 1..Len(completed') : \E l \in 1..n :
               /\ completed'[j] = completed[l]
               /\ ~(completed[l].pipe = p /\ completed[l].i = f)
        BY <2>5, <2>7
    <2>11. \A l \in 1..n : ~(completed[l].pipe = p /\ completed[l].i = f) =>
               \E j \in 1..Len(completed') : completed'[j] = completed[l]
        BY <2>1, <2>8
    <2>. QED
        BY <2>3, <2>6, <2>9, <2>10, <2>11 DEF Cleared, n
<1>. QED
    BY <1>1, <1>2 DEF ResultTaken

(***************************************************************************)
(* What a submission, or a handing over without one, does to the flags and *)
(* the queue: transfer f is queued last and pending, or not pending.       *)
(***************************************************************************)
FlagAndQueue(p, f) ==
    /\ \A q \in Pipes, i \in Index : q # p \/ i # f =>
           /\ pending'[q][i] = pending[q][i]
           /\ error'[q][i] = error[q][i]
           /\ data'[q][i] = data[q][i]
    /\ \A q \in Pipes \ {p} : /\ inflight'[q] = inflight[q]
                              /\ produced'[q] = produced[q]
    /\ \/ ~pending'[p][f] /\ inflight'[p] = inflight[p]
       \/ /\ pending'[p][f]
          /\ Len(inflight'[p]) = Len(inflight[p]) + 1
          /\ inflight'[p][Len(inflight[p]) + 1] = f
          /\ \A k \in 1..Len(inflight[p]) : inflight'[p][k] = inflight[p][k]
    /\ pending'[p][f] => error'[p][f] = "none" /\ data'[p][f] = 0
    /\ error'[p][f] = "submit" => data'[p][f] = 0

(* The types, and what a submission says of the data. *)
LEMMA SubmitFacts ==
    ASSUME TypeOK, NEW p \in Pipes, NEW f \in Index, ReadSubmitted(p, f)
    PROVE  /\ FlagAndQueue(p, f)
           /\ pending' \in [Pipes -> [Index -> BOOLEAN]]
           /\ error' \in [Pipes -> [Index -> Errors]]
           /\ data' \in [Pipes -> [Index -> 0..MaxChunks]]
           /\ inflight' \in [Pipes -> Seq(Index)]
           /\ produced' \in [Pipes -> 0..MaxChunks]
           /\ \/ /\ produced'[p] = produced[p]
                 /\ \/ pending'[p][f]
                    \/ error'[p][f] = "submit"
                    \/ data'[p][f] = 0
              \/ /\ produced'[p] = produced[p] + 1
                 /\ inflight[p] = <<>> /\ inflight'[p] = <<>>
                 /\ ~pending'[p][f] /\ error'[p][f] = "none"
                 /\ data'[p][f] = produced'[p]
<1>1. /\ pending \in [Pipes -> [Index -> BOOLEAN]]
      /\ error \in [Pipes -> [Index -> Errors]]
      /\ data \in [Pipes -> [Index -> 0..MaxChunks]]
      /\ inflight \in [Pipes -> Seq(Index)]
      /\ produced \in [Pipes -> 0..MaxChunks]
    BY DEF TypeOK
<1>2. PICK b \in BOOLEAN, e \in {"none", "submit"}, c \in 0..MaxChunks :
        /\ pending' = [pending EXCEPT ![p][f] = b]
        /\ error' = [error EXCEPT ![p][f] = e]
        /\ data' = [data EXCEPT ![p][f] = c]
        /\ e = "submit" => c = 0
        /\ b => e = "none" /\ c = 0
        /\ \/ /\ b /\ inflight' = [inflight EXCEPT ![p] = Append(@, f)]
              /\ produced' = produced
           \/ ~b /\ c = 0 /\ inflight' = inflight /\ produced' = produced
           \/ /\ ~b /\ e = "none" /\ c = produced[p] + 1
              /\ inflight[p] = <<>> /\ inflight' = inflight
              /\ produced' = [produced EXCEPT ![p] = c]
    BY DEF ReadSubmitted
<1>3. /\ pending' \in [Pipes -> [Index -> BOOLEAN]] /\ pending'[p][f] = b
      /\ \A q \in Pipes, i \in Index : q # p \/ i # f =>
             pending'[q][i] = pending[q][i]
    BY <1>1, <1>2
<1>4. /\ error' \in [Pipes -> [Index -> Errors]] /\ error'[p][f] = e
      /\ \A q \in Pipes, i \in Index : q # p \/ i # f =>
             error'[q][i] = error[q][i]
    BY <1>1, <1>2 DEF Errors
<1>5. /\ data' \in [Pipes -> [Index -> 0..MaxChunks]] /\ data'[p][f] = c
      /\ \A q \in Pipes, i \in Index : q # p \/ i # f =>
             data'[q][i] = data[q][i]
    BY <1>1, <1>2
<1>6. inflight[p] \in Seq(Index)
    BY <1>1
<1>7. CASE b /\ inflight' = [inflight EXCEPT ![p] = Append(@, f)]
             /\ produced' = produced
    <2>1. /\ inflight'[p] = Append(inflight[p], f)
          /\ \A q \in Pipes \ {p} : inflight'[q] = inflight[q]
          /\ inflight' \in [Pipes -> Seq(Index)]
        BY <1>1, <1>6, <1>7
    <2>2. /\ Len(inflight'[p]) = Len(inflight[p]) + 1
          /\ inflight'[p][Len(inflight[p]) + 1] = f
          /\ \A k \in 1..Len(inflight[p]) : inflight'[p][k] = inflight[p][k]
        BY <1>6, <2>1
    <2>3. pending'[p][f] /\ error'[p][f] = "none" /\ data'[p][f] = 0
        BY <1>2, <1>3, <1>4, <1>5, <1>7
    <2>4. /\ produced'[p] = produced[p] /\ produced' \in [Pipes -> 0..MaxChunks]
          /\ \A q \in Pipes \ {p} : produced'[q] = produced[q]
        BY <1>1, <1>7
    <2>5. FlagAndQueue(p, f)
        BY <1>3, <1>4, <1>5, <2>1, <2>2, <2>3, <2>4 DEF FlagAndQueue
    <2>. QED
        BY <1>3, <1>4, <1>5, <2>1, <2>3, <2>4, <2>5
<1>8. CASE ~b /\ c = 0 /\ inflight' = inflight /\ produced' = produced
    <2>1. ~pending'[p][f] /\ data'[p][f] = 0
        BY <1>3, <1>5, <1>8
    <2>2. FlagAndQueue(p, f)
        BY <1>3, <1>4, <1>5, <1>8, <2>1 DEF FlagAndQueue
    <2>. QED
        BY <1>1, <1>3, <1>4, <1>5, <1>8, <2>1, <2>2
<1>9. CASE /\ ~b /\ e = "none" /\ c = produced[p] + 1
           /\ inflight[p] = <<>> /\ inflight' = inflight
           /\ produced' = [produced EXCEPT ![p] = c]
    <2>1. /\ produced' \in [Pipes -> 0..MaxChunks] /\ produced'[p] = c
          /\ \A q \in Pipes \ {p} : produced'[q] = produced[q]
        BY <1>1, <1>9
    <2>2. ~pending'[p][f] /\ error'[p][f] = "none" /\ data'[p][f] = c
        BY <1>3, <1>4, <1>5, <1>9
    <2>3. FlagAndQueue(p, f)
        BY <1>3, <1>4, <1>5, <1>9, <2>1, <2>2 DEF FlagAndQueue
    <2>. QED
        BY <1>1, <1>3, <1>4, <1>5, <1>9, <2>1, <2>2, <2>3
<1>. QED
    BY <1>2, <1>7, <1>8, <1>9


(* The same for a transfer that is handed over. *)
LEMMA HandOverFacts ==
    ASSUME PortInv, NEW p \in Pipes, NEW f \in Index,
           NEW e \in Errors, NEW c \in 0..MaxChunks, HandedOver(p, f, e, c)
    PROVE  /\ FlagAndQueue(p, f)
           /\ Cleared(p, f)
           /\ pending' \in [Pipes -> [Index -> BOOLEAN]]
           /\ error' \in [Pipes -> [Index -> Errors]]
           /\ data' \in [Pipes -> [Index -> 0..MaxChunks]]
           /\ inflight' \in [Pipes -> Seq(Index)]
           /\ produced' \in [Pipes -> 0..MaxChunks]
           /\ received' \in [Pipes -> 0..MaxChunks]
<1>1. /\ pending \in [Pipes -> [Index -> BOOLEAN]]
      /\ error \in [Pipes -> [Index -> Errors]]
      /\ data \in [Pipes -> [Index -> 0..MaxChunks]]
      /\ inflight \in [Pipes -> Seq(Index)]
      /\ produced \in [Pipes -> 0..MaxChunks]
      /\ received \in [Pipes -> 0..MaxChunks]
      /\ RingCore /\ TypeOK
    BY DEF PortInv, RingCore, TypeOK
<1>2. Cleared(p, f)
    BY <1>1, TakenIsCleared DEF HandedOver
<1>3. received' \in [Pipes -> 0..MaxChunks]
    BY <1>1 DEF HandedOver
<1>4. CASE endless_transfers_enabled[p] /\ ReadSubmitted(p, f)
    BY <1>1, <1>2, <1>3, <1>4, SubmitFacts
<1>5. CASE /\ pending' = [pending EXCEPT ![p][f] = FALSE]
           /\ error' = [error EXCEPT ![p][f] = e]
           /\ data' = [data EXCEPT ![p][f] = c]
           /\ inflight' = inflight /\ produced' = produced
    <2>1. /\ pending' \in [Pipes -> [Index -> BOOLEAN]] /\ ~pending'[p][f]
          /\ \A q \in Pipes, i \in Index : q # p \/ i # f =>
                 pending'[q][i] = pending[q][i]
        BY <1>1, <1>5
    <2>2. /\ error' \in [Pipes -> [Index -> Errors]] /\ error'[p][f] = e
          /\ \A q \in Pipes, i \in Index : q # p \/ i # f =>
                 error'[q][i] = error[q][i]
        BY <1>1, <1>5
    <2>3. /\ data' \in [Pipes -> [Index -> 0..MaxChunks]] /\ data'[p][f] = c
          /\ \A q \in Pipes, i \in Index : q # p \/ i # f =>
                 data'[q][i] = data[q][i]
        BY <1>1, <1>5
    <2>4. e = "submit" => c = 0
        <3>1. ASSUME NEW k \in 1..Len(completed), e = completed[k].status
              PROVE  e # "submit"
            BY <1>1, <3>1, ResultType
        <3>2. CASE e = error[p][f] /\ c = data[p][f]
            BY <3>2 DEF PortInv, RefusedIsEmpty
        <3>. QED
            BY <3>1, <3>2 DEF HandedOver, ResultTaken
    <2>. QED
        BY ZenonT(40), <1>1, <1>2, <1>3, <1>5, <2>1, <2>2, <2>3, <2>4 DEF FlagAndQueue
<1>. QED
    BY <1>4, <1>5 DEF HandedOver

(***************************************************************************)
(* The flags and the driver's queues agree after such a step, if they did  *)
(* before.                                                                 *)
(***************************************************************************)
LEMMA DriverAgrees ==
    ASSUME PortInv, NEW p \in Pipes, NEW f \in Index,
           FlagAndQueue(p, f), Cleared(p, f), handle' = handle,
           inflight' \in [Pipes -> Seq(Index)]
    PROVE  /\ KernelHasPending'
           /\ PendingIsInKernel'
           /\ PendingIsFresh'
           /\ RefusedIsEmpty'
           /\ \A q \in Pipes, i \in Index : pending'[q][i] =>
                  pending[q][i] \/ (q = p /\ i = f /\ inflight'[p] # inflight[p])
<1>. DEFINE n == Len(inflight[p])
<1>1. /\ \A q \in Pipes, i \in Index : q # p \/ i # f =>
             /\ pending'[q][i] = pending[q][i]
             /\ error'[q][i] = error[q][i]
             /\ data'[q][i] = data[q][i]
      /\ \A q \in Pipes \ {p} : inflight'[q] = inflight[q]
      /\ \/ ~pending'[p][f] /\ inflight'[p] = inflight[p]
         \/ /\ pending'[p][f]
            /\ Len(inflight'[p]) = n + 1
            /\ inflight'[p][n + 1] = f
            /\ \A k \in 1..n : inflight'[p][k] = inflight[p][k]
      /\ pending'[p][f] => error'[p][f] = "none" /\ data'[p][f] = 0
      /\ error'[p][f] = "submit" => data'[p][f] = 0
    BY DEF FlagAndQueue
<1>2. /\ \A k \in 1..Len(completed') : \E l \in 1..Len(completed) :
             /\ completed'[k] = completed[l]
             /\ ~(completed[l].pipe = p /\ completed[l].i = f)
      /\ \A l \in 1..Len(completed) :
             ~(completed[l].pipe = p /\ completed[l].i = f) =>
                 \E k \in 1..Len(completed') : completed'[k] = completed[l]
      /\ \A k, l \in 1..Len(completed') :
             /\ completed'[k].pipe = completed'[l].pipe
             /\ completed'[k].i = completed'[l].i
             => k = l
      /\ \A k \in 1..n : inflight[p][k] # f
    BY DEF Cleared
<1>2a. \A k \in 1..Len(completed') : \E l \in 1..Len(completed) :
           /\ completed'[k] = completed[l]
           /\ ~(completed[l].pipe = p /\ completed[l].i = f)
    BY <1>2
<1>2b. /\ \A q \in Pipes : \A k, l \in 1..Len(inflight[q]) :
              inflight[q][k] = inflight[q][l] => k = l
       /\ \A q \in Pipes : \A k \in 1..Len(inflight[q]), l \in 1..Len(completed) :
              ~(completed[l].pipe = q /\ completed[l].i = inflight[q][k])
    BY DEF PortInv, RingCore, KernelHasPending
<1>3. RingCore /\ TypeOK /\ n \in Nat
    <2>1. RingCore /\ inflight[p] \in Seq(Index)
        BY DEF PortInv, RingCore, TypeOK
    <2>. QED
        BY <2>1 DEF RingCore
<1>4. \A q \in Pipes : \A k \in 1..Len(inflight'[q]) :
          \/ /\ k \in 1..Len(inflight[q]) /\ inflight'[q][k] = inflight[q][k]
             /\ inflight[q][k] \in Index
             /\ q # p \/ inflight[q][k] # f
          \/ q = p /\ k = n + 1 /\ inflight'[p][k] = f /\ pending'[p][f]
    <2>. SUFFICES ASSUME NEW q \in Pipes, NEW k \in 1..Len(inflight'[q])
                  PROVE  \/ /\ k \in 1..Len(inflight[q])
                            /\ inflight'[q][k] = inflight[q][k]
                            /\ inflight[q][k] \in Index
                            /\ q # p \/ inflight[q][k] # f
                         \/ /\ q = p /\ k = n + 1
                            /\ inflight'[p][k] = f /\ pending'[p][f]
        OBVIOUS
    <2>1. CASE q # p
        BY <1>1, <1>3, <2>1, KernelElements
    <2>2. CASE q = p
        BY <1>1, <1>2, <1>3, <2>2, KernelElements
    <2>. QED
        BY <2>1, <2>2
<1>5. ASSUME NEW q \in Pipes, NEW k \in 1..Len(inflight'[q])
      PROVE  /\ pending'[q][inflight'[q][k]]
             /\ \A l \in 1..Len(inflight'[q]) :
                    inflight'[q][k] = inflight'[q][l] => k = l
             /\ \A l \in 1..Len(completed') :
                    ~(completed'[l].pipe = q /\ completed'[l].i = inflight'[q][k])
    <2>1. CASE /\ k \in 1..Len(inflight[q]) /\ inflight'[q][k] = inflight[q][k]
               /\ inflight[q][k] \in Index
               /\ q # p \/ inflight[q][k] # f
        <3>1. pending'[q][inflight'[q][k]]
            BY <1>1, <1>3, <2>1 DEF RingCore, KernelHasPending
        <3>2. ASSUME NEW l \in 1..Len(inflight'[q]),
                     inflight'[q][k] = inflight'[q][l]
              PROVE  k = l
            <4>1. \/ l \in 1..Len(inflight[q]) /\ inflight'[q][l] = inflight[q][l]
                  \/ q = p /\ inflight'[q][l] = f
                BY <1>4
            <4>. QED
                BY <1>2b, <2>1, <3>2, <4>1
        <3>3. ASSUME NEW l \in 1..Len(completed')
              PROVE  ~(completed'[l].pipe = q /\ completed'[l].i = inflight'[q][k])
            <4>1. PICK m \in 1..Len(completed) : completed'[l] = completed[m]
                BY <1>2a
            <4>2. ~(completed[m].pipe = q /\ completed[m].i = inflight[q][k])
                BY <1>2b, <2>1
            <4>. QED
                BY <2>1, <4>1, <4>2
        <3>. QED
            BY <3>1, <3>2, <3>3
    <2>2. CASE q = p /\ k = n + 1 /\ inflight'[p][k] = f /\ pending'[p][f]
        <3>1. ASSUME NEW l \in 1..Len(inflight'[q]),
                     inflight'[q][k] = inflight'[q][l]
              PROVE  k = l
            BY <1>4, <2>2, <3>1
        <3>2. ASSUME NEW l \in 1..Len(completed')
              PROVE  ~(completed'[l].pipe = q /\ completed'[l].i = inflight'[q][k])
            <4>1. PICK m \in 1..Len(completed) :
                      /\ completed'[l] = completed[m]
                      /\ ~(completed[m].pipe = p /\ completed[m].i = f)
                BY <1>2a
            <4>. QED
                BY <2>2, <4>1
        <3>. QED
            BY <2>2, <3>1, <3>2
    <2>. QED
        BY <1>4, <2>1, <2>2
<1>6. ASSUME NEW k \in 1..Len(completed')
      PROVE  /\ pending'[completed'[k].pipe][completed'[k].i]
             /\ \A l \in 1..Len(completed') :
                    completed'[k].pipe = completed'[l].pipe
                        /\ completed'[k].i = completed'[l].i => k = l
    <2>1. PICK l \in 1..Len(completed) :
              /\ completed'[k] = completed[l]
              /\ ~(completed[l].pipe = p /\ completed[l].i = f)
        BY <1>2
    <2>2. /\ completed[l].pipe \in Pipes /\ completed[l].i \in Index
          /\ pending[completed[l].pipe][completed[l].i]
        BY <1>3, KernelElements DEF RingCore, KernelHasPending
    <2>3. pending'[completed[l].pipe][completed[l].i]
        BY <1>1, <2>1, <2>2
    <2>. QED
        BY <1>2, <2>1, <2>3
<1>7. KernelHasPending'
    BY <1>5, <1>6 DEF KernelHasPending
<1>8. PendingIsInKernel'
    <2>1. ASSUME NEW q \in Pipes, NEW i \in Index, handle' = "open", pending'[q][i]
          PROVE  InKernel(q, i)'
        <3>. SUFFICES \/ \E k \in 1..Len(inflight'[q]) : inflight'[q][k] = i
                      \/ \E k \in 1..Len(completed') :
                             completed'[k].pipe = q /\ completed'[k].i = i
            BY DEF InKernel, Queued, Reapable
        <3>1. CASE q = p /\ i = f
            <4>1. /\ Len(inflight'[p]) = n + 1
                  /\ inflight'[p][n + 1] = f
                BY <1>1, <2>1, <3>1
            <4>. QED
                BY <1>3, <3>1, <4>1
        <3>2. CASE q # p \/ i # f
            <4>1. pending[q][i]
                BY <1>1, <2>1, <3>2
            <4>2. \/ \E k \in 1..Len(inflight[q]) : inflight[q][k] = i
                  \/ \E k \in 1..Len(completed) :
                         completed[k].pipe = q /\ completed[k].i = i
                BY <2>1, <4>1 DEF PortInv, PendingIsInKernel, InKernel, Queued, Reapable
            <4>3. ASSUME NEW k \in 1..Len(inflight[q])
                  PROVE  k \in 1..Len(inflight'[q]) /\ inflight'[q][k] = inflight[q][k]
                BY <1>1, <1>3
            <4>4. CASE \E k \in 1..Len(inflight[q]) : inflight[q][k] = i
                BY <4>3, <4>4
            <4>5. CASE \E k \in 1..Len(completed) :
                           completed[k].pipe = q /\ completed[k].i = i
                <5>1. PICK k \in 1..Len(completed) :
                          completed[k].pipe = q /\ completed[k].i = i
                    BY <4>5
                <5>2. PICK l \in 1..Len(completed') : completed'[l] = completed[k]
                    BY <1>2, <3>2, <5>1
                <5>. QED
                    BY <5>1, <5>2
            <4>. QED
                BY <4>2, <4>4, <4>5
        <3>. QED
            BY <3>1, <3>2
    <2>. QED
        BY <2>1 DEF PendingIsInKernel
<1>9. PendingIsFresh' /\ RefusedIsEmpty'
    BY SMTT(30), <1>1 DEF PortInv, PendingIsFresh, RefusedIsEmpty
<1>10. \A q \in Pipes, i \in Index : pending'[q][i] =>
           pending[q][i] \/ (q = p /\ i = f /\ inflight'[p] # inflight[p])
    BY <1>1, <1>3
<1>. QED
    BY <1>7, <1>8, <1>9, <1>10


-----------------------------------------------------------------------------
(* An iteration of the loop of start_endless_transfers, on both ports. *)
LEMMA PortStartSubmits ==
    ASSUME PortInv, NEW p \in Pipes, NEW s \in Index, s = next_submit[p],
           port_start_submit(p)
    PROVE  ReadSubmitted(p, s)
<1>1. TypeOK
    BY DEF PortInv, RingCore
<1>2. windows_transfer_submit(p, s, Transfers) \/ mac_transfer_submit(p, s, Transfers)
    BY DEF port_start_submit, port_submit_next_transfer
<1>. QED
    BY <1>1, <1>2, NothingAsked, PortSubmits

LEMMA PortStartStep ==
    ASSUME PortInv, NEW p \in Pipes, port_start_submit(p)
    PROVE  PortInv'
<1>0. RingCore /\ TypeOK /\ PortType
    BY DEF PortInv, RingCore
<1>1. PICK s \in Index : s = next_submit[p]
    BY <1>0, RingNumbers
<1>2. /\ InCall("start", p) /\ pending_count[p] < transfer_count[p]
      /\ next_submit' = [next_submit EXCEPT
             ![p] = increment_and_wrap_size(@, transfer_count[p])]
      /\ pending_count' = [pending_count EXCEPT ![p] = @ + 1]
      /\ UNCHANGED <<handle, pstate, transfer_count, endless_transfers_enabled,
                     next_finish, allocated, connected, completed, call,
                     received, platform, aborting>>
    BY DEF port_start_submit, port_submit_next_transfer
<1>3. ~pending[p][s]
    <2>1. transfer_count[p] # 0
        BY <1>0, <1>2, RingNumbers
    <2>. QED
        BY <1>0, <1>1, <1>2, <2>1, NextSubmitSlot
<1>4. Cleared(p, s)
    BY <1>0, <1>2, <1>3, IdleIsCleared
<1>5. /\ FlagAndQueue(p, s)
      /\ pending' \in [Pipes -> [Index -> BOOLEAN]]
      /\ error' \in [Pipes -> [Index -> Errors]]
      /\ data' \in [Pipes -> [Index -> 0..MaxChunks]]
      /\ inflight' \in [Pipes -> Seq(Index)]
      /\ produced' \in [Pipes -> 0..MaxChunks]
    BY <1>0, <1>1, PortStartSubmits, SubmitFacts
<1>6. /\ KernelHasPending' /\ PendingIsInKernel'
      /\ PendingIsFresh' /\ RefusedIsEmpty'
      /\ \A q \in Pipes, i \in Index : pending'[q][i] =>
             pending[q][i] \/ (q = p /\ i = s)
    BY <1>2, <1>4, <1>5, DriverAgrees
<1>7. TypeOK'
    <2>1. /\ next_submit' \in [Pipes -> Index]
          /\ pending_count' \in [Pipes -> 0..MaxCount]
        <3>1. increment_and_wrap_size(next_submit[p], transfer_count[p]) \in Index
            BY <1>0, WrapType DEF TypeOK
        <3>2. pending_count[p] + 1 \in 0..MaxCount
            BY <1>0, <1>2, RingNumbers, MaxCountAssumption
        <3>. QED
            BY <1>0, <1>2, <3>1, <3>2 DEF TypeOK
    <2>. QED
        BY <1>0, <1>2, <1>5, <2>1 DEF TypeOK
<1>8. RingCore'
    BY <1>0, <1>1, <1>2, <1>6, <1>7, RingGrows
<1>9. PortType'
    BY <1>0, <1>2 DEF PortType
<1>. QED
    BY <1>6, <1>8, <1>9 DEF PortInv

(* handle_finished_transfer on both ports. *)
LEMMA PortHandOverStep ==
    ASSUME PortInv, NEW p \in Pipes, port_handle_finished_transfer(p)
    PROVE  PortInv'
<1>0. RingCore /\ TypeOK /\ PortType
    BY DEF PortInv, RingCore
<1>1. PICK f \in Index : f = next_finish[p]
    BY <1>0, RingNumbers
<1>2. PICK e \in Errors, c \in 0..MaxChunks : HandedOver(p, f, e, c)
    BY <1>0, <1>1, PortHandsOver
<1>3. /\ CanCall(p) /\ pending_count[p] # 0
      /\ next_finish' = [next_finish EXCEPT
             ![p] = increment_and_wrap_size(@, transfer_count[p])]
      /\ \/ /\ endless_transfers_enabled[p]
            /\ next_submit' = [next_submit EXCEPT
                   ![p] = increment_and_wrap_size(@, transfer_count[p])]
            /\ pending_count' = pending_count
         \/ /\ ~endless_transfers_enabled[p]
            /\ pending_count' = [pending_count EXCEPT ![p] = @ - 1]
            /\ next_submit' = next_submit
      /\ UNCHANGED <<handle, pstate, transfer_count, endless_transfers_enabled,
                     allocated, connected, call, platform, aborting>>
    BY DEF port_handle_finished_transfer, port_submit_next_transfer
<1>4. /\ FlagAndQueue(p, f) /\ Cleared(p, f)
      /\ pending' \in [Pipes -> [Index -> BOOLEAN]]
      /\ error' \in [Pipes -> [Index -> Errors]]
      /\ data' \in [Pipes -> [Index -> 0..MaxChunks]]
      /\ inflight' \in [Pipes -> Seq(Index)]
      /\ produced' \in [Pipes -> 0..MaxChunks]
      /\ received' \in [Pipes -> 0..MaxChunks]
      /\ completed' \in Seq(Completion)
    BY ZenonT(40), <1>2, HandOverFacts DEF Cleared
<1>5. /\ KernelHasPending' /\ PendingIsInKernel'
      /\ PendingIsFresh' /\ RefusedIsEmpty'
      /\ \A q \in Pipes, i \in Index : pending'[q][i] =>
             pending[q][i] \/ (q = p /\ i = f /\ inflight'[p] # inflight[p])
    BY <1>3, <1>4, DriverAgrees
<1>6. ~endless_transfers_enabled[p] => inflight' = inflight /\ ~pending'[p][f]
    BY <1>0, <1>2 DEF HandedOver, TypeOK
<1>7. \A q \in Pipes, i \in Index : pending'[q][i] =>
          \/ pending[q][i]
          \/ endless_transfers_enabled[p] /\ q = p /\ i = f
    BY <1>5, <1>6
<1>8. TypeOK'
    <2>1. /\ next_submit' \in [Pipes -> Index] /\ next_finish' \in [Pipes -> Index]
          /\ pending_count' \in [Pipes -> 0..MaxCount]
        <3>1. /\ increment_and_wrap_size(next_submit[p], transfer_count[p]) \in Index
              /\ increment_and_wrap_size(next_finish[p], transfer_count[p]) \in Index
            BY <1>0, WrapType DEF TypeOK
        <3>2. pending_count[p] - 1 \in 0..MaxCount
            BY <1>0, <1>3, RingNumbers, MaxCountAssumption
        <3>3. next_finish' \in [Pipes -> Index]
            BY <1>0, <1>3, <3>1 DEF TypeOK
        <3>4. next_submit' \in [Pipes -> Index]
            BY <1>0, <1>3, <3>1 DEF TypeOK
        <3>5. pending_count' \in [Pipes -> 0..MaxCount]
            BY <1>0, <1>3, <3>2 DEF TypeOK
        <3>. QED
            BY <3>3, <3>4, <3>5
    <2>. QED
        BY <1>0, <1>3, <1>4, <2>1 DEF TypeOK
<1>9. RingCore'
    BY <1>0, <1>1, <1>3, <1>5, <1>6, <1>7, <1>8, RingHandsOver
<1>10. PortType'
    BY <1>0, <1>3 DEF PortType
<1>. QED
    BY <1>5, <1>9, <1>10 DEF PortInv

(* A message of the macOS port: the callback takes the oldest result. *)
LEMMA PortReceiveStep ==
    ASSUME PortInv, NEW p \in Pipes, mac_events_receive(p)
    PROVE  /\ PortInv'
           /\ async_in_transfer_handle_completion(Head(completed))
<1>. DEFINE u == completed[1]
<1>0. RingCore /\ TypeOK /\ PortType
    BY DEF PortInv, RingCore
<1>1. /\ completed # <<>> /\ completed' = Tail(completed)
      /\ handle' = handle /\ inflight' = inflight
      /\ UNCHANGED <<pstate, pipeVars, allocated, connected,
                     produced, call, received, platform, aborting>>
    BY DEF mac_events_receive
<1>2. async_in_transfer_handle_completion(Head(completed))
    BY DEF mac_events_receive, mac_transfer_callback, Become, With, Transfers,
           async_in_transfer_handle_completion
<1>3. completed \in Seq(Completion) /\ Head(completed) = u
    BY <1>0, <1>1 DEF TypeOK
<1>4. /\ 1 \in 1..Len(completed)
      /\ completed' \in Seq(Completion)
      /\ \A k \in 1..Len(completed) : k # 1 =>
             k - 1 \in 1..Len(completed') /\ completed'[k - 1] = completed[k]
    BY <1>1, <1>3
<1>5. /\ u.pipe \in Pipes /\ u.i \in Index
      /\ u.status \in Errors \ {"submit"} /\ u.chunk \in 0..MaxChunks
    BY <1>0, <1>4, ResultType
<1>6. /\ pending' = [pending EXCEPT ![u.pipe][u.i] = FALSE]
      /\ error' = [error EXCEPT ![u.pipe][u.i] = u.status]
      /\ data' = [data EXCEPT ![u.pipe][u.i] = u.chunk]
    BY <1>2, <1>3 DEF async_in_transfer_handle_completion
<1>7. /\ pending' \in [Pipes -> [Index -> BOOLEAN]]
      /\ error' \in [Pipes -> [Index -> Errors]]
      /\ data' \in [Pipes -> [Index -> 0..MaxChunks]]
      /\ ~pending'[u.pipe][u.i] /\ error'[u.pipe][u.i] # "submit"
      /\ \A q \in Pipes, i \in Index : q # u.pipe \/ i # u.i =>
             /\ pending'[q][i] = pending[q][i]
             /\ error'[q][i] = error[q][i]
             /\ data'[q][i] = data[q][i]
    <2>1. /\ pending \in [Pipes -> [Index -> BOOLEAN]]
          /\ error \in [Pipes -> [Index -> Errors]]
          /\ data \in [Pipes -> [Index -> 0..MaxChunks]]
        BY <1>0 DEF TypeOK
    <2>. QED
        BY <1>5, <1>6, <2>1
<1>8. TypeOK'
    BY <1>0, <1>1, <1>4, <1>7 DEF TypeOK, pipeVars
<1>9. RingCore'
    BY <1>0, <1>1, <1>2, <1>8, RingReap
<1>10. PendingIsInKernel'
    <2>1. ASSUME NEW q \in Pipes, NEW i \in Index, handle' = "open", pending'[q][i]
          PROVE  InKernel(q, i)'
        <3>1. pending[q][i] /\ (q # u.pipe \/ i # u.i)
            BY <1>7, <2>1
        <3>2. InKernel(q, i)
            BY <1>1, <2>1, <3>1 DEF PortInv, PendingIsInKernel
        <3>3. CASE Queued(q, i) # {}
            BY <1>1, <3>3 DEF InKernel, Queued
        <3>4. CASE Reapable(q, i) # {}
            <4>1. PICK k \in 1..Len(completed) :
                      completed[k].pipe = q /\ completed[k].i = i
                BY <3>4 DEF Reapable
            <4>2. k # 1
                BY <3>1, <4>1
            <4>3. k - 1 \in 1..Len(completed') /\ completed'[k - 1] = completed[k]
                BY <1>4, <4>2
            <4>4. k - 1 \in Reapable(q, i)'
                BY <4>1, <4>3 DEF Reapable
            <4>. QED
                BY <4>4 DEF InKernel
        <3>. QED
            BY <3>2, <3>3, <3>4 DEF InKernel
    <2>. QED
        BY <2>1 DEF PendingIsInKernel
<1>11. PendingIsFresh' /\ RefusedIsEmpty'
    <2>1. ASSUME NEW q \in Pipes, NEW i \in Index
          PROVE  /\ pending'[q][i] => error'[q][i] = "none" /\ data'[q][i] = 0
                 /\ error'[q][i] = "submit" => data'[q][i] = 0
        <3>1. CASE q = u.pipe /\ i = u.i
            BY <1>7, <3>1
        <3>2. CASE q # u.pipe \/ i # u.i
            <4>1. /\ pending'[q][i] = pending[q][i]
                  /\ error'[q][i] = error[q][i]
                  /\ data'[q][i] = data[q][i]
                BY <1>7, <3>2
            <4>2. /\ pending[q][i] => error[q][i] = "none" /\ data[q][i] = 0
                  /\ error[q][i] = "submit" => data[q][i] = 0
                BY DEF PortInv, PendingIsFresh, RefusedIsEmpty
            <4>. QED
                BY <4>1, <4>2
        <3>. QED
            BY <3>1, <3>2
    <2>. QED
        BY <2>1 DEF PendingIsFresh, RefusedIsEmpty
<1>12. PortType'
    BY <1>0, <1>1 DEF PortType
<1>. QED
    BY <1>2, <1>9, <1>10, <1>11, <1>12 DEF PortInv


-----------------------------------------------------------------------------
(***************************************************************************)
(* Steps that a port shares with Linux keep the ring; those that leave the *)
(* transfers and the driver's queues alone keep the rest.                  *)
(***************************************************************************)
LEMMA PortFrame ==
    ASSUME PortInv, RingCore', PortType', handle' = handle,
           pending' = pending, error' = error, data' = data,
           inflight' = inflight, completed' = completed
    PROVE  PortInv'
BY DEF PortInv, PendingIsInKernel, PendingIsFresh, RefusedIsEmpty, InKernel,
       Queued, Reapable

(* The actions of AsyncInPipe that the ports have too. *)
CommonStep ==
    \/ \E p \in Pipes :
        \/ async_in_pipe_create(p)
        \/ \E count \in 1..MaxCount : allocate_transfers(p, count)
        \/ start_endless_transfers(p)
        \/ async_in_pipe_close(p)
        \/ start_return(p)
        \/ handle_events(p)
    \/ Disconnect
    \/ UNCHANGED vars

LEMMA CommonIsStep == CommonStep => [Next]_vars
BY DEF CommonStep, Next, Continue

LEMMA PortCommonStep ==
    ASSUME PortInv, CommonStep, platform' = platform, aborting' = aborting
    PROVE  PortInv'
<1>1. RingCore'
    BY RingStep, CommonIsStep DEF PortInv
<1>2. PortType'
    BY DEF PortInv, PortType
<1>3. /\ handle' = handle /\ pending' = pending /\ error' = error
      /\ data' = data /\ inflight' = inflight /\ completed' = completed
    BY DEF CommonStep, async_in_pipe_create, allocate_transfers,
           start_endless_transfers, async_in_pipe_close, start_return,
           handle_events, Disconnect, vars, transferVars, kernelVars
<1>. QED
    BY <1>1, <1>2, <1>3, PortFrame

(* handle_events returns, whatever is left in the macOS port. *)
LEMMA PortReturnStep ==
    ASSUME PortInv, NEW p \in Pipes, mac_events_return(p)
    PROVE  PortInv'
<1>0. RingCore /\ TypeOK /\ PortType
    BY DEF PortInv, RingCore
<1>1. /\ call.op = "events" /\ call.pipe = p /\ call' = Idle
      /\ UNCHANGED <<handle, pstate, pipeVars, transferVars, kernelVars>>
      /\ received' = received
      /\ platform' = platform /\ aborting' = aborting
    BY DEF mac_events_return, InCall
<1>2. TypeOK'
    <2>1. call' \in Calls
        BY <1>1, MaxCountAssumption DEF Idle, Calls
    <2>. QED
        BY <1>0, <1>1, <2>1 DEF TypeOK, pipeVars, transferVars, kernelVars
<1>3. RingCore'
    BY <1>0, <1>1, <1>2, RingLeave
<1>4. PortType'
    BY <1>0, <1>1 DEF PortType
<1>5. /\ handle' = handle /\ pending' = pending /\ error' = error
      /\ data' = data /\ inflight' = inflight /\ completed' = completed
    BY <1>1 DEF transferVars, kernelVars
<1>. QED
    BY <1>3, <1>4, <1>5, PortFrame

(* cancel_transfers: one request for the whole pipe. *)
LEMMA PortCancelStep ==
    ASSUME PortInv, NEW p \in Pipes, port_cancel_transfers(p)
    PROVE  PortInv'
<1>0. RingCore /\ TypeOK /\ PortType
    BY DEF PortInv, RingCore
<1>1. /\ call = Idle
      /\ endless_transfers_enabled' =
             [endless_transfers_enabled EXCEPT ![p] = FALSE]
      /\ UNCHANGED <<handle, pstate, transfer_count, pending_count, next_finish,
                     next_submit, allocated, pending, error, data, connected,
                     inflight, completed, produced, call, received, platform>>
    BY DEF port_cancel_transfers, CanCall, transferVars, kernelVars
<1>2. /\ endless_transfers_enabled' \in [Pipes -> BOOLEAN]
      /\ \A q \in Pipes : endless_transfers_enabled'[q] =>
             endless_transfers_enabled[q]
    BY <1>0, <1>1 DEF TypeOK
<1>3. TypeOK'
    BY <1>0, <1>1, <1>2 DEF TypeOK
<1>4. RingIndices' /\ PendingInWindow' /\ KernelHasPending'
    BY <1>0, <1>1 DEF RingCore, RingIndices, PendingInWindow, KernelHasPending,
           Window, Slots, Distance
<1>5. PipeLife' /\ CallConsistent' /\ EndlessIsFull'
    <2>1. PipeLife'
        BY <1>0, <1>1, <1>2 DEF RingCore, PipeLife, Slots
    <2>2. CallConsistent'
        BY <1>0, <1>1, <1>2 DEF RingCore, CallConsistent, Idle
    <2>3. EndlessIsFull'
        BY <1>0, <1>1, <1>2 DEF RingCore, EndlessIsFull, InCall
    <2>. QED
        BY <2>1, <2>2, <2>3
<1>6. PortType'
    <2>1. /\ aborting' = AbortPipe(p) \/ aborting' = aborting
          /\ AbortPipe(p) \in [Pipes -> SUBSET Index]
        BY <1>0 DEF port_cancel_transfers, AbortPipe, PortType
    <2>. QED
        BY <1>0, <1>1, <2>1 DEF PortType
<1>7. RingCore'
    BY <1>3, <1>4, <1>5 DEF RingCore
<1>. QED
    BY <1>1, <1>6, <1>7, PortFrame

(* A read ends in the driver: its result waits where it was queued before. *)
LEMMA PortFinishStep ==
    ASSUME PortInv, RingCore', NEW p \in Pipes, NEW k \in 1..Len(inflight[p]),
           NEW status, NEW c, Finish(p, k, status, c),
           handle' = handle, pending' = pending, error' = error, data' = data,
           platform' = platform, NoLongerAborting(p, k)
    PROVE  PortInv'
<1>. DEFINE n == Len(completed)
<1>0. RingCore /\ TypeOK /\ PortType
    BY DEF PortInv, RingCore
<1>1. /\ inflight[p] \in Seq(Index) /\ completed \in Seq(Completion)
      /\ inflight \in [Pipes -> Seq(Index)]
    BY <1>0 DEF TypeOK
<1>. DEFINE r == [pipe |-> p, i |-> inflight[p][k], status |-> status,
                  chunk |-> c]
<1>2. /\ inflight'[p] = Without(inflight[p], k)
      /\ \A q \in Pipes \ {p} : inflight'[q] = inflight[q]
      /\ completed' = Append(completed, r)
    BY <1>1 DEF Finish
<1>3. /\ Len(completed') = n + 1 /\ completed'[n + 1] = r /\ n \in Nat
      /\ \A l \in 1..n : completed'[l] = completed[l]
    BY <1>1, <1>2
<1>4. /\ Len(inflight'[p]) = Len(inflight[p]) - 1
      /\ \A j \in 1..Len(inflight[p]) - 1 : inflight'[p][j] =
             IF j < k THEN inflight[p][j] ELSE inflight[p][j + 1]
    BY <1>1, <1>2, WithoutIsQueue
<1>. HIDE DEF n
<1>5. ASSUME NEW q \in Pipes, NEW i \in Index, handle' = "open", pending'[q][i]
      PROVE  InKernel(q, i)'
    <2>1. InKernel(q, i)
        BY <1>5 DEF PortInv, PendingIsInKernel
    <2>2. ASSUME NEW l \in 1..Len(completed'), completed'[l].pipe = q,
                 completed'[l].i = i
          PROVE  InKernel(q, i)'
        BY <2>2 DEF InKernel, Reapable
    <2>3. ASSUME NEW l \in 1..Len(inflight'[q]), inflight'[q][l] = i
          PROVE  InKernel(q, i)'
        BY <2>3 DEF InKernel, Queued
    <2>4. CASE Reapable(q, i) # {}
        <3>1. PICK l \in 1..n : completed[l].pipe = q /\ completed[l].i = i
            BY <2>4 DEF Reapable, n
        <3>2. l \in 1..Len(completed') /\ completed'[l] = completed[l]
            BY <1>3
        <3>. QED
            BY <2>2, <3>1, <3>2
    <2>5. CASE Queued(q, i) # {}
        <3>1. PICK l \in 1..Len(inflight[q]) : inflight[q][l] = i
            BY <2>5 DEF Queued
        <3>2. CASE q # p
            BY <1>2, <2>3, <3>1, <3>2
        <3>3. CASE q = p /\ l = k
            <4>1. n + 1 \in 1..Len(completed') /\ r.pipe = q /\ r.i = i
                BY <1>3, <3>1, <3>3
            <4>. QED
                BY <1>3, <2>2, <4>1
        <3>4. CASE q = p /\ l < k
            <4>1. l \in 1..Len(inflight'[p]) /\ inflight'[p][l] = inflight[p][l]
                BY <1>1, <1>4, <3>1, <3>4
            <4>. QED
                BY <2>3, <3>1, <3>4, <4>1
        <3>5. CASE q = p /\ l > k
            <4>1. /\ l - 1 \in 1..Len(inflight'[p])
                  /\ inflight'[p][l - 1] = inflight[p][l]
                BY <1>1, <1>4, <3>1, <3>5
            <4>. QED
                BY <2>3, <3>1, <3>5, <4>1
        <3>. QED
            BY <1>1, <3>1, <3>2, <3>3, <3>4, <3>5
    <2>. QED
        BY <2>1, <2>4, <2>5 DEF InKernel
<1>6. PendingIsInKernel'
    BY <1>5 DEF PendingIsInKernel
<1>7. PendingIsFresh' /\ RefusedIsEmpty'
    BY DEF PortInv, PendingIsFresh, RefusedIsEmpty
<1>8. PortType'
    BY <1>0 DEF PortType, NoLongerAborting
<1>. QED
    BY <1>6, <1>7, <1>8 DEF PortInv

LEMMA PortReadEndsStep ==
    ASSUME PortInv, NEW p \in Pipes, ReadEnds(p)
    PROVE  PortInv'
<1>1. RingCore'
    BY RingStep DEF PortInv, ReadEnds, Next
<1>2. 1 \in 1..Len(inflight[p])
    <2>1. inflight[p] \in Seq(Index) /\ inflight[p] # <<>>
        BY DEF PortInv, RingCore, TypeOK, ReadEnds, UrbCompletes, UrbKilled
    <2>. QED
        BY <2>1
<1>3. PICK status, c : Finish(p, 1, status, c)
    BY DEF ReadEnds, UrbCompletes, UrbKilled
<1>4. /\ handle' = handle /\ pending' = pending /\ error' = error
      /\ data' = data /\ platform' = platform /\ NoLongerAborting(p, 1)
    BY DEF ReadEnds, UrbCompletes, UrbKilled, transferVars
<1>. QED
    BY <1>1, <1>2, <1>3, <1>4, PortFinishStep

LEMMA PortAbortedStep ==
    ASSUME PortInv, NEW p \in Pipes, AbortedEnds(p)
    PROVE  PortInv'
<1>0. RingCore /\ TypeOK
    BY DEF PortInv, RingCore
<1>a. PICK k \in 1..Len(inflight[p]) :
          /\ \E c \in ChunksFor(p, k) : Finish(p, k, "cancelled", c)
          /\ NoLongerAborting(p, k)
    BY DEF AbortedEnds
<1>1. PICK c \in ChunksFor(p, k) : Finish(p, k, "cancelled", c)
    BY <1>a
<1>2. UNCHANGED <<handle, pstate, pipeVars, transferVars, connected, call,
                  received, platform>>
    BY DEF AbortedEnds
<1>3. c \in 0..MaxChunks
    BY MaxChunksAssumption DEF ChunksFor
<1>4. TypeOK'
    <2>1. /\ inflight' \in [Pipes -> Seq(Index)]
          /\ completed' \in Seq(Completion)
          /\ produced' \in [Pipes -> 0..MaxChunks]
        BY <1>0, <1>1, <1>3, FinishType DEF Errors
    <2>. QED
        BY <1>0, <1>2, <2>1 DEF TypeOK, pipeVars, transferVars
<1>5. RingCore'
    BY <1>0, <1>1, <1>2, <1>4, RingUrbEnds
<1>6. /\ handle' = handle /\ pending' = pending /\ error' = error
      /\ data' = data /\ platform' = platform
    BY <1>2 DEF transferVars
<1>. QED
    BY <1>a, <1>1, <1>5, <1>6, PortFinishStep

(* Closing the handle: the driver forgets everything. *)
LEMMA PortCloseStep ==
    ASSUME PortInv, port_handle_close
    PROVE  PortInv'
<1>1. RingCore'
    BY RingStep DEF PortInv, port_handle_close, Next
<1>2. /\ handle' = "closed" /\ pending' = pending /\ error' = error
      /\ data' = data /\ platform' = platform
      /\ aborting' = [p \in Pipes |-> {}]
    BY DEF port_handle_close, generic_handle_close, transferVars
<1>. QED
    BY <1>1, <1>2 DEF PortInv, PortType, PendingIsInKernel, PendingIsFresh,
           RefusedIsEmpty


-----------------------------------------------------------------------------
LEMMA PortInitInv == PortInit => PortInv
<1>. SUFFICES ASSUME PortInit PROVE PortInv
    OBVIOUS
<1>1. RingCore
    BY RingInit DEF PortInit
<1>. QED
    BY <1>1 DEF PortInit, Init, PortInv, PortType, PendingIsInKernel,
           PendingIsFresh, RefusedIsEmpty

(* Which step of the ports is a step that all platforms have. *)
LEMMA SharedIsCommon ==
    ASSUME [PortNext]_portVars
    PROVE  \/ CommonStep /\ platform' = platform /\ aborting' = aborting
           \/ \E p \in Pipes :
                \/ port_start_submit(p) \/ port_handle_finished_transfer(p)
                \/ mac_events_receive(p) \/ mac_events_return(p)
                \/ port_cancel_transfers(p) \/ ReadEnds(p) \/ AbortedEnds(p)
           \/ port_handle_close
<1>1. CASE UNCHANGED portVars
    BY <1>1 DEF portVars, CommonStep
<1>2. ASSUME NEW p \in Pipes,
             SharedCall(p) \/ mac_handle_events(p) \/ port_start_return(p)
      PROVE  CommonStep /\ platform' = platform /\ aborting' = aborting
    BY <1>2 DEF CommonStep, SharedCall, mac_handle_events, port_start_return
<1>3. CASE PortDisconnect \/ PortTerminated
    BY <1>3 DEF CommonStep, PortDisconnect, PortTerminated, Terminated
<1>. QED
    BY <1>1, <1>2, <1>3 DEF PortNext, PortContinue

LEMMA PortStep == PortInv /\ [PortNext]_portVars => PortInv'
<1>. SUFFICES ASSUME PortInv, [PortNext]_portVars PROVE PortInv'
    OBVIOUS
<1>. QED
    BY SharedIsCommon, PortCommonStep, PortStartStep, PortHandOverStep,
       PortReceiveStep, PortReturnStep, PortCancelStep, PortReadEndsStep,
       PortAbortedStep, PortCloseStep

(***************************************************************************)
(* The inductive invariant of the Windows and macOS ports, for any number  *)
(* of pipes, transfers and chunks: the ring is the one of Linux, although  *)
(* the transfers are asked and cancelled differently, and the flags of the *)
(* transfers say what the driver has.                                      *)
(***************************************************************************)
THEOREM PortCorrect == PortSpec => []PortInv
BY PortInitInv, PortStep, PTL DEF PortSpec

(***************************************************************************)
(* On Windows and macOS too, no memory that the driver may write to is     *)
(* freed: async_in_transfer_free leaks a pending transfer instead, and a   *)
(* transfer whose read the driver has is pending.                          *)
(***************************************************************************)
THEOREM PortMemoryIsSafe == PortSpec => []KernelMemorySafe
<1>1. PortInv => KernelMemorySafe
    BY CoreMemory DEF PortInv
<1>. QED
    BY <1>1, PortCorrect, PTL

(***************************************************************************)
(* The flag pending and the driver agree in both directions: a pending     *)
(* transfer will be answered, and a message for the macOS callback (or a   *)
(* result in an OVERLAPPED) finds the transfer pending, without an error   *)
(* and without data, as the callback asserts.                              *)
(***************************************************************************)
THEOREM PortFlagsMatchDriver == PortSpec => []FlagsMatchDriver
<1>1. PortInv => FlagsMatchDriver
    <2>. SUFFICES ASSUME PortInv PROVE CallbackAssertions
        BY DEF PortInv, FlagsMatchDriver
    <2>1. ASSUME NEW k \in 1..Len(completed)
          PROVE  /\ completed[k].pipe \in Pipes /\ completed[k].i \in Index
                 /\ pending[completed[k].pipe][completed[k].i]
        <3>1. completed[k] \in Completion
            BY DEF PortInv, RingCore, TypeOK
        <3>2. completed[k].pipe \in Pipes /\ completed[k].i \in Index
            BY <3>1 DEF Completion
        <3>. QED
            BY <3>2 DEF PortInv, RingCore, KernelHasPending
    <2>. QED
        BY <2>1 DEF CallbackAssertions, PortInv, PendingIsFresh
<1>. QED
    BY <1>1, PortCorrect, PTL

(***************************************************************************)
(* The assertions that async_in_pipe.c makes when it submits hold on       *)
(* Windows and macOS, and a transfer is never submitted while the driver   *)
(* has it.                                                                 *)
(***************************************************************************)
THEOREM PortSubmitAssertionsHold == PortSpec => []SubmitAssertions
<1>1. PortInv => SubmitAssertions
    BY CoreAsserts DEF PortInv
<1>. QED
    BY <1>1, PortCorrect, PTL

(***************************************************************************)
(* Between calls, an endless pipe of the ports has all its transfers       *)
(* pending, submitted again in the call that hands one over.               *)
(***************************************************************************)
THEOREM PortEndlessStaysFull == PortSpec => []EndlessKeepsAllPending
<1>1. PortInv => EndlessKeepsAllPending
    BY CoreEndless DEF PortInv
<1>. QED
    BY <1>1, PortCorrect, PTL

(***************************************************************************)
(* Closing a pipe for which has_pending_transfers reports nothing pending  *)
(* leaks no memory on Windows and macOS either.                            *)
(***************************************************************************)
THEOREM PortCloseLeaksNothingElse == PortSpec => CloseWithoutPendingFreesAll
<1>1. PortInv /\ [PortNext]_portVars =>
          [\A p \in Pipes :
              pstate[p] = "open" /\ pstate'[p] = "closed"
                      /\ ~has_pending_transfers(p)
                  => allocated'[p] = {}]_vars
    <2>. SUFFICES ASSUME PortInv, [PortNext]_portVars, NEW p \in Pipes,
                         pstate[p] = "open", pstate'[p] = "closed",
                         pending_count[p] = 0
                  PROVE  allocated'[p] = {}
        BY DEF has_pending_transfers
    <2>1. RingCore /\ pstate \in [Pipes -> {"none", "open", "closed"}]
        BY DEF PortInv, RingCore, TypeOK
    <2>2. CASE CommonStep
        <3>1. async_in_pipe_close(p)
            BY <2>1, <2>2 DEF CommonStep, async_in_pipe_create,
                   allocate_transfers, start_endless_transfers,
                   async_in_pipe_close, start_return, handle_events,
                   Disconnect, vars
        <3>. QED
            BY <2>1, <3>1, CoreClose
    <2>3. CASE ~CommonStep
        BY <2>3, SharedIsCommon
        DEF port_start_submit, port_handle_finished_transfer,
            mac_events_receive, mac_events_return, port_cancel_transfers,
            ReadEnds, UrbCompletes, UrbKilled, AbortedEnds, port_handle_close,
            generic_handle_close
    <2>. QED
        BY <2>2, <2>3
<1>. QED
    BY <1>1, PortCorrect, PTL DEF PortSpec, CloseWithoutPendingFreesAll


-----------------------------------------------------------------------------
(***************************************************************************)
(* The data on its way.  Only the transfer that is submitted or handed     *)
(* over changes what it holds, and it holds only what the driver stored at *)
(* once.                                                                   *)
(***************************************************************************)
LEMMA HeldElsewhere ==
    ASSUME NEW p \in Pipes, NEW f \in Index, Cleared(p, f), FlagAndQueue(p, f),
           \A q \in Pipes, i \in Index : q # p \/ i # f =>
               (i \in Window(q)' <=> i \in Window(q))
    PROVE  /\ \A q \in Pipes, i \in Index, c \in Chunks : q # p \/ i # f =>
                  (Holds(q, i, c)' <=> Holds(q, i, c))
           /\ \A c \in Chunks : Holds(p, f, c)' =>
                  /\ f \in Window(p)' /\ ~pending'[p][f]
                  /\ error'[p][f] # "submit" /\ data'[p][f] = c
           /\ \A c \in Chunks :
                  /\ f \in Window(p)' /\ ~pending'[p][f]
                  /\ error'[p][f] # "submit" /\ data'[p][f] = c
                  => Holds(p, f, c)'
<1>1. ASSUME NEW q \in Pipes, NEW i \in Index, NEW c \in Chunks, q # p \/ i # f
      PROVE  Holds(q, i, c)' <=> Holds(q, i, c)
    <2>1. /\ i \in Window(q)' <=> i \in Window(q)
          /\ pending'[q][i] = pending[q][i]
          /\ error'[q][i] = error[q][i] /\ data'[q][i] = data[q][i]
        BY <1>1 DEF FlagAndQueue
    <2>2. ASSUME NEW k \in 1..Len(completed'), completed'[k].pipe = q,
                 completed'[k].i = i, completed'[k].chunk = c
          PROVE  Holds(q, i, c)
        <3>1. PICK l \in 1..Len(completed) : completed'[k] = completed[l]
            BY DEF Cleared
        <3>. QED
            BY <2>2, <3>1 DEF Holds
    <2>3. ASSUME NEW l \in 1..Len(completed), completed[l].pipe = q,
                 completed[l].i = i, completed[l].chunk = c
          PROVE  Holds(q, i, c)'
        <3>1. PICK k \in 1..Len(completed') : completed'[k] = completed[l]
            BY <1>1, <2>3 DEF Cleared
        <3>. QED
            BY <2>3, <3>1 DEF Holds
    <2>. QED
        BY <2>1, <2>2, <2>3 DEF Holds
<1>2. \A k \in 1..Len(completed') :
          ~(completed'[k].pipe = p /\ completed'[k].i = f)
    BY DEF Cleared
<1>3. ASSUME NEW c \in Chunks
      PROVE  Holds(p, f, c)' <=>
                 /\ f \in Window(p)' /\ ~pending'[p][f]
                 /\ error'[p][f] # "submit" /\ data'[p][f] = c
    BY <1>2 DEF Holds
<1>. QED
    BY <1>1, <1>3

(* What is handed over is what the transfer held. *)
LEMMA HandsOverHeld ==
    ASSUME RingCore, NEW p \in Pipes, NEW f \in Index, f \in Window(p),
           NEW e \in Errors, NEW d \in 0..MaxChunks, ResultTaken(p, f, e, d)
    PROVE  \A c \in Chunks : Holds(p, f, c) <=> d = c /\ e # "submit"
<1>0. TypeOK
    BY DEF RingCore
<1>1. CASE ~pending[p][f] /\ e = error[p][f] /\ d = data[p][f]
    <2>1. \A k \in 1..Len(completed) :
              ~(completed[k].pipe = p /\ completed[k].i = f)
        BY <1>1 DEF RingCore, KernelHasPending
    <2>. QED
        BY <1>1, <2>1 DEF Holds
<1>2. CASE \E k \in 1..Len(completed) :
               /\ completed[k].pipe = p /\ completed[k].i = f
               /\ e = completed[k].status /\ d = completed[k].chunk
    <2>1. PICK k \in 1..Len(completed) :
               /\ completed[k].pipe = p /\ completed[k].i = f
               /\ e = completed[k].status /\ d = completed[k].chunk
        BY <1>2
    <2>2. /\ pending[p][f]
          /\ \A l \in 1..Len(completed) :
                 completed[l].pipe = p /\ completed[l].i = f => l = k
        BY <2>1 DEF RingCore, KernelHasPending
    <2>3. e # "submit"
        BY <1>0, <2>1, ResultType
    <2>. QED
        BY <2>1, <2>2, <2>3 DEF Holds
<1>. QED
    BY <1>1, <1>2 DEF ResultTaken

(* What a submission says of the data, in the words of the stream. *)
LEMMA HeldAfterSubmit ==
    ASSUME TypeOK, NEW p \in Pipes, NEW f \in Index, ReadSubmitted(p, f),
           f \in Window(p)',
           \A c \in Chunks : Holds(p, f, c)' =>
               /\ ~pending'[p][f]
               /\ error'[p][f] # "submit" /\ data'[p][f] = c,
           \A c \in Chunks :
               /\ f \in Window(p)' /\ ~pending'[p][f]
               /\ error'[p][f] # "submit" /\ data'[p][f] = c
               => Holds(p, f, c)'
    PROVE  \/ /\ produced'[p] = produced[p]
              /\ \A c \in Chunks : ~Holds(p, f, c)'
           \/ /\ produced'[p] = produced[p] + 1
              /\ Len(inflight[p]) = 0 /\ Len(inflight'[p]) = 0
              /\ \A c \in Chunks : Holds(p, f, c)' <=> c = produced'[p]
<1>1. \/ /\ produced'[p] = produced[p]
         /\ \/ pending'[p][f]
            \/ error'[p][f] = "submit"
            \/ data'[p][f] = 0
      \/ /\ produced'[p] = produced[p] + 1
         /\ inflight[p] = <<>> /\ inflight'[p] = <<>>
         /\ ~pending'[p][f] /\ error'[p][f] = "none"
         /\ data'[p][f] = produced'[p]
    BY SubmitFacts
<1>2. CASE /\ produced'[p] = produced[p]
           /\ \/ pending'[p][f]
              \/ error'[p][f] = "submit"
              \/ data'[p][f] = 0
    <2>1. \A c \in Chunks : c # 0
        BY DEF Chunks
    <2>. QED
        BY <1>2, <2>1
<1>3. CASE /\ produced'[p] = produced[p] + 1
           /\ inflight[p] = <<>> /\ inflight'[p] = <<>>
           /\ ~pending'[p][f] /\ error'[p][f] = "none"
           /\ data'[p][f] = produced'[p]
    <2>1. \A c \in Chunks : Holds(p, f, c)' <=> c = produced'[p]
        BY <1>3
    <2>. QED
        BY <1>3, <2>1
<1>. QED
    BY <1>1, <1>2, <1>3

(* What the queue of the pipe may become. *)
LEMMA QueueAfter ==
    ASSUME NEW p \in Pipes, NEW f \in Index, FlagAndQueue(p, f)
    PROVE  /\ \/ inflight'[p] = inflight[p]
              \/ /\ Len(inflight'[p]) = Len(inflight[p]) + 1
                 /\ inflight'[p][Len(inflight[p]) + 1] = f
                 /\ \A k \in 1..Len(inflight[p]) :
                        inflight'[p][k] = inflight[p][k]
           /\ \A q \in Pipes \ {p} :
                  inflight'[q] = inflight[q] /\ produced'[q] = produced[q]
BY DEF FlagAndQueue


(* start_endless_transfers submits the next transfer of the ring. *)
LEMMA PortStreamStart ==
    ASSUME PortInv, PortInv', StreamInv, NEW p \in Pipes, port_start_submit(p)
    PROVE  StreamInv'
<1>0. RingCore /\ TypeOK /\ TypeOK'
    BY DEF PortInv, RingCore
<1>1. PICK s \in Index : s = next_submit[p]
    BY <1>0, RingNumbers
<1>2. /\ pstate' = pstate /\ transfer_count' = transfer_count
      /\ next_finish' = next_finish /\ completed' = completed
      /\ received' = received
      /\ pending_count' = [pending_count EXCEPT ![p] = @ + 1]
      /\ InCall("start", p) /\ pending_count[p] < transfer_count[p]
    BY DEF port_start_submit
<1>3. /\ pstate[p] = "open" /\ ~pending[p][s]
      /\ \A k \in 1..Len(inflight[p]) : inflight[p][k] # s
      /\ \A c \in Chunks : ~Holds(p, s, c)
      /\ \A q \in Pipes, i \in Index :
             /\ Distance(q, i)' = Distance(q, i)
             /\ q # p \/ i # s => (i \in Window(q)' <=> i \in Window(q))
      /\ \A i \in Window(p) : Distance(p, i) < Distance(p, s)
    BY <1>0, <1>1, <1>2, WindowGrows
<1>4. ReadSubmitted(p, s) /\ Cleared(p, s)
    BY <1>0, <1>1, <1>2, <1>3, PortStartSubmits, IdleIsCleared
<1>5. FlagAndQueue(p, s)
    BY <1>0, <1>4, SubmitFacts
<1>6. s \in Window(p)'
    <2>1. /\ transfer_count[p] \in Nat /\ pending_count[p] \in Nat
          /\ next_finish[p] \in Nat
          /\ next_submit[p] =
                 IF next_finish[p] + pending_count[p] < transfer_count[p]
                 THEN next_finish[p] + pending_count[p]
                 ELSE next_finish[p] + pending_count[p] - transfer_count[p]
          /\ next_finish[p] < transfer_count[p]
        BY <1>0, <1>2, RingNumbers, MaxCountAssumption
        DEF RingCore, RingIndices
    <2>2. pending_count'[p] = pending_count[p] + 1
        BY <1>0, <1>2 DEF TypeOK
    <2>. QED
        BY <1>1, <1>2, <2>1, <2>2 DEF Window, Slots, Distance
<1>7. /\ \A q \in Pipes, i \in Index, c \in Chunks : q # p \/ i # s =>
             (Holds(q, i, c)' <=> Holds(q, i, c))
      /\ \/ /\ produced'[p] = produced[p]
            /\ \A c \in Chunks : ~Holds(p, s, c)'
         \/ /\ produced'[p] = produced[p] + 1
            /\ Len(inflight[p]) = 0 /\ Len(inflight'[p]) = 0
            /\ \A c \in Chunks : Holds(p, s, c)' <=> c = produced'[p]
    <2>1. /\ \A q \in Pipes, i \in Index, c \in Chunks : q # p \/ i # s =>
                 (Holds(q, i, c)' <=> Holds(q, i, c))
          /\ \A c \in Chunks : Holds(p, s, c)' =>
                 /\ s \in Window(p)' /\ ~pending'[p][s]
                 /\ error'[p][s] # "submit" /\ data'[p][s] = c
          /\ \A c \in Chunks :
                 /\ s \in Window(p)' /\ ~pending'[p][s]
                 /\ error'[p][s] # "submit" /\ data'[p][s] = c
                 => Holds(p, s, c)'
        BY <1>3, <1>4, <1>5, HeldElsewhere
    <2>. QED
        BY <1>0, <1>4, <1>6, <2>1, HeldAfterSubmit
<1>8. /\ \/ inflight'[p] = inflight[p]
         \/ /\ Len(inflight'[p]) = Len(inflight[p]) + 1
            /\ inflight'[p][Len(inflight[p]) + 1] = s
            /\ \A k \in 1..Len(inflight[p]) : inflight'[p][k] = inflight[p][k]
      /\ \A q \in Pipes \ {p} :
             inflight'[q] = inflight[q] /\ produced'[q] = produced[q]
    BY <1>5, QueueAfter
<1>9. Window(p) \subseteq Index
    BY <1>0, RingNumbers, MaxCountAssumption DEF Window, Slots, Index
<1>10. /\ \A i, j \in Window(p) \ {s} :
              Distance(p, i)' < Distance(p, j)' <=> Distance(p, i) < Distance(p, j)
       /\ \A i \in Window(p) \ {s} : Distance(p, i)' < Distance(p, s)'
    BY <1>3, <1>9
<1>. QED
    BY <1>0, <1>2, <1>3, <1>7, <1>8, <1>10, StreamAppend

(* handle_finished_transfer: the next chunk leaves the ring. *)
LEMMA PortStreamHandOver ==
    ASSUME PortInv, PortInv', StreamInv, NEW p \in Pipes,
           port_handle_finished_transfer(p)
    PROVE  /\ StreamInv'
           /\ received'[p] \in {received[p], received[p] + 1}
           /\ \A q \in Pipes \ {p} : received'[q] = received[q]
<1>0. RingCore /\ TypeOK /\ PortType /\ TypeOK'
    BY DEF PortInv, RingCore
<1>1. PICK f \in Index : f = next_finish[p]
    BY <1>0, RingNumbers
<1>2. PICK e \in Errors, d \in 0..MaxChunks : HandedOver(p, f, e, d)
    BY <1>0, <1>1, PortHandsOver
<1>3. /\ CanCall(p) /\ pending_count[p] # 0 /\ pstate' = pstate
      /\ next_finish' = [next_finish EXCEPT
             ![p] = increment_and_wrap_size(@, transfer_count[p])]
      /\ transfer_count' = transfer_count
      /\ \/ endless_transfers_enabled[p] /\ pending_count' = pending_count
         \/ /\ ~endless_transfers_enabled[p]
            /\ pending_count' = [pending_count EXCEPT ![p] = @ - 1]
    BY DEF port_handle_finished_transfer
<1>4. /\ pstate[p] = "open" /\ transfer_count[p] # 0 /\ f \in Window(p)
      /\ \A i \in Index : i # f => (i \in Window(p)' <=> i \in Window(p))
      /\ f \in Window(p)' <=> endless_transfers_enabled[p]
      /\ \A q \in Pipes \ {p}, i \in Index : i \in Window(q)' <=> i \in Window(q)
    BY <1>0, <1>1, <1>3, WindowTurns
<1>5. FlagAndQueue(p, f) /\ Cleared(p, f)
    BY <1>2, HandOverFacts
<1>6. /\ received'[p] = IF d = 0 \/ e = "submit" THEN received[p] ELSE d
      /\ \A q \in Pipes \ {p} : received'[q] = received[q]
    BY <1>0, <1>2 DEF HandedOver, TypeOK
<1>7. \A c \in Chunks : Holds(p, f, c) <=> d = c /\ e # "submit"
    BY <1>0, <1>2, <1>4, HandsOverHeld DEF HandedOver
<1>8. \/ /\ received'[p] = received[p]
         /\ \A c \in Chunks : ~Holds(p, f, c)
      \/ /\ received'[p] = received[p] + 1
         /\ received'[p] \in Chunks
         /\ \A c \in Chunks : Holds(p, f, c) <=> c = received'[p]
    <2>1. RingCore /\ pstate[p] = "open" /\ transfer_count[p] # 0
        BY <1>0, <1>4
    <2>2. received'[p] = IF d = 0 \/ e = "submit" THEN received[p] ELSE d
        BY <1>6
    <2>. QED
        BY <1>1, <1>7, <2>1, <2>2, NextChunkIsFirst
<1>9. /\ \A q \in Pipes, i \in Index, c \in Chunks : q # p \/ i # f =>
             (Holds(q, i, c)' <=> Holds(q, i, c))
      /\ \A c \in Chunks : Holds(p, f, c)' =>
             /\ f \in Window(p)' /\ ~pending'[p][f]
             /\ error'[p][f] # "submit" /\ data'[p][f] = c
      /\ \A c \in Chunks :
             /\ f \in Window(p)' /\ ~pending'[p][f]
             /\ error'[p][f] # "submit" /\ data'[p][f] = c
             => Holds(p, f, c)'
    <2>1. \A q \in Pipes, i \in Index : q # p \/ i # f =>
              (i \in Window(q)' <=> i \in Window(q))
        BY <1>4
    <2>. QED
        BY <1>5, <2>1, HeldElsewhere
<1>10. \/ /\ produced'[p] = produced[p]
          /\ \A c \in Chunks : ~Holds(p, f, c)'
       \/ /\ produced'[p] = produced[p] + 1
          /\ Len(inflight[p]) = 0 /\ Len(inflight'[p]) = 0
          /\ \A c \in Chunks : Holds(p, f, c)' <=> c = produced'[p]
    <2>1. CASE endless_transfers_enabled[p]
        <3>1. ReadSubmitted(p, f) /\ f \in Window(p)'
            BY <1>2, <1>4, <2>1 DEF HandedOver
        <3>. QED
            BY <1>0, <1>9, <3>1, HeldAfterSubmit
    <2>2. CASE ~endless_transfers_enabled[p]
        BY <1>2, <1>4, <1>9, <2>2 DEF HandedOver
    <2>. QED
        BY <2>1, <2>2
<1>11. /\ \/ inflight'[p] = inflight[p]
          \/ /\ Len(inflight'[p]) = Len(inflight[p]) + 1
             /\ inflight'[p][Len(inflight[p]) + 1] = f
             /\ \A k \in 1..Len(inflight[p]) : inflight'[p][k] = inflight[p][k]
       /\ \A q \in Pipes \ {p} :
              inflight'[q] = inflight[q] /\ produced'[q] = produced[q]
       /\ \A k \in 1..Len(inflight[p]) : inflight[p][k] # f
    BY <1>5, QueueAfter DEF Cleared
<1>12. StreamInv'
    BY ZenonT(40), <1>0, <1>1, <1>3, <1>6, <1>8, <1>9, <1>10, <1>11, StreamTurn
<1>. QED
    BY <1>6, <1>8, <1>12

(* The read of an aborted transfer ends, anywhere in the queue. *)
LEMMA PortStreamAborted ==
    ASSUME PortInv, StreamInv, NEW p \in Pipes, AbortedEnds(p)
    PROVE  StreamInv'
<1>1. PICK k \in 1..Len(inflight[p]) :
          \E c \in ChunksFor(p, k) : Finish(p, k, "cancelled", c)
    BY DEF AbortedEnds
<1>2. PICK c \in ChunksFor(p, k) : Finish(p, k, "cancelled", c)
    BY <1>1
<1>3. UNCHANGED <<pstate, pipeVars, transferVars, received>>
    BY DEF AbortedEnds
<1>. QED
    BY <1>2, <1>3, StreamFinish DEF PortInv

(* Steps that touch neither the ring nor the data. *)
LEMMA PortStreamQuiet ==
    ASSUME PortInv, StreamInv, NEW p \in Pipes,
           port_cancel_transfers(p) \/ mac_events_return(p)
    PROVE  StreamInv'
<1>1. /\ pstate' = pstate
      /\ UNCHANGED <<transfer_count, pending_count, next_finish, pending,
                     error, data, inflight, completed, produced, received>>
    BY DEF port_cancel_transfers, mac_events_return, pipeVars, transferVars,
           kernelVars
<1>2. \A q \in Pipes, i \in Index, c \in Chunks : Holds(q, i, c)' <=> Holds(q, i, c)
    BY <1>1 DEF Holds, Window, Slots, Distance
<1>3. \A q \in Pipes, i \in Index : Distance(q, i)' = Distance(q, i)
    BY <1>1 DEF Distance
<1>4. TypeOK
    BY DEF PortInv, RingCore
<1>. QED
    BY <1>1, <1>2, <1>3, <1>4, StreamFrame

LEMMA PortStreamStep ==
    PortInv /\ PortInv' /\ StreamInv /\ [PortNext]_portVars => StreamInv'
<1>. SUFFICES ASSUME PortInv, PortInv', StreamInv, [PortNext]_portVars
              PROVE  StreamInv'
    OBVIOUS
<1>0. RingCore /\ RingCore'
    BY DEF PortInv
<1>1. CASE CommonStep
    BY <1>0, <1>1, StreamStep, CommonIsStep
<1>2. ASSUME NEW p \in Pipes, mac_events_receive(p) PROVE StreamInv'
    <2>1. /\ completed # <<>> /\ completed' = Tail(completed)
          /\ UNCHANGED <<pstate, transfer_count, pending_count, next_finish,
                         inflight, produced, received>>
        BY <1>2 DEF mac_events_receive, pipeVars
    <2>2. async_in_transfer_handle_completion(Head(completed))
        BY <1>2, PortReceiveStep
    <2>. QED
        BY <1>0, <2>1, <2>2, StreamReap
<1>3. ASSUME NEW p \in Pipes, ReadEnds(p) PROVE StreamInv'
    BY <1>0, <1>3, StreamUrbEnds DEF ReadEnds
<1>4. CASE port_handle_close
    BY <1>0, <1>4, StreamQuiet DEF port_handle_close
<1>. QED
    BY <1>1, <1>2, <1>3, <1>4, SharedIsCommon, PortStreamStart,
       PortStreamHandOver, PortStreamAborted, PortStreamQuiet


(***************************************************************************)
(* The ports carry the data as Linux does: PortInv and StreamInv are       *)
(* invariants on Windows and macOS, also for reads that complete inside    *)
(* WinUsb_ReadPipe and for an AbortPipe that ends reads in any order.      *)
(***************************************************************************)
THEOREM PortStreamCorrect == PortSpec => [](PortInv /\ StreamInv)
<1>1. PortInit => PortInv /\ StreamInv
    BY PortInitInv, StreamInit DEF PortInit
<1>2. PortInv /\ StreamInv /\ [PortNext]_portVars => PortInv' /\ StreamInv'
    BY PortStep, PortStreamStep
<1>. QED
    BY <1>1, <1>2, PTL DEF PortSpec

(***************************************************************************)
(* On Windows and macOS, handle_finished_transfer never reports bytes that *)
(* it reported before: these ports reset the count when they submit, so    *)
(* that a refused read reports nothing (on Linux it reports stale bytes).  *)
(***************************************************************************)
THEOREM PortReportedDataIsNew == PortSpec => []ReportedDataIsNew
<1>1. PortInv /\ StreamInv => ReportedDataIsNew
    <2>. SUFFICES ASSUME PortInv, StreamInv, NEW p \in Pipes,
                         pstate[p] = "open", pending_count[p] # 0,
                         ~pending[p][next_finish[p]]
                  PROVE  data[p][next_finish[p]]
                             \in {0} \cup received[p] + 1..MaxChunks
        BY DEF ReportedDataIsNew, async_in_transfer_get_results
    <2>1. RingCore /\ TypeOK
        BY DEF PortInv, RingCore
    <2>2. PICK f \in Index : f = next_finish[p]
        BY <2>1, RingNumbers
    <2>3. PICK d \in 0..MaxChunks : d = data[p][f]
        BY <2>1 DEF TypeOK
    <2>4. f \in Window(p)
        BY <2>1, <2>2, RingNumbers, MaxCountAssumption
        DEF Window, Slots, Distance, RingCore, RingIndices
    <2>5. CASE d # 0
        <3>1. d \in Chunks
            BY <2>5, MaxChunksAssumption DEF Chunks
        <3>2. error[p][f] # "submit"
            BY <2>3, <2>5 DEF PortInv, RefusedIsEmpty
        <3>3. Holds(p, f, d)
            BY <2>2, <2>3, <2>4, <3>2 DEF Holds
        <3>4. received[p] < d
            BY <3>1, <3>3 DEF StreamInv, ChunksInRingOrder
        <3>5. received[p] \in 0..MaxChunks
            BY <2>1 DEF TypeOK
        <3>. QED
            BY <2>2, <2>3, <3>4, <3>5, MaxChunksAssumption
    <2>. QED
        BY <2>2, <2>3, <2>5
<1>. QED
    BY <1>1, PortStreamCorrect, PTL

(***************************************************************************)
(* AbortPipe loses no data: when has_pending_transfers says that nothing   *)
(* is pending, the user has received every chunk the device sent.          *)
(***************************************************************************)
THEOREM PortNothingIsLost == PortSpec => []NothingPendingMeansNothingLost
<1>1. PortInv /\ StreamInv => NothingPendingMeansNothingLost
    BY CoreNothingLost DEF PortInv
<1>. QED
    BY <1>1, PortStreamCorrect, PTL

(***************************************************************************)
(* On Windows and macOS too the chunks of an endpoint reach the user in    *)
(* the order in which the device sent them, each once, although Windows    *)
(* collects a result only when its transfer is the oldest and AbortPipe    *)
(* ends the reads in any order.                                            *)
(***************************************************************************)
THEOREM PortDeliveryIsInOrder == PortSpec => DeliveredInOrder
<1>1. ASSUME PortInv, StreamInv, [PortNext]_portVars, NEW p \in Pipes
      PROVE  received'[p] \in {received[p], received[p] + 1}
    <2>0. PortInv'
        BY <1>1, PortStep
    <2>1. ASSUME NEW q \in Pipes, port_handle_finished_transfer(q)
          PROVE  received'[p] \in {received[p], received[p] + 1}
        BY <1>1, <2>0, <2>1, PortStreamHandOver
    <2>2. CASE ~(\E q \in Pipes : port_handle_finished_transfer(q))
        <3>1. received' = received
            BY <1>1, <2>2, SharedIsCommon
            DEF CommonStep, vars, async_in_pipe_create, allocate_transfers,
                start_endless_transfers, handle_events, async_in_pipe_close,
                start_return, Disconnect, port_start_submit,
                mac_events_receive, mac_events_return, port_cancel_transfers,
                ReadEnds, UrbCompletes, UrbKilled, AbortedEnds,
                port_handle_close, generic_handle_close
        <3>. QED
            BY <3>1
    <2>. QED
        BY <2>1, <2>2
<1>2. PortInv /\ StreamInv /\ [PortNext]_portVars =>
          [\A p \in Pipes : received'[p] \in {received[p], received[p] + 1}]_vars
    BY <1>1
<1>. QED
    BY <1>2, PortStreamCorrect, PTL DEF PortSpec, DeliveredInOrder

-----------------------------------------------------------------------------
(***************************************************************************)
(* The pipes of Windows and macOS implement the queue of requests of       *)
(* TransferQueue, as those of Linux do.  The lemmas of                     *)
(* AsyncInPipeRefinement say what a step must do to the answers of the     *)
(* ring; here it is shown that the steps of the ports do that.             *)
(***************************************************************************)
(* Only the answer of the transfer that is submitted or handed over may    *)
(* change.                                                                 *)
LEMMA OtherAnswers ==
    ASSUME RingCore, RingCore', NEW p \in Pipes, NEW f \in Index,
           Cleared(p, f), FlagAndQueue(p, f)
    PROVE  \A q \in Pipes, i \in Index : q # p \/ i # f =>
               Answered(q, i)' = Answered(q, i)
<1>0. AnswersAreKnown /\ AnswersAreKnown'
    BY AnswersKnown, AnswersKnownNext
<1>. SUFFICES ASSUME NEW q \in Pipes, NEW i \in Index, q # p \/ i # f
              PROVE  Answered(q, i)' = Answered(q, i)
    OBVIOUS
<1>1. /\ error'[q][i] = error[q][i] /\ data'[q][i] = data[q][i]
    BY DEF FlagAndQueue
<1>2. Queued(q, i)' = {} <=> Queued(q, i) = {}
    <2>1. CASE inflight'[q] = inflight[q]
        BY <2>1 DEF Queued
    <2>2. CASE /\ q = p
               /\ Len(inflight'[p]) = Len(inflight[p]) + 1
               /\ inflight'[p][Len(inflight[p]) + 1] = f
               /\ \A k \in 1..Len(inflight[p]) : inflight'[p][k] = inflight[p][k]
        <3>1. Len(inflight[p]) \in Nat
            BY DEF RingCore, TypeOK
        <3>2. Queued(q, i)' = Queued(q, i)
            BY <2>2, <3>1 DEF Queued
        <3>. QED
            BY <3>2
    <2>. QED
        BY <2>1, <2>2 DEF FlagAndQueue
<1>3. CASE Queued(q, i) # {}
    BY <1>0, <1>2, <1>3 DEF AnswersAreKnown, Wait
<1>4. CASE Reapable(q, i) # {}
    <2>1. PICK l \in 1..Len(completed) : completed[l].pipe = q /\ completed[l].i = i
        BY <1>4 DEF Reapable
    <2>2. PICK k \in 1..Len(completed') : completed'[k] = completed[l]
        BY <2>1 DEF Cleared
    <2>3. l \in Reapable(q, i) /\ k \in Reapable(q, i)'
        BY <2>1, <2>2 DEF Reapable
    <2>4. Answered(q, i) =
              [status |-> completed[l].status, chunk |-> completed[l].chunk]
        BY <1>0, <2>3 DEF AnswersAreKnown
    <2>5. Answered(q, i)' =
              [status |-> completed'[k].status, chunk |-> completed'[k].chunk]
        BY <1>0, <2>3 DEF AnswersAreKnown
    <2>. QED
        BY <2>2, <2>4, <2>5
<1>5. CASE Queued(q, i) = {} /\ Reapable(q, i) = {}
    <2>1. ASSUME NEW k \in Reapable(q, i)' PROVE FALSE
        <3>1. /\ k \in 1..Len(completed') /\ completed'[k].pipe = q
              /\ completed'[k].i = i
            BY DEF Reapable
        <3>2. PICK l \in 1..Len(completed) : completed'[k] = completed[l]
            BY <3>1 DEF Cleared
        <3>3. l \in Reapable(q, i)
            BY <3>1, <3>2 DEF Reapable
        <3>. QED
            BY <1>5, <3>3
    <2>2. Answered(q, i) = Settled(q, i) /\ Answered(q, i)' = Settled(q, i)'
        BY <1>0, <1>2, <1>5, <2>1 DEF AnswersAreKnown, InKernel
    <2>. QED
        BY <1>1, <2>2 DEF Settled
<1>. QED
    BY <1>3, <1>4, <1>5

(* What a submission is answered at once. *)
LEMMA SubmitOutcome ==
    ASSUME RingCore, RingCore', NEW p \in Pipes, NEW f \in Index,
           Cleared(p, f), FlagAndQueue(p, f), ReadSubmitted(p, f)
    PROVE  \E r : Outcome(p, r) /\ Answered(p, f)' = r
<1>0. AnswersAreKnown' /\ TypeOK
    BY AnswersKnownNext DEF RingCore
<1>1. PICK b \in BOOLEAN, e \in {"none", "submit"}, c \in 0..MaxChunks :
          /\ pending' = [pending EXCEPT ![p][f] = b]
          /\ error' = [error EXCEPT ![p][f] = e]
          /\ data' = [data EXCEPT ![p][f] = c]
          /\ e = "submit" => c = 0
          /\ b => e = "none" /\ c = 0
          /\ \/ /\ b /\ inflight' = [inflight EXCEPT ![p] = Append(@, f)]
                /\ produced' = produced
             \/ ~b /\ c = 0 /\ inflight' = inflight /\ produced' = produced
             \/ /\ ~b /\ e = "none" /\ c = produced[p] + 1
                /\ inflight[p] = <<>> /\ inflight' = inflight
                /\ produced' = [produced EXCEPT ![p] = c]
    BY DEF ReadSubmitted
<1>2. /\ pending'[p][f] = b
      /\ error'[p][f] = e
      /\ data'[p][f] = c
    <2>1. pending \in [Pipes -> [Index -> BOOLEAN]]
        BY <1>0 DEF TypeOK
    <2>2. error \in [Pipes -> [Index -> Errors]]
        BY <1>0 DEF TypeOK
    <2>3. data \in [Pipes -> [Index -> 0..MaxChunks]]
        BY <1>0 DEF TypeOK
    <2>4. pending'[p][f] = b
        BY <1>1, <2>1
    <2>5. error'[p][f] = e
        BY <1>1, <2>2
    <2>6. data'[p][f] = c
        BY <1>1, <2>3
    <2>. QED
        BY <2>4, <2>5, <2>6
<1>3. CASE b
    <2>1. /\ Len(inflight'[p]) = Len(inflight[p]) + 1
          /\ inflight'[p][Len(inflight[p]) + 1] = f
          /\ Len(inflight[p]) \in Nat
        BY <1>0, <1>2, <1>3 DEF FlagAndQueue, TypeOK
    <2>2. Len(inflight[p]) + 1 \in Queued(p, f)'
        BY <2>1 DEF Queued
    <2>3. Answered(p, f)' = Wait
        BY <1>0, <2>2 DEF AnswersAreKnown, Wait
    <2>4. produced' = produced
        BY <1>1, <1>3
    <2>. QED
        BY <2>3, <2>4 DEF Outcome
<1>4. CASE ~b
    <2>0. ~pending'[p][f]
        BY <1>2, <1>4
    <2>1. inflight'[p] = inflight[p]
        BY <2>0 DEF FlagAndQueue
    <2>2. Queued(p, f)' = {} /\ Reapable(p, f)' = {}
        <3>1. /\ \A k \in 1..Len(inflight[p]) : inflight[p][k] # f
              /\ \A k \in 1..Len(completed') :
                     ~(completed'[k].pipe = p /\ completed'[k].i = f)
            BY DEF Cleared
        <3>2. Queued(p, f)' = {}
            BY <2>1, <3>1 DEF Queued
        <3>3. Reapable(p, f)' = {}
            BY <3>1 DEF Reapable
        <3>. QED
            BY <3>2, <3>3
    <2>3. Answered(p, f)' = Settled(p, f)'
        BY <1>0, <2>2 DEF AnswersAreKnown, InKernel
    <2>4. Settled(p, f)' =
              [status |-> e, chunk |-> IF e = "submit" THEN 0 ELSE c]
        BY <1>2 DEF Settled
    <2>5. CASE e = "submit"
        <3>1. Answered(p, f)' = NotSubmitted
            BY <2>3, <2>4, <2>5 DEF NotSubmitted
        <3>2. produced' = produced
            BY <1>1, <1>4, <2>5
        <3>. QED
            BY <3>1, <3>2 DEF Outcome
    <2>6. CASE e = "none"
        <3>. DEFINE r == [status |-> "none", chunk |-> c]
        <3>1. Answered(p, f)' = r
            BY <2>3, <2>4, <2>6
        <3>2. r \in QueueView!Answer /\ r.chunk = c
            BY DEF QueueView!Answer
        <3>3. \/ c = 0 /\ produced' = produced
              \/ /\ c = produced[p] + 1 /\ inflight[p] = <<>>
                 /\ produced' = [produced EXCEPT ![p] = c]
            BY <1>1, <1>4
        <3>4. Outcome(p, r)
            <4>. HIDE DEF r
            <4>. QED
                BY <3>2, <3>3 DEF Outcome
        <3>. QED
            BY <3>1, <3>4
    <2>. QED
        BY <2>5, <2>6
<1>. QED
    BY <1>3, <1>4

(* The answer of the transfer that is handed over: on Windows it may still *)
(* be in the OVERLAPPED structure.                                         *)
LEMMA TakenAnswer ==
    ASSUME RingCore, NEW p \in Pipes, NEW f \in Index,
           NEW e \in Errors, NEW c \in 0..MaxChunks, ResultTaken(p, f, e, c)
    PROVE  Answered(p, f) =
               [status |-> e, chunk |-> IF e = "submit" THEN 0 ELSE c]
<1>0. AnswersAreKnown /\ TypeOK
    BY AnswersKnown DEF RingCore
<1>1. CASE ~pending[p][f] /\ e = error[p][f] /\ c = data[p][f]
    <2>1. ~InKernel(p, f)
        BY <1>1 DEF InKernel, Queued, Reapable, RingCore, KernelHasPending
    <2>. QED
        BY <1>0, <1>1, <2>1 DEF AnswersAreKnown, Settled
<1>2. ASSUME NEW k \in 1..Len(completed), completed[k].pipe = p,
             completed[k].i = f, e = completed[k].status,
             c = completed[k].chunk
      PROVE  Answered(p, f) =
                 [status |-> e, chunk |-> IF e = "submit" THEN 0 ELSE c]
    <2>1. k \in Reapable(p, f)
        BY <1>2 DEF Reapable
    <2>2. e # "submit"
        BY <1>0, <1>2, ResultType
    <2>3. Answered(p, f) = [status |-> e, chunk |-> c]
        BY <1>0, <1>2, <2>1 DEF AnswersAreKnown
    <2>. QED
        BY <2>2, <2>3
<1>. QED
    BY <1>1, <1>2 DEF ResultTaken


-----------------------------------------------------------------------------
(* One iteration of the loop of start_endless_transfers is a request. *)
LEMMA PortSubmitQueue ==
    ASSUME PortInv, PortInv', NEW p \in Pipes, port_start_submit(p)
    PROVE  QueueStep
<1>0. RingCore /\ RingCore' /\ TypeOK
    BY DEF PortInv, RingCore
<1>1. PICK s \in Index : s = next_submit[p]
    BY <1>0, RingNumbers
<1>2. /\ InCall("start", p) /\ pending_count[p] < transfer_count[p]
      /\ pending_count' = [pending_count EXCEPT ![p] = @ + 1]
      /\ transfer_count' = transfer_count /\ next_finish' = next_finish
      /\ pstate' = pstate /\ received' = received /\ completed' = completed
      /\ endless_transfers_enabled' = endless_transfers_enabled
    BY DEF port_start_submit
<1>3. ~pending[p][s]
    <2>1. transfer_count[p] # 0
        BY <1>0, <1>2, RingNumbers
    <2>. QED
        BY <1>0, <1>1, <1>2, <2>1, NextSubmitSlot
<1>4. ReadSubmitted(p, s) /\ Cleared(p, s)
    BY <1>0, <1>1, <1>2, <1>3, PortStartSubmits, IdleIsCleared
<1>5. FlagAndQueue(p, s)
    BY <1>0, <1>4, SubmitFacts
<1>6. PICK r : Outcome(p, r) /\ Answered(p, s)' = r
    BY <1>0, <1>4, <1>5, SubmitOutcome
<1>7. \A q \in Pipes, i \in Index : q # p \/ i # s =>
          Answered(q, i)' = Answered(q, i)
    BY <1>0, <1>4, <1>5, OtherAnswers
<1>. QED
    BY <1>0, <1>1, <1>2, <1>6, <1>7, RequestQueue

(* handle_finished_transfer delivers the head of the queue. *)
LEMMA PortHandOverQueue ==
    ASSUME PortInv, PortInv', NEW p \in Pipes, port_handle_finished_transfer(p)
    PROVE  QueueStep
<1>0. RingCore /\ RingCore' /\ TypeOK /\ PortType
    BY DEF PortInv, RingCore
<1>1. PICK f \in Index : f = next_finish[p]
    BY <1>0, RingNumbers
<1>2. PICK e \in Errors, c \in 0..MaxChunks : HandedOver(p, f, e, c)
    BY <1>0, <1>1, PortHandsOver
<1>3. /\ CanCall(p) /\ pending_count[p] # 0
      /\ pstate' = pstate /\ transfer_count' = transfer_count
      /\ endless_transfers_enabled' = endless_transfers_enabled
      /\ next_finish' = [next_finish EXCEPT
             ![p] = increment_and_wrap_size(@, transfer_count[p])]
    BY DEF port_handle_finished_transfer
<1>4. FlagAndQueue(p, f) /\ Cleared(p, f)
    BY <1>2, HandOverFacts
<1>5. PICK a : a = [status |-> e, chunk |-> IF e = "submit" THEN 0 ELSE c]
    OBVIOUS
<1>6. Answered(p, f) = a /\ a # Wait
    <2>1. Answered(p, f) = a
        BY <1>0, <1>2, <1>5, TakenAnswer DEF HandedOver
    <2>2. a.status = e /\ Wait.status = "waiting" /\ e # "waiting"
        BY <1>5 DEF Wait, Errors
    <2>. QED
        BY <2>1, <2>2
<1>7. received' = [received EXCEPT ![p] = IF a.chunk = 0 THEN @ ELSE a.chunk]
    <2>1. received' = [received EXCEPT
              ![p] = IF c = 0 \/ e = "submit" THEN @ ELSE c]
        BY <1>2 DEF HandedOver
    <2>2. a.chunk = IF e = "submit" THEN 0 ELSE c
        BY <1>5
    <2>. QED
        BY <2>1, <2>2
<1>8. \A q \in Pipes, i \in Index : q # p \/ i # f =>
          Answered(q, i)' = Answered(q, i)
    BY <1>0, <1>4, OtherAnswers
<1>9. CASE endless_transfers_enabled[p]
    <2>1. ReadSubmitted(p, f)
        BY <1>2, <1>9 DEF HandedOver
    <2>2. pending_count' = pending_count
        BY <1>9 DEF port_handle_finished_transfer
    <2>3. PICK r : Outcome(p, r) /\ Answered(p, f)' = r
        BY <1>0, <1>4, <2>1, SubmitOutcome
    <2>. QED
        BY <1>0, <1>1, <1>3, <1>6, <1>7, <1>8, <1>9, <2>2, <2>3, DeliverQueue
<1>10. CASE ~endless_transfers_enabled[p]
    <2>1. produced' = produced
        BY <1>2, <1>10 DEF HandedOver
    <2>2. pending_count' = [pending_count EXCEPT ![p] = @ - 1]
        BY <1>10 DEF port_handle_finished_transfer
    <2>. QED
        BY <1>0, <1>1, <1>3, <1>6, <1>7, <1>8, <1>10, <2>1, <2>2, DeliverQueue
<1>. QED
    BY <1>9, <1>10

(* cancel_transfers only makes the pipe stop asking again. *)
LEMMA PortCancelQueue ==
    ASSUME PortInv, NEW p \in Pipes, port_cancel_transfers(p)
    PROVE  QueueStep
<1>0. RingCore
    BY DEF PortInv
<1>1. \A q \in Pipes : QueueOf(q)' = QueueOf(q)
    BY <1>0, QueueFrame, AnsweredFrame
       DEF port_cancel_transfers, transferVars, kernelVars
<1>2. QueueView!Enable(p, FALSE)
    BY <1>1 DEF QueueView!Enable, port_cancel_transfers, CanCall,
           transferVars, kernelVars
<1>. QED
    BY <1>2 DEF QueueStep, QueueView!Next

(* An aborted read answers its request, wherever it is in the queue. *)
LEMMA PortAbortedQueue ==
    ASSUME PortInv, PortInv', StreamInv, NEW p \in Pipes, AbortedEnds(p)
    PROVE  QueueStep
<1>0. RingCore /\ RingCore'
    BY DEF PortInv
<1>1. PICK k \in 1..Len(inflight[p]) :
          \E c \in ChunksFor(p, k) : Finish(p, k, "cancelled", c)
    BY DEF AbortedEnds
<1>2. PICK c \in ChunksFor(p, k) : Finish(p, k, "cancelled", c)
    BY <1>1
<1>3. UNCHANGED <<pstate, pipeVars, transferVars, received>>
    BY DEF AbortedEnds
<1>. QED
    BY <1>0, <1>2, <1>3, FinishQueue

LEMMA PortQueueNext ==
    PortInv /\ PortInv' /\ StreamInv /\ [PortNext]_portVars => QueueStep
<1>. SUFFICES ASSUME PortInv, PortInv', StreamInv, [PortNext]_portVars
              PROVE  QueueStep
    OBVIOUS
<1>0. RingCore /\ RingCore'
    BY DEF PortInv
<1>1. CASE CommonStep
    BY <1>0, <1>1, CommonIsStep, QueueNext
<1>2. ASSUME NEW p \in Pipes, mac_events_receive(p) PROVE QueueStep
    <2>1. async_in_transfer_handle_completion(Head(completed))
        BY <1>2, PortReceiveStep
    <2>2. /\ completed # <<>> /\ completed' = Tail(completed)
          /\ inflight' = inflight
          /\ UNCHANGED <<pstate, pipeVars, produced, received>>
        BY <1>2 DEF mac_events_receive
    <2>. QED
        BY <1>0, <2>1, <2>2, ReapQueue
<1>3. ASSUME NEW p \in Pipes, mac_events_return(p) PROVE QueueStep
    BY <1>0, <1>3, QuietQueue DEF mac_events_return, transferVars, kernelVars
<1>4. ASSUME NEW p \in Pipes, ReadEnds(p) PROVE QueueStep
    BY <1>0, <1>4, UrbEndQueue DEF ReadEnds
<1>5. CASE port_handle_close
    BY <1>0, <1>5, HandleCloseQueue DEF port_handle_close
<1>. QED
    BY <1>1, <1>2, <1>3, <1>4, <1>5, SharedIsCommon, PortSubmitQueue,
       PortHandOverQueue, PortCancelQueue, PortAbortedQueue

(***************************************************************************)
(* The pipes of Windows and macOS implement the same queue of requests as  *)
(* those of Linux, for any number of pipes, any transfer_count and any     *)
(* amount of data: a program that relies on the order of the results, on   *)
(* the place of cancelled requests or on the data going to the oldest      *)
(* request that waits sees no difference, although Windows looks at a      *)
(* result only when its transfer is the oldest, a read may complete inside *)
(* the call that submits it, and one AbortPipe cancels all of them.        *)
(***************************************************************************)
THEOREM PortPipesAreQueues == PortSpec => ImplementsTransferQueue
<1>1. PortInv /\ StreamInv /\ PortInv' /\ StreamInv' /\ [PortNext]_portVars
          => [QueueView!Next]_(QueueView!queueVars)
    BY PortQueueNext DEF QueueStep
<1>2. PortInit => QueueView!Init
    BY QueueInit DEF PortInit
<1>. QED
    BY <1>1, <1>2, PortStreamCorrect, PTL
       DEF PortSpec, ImplementsTransferQueue, QueueView!Spec
=============================================================================
