--------------------------- MODULE TransferQueue ---------------------------
(***************************************************************************)
(* What an asynchronous IN pipe promises its user, without rings, flags,   *)
(* URBs or file descriptors: a queue of at most capacity requests that are *)
(* answered by the device and handed over strictly in the order in which   *)
(* they were made.  Data is answered to the oldest request that waits, so  *)
(* handing over in order also preserves the order of the data.             *)
(*                                                                         *)
(* AsyncInPipe (Linux) and PlatformPipe (Windows, macOS) implement this    *)
(* specification (QueueView, there).                                       *)
(***************************************************************************)
EXTENDS Naturals, Sequences

CONSTANTS
    Pipes,
    MaxCount,    \* bound on the capacity of a queue
    MaxChunks    \* bound on the chunks a device sends

VARIABLES
    state,       \* state[p]: "none", "open" or "closed"
    capacity,    \* capacity[p]: 0 before the buffers are allocated
    endless,     \* endless[p]: every request handed over is replaced
    queue,       \* queue[p]: the pending requests, oldest first
    sent,        \* sent[p]: chunks the device has sent
    received     \* received[p]: the last chunk the user got

queueVars == <<state, capacity, endless, queue, sent, received>>

Waiting == [status |-> "waiting", chunk |-> 0]
NotMade == [status |-> "submit", chunk |-> 0]
Answer == [status : {"none", "cancelled", "failed"}, chunk : 0..MaxChunks]

Init ==
    /\ state = [p \in Pipes |-> "none"]
    /\ capacity = [p \in Pipes |-> 0]
    /\ endless = [p \in Pipes |-> FALSE]
    /\ queue = [p \in Pipes |-> <<>>]
    /\ sent = [p \in Pipes |-> 0]
    /\ received = [p \in Pipes |-> 0]

Open(p) ==
    /\ state[p] = "none"
    /\ state' = [state EXCEPT ![p] = "open"]
    /\ UNCHANGED <<capacity, endless, queue, sent, received>>

Allocate(p, n) ==
    /\ state[p] = "open" /\ capacity[p] = 0
    /\ capacity' = [capacity EXCEPT ![p] = n]
    /\ UNCHANGED <<state, endless, queue, sent, received>>

Enable(p, on) ==
    /\ state[p] = "open"
    /\ on => capacity[p] # 0
    /\ endless' = [endless EXCEPT ![p] = on]
    /\ UNCHANGED <<state, capacity, queue, sent, received>>

(***************************************************************************)
(* An answer to the k-th request of q.  Only the oldest one that waits can *)
(* get data, and it gets the next chunk.                                   *)
(***************************************************************************)
Answers(p, q, k) ==
    {a \in Answer : a.chunk # 0 =>
        a.chunk = sent[p] + 1 /\ \A j \in 1..k - 1 : q[j] # Waiting}

Send(p, r) == sent' = [sent EXCEPT ![p] = IF r.chunk = 0 THEN @ ELSE r.chunk]

(***************************************************************************)
(* A new request is made after those of q: the device is asked, and may    *)
(* answer at once, or asking it fails.                                     *)
(***************************************************************************)
Ask(p, q) ==
    \E r \in {Waiting, NotMade} \cup Answers(p, q, Len(q) + 1) :
        /\ queue' = [queue EXCEPT ![p] = Append(q, r)]
        /\ Send(p, r)

Request(p) ==
    /\ state[p] = "open" /\ endless[p] /\ Len(queue[p]) < capacity[p]
    /\ Ask(p, queue[p])
    /\ UNCHANGED <<state, capacity, endless, received>>

(* A waiting request is answered. *)
Respond(p, k) ==
    /\ k \in 1..Len(queue[p]) /\ queue[p][k] = Waiting
    /\ \E a \in Answers(p, queue[p], k) :
           queue' = [queue EXCEPT ![p][k] = a] /\ Send(p, a)
    /\ UNCHANGED <<state, capacity, endless, received>>

(***************************************************************************)
(* The oldest request is handed over; an endless queue replaces it.        *)
(***************************************************************************)
Deliver(p) ==
    /\ state[p] = "open" /\ queue[p] # <<>> /\ Head(queue[p]) # Waiting
    /\ LET c == Head(queue[p]).chunk IN
           received' = [received EXCEPT ![p] = IF c = 0 THEN @ ELSE c]
    /\ \/ endless[p] /\ Ask(p, Tail(queue[p]))
       \/ /\ ~endless[p]
          /\ queue' = [queue EXCEPT ![p] = Tail(@)]
          /\ UNCHANGED sent
    /\ UNCHANGED <<state, capacity, endless>>

(* The user gives up what is pending. *)
Close(p) ==
    /\ state[p] = "open"
    /\ state' = [state EXCEPT ![p] = "closed"]
    /\ queue' = [queue EXCEPT ![p] = <<>>]
    /\ UNCHANGED <<capacity, endless, sent, received>>

(* A chunk that answers a request of a pipe that was closed. *)
Lose(p) ==
    /\ state[p] = "closed"
    /\ sent[p] < MaxChunks
    /\ sent' = [sent EXCEPT ![p] = @ + 1]
    /\ UNCHANGED <<state, capacity, endless, queue, received>>

Next ==
    \E p \in Pipes :
        \/ Open(p)
        \/ \E n \in 1..MaxCount : Allocate(p, n)
        \/ \E on \in BOOLEAN : Enable(p, on)
        \/ Request(p)
        \/ \E k \in 1..MaxCount : Respond(p, k)
        \/ Deliver(p)
        \/ Close(p)
        \/ Lose(p)

Spec == Init /\ [][Next]_queueVars
=============================================================================
