---------------------------- MODULE SyncTransfer ----------------------------
(***************************************************************************)
(* Control transfers, reads and writes through a generic handle, and the   *)
(* errors that these and the asynchronous transfers report, on Linux,      *)
(* Windows and macOS.                                                      *)
(*                                                                         *)
(* A call checks its arguments, asks the system once, and turns a failure  *)
(* into an error object, one addition after the other (ErrorObject), each  *)
(* of which may find no memory.  Then the caller owns the error: it may    *)
(* copy it and has to free it.                                             *)
(*                                                                         *)
(* Bytes are counted, not stored.  A NULL handle or a NULL transferred     *)
(* pointer changes nothing and is left out.                                *)
(***************************************************************************)
EXTENDS ErrorObject, Integers

CONSTANTS
    PipeIds,     \* the pipe ids that are passed to the functions
    Layouts,     \* orders in which an interface can list its endpoints
    MaxSize,     \* stands for UINT_MAX and ULONG_MAX
    Timeouts     \* the timeouts that are set; 0 is "wait forever"

MAX_ENDPOINT_NUMBER == 15

ASSUME PipeIdsAssumption == PipeIds \subseteq 0..255
ASSUME LayoutsAssumption == Layouts \subseteq Seq(PipeIds \ {0})
ASSUME MaxSizeAssumption == MaxSize \in Nat
ASSUME TimeoutsAssumption == 0 \in Timeouts

VARIABLES
    platform,      \* the build: "linux", "windows" or "macos"
    \* the device and the system
    endpoints,     \* endpoint addresses of the interface, in its order
    connected,
    policy,        \* WinUSB: PIPE_TRANSFER_TIMEOUT of each pipe
    \* struct libusbp_generic_handle
    out_timeout,
    in_timeout,
    \* the call in progress, or the last one, and its error
    call,
    todo,          \* what the call still adds to error
    error,
    copy,          \* an error the user has copied
    heap,
    \* history
    asked,         \* asked[id]: the timeout last set for the pipe
    timed          \* WinUSB: the pipes that ever had a timeout

handleVars == <<out_timeout, in_timeout, policy, asked, timed>>
systemVars == <<platform, endpoints, connected>>
vars == <<handleVars, systemVars, call, todo, error, copy, heap>>

Ops == {"none", "control", "read", "write", "async"}
Events == {"success", "argument", "timeout", "stall", "gone", "overflow",
           "cancelled", "memory", "other"}
Sizes == 0..MaxSize + 1

(* event: what happened; moved: bytes that went over the bus; timeout: the *)
(* one that was given to the system.                                       *)
Call(op, id, size, event, moved, transferred, reached, timeout) ==
    [op |-> op, id |-> id, size |-> size, event |-> event, moved |-> moved,
     transferred |-> transferred, reached |-> reached, timeout |-> timeout]

NoCall == Call("none", 0, 0, "success", 0, 0, 0, 0)

-----------------------------------------------------------------------------
(***************************************************************************)
(* Pipe ids.  Bit 7 is the direction, and bits 0 to 3 the number.          *)
(***************************************************************************)
IsIn(id) == id >= 128

(* Mutant: the reserved bits are not looked at. *)
check_number_only(id) == id % 16 <= MAX_ENDPOINT_NUMBER /\ id # 128

check_pipe_id(id) == id % 128 <= MAX_ENDPOINT_NUMBER /\ id # 128

check_pipe_id_in(id) == IsIn(id) /\ check_pipe_id(id)

check_pipe_id_out(id) == ~IsIn(id) /\ check_pipe_id(id)

EndpointNumber(id) == id % 16

(***************************************************************************)
(* The arguments are good.  The platforms test them in different orders,   *)
(* which only changes the text of the error.                               *)
(***************************************************************************)
GoodRead(id, size, isNull) ==
    check_pipe_id_in(id) /\ size # 0 /\ size <= MaxSize /\ ~isNull

GoodWrite(id, size, isNull) ==
    check_pipe_id_out(id) /\ size <= MaxSize /\ ~(isNull /\ size # 0)

(***************************************************************************)
(* macOS: the index of an endpoint, for the functions of IOUSBInterface;   *)
(* process_pipe_properties fills two arrays of zeros, passes over an       *)
(* endpoint whose number is too large, and the last one of a number wins.  *)
(***************************************************************************)
NumberFromSystem(address) == address % 128

IndicesOf(id) == {i \in 1..Len(endpoints) :
    /\ NumberFromSystem(endpoints[i]) <= MAX_ENDPOINT_NUMBER
    /\ IsIn(endpoints[i]) = IsIn(id)
    /\ NumberFromSystem(endpoints[i]) = EndpointNumber(id)}

process_pipe_properties(id) ==
    LET S == IndicesOf(id)
    IN  IF S = {} THEN 0 ELSE CHOOSE i \in S : \A j \in S : j <= i

(* The endpoint that the transfer goes to: 0 stands for none. *)
ByAddress(id) == IF \E i \in 1..Len(endpoints) : endpoints[i] = id THEN id ELSE 0

ByIndex(id) == LET i == process_pipe_properties(id)
               IN  IF i = 0 THEN 0 ELSE endpoints[i]

-----------------------------------------------------------------------------
(***************************************************************************)
(* What the system can answer to a transfer of size bytes to an endpoint.  *)
(* It times out only if a timeout was given, and a transfer that fails may *)
(* have moved any number of its bytes, all of them included.               *)
(***************************************************************************)
Outcome(event, moved) == [event |-> event, moved |-> moved]

Failures(size, timeout) ==
    {Outcome(event, n) :
        event \in {"stall", "gone", "overflow", "memory", "other"}
                  \cup {e \in {"timeout"} : timeout # 0},
        n \in 0..size}

Answers(op, reached, size, timeout) ==
    IF ~connected THEN {Outcome("gone", 0)}
    ELSE IF op # "control" /\ reached = 0 THEN {Outcome("other", 0)}
    ELSE Failures(size, timeout)
         \cup {Outcome("success", n) : n \in IF op = "write" THEN {size} ELSE 0..size}

(***************************************************************************)
(* The number by which each system names an event.                         *)
(***************************************************************************)
Errnos(event) ==
    CASE event = "timeout" -> {"ETIMEDOUT"}
      [] event = "stall" -> {"EPIPE"}
      [] event = "gone" -> {"ENODEV", "ESHUTDOWN", "EPROTO", "EILSEQ"}
      [] event = "overflow" -> {"EOVERFLOW"}
      [] event = "memory" -> {"ENOMEM"}
      [] event = "cancelled" -> {"ENOENT"}
      [] event = "other" -> {"EINVAL"}

WinapiNumber(event) ==
    CASE event = "timeout" -> "ERROR_SEM_TIMEOUT"
      [] event \in {"stall", "gone"} -> "ERROR_GEN_FAILURE"
      [] event = "memory" -> "ERROR_NOT_ENOUGH_MEMORY"
      [] event = "cancelled" -> "ERROR_OPERATION_ABORTED"
      [] event \in {"overflow", "other"} -> "ERROR_INVALID_PARAMETER"

(* WinUsb_GetOverlappedResult has another number for a device that is gone. *)
OverlappedNumber(event) ==
    IF event = "gone" THEN "ERROR_FILE_NOT_FOUND" ELSE WinapiNumber(event)

MachNumber(event) ==
    CASE event = "timeout" -> "kIOUSBTransactionTimeout"
      [] event = "stall" -> "kIOUSBPipeStalled"
      [] event = "gone" -> "kIOReturnNoDevice"
      [] event = "overflow" -> "kIOReturnOverrun"
      [] event = "cancelled" -> "kIOReturnAborted"
      [] event \in {"memory", "other"} -> "kIOReturnBadArgument"

(* The additions to the error that a call builds for an event. *)
SystemError(event) ==
    CASE platform = "linux" -> {error_create_errno(n) : n \in Errnos(event)}
      [] platform = "windows" -> {error_create_winapi(WinapiNumber(event))}
      [] platform = "macos" -> {error_create_mach(MachNumber(event))}

AsyncError(event) ==
    CASE platform = "linux" -> {error_from_urb_status(n) : n \in Errnos(event)}
      [] platform = "windows" -> {error_create_overlapped(OverlappedNumber(event))}
      [] platform = "macos" -> {error_create_mach(MachNumber(event))}

-----------------------------------------------------------------------------
(* A call can be made when the error of the last one was freed. *)
CanCall == todo = <<>> /\ error = NoError

Begin(c, additions) ==
    /\ CanCall
    /\ call' = c
    /\ todo' = additions
    /\ UNCHANGED <<handleVars, systemVars, error, copy, heap>>

(* The arguments are refused: error_create, and the context of the call. *)
Refuse(op, id, size, context) ==
    Begin(Call(op, id, size, "argument", 0, 0, 0, 0), <<Text>> \o context)

(***************************************************************************)
(* The system answers o.  transferred is what the caller is told of the    *)
(* bytes that were moved.                                                  *)
(***************************************************************************)
Finish(op, id, size, reached, timeout, o, transferred, context) ==
    LET c == Call(op, id, size, o.event, o.moved, transferred, reached, timeout)
    IN  /\ o.event = "success" => Begin(c, <<>>)
        /\ o.event # "success" =>
               \E additions \in SystemError(o.event) : Begin(c, additions \o context)

(* The result of the ioctl is a count unless it is negative. *)
OnSuccess(o) == IF o.event = "success" THEN o.moved ELSE 0

(* usbfd_control_transfer; it always uses the timeout of pipe 0. *)
linux_control_transfer(size) ==
    /\ platform = "linux" /\ size <= MaxSize
    /\ \E o \in Answers("control", 0, size, out_timeout[0]) :
           Finish("control", 0, size, 0, out_timeout[0], o, OnSuccess(o), <<>>)

(* usbfd_bulk_or_interrupt_transfer: only a success has a count. *)
linux_read_pipe(id, size, isNull) ==
    LET timeout == in_timeout[EndpointNumber(id)]
    IN  /\ platform = "linux"
        /\ \/ ~GoodRead(id, size, isNull) /\ Refuse("read", id, size, <<Text>>)
           \/ /\ GoodRead(id, size, isNull)
              /\ \E o \in Answers("read", ByAddress(id), size, timeout) :
                     Finish("read", id, size, ByAddress(id), timeout, o, OnSuccess(o), <<Text>>)

linux_write_pipe(id, size, isNull) ==
    LET timeout == out_timeout[EndpointNumber(id)]
    IN  /\ platform = "linux"
        /\ \/ ~GoodWrite(id, size, isNull) /\ Refuse("write", id, size, <<Text>>)
           \/ /\ GoodWrite(id, size, isNull)
              /\ \E o \in Answers("write", ByAddress(id), size, timeout) :
                     Finish("write", id, size, ByAddress(id), timeout, o, OnSuccess(o), <<Text>>)

windows_control_transfer(size, isNull) ==
    /\ platform = "windows" /\ size <= MaxSize
    /\ \/ isNull /\ size # 0 /\ Refuse("control", 0, size, <<>>)
       \/ /\ ~(isNull /\ size # 0)
          /\ \E o \in Answers("control", 0, size, policy[0]) :
                 Finish("control", 0, size, 0, policy[0], o, OnSuccess(o), <<>>)

(* WinUSB counts what it moved whether it succeeds or not. *)
windows_read_pipe(id, size, isNull) ==
    LET timeout == policy[id]
    IN  /\ platform = "windows"
        /\ \/ ~GoodRead(id, size, isNull) /\ Refuse("read", id, size, <<Text>>)
           \/ /\ GoodRead(id, size, isNull)
              /\ \E o \in Answers("read", ByAddress(id), size, timeout) :
                     Finish("read", id, size, ByAddress(id), timeout, o, o.moved, <<Text>>)

windows_write_pipe(id, size, isNull) ==
    LET timeout == policy[id]
    IN  /\ platform = "windows"
        /\ \/ ~GoodWrite(id, size, isNull) /\ Refuse("write", id, size, <<Text>>)
           \/ /\ GoodWrite(id, size, isNull)
              /\ \E o \in Answers("write", ByAddress(id), size, timeout) :
                     Finish("write", id, size, ByAddress(id), timeout, o, o.moved, <<Text>>)

mac_control_transfer(size) ==
    /\ platform = "macos" /\ size <= MaxSize
    /\ \E o \in Answers("control", 0, size, out_timeout[0]) :
           Finish("control", 0, size, 0, out_timeout[0], o, o.moved, <<>>)

(***************************************************************************)
(* ReadPipeTO gets the size asked for in the variable by which it returns  *)
(* the count, and the variable is stored whatever it returns: a read that  *)
(* fails reports what was moved, or the size if the system left it alone.  *)
(***************************************************************************)
MacReadCounts(o, size) ==
    IF o.event = "success" THEN {o.moved} ELSE {o.moved, size}

mac_read_pipe(id, size, isNull) ==
    LET timeout == in_timeout[EndpointNumber(id)]
    IN  /\ platform = "macos"
        /\ \/ ~GoodRead(id, size, isNull) /\ Refuse("read", id, size, <<Text>>)
           \/ /\ GoodRead(id, size, isNull)
              /\ \E o \in Answers("read", ByIndex(id), size, timeout) :
                 \E n \in MacReadCounts(o, size) :
                     Finish("read", id, size, ByIndex(id), timeout, o, n, <<Text>>)

(* Mutant: the size is reported whatever happened. *)
mac_write_counts_size(id, size, isNull) ==
    LET timeout == out_timeout[EndpointNumber(id)]
    IN  /\ platform = "macos"
        /\ \/ ~GoodWrite(id, size, isNull) /\ Refuse("write", id, size, <<Text>>)
           \/ /\ GoodWrite(id, size, isNull)
              /\ \E o \in Answers("write", ByIndex(id), size, timeout) :
                     Finish("write", id, size, ByIndex(id), timeout, o, size, <<Text>>)

(* WritePipeTO gives no count: a success is taken for the whole size. *)
mac_write_pipe(id, size, isNull) ==
    LET timeout == out_timeout[EndpointNumber(id)]
    IN  /\ platform = "macos"
        /\ \/ ~GoodWrite(id, size, isNull) /\ Refuse("write", id, size, <<Text>>)
           \/ /\ GoodWrite(id, size, isNull)
              /\ \E o \in Answers("write", ByIndex(id), size, timeout) :
                     Finish("write", id, size, ByIndex(id), timeout, o,
                            IF o.event = "success" THEN size ELSE 0, <<Text>>)

(***************************************************************************)
(* An asynchronous transfer has failed: the error is built when the result *)
(* is collected, and stays with the transfer; the user gets a copy.  Only  *)
(* WinUSB has a timeout for it, the one of the pipe when it was submitted, *)
(* which the user may have changed since.                                  *)
(***************************************************************************)
async_transfer_fails(id) ==
    /\ id \in {endpoints[i] : i \in 1..Len(endpoints)} /\ IsIn(id)
    /\ \E event \in {"stall", "gone", "overflow", "cancelled", "timeout", "other"} :
       \E additions \in AsyncError(event) :
           /\ connected \/ event = "gone"
           /\ event = "timeout" => platform = "windows" /\ id \in timed
           /\ Begin(Call("async", id, 0, event, 0, 0, id, 0), additions)

-----------------------------------------------------------------------------
(* The user asks for a timeout, in a call that succeeds. *)
Asks(id, timeout) ==
    /\ asked' = [asked EXCEPT ![id] = timeout]
    /\ call' = NoCall

(* Mutant: the direction of the pipe is not looked at. *)
set_timeout_by_number(id, timeout) ==
    /\ platform \in {"linux", "macos"} /\ CanCall /\ check_pipe_id(id)
    /\ out_timeout' = [out_timeout EXCEPT ![EndpointNumber(id)] = timeout]
    /\ Asks(id, timeout)
    /\ UNCHANGED <<policy, timed, systemVars, in_timeout, todo, error, copy, heap>>

(* An id that is refused changes nothing. *)
set_timeout(id, timeout) ==
    /\ platform \in {"linux", "macos"} /\ CanCall /\ check_pipe_id(id)
    /\ \/ /\ IsIn(id)
          /\ in_timeout' = [in_timeout EXCEPT ![EndpointNumber(id)] = timeout]
          /\ UNCHANGED out_timeout
       \/ /\ ~IsIn(id)
          /\ out_timeout' = [out_timeout EXCEPT ![EndpointNumber(id)] = timeout]
          /\ UNCHANGED in_timeout
    /\ Asks(id, timeout)
    /\ UNCHANGED <<policy, timed, systemVars, todo, error, copy, heap>>

(* WinUSB keeps the timeouts, and knows the ids of the device. *)
windows_set_timeout(id, timeout) ==
    /\ platform = "windows" /\ CanCall /\ (id = 0 \/ ByAddress(id) = id)
    /\ policy' = [policy EXCEPT ![id] = timeout]
    /\ timed' = timed \cup {i \in {id} : timeout # 0}
    /\ Asks(id, timeout)
    /\ UNCHANGED <<out_timeout, in_timeout, systemVars, todo, error, copy, heap>>

-----------------------------------------------------------------------------
(***************************************************************************)
(* The next addition to the error of the call.                             *)
(***************************************************************************)
Adds ==
    /\ todo # <<>>
    /\ \E r \in Add(heap, error, Head(todo)) : heap' = r.heap /\ error' = r.error
    /\ todo' = Tail(todo)
    /\ UNCHANGED <<handleVars, systemVars, call, copy>>

(* The call has returned with an error that the user may copy. *)
Returned == todo = <<>> /\ error # NoError

UserCopies ==
    /\ Returned /\ copy = NoError
    /\ \E r \in libusbp_error_copy(heap, error) : heap' = r.heap /\ copy' = r.error
    /\ UNCHANGED <<handleVars, systemVars, call, todo, error>>

UserFrees ==
    /\ Returned
    /\ heap' = libusbp_error_free(heap, error)
    /\ error' = NoError
    /\ call' = NoCall
    /\ UNCHANGED <<handleVars, systemVars, todo, copy>>

UserFreesCopy ==
    /\ todo = <<>> /\ copy # NoError
    /\ heap' = libusbp_error_free(heap, copy)
    /\ copy' = NoError
    /\ UNCHANGED <<handleVars, systemVars, call, todo, error>>

Unplug ==
    /\ connected /\ CanCall
    /\ connected' = FALSE
    /\ UNCHANGED <<handleVars, platform, endpoints, call, todo, error, copy, heap>>

-----------------------------------------------------------------------------
EndpointNumbers == {EndpointNumber(id) : id \in PipeIds} \cup {0}

Init ==
    /\ platform \in {"linux", "windows", "macos"}
    /\ endpoints \in Layouts
    /\ connected = TRUE
    /\ policy = [id \in PipeIds \cup {0} |-> 0]
    /\ out_timeout = [n \in EndpointNumbers |-> 0]
    /\ in_timeout = [n \in EndpointNumbers |-> 0]
    /\ call = NoCall
    /\ todo = <<>>
    /\ error = NoError
    /\ copy = NoError
    /\ heap = {}
    /\ asked = [id \in PipeIds \cup {0} |-> 0]
    /\ timed = {}

Transfer ==
    \/ \E size \in Sizes :
        \/ linux_control_transfer(size)
        \/ mac_control_transfer(size)
        \/ \E isNull \in BOOLEAN : windows_control_transfer(size, isNull)
        \/ \E id \in PipeIds, isNull \in BOOLEAN :
            \/ linux_read_pipe(id, size, isNull)
            \/ linux_write_pipe(id, size, isNull)
            \/ windows_read_pipe(id, size, isNull)
            \/ windows_write_pipe(id, size, isNull)
            \/ mac_read_pipe(id, size, isNull)
            \/ mac_write_pipe(id, size, isNull)
    \/ \E id \in PipeIds : async_transfer_fails(id)

Next ==
    \/ Transfer
    \/ \E id \in PipeIds, timeout \in Timeouts :
        set_timeout(id, timeout) \/ windows_set_timeout(id, timeout)
    \/ Adds
    \/ UserCopies
    \/ UserFrees
    \/ UserFreesCopy
    \/ Unplug

Spec == Init /\ [][Next]_vars

-----------------------------------------------------------------------------
Errors == [do_not_free : BOOLEAN, self : Pointer, message : Pointer,
           code_array : Pointer, codes : SUBSET Codes]

(* Every variable holds a value of its C type. *)
TypeOK ==
    /\ heap \subseteq Blocks
    /\ error \in Errors /\ copy \in Errors
    /\ todo \in Seq(Additions)
    /\ call.op \in Ops /\ call.event \in Events
    /\ call.size \in Sizes /\ call.moved \in Sizes /\ call.transferred \in Sizes
    /\ connected \in BOOLEAN
    /\ endpoints \in Layouts
    /\ platform \in {"linux", "windows", "macos"}
    /\ policy \in [PipeIds \cup {0} -> Timeouts]
    /\ asked \in [PipeIds \cup {0} -> Timeouts]
    /\ timed \subseteq PipeIds
    /\ out_timeout \in [EndpointNumbers -> Timeouts]
    /\ in_timeout \in [EndpointNumbers -> Timeouts]

(***************************************************************************)
(* Memory of the error objects.  A pointer that the program still has is   *)
(* either NULL, a static object, or an object whose struct, message and    *)
(* codes are allocated and belong to no other; and nothing else is         *)
(* allocated.  So no block is leaked or freed twice, no static object is   *)
(* ever changed or freed, and the literal "" that error_add_v puts in      *)
(* place of a missing message is never passed to free: a mutable error     *)
(* always has a message of its own.                                        *)
(***************************************************************************)
WellFormed(e) ==
    \/ e = NoError
    \/ e = error_masked_by_no_memory
    \/ /\ ~e.do_not_free
       /\ e.self \in Blocks /\ e.message \in Blocks /\ e.self # e.message
       /\ e.code_array \in Blocks \cup {NULL}
       /\ e.code_array \notin {e.self, e.message}
       /\ e.codes # {} => e.code_array \in Blocks

HeapIsOwned ==
    /\ TypeOK
    /\ WellFormed(error) /\ WellFormed(copy)
    /\ Owned(error) \cap Owned(copy) = {}
    /\ heap = Owned(error) \cup Owned(copy)

(***************************************************************************)
(* A call that failed returns an error, however little memory there is,    *)
(* and a call that succeeded returns none (error_add_v, error_add_code:    *)
(* the static errors stand in).                                            *)
(***************************************************************************)
FailureIsReported ==
    todo = <<>> /\ call.op # "none" => (call.event # "success" <=> error # NoError)

(***************************************************************************)
(* The codes tell the user what happened, as libusbp.h defines them, on    *)
(* every platform; only a shortage of memory may mask them, and then the   *)
(* error says so, also when the shortage hits in the middle of building    *)
(* the error and later additions succeed.                                  *)
(***************************************************************************)
CodeOf(event) ==
    CASE event = "timeout" -> {"TIMEOUT"}
      [] event = "stall" -> {"STALL"}
      [] event = "gone" -> {"DEVICE_DISCONNECTED"}
      [] event = "cancelled" -> {"CANCELLED"}
      [] event = "memory" -> IF platform = "macos" THEN {} ELSE {"MEMORY"}
      [] OTHER -> {}

CauseIsTold ==
    todo = <<>> /\ error # NoError =>
        CodeOf(call.event) \subseteq error.codes \/ "MEMORY" \in error.codes

(***************************************************************************)
(* libusbp_error_copy, by which an asynchronous transfer hands its error   *)
(* to the user, tells the same, or that there was no memory for it.        *)
(***************************************************************************)
CopyTellsTheSame ==
    [][copy = NoError /\ copy' # NoError =>
          copy'.codes = error.codes \/ "MEMORY" \in copy'.codes]_vars

(***************************************************************************)
(* The system is given the timeout that the user last set for the very     *)
(* pipe the transfer is made on (pipe 0 for control transfers), and a      *)
(* transfer reports a timeout only if that one is not "wait forever".  An  *)
(* asynchronous transfer reports one only if the user has set one for its  *)
(* pipe at some time.                                                      *)
(***************************************************************************)
AsksTheSystem == call.op \in {"control", "read", "write"} /\ call.event # "argument"

TimeoutIsGiven == AsksTheSystem => call.timeout = asked[call.id]

TimeoutWasAskedFor ==
    /\ TimeoutIsGiven
    /\ todo = <<>> /\ "TIMEOUT" \in error.codes =>
           IF call.op = "async" THEN call.id \in timed ELSE asked[call.id] # 0

(***************************************************************************)
(* Bytes move only through the endpoint that the pipe id names, in its     *)
(* direction (check_pipe_id, and the indices of process_pipe_properties).  *)
(***************************************************************************)
NamedEndpointIsUsed ==
    call.op \in {"read", "write"} /\ (call.moved # 0 \/ call.event = "success") =>
        /\ call.reached = call.id
        /\ IsIn(call.reached) = (call.op = "read")

(***************************************************************************)
(* What the user is told of the bytes that were moved.  A call that        *)
(* succeeds tells the exact number, and a call that fails, at any stage,   *)
(* never tells more than were moved, so that the caller can go on from     *)
(* there: except a read on macOS, which after a failure may tell the size  *)
(* that was asked for and so must not be trusted                           *)
(* (usbfd_bulk_or_interrupt_transfer, libusbp_read_pipe,                   *)
(* libusbp_write_pipe and libusbp_control_transfer of the three platforms).*)
(***************************************************************************)
CountIsTrusted ==
    /\ call.event \in {"success", "argument"} => call.transferred = call.moved
    /\ \/ call.transferred <= call.moved
       \/ platform = "macos" /\ call.op = "read" /\ call.transferred = call.size

-----------------------------------------------------------------------------
(***************************************************************************)
(* The inductive invariant of the proofs.  A call that goes on or has      *)
(* failed has an error, or something to add to one; the causes and codes   *)
(* that are still to be added count as told; and the timeouts of the       *)
(* handle, or of WinUSB, are the ones that were asked for.                 *)
(***************************************************************************)
Coming == {todo[k] : k \in 1..Len(todo)}

FailureInProgress == call.event = "success" <=> todo = <<>> /\ error = NoError

CauseIsComing ==
    CodeOf(call.event) \subseteq error.codes \cup Coming \/ "MEMORY" \in error.codes

TimeoutIsComing ==
    "TIMEOUT" \in error.codes \cup Coming =>
        IF call.op = "async" THEN call.id \in timed ELSE asked[call.id] # 0

TimeoutsAreKept ==
    \A id \in PipeIds \cup {0} :
        IF platform = "windows" THEN asked[id] = policy[id]
        ELSE check_pipe_id(id) =>
            asked[id] = IF IsIn(id) THEN in_timeout[EndpointNumber(id)]
                        ELSE out_timeout[EndpointNumber(id)]

SyncInv ==
    /\ HeapIsOwned
    /\ FailureInProgress
    /\ CauseIsComing
    /\ TimeoutIsComing
    /\ TimeoutIsGiven
    /\ TimeoutsAreKept
    /\ NamedEndpointIsUsed
    /\ CountIsTrusted
=============================================================================
