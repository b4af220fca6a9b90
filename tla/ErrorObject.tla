---------------------------- MODULE ErrorObject ----------------------------
(***************************************************************************)
(* Error objects (error.c): who owns which memory when any allocation may  *)
(* fail.                                                                   *)
(*                                                                         *)
(* An error is a struct with a message and an array of codes, three blocks *)
(* of the heap.  Three errors are static (do_not_free) and stand in when   *)
(* there is no memory: they are never changed and never freed; adding to   *)
(* one makes a copy of it first.  The functions take and return pointers   *)
(* and the caller forgets the one it passed, so each is an operator from   *)
(* an error and a heap to the set of results [heap, error] it may have.    *)
(***************************************************************************)
EXTENDS Naturals, Sequences

CONSTANT Blocks     \* the blocks malloc can return

Codes == {"MEMORY", "ACCESS_DENIED", "TIMEOUT", "DEVICE_DISCONNECTED",
          "STALL", "CANCELLED"}

(* Values of pointers that are not blocks of the heap. *)
NULL == "NULL"
Static == "static"

ASSUME BlocksAssumption == Blocks \cap {NULL, Static} = {}

(* struct libusbp_error, with its own address; has_code sees codes only. *)
ErrorStruct(self, message, code_array, codes) ==
    [do_not_free |-> self = Static, self |-> self, message |-> message,
     code_array |-> code_array, codes |-> codes]

Pointer == Blocks \cup {NULL, Static}

NoError == ErrorStruct(NULL, NULL, NULL, {})
error_no_memory == ErrorStruct(Static, Static, Static, {"MEMORY"})
error_masked_by_no_memory == ErrorStruct(Static, Static, Static, {"MEMORY"})
error_blank == ErrorStruct(Static, NULL, NULL, {})

(* The blocks that the pointers of an error lead to. *)
Owned(e) == {e.self, e.message, e.code_array} \cap Blocks

-----------------------------------------------------------------------------
(***************************************************************************)
(* malloc: the address it returns, if there is memory.  That it may fail   *)
(* while there is some is an alternative of each caller; which of the free *)
(* blocks it takes does not matter.                                        *)
(***************************************************************************)
Malloc(heap) ==
    {b \in Blocks \ heap : b = CHOOSE c \in Blocks \ heap : TRUE}

Result(heap, e) == [heap |-> heap, error |-> e]

(* Mutant: the message of a freed error is forgotten. *)
free_without_message(heap, e) ==
    IF e.self = NULL \/ e.do_not_free THEN heap
    ELSE heap \ ({e.self, e.code_array} \cap Blocks)

libusbp_error_free(heap, e) ==
    IF e.self = NULL \/ e.do_not_free THEN heap
    ELSE heap \ ({e.self, e.message, e.code_array} \cap Blocks)

(* Mutant: the copy has the message only. *)
copy_without_codes(heap, e) ==
    IF e.self = NULL THEN {Result(heap, NoError)}
    ELSE {Result(heap, error_masked_by_no_memory)} \cup
         UNION {{Result(heap \cup {s, m}, ErrorStruct(s, m, NULL, {})) :
                    m \in Malloc(heap \cup {s})} : s \in Malloc(heap)}

(***************************************************************************)
(* Three allocations; if one that is needed fails, what the others got is  *)
(* freed again.  For no codes malloc(0) is asked, which returns a block or *)
(* NULL as it likes.                                                       *)
(***************************************************************************)
libusbp_error_copy(heap, e) ==
    IF e.self = NULL THEN {Result(heap, NoError)}
    ELSE {Result(heap, error_masked_by_no_memory)} \cup
         {Result(heap \cup Owned(copy), copy) :
             copy \in UNION {UNION {{ErrorStruct(s, m, a, e.codes) :
                 a \in Malloc(heap \cup {s, m}) \cup {x \in {NULL} : e.codes = {}}} :
                 m \in Malloc(heap \cup {s})} : s \in Malloc(heap)}}

error_make_mutable(heap, e) ==
    IF e.self = NULL THEN libusbp_error_copy(heap, error_blank)
    ELSE IF e.do_not_free THEN libusbp_error_copy(heap, e)
    ELSE {Result(heap, e)}

(* Mutant: when the message cannot be extended, the error is dropped. *)
add_to_mutable_drops(heap, e) ==
    {Result(libusbp_error_free(heap, e), NoError)} \cup
    {Result((heap \cup {m}) \ {e.message}, [e EXCEPT !.message = m]) :
         m \in Malloc(heap)}

(* A longer message replaces the old one, or there is no memory for it. *)
add_to_mutable(heap, e) ==
    {Result(libusbp_error_free(heap, e), error_masked_by_no_memory)} \cup
    {Result((heap \cup {m}) \ {e.message}, [e EXCEPT !.message = m]) :
         m \in Malloc(heap)}

error_add_v(heap, e) ==
    UNION {IF r.error.do_not_free THEN {r} ELSE add_to_mutable(r.heap, r.error) :
               r \in error_make_mutable(heap, e)}

(* realloc moves the array, or leaves it where it is. *)
add_code_to_mutable(heap, e, code) ==
    {Result(libusbp_error_free(heap, e), error_masked_by_no_memory)} \cup
    {Result((heap \ ({e.code_array} \cap Blocks)) \cup {a},
            [e EXCEPT !.code_array = a, !.codes = @ \cup {code}]) :
         a \in Malloc(heap) \cup ({e.code_array} \cap Blocks)}

error_add_code(heap, e, code) ==
    UNION {IF r.error.do_not_free THEN {r}
           ELSE add_code_to_mutable(r.heap, r.error, code) :
               r \in error_make_mutable(heap, e)}

(* error_create is error_add_v on no error. *)
error_create(heap) == error_add_v(heap, NoError)

(***************************************************************************)
(* An addition is a text or a code.                                        *)
(***************************************************************************)
Text == "text"
Additions == Codes \cup {Text}

Add(heap, e, addition) ==
    IF addition = Text THEN error_add_v(heap, e)
    ELSE error_add_code(heap, e, addition)

-----------------------------------------------------------------------------
(***************************************************************************)
(* The three platforms make an error of a system code out of a text with   *)
(* the number, what a switch says about the number, a sentence from the    *)
(* system unless the switch has a better one, and the caller's context.    *)
(* A system that has no sentence for a number makes it one text shorter.   *)
(***************************************************************************)
FromSystem(additions, skip_standard_message) ==
    <<Text>> \o additions
    \o (IF skip_standard_message THEN <<Text>> ELSE <<Text, Text>>)

error_create_errno(number) ==
    CASE number = "EACCES" -> FromSystem(<<"ACCESS_DENIED">>, FALSE)
      [] number = "ENOMEM" -> FromSystem(<<"MEMORY">>, FALSE)
      [] number = "EPIPE" ->
             FromSystem(<<Text, "STALL", "DEVICE_DISCONNECTED">>, TRUE)
      [] number \in {"ENODEV", "ESHUTDOWN"} ->
             FromSystem(<<Text, "DEVICE_DISCONNECTED">>, TRUE)
      [] number \in {"EPROTO", "ETIME"} ->
             FromSystem(<<"DEVICE_DISCONNECTED">>, FALSE)
      [] number = "ETIMEDOUT" -> FromSystem(<<Text, "TIMEOUT">>, TRUE)
      [] number = "EOVERFLOW" -> FromSystem(<<Text>>, TRUE)
      [] number = "EILSEQ" ->
             FromSystem(<<Text, "DEVICE_DISCONNECTED", "CANCELLED">>, TRUE)
      [] OTHER -> FromSystem(<<>>, FALSE)

(* Mutant: a cancelled URB is an error like the others. *)
urb_status_without_cancel(number) == error_create_errno(number)

(* The status of a URB; 0 is no error. *)
error_from_urb_status(number) ==
    IF number = "ENOENT" THEN <<Text, Text, "CANCELLED">>
    ELSE error_create_errno(number)

error_create_winapi(number) ==
    CASE number = "ERROR_ACCESS_DENIED" ->
             FromSystem(<<Text, "ACCESS_DENIED">>, FALSE)
      [] number \in {"ERROR_OUTOFMEMORY", "ERROR_NOT_ENOUGH_MEMORY"} ->
             FromSystem(<<"MEMORY">>, FALSE)
      [] number = "ERROR_GEN_FAILURE" ->
             FromSystem(<<Text, "STALL", "DEVICE_DISCONNECTED">>, TRUE)
      [] number = "ERROR_SEM_TIMEOUT" -> FromSystem(<<Text, "TIMEOUT">>, TRUE)
      [] number = "ERROR_OPERATION_ABORTED" ->
             FromSystem(<<Text, "CANCELLED">>, TRUE)
      [] OTHER -> FromSystem(<<>>, FALSE)

error_create_overlapped(number) ==
    IF number = "ERROR_FILE_NOT_FOUND"
    THEN FromSystem(<<Text, "DEVICE_DISCONNECTED">>, TRUE)
    ELSE error_create_winapi(number)

error_create_mach(number) ==
    CASE number = "kIOUSBPipeStalled" ->
             FromSystem(<<Text, "STALL", "DEVICE_DISCONNECTED">>, TRUE)
      [] number = "kIOReturnNoDevice" ->
             FromSystem(<<"DEVICE_DISCONNECTED">>, FALSE)
      [] number = "kIOUSBTransactionTimeout" ->
             FromSystem(<<Text, "TIMEOUT">>, TRUE)
      [] number = "kIOReturnExclusiveAccess" ->
             FromSystem(<<Text, "ACCESS_DENIED">>, TRUE)
      [] number = "kIOReturnOverrun" -> FromSystem(<<Text>>, TRUE)
      [] number = "kIOReturnAborted" -> FromSystem(<<Text, "CANCELLED">>, TRUE)
      [] OTHER -> FromSystem(<<>>, FALSE)
=============================================================================
