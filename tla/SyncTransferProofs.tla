------------------------- MODULE SyncTransferProofs -------------------------
(***************************************************************************)
(* Proofs about SyncTransfer and the error objects below it, for any set   *)
(* of memory blocks, pipe ids, endpoint layouts, timeouts and sizes.       *)
(***************************************************************************)
EXTENDS SyncTransfer, WellFoundedInduction, TLAPS

-----------------------------------------------------------------------------
(* Error objects.                                                          *)

(* An error that libusbp_error_free takes apart, as WellFormed has it. *)
Mutable(e) ==
    /\ ~e.do_not_free
    /\ e.self \in Blocks /\ e.message \in Blocks /\ e.self # e.message
    /\ e.code_array \in Blocks \cup {NULL}
    /\ e.code_array \notin {e.self, e.message}
    /\ e.codes # {} => e.code_array \in Blocks

(***************************************************************************)
(* What a function that builds an error leaves behind: an error, whose     *)
(* memory is what was allocated besides the blocks of rest.                *)
(***************************************************************************)
Builds(r, rest) ==
    /\ r.error \in Errors
    /\ r.error = error_masked_by_no_memory \/ Mutable(r.error)
    /\ Owned(r.error) \cap rest = {}
    /\ r.heap = rest \cup Owned(r.error)

(* NULL and the static objects are not on the heap. *)
LEMMA BlocksAreMemory == NULL \notin Blocks /\ Static \notin Blocks
BY BlocksAssumption

(* malloc returns a block that was free. *)
LEMMA MallocIsFresh ==
    ASSUME NEW h, NEW b \in Malloc(h)
    PROVE  b \in Blocks /\ b \notin h
BY DEF Malloc

(* The static error that stands in for want of memory owns nothing. *)
LEMMA MaskedFacts ==
    /\ error_masked_by_no_memory \in Errors
    /\ error_masked_by_no_memory.do_not_free
    /\ error_masked_by_no_memory.self = Static
    /\ error_masked_by_no_memory.codes = {"MEMORY"}
    /\ error_masked_by_no_memory # NoError
    /\ Owned(error_masked_by_no_memory) = {}
<1>1. error_masked_by_no_memory =
        [do_not_free |-> TRUE, self |-> Static, message |-> Static,
         code_array |-> Static, codes |-> {"MEMORY"}]
    BY DEF error_masked_by_no_memory, ErrorStruct
<1>2. {"MEMORY"} \in SUBSET Codes
    BY DEF Codes
<1>3. error_masked_by_no_memory \in Errors
    BY <1>1, <1>2 DEF Errors, Pointer
<1>4. error_masked_by_no_memory # NoError
    BY <1>1 DEF NoError, ErrorStruct, NULL, Static
<1>. QED
    BY <1>1, <1>3, <1>4, BlocksAreMemory DEF Owned

(* The NULL pointer owns nothing. *)
LEMMA NoErrorFacts ==
    /\ NoError \in Errors
    /\ ~NoError.do_not_free
    /\ NoError.self = NULL
    /\ NoError.codes = {}
    /\ Owned(NoError) = {}
<1>1. NoError = [do_not_free |-> FALSE, self |-> NULL, message |-> NULL,
                 code_array |-> NULL, codes |-> {}]
    BY DEF NoError, ErrorStruct, NULL, Static
<1>. QED
    BY <1>1, BlocksAreMemory DEF Owned, Errors, Pointer

(* error_blank is static and has nothing in it. *)
LEMMA BlankFacts ==
    /\ error_blank.self = Static
    /\ error_blank.do_not_free
    /\ error_blank.codes = {}
BY DEF error_blank, ErrorStruct

(***************************************************************************)
(* libusbp_error_copy of an error with its codes: the static error, with   *)
(* everything that was allocated freed again, or a new object that shares  *)
(* nothing with what was allocated and has the same codes.                 *)
(***************************************************************************)
LEMMA CopyBuilds ==
    ASSUME NEW h \in SUBSET Blocks, NEW e, e.self # NULL, e.codes \subseteq Codes,
           NEW r \in libusbp_error_copy(h, e)
    PROVE  /\ Builds(r, h)
           /\ r.error = error_masked_by_no_memory \/ r.error.codes = e.codes
<1>1. CASE r = Result(h, error_masked_by_no_memory)
    <2>1. r.heap = h /\ r.error = error_masked_by_no_memory
        BY <1>1 DEF Result
    <2>. QED
        BY <2>1, MaskedFacts DEF Builds
<1>2. ASSUME NEW s \in Malloc(h), NEW m \in Malloc(h \cup {s}),
             NEW a \in Malloc(h \cup {s, m}) \cup {x \in {NULL} : e.codes = {}},
             r = Result(h \cup Owned(ErrorStruct(s, m, a, e.codes)),
                        ErrorStruct(s, m, a, e.codes))
      PROVE  /\ Builds(r, h)
             /\ r.error.codes = e.codes
    <2>. DEFINE c == ErrorStruct(s, m, a, e.codes)
    <2>1. /\ s \in Blocks /\ s \notin h
          /\ m \in Blocks /\ m \notin h /\ m # s
        BY MallocIsFresh
    <2>2. /\ a \in Blocks \cup {NULL} /\ a \notin h
          /\ a # s /\ a # m
          /\ e.codes # {} => a \in Blocks
        BY <2>1, MallocIsFresh, BlocksAreMemory
    <2>3. c = [do_not_free |-> FALSE, self |-> s, message |-> m,
               code_array |-> a, codes |-> e.codes]
        BY <2>1, BlocksAreMemory DEF ErrorStruct
    <2>4. c \in Errors
        BY <2>1, <2>2, <2>3 DEF Errors, Pointer
    <2>5. Mutable(c)
        BY <2>1, <2>2, <2>3 DEF Mutable
    <2>6. Owned(c) \cap h = {}
        BY <2>1, <2>2, <2>3 DEF Owned
    <2>7. r.heap = h \cup Owned(c) /\ r.error = c
        BY <1>2 DEF Result
    <2>8. c.codes = e.codes
        BY <2>3
    <2>. HIDE DEF c
    <2>9. Builds(r, h)
        BY <2>4, <2>5, <2>6, <2>7 DEF Builds
    <2>. QED
        BY <2>7, <2>8, <2>9
<1>3. ASSUME r # Result(h, error_masked_by_no_memory)
      PROVE  \E s \in Malloc(h) : \E m \in Malloc(h \cup {s}) :
             \E a \in Malloc(h \cup {s, m}) \cup {x \in {NULL} : e.codes = {}} :
                 r = Result(h \cup Owned(ErrorStruct(s, m, a, e.codes)),
                            ErrorStruct(s, m, a, e.codes))
    <2>. DEFINE Arrays(s, m) == Malloc(h \cup {s, m}) \cup {x \in {NULL} : e.codes = {}}
                Copies(s, m) == {ErrorStruct(s, m, a, e.codes) : a \in Arrays(s, m)}
    <2>1. r \in {Result(h \cup Owned(c), c) : c \in
                    UNION {UNION {Copies(s, m) : m \in Malloc(h \cup {s})} : s \in Malloc(h)}}
        BY <1>3 DEF libusbp_error_copy
    <2>2. PICK c \in UNION {UNION {Copies(s, m) : m \in Malloc(h \cup {s})} : s \in Malloc(h)} :
              r = Result(h \cup Owned(c), c)
        BY <2>1
    <2>3. PICK s \in Malloc(h) : c \in UNION {Copies(s, m) : m \in Malloc(h \cup {s})}
        OBVIOUS
    <2>4. PICK m \in Malloc(h \cup {s}) : c \in Copies(s, m)
        BY <2>3
    <2>5. PICK a \in Arrays(s, m) : c = ErrorStruct(s, m, a, e.codes)
        BY <2>4
    <2>. QED
        BY <2>2, <2>5
<1>. QED
    BY <1>1, <1>2, <1>3

(* A built error is freed block by block, and only its own blocks. *)
LEMMA FreeMutable ==
    ASSUME NEW e, Mutable(e), NEW h
    PROVE  libusbp_error_free(h, e) = h \ Owned(e)
BY BlocksAreMemory DEF Mutable, libusbp_error_free, Owned

(* The result is an error of its own, static or not: never NULL. *)
LEMMA BuildsFacts ==
    ASSUME NEW r, NEW rest, Builds(r, rest)
    PROVE  /\ r.error # NoError
           /\ WellFormed(r.error)
           /\ r.error.do_not_free => r.error = error_masked_by_no_memory
           /\ ~r.error.do_not_free => Mutable(r.error)
<1>1. CASE r.error = error_masked_by_no_memory
    BY <1>1, MaskedFacts DEF WellFormed
<1>2. CASE Mutable(r.error)
    BY <1>2, NoErrorFacts, BlocksAreMemory DEF Mutable, WellFormed
<1>. QED
    BY <1>1, <1>2 DEF Builds

(***************************************************************************)
(* error_make_mutable gives an error that can be added to, with the codes  *)
(* of the one it got, or the static error.                                 *)
(***************************************************************************)
LEMMA MakeMutableBuilds ==
    ASSUME NEW rest \in SUBSET Blocks, NEW e \in Errors, WellFormed(e),
           Owned(e) \cap rest = {},
           NEW r \in error_make_mutable(rest \cup Owned(e), e)
    PROVE  /\ Builds(r, rest)
           /\ r.error = error_masked_by_no_memory \/ r.error.codes = e.codes
<1>1. CASE e = NoError
    <2>1. rest \cup Owned(e) = rest
        BY <1>1, NoErrorFacts
    <2>2. r \in libusbp_error_copy(rest, error_blank)
        BY <2>1, <1>1, NoErrorFacts DEF error_make_mutable
    <2>3. error_blank.self # NULL
        BY BlankFacts DEF NULL, Static
    <2>. QED
        BY <1>1, <2>2, <2>3, BlankFacts, NoErrorFacts, CopyBuilds
<1>2. CASE e = error_masked_by_no_memory
    <2>1. rest \cup Owned(e) = rest
        BY <1>2, MaskedFacts
    <2>2. e.self # NULL
        BY <1>2, MaskedFacts DEF NULL, Static
    <2>3. r \in libusbp_error_copy(rest, e)
        BY <2>1, <2>2, <1>2, MaskedFacts DEF error_make_mutable
    <2>4. e.codes \subseteq Codes
        BY DEF Errors
    <2>. QED
        BY <2>2, <2>3, <2>4, CopyBuilds
<1>3. CASE Mutable(e)
    <2>1. r = Result(rest \cup Owned(e), e)
        BY <1>3, BlocksAreMemory DEF Mutable, error_make_mutable
    <2>2. r.error = e /\ r.heap = rest \cup Owned(e)
        BY <2>1 DEF Result
    <2>. QED
        BY <2>2, <1>3 DEF Builds
<1>. QED
    BY <1>1, <1>2, <1>3 DEF WellFormed, Mutable

(***************************************************************************)
(* A text: the message moves to a block of its own, or the whole error is  *)
(* freed and the static one takes its place.                               *)
(***************************************************************************)
LEMMA AddToMutableBuilds ==
    ASSUME NEW rest \in SUBSET Blocks, NEW e \in Errors, Mutable(e),
           Owned(e) \cap rest = {},
           NEW r \in add_to_mutable(rest \cup Owned(e), e)
    PROVE  /\ Builds(r, rest)
           /\ r.error = error_masked_by_no_memory \/ r.error.codes = e.codes
<1>1. CASE r = Result(libusbp_error_free(rest \cup Owned(e), e),
                      error_masked_by_no_memory)
    <2>1. r.heap = rest /\ r.error = error_masked_by_no_memory
        BY SMTT(30), <1>1, FreeMutable DEF Result
    <2>. QED
        BY <2>1, MaskedFacts DEF Builds
<1>2. ASSUME NEW m \in Malloc(rest \cup Owned(e)),
             r = Result((rest \cup Owned(e) \cup {m}) \ {e.message},
                        [e EXCEPT !.message = m])
      PROVE  Builds(r, rest) /\ r.error.codes = e.codes
    <2>. DEFINE c == [e EXCEPT !.message = m]
    <2>1. m \in Blocks /\ m \notin rest /\ m \notin Owned(e)
        BY MallocIsFresh
    <2>2. c \in Errors
        BY <2>1 DEF Errors, Pointer
    <2>3. /\ c.do_not_free = e.do_not_free /\ c.self = e.self /\ c.message = m
          /\ c.code_array = e.code_array /\ c.codes = e.codes
        BY DEF Errors
    <2>4. Mutable(c)
        BY <2>1, <2>3 DEF Mutable, Owned
    <2>5. Owned(c) = (Owned(e) \ {e.message}) \cup {m}
        BY <2>1, <2>3 DEF Mutable, Owned
    <2>6. r.heap = (rest \cup Owned(e) \cup {m}) \ {e.message} /\ r.error = c
        BY <1>2 DEF Result
    <2>. HIDE DEF c
    <2>7. e.message \in Owned(e)
        BY DEF Mutable, Owned
    <2>8. /\ Owned(c) \cap rest = {}
          /\ r.heap = rest \cup Owned(c)
        BY <2>1, <2>5, <2>6, <2>7
    <2>. QED
        BY <2>2, <2>3, <2>4, <2>6, <2>8 DEF Builds
<1>. QED
    BY <1>1, <1>2 DEF add_to_mutable

(* A code: the array of codes moves or stays, likewise. *)
LEMMA AddCodeToMutableBuilds ==
    ASSUME NEW rest \in SUBSET Blocks, NEW e \in Errors, Mutable(e),
           Owned(e) \cap rest = {}, NEW code \in Codes,
           NEW r \in add_code_to_mutable(rest \cup Owned(e), e, code)
    PROVE  /\ Builds(r, rest)
           /\ \/ r.error = error_masked_by_no_memory
              \/ r.error.codes = e.codes \cup {code}
<1>1. CASE r = Result(libusbp_error_free(rest \cup Owned(e), e),
                      error_masked_by_no_memory)
    <2>1. r.heap = rest /\ r.error = error_masked_by_no_memory
        BY <1>1, FreeMutable DEF Result
    <2>. QED
        BY <2>1, MaskedFacts DEF Builds
<1>2. ASSUME NEW a \in Malloc(rest \cup Owned(e)) \cup ({e.code_array} \cap Blocks),
             r = Result(((rest \cup Owned(e)) \ ({e.code_array} \cap Blocks)) \cup {a},
                        [e EXCEPT !.code_array = a, !.codes = @ \cup {code}])
      PROVE  Builds(r, rest) /\ r.error.codes = e.codes \cup {code}
    <2>. DEFINE c == [e EXCEPT !.code_array = a, !.codes = @ \cup {code}]
    <2>1. a \in Blocks /\ a \notin rest /\ (a \notin Owned(e) \/ a = e.code_array)
        BY MallocIsFresh DEF Owned
    <2>2. c \in Errors
        BY <2>1 DEF Errors, Pointer
    <2>3. /\ c.do_not_free = e.do_not_free /\ c.self = e.self /\ c.message = e.message
          /\ c.code_array = a /\ c.codes = e.codes \cup {code}
        BY DEF Errors
    <2>4. Mutable(c)
        BY <2>1, <2>3 DEF Mutable, Owned
    <2>5. Owned(c) = (Owned(e) \ {e.code_array}) \cup {a}
        BY <2>1, <2>3 DEF Mutable, Owned
    <2>6. /\ r.heap = ((rest \cup Owned(e)) \ ({e.code_array} \cap Blocks)) \cup {a}
          /\ r.error = c
        BY <1>2 DEF Result
    <2>. HIDE DEF c
    <2>7. {e.code_array} \cap Blocks \subseteq Owned(e)
        BY DEF Owned
    <2>8. /\ Owned(c) \cap rest = {}
          /\ r.heap = rest \cup Owned(c)
        BY <2>1, <2>5, <2>6, <2>7 DEF Owned
    <2>. QED
        BY <2>2, <2>3, <2>4, <2>6, <2>8 DEF Builds
<1>. QED
    BY <1>1, <1>2 DEF add_code_to_mutable

(* The codes after an addition: one more, or only that there is no memory. *)
Extended(codes, old, addition) ==
    codes = {"MEMORY"} \/ codes = old \cup ({addition} \cap Codes)

(***************************************************************************)
(* An addition to an error, or to none, always leaves an error, with its   *)
(* memory in order: the old codes and the new one, or the static error.    *)
(***************************************************************************)
LEMMA AddBuilds ==
    ASSUME NEW rest \in SUBSET Blocks, NEW e \in Errors, WellFormed(e),
           Owned(e) \cap rest = {}, NEW a \in Additions,
           NEW r \in Add(rest \cup Owned(e), e, a)
    PROVE  Builds(r, rest) /\ Extended(r.error.codes, e.codes, a)
<1>. USE DEF Extended
<1>. DEFINE made == error_make_mutable(rest \cup Owned(e), e)
<1>1. ASSUME NEW q \in made
      PROVE  /\ Builds(q, rest)
             /\ q.error.codes = {"MEMORY"} \/ q.error.codes = e.codes
             /\ q.error.do_not_free => q.error = error_masked_by_no_memory
             /\ q.error.do_not_free => q.error.codes = {"MEMORY"}
             /\ ~q.error.do_not_free => Mutable(q.error)
             /\ q.error \in Errors /\ Owned(q.error) \cap rest = {}
             /\ q.heap = rest \cup Owned(q.error)
             /\ ~q.error.do_not_free => q.error.codes = e.codes
    <2>1. /\ Builds(q, rest)
          /\ q.error = error_masked_by_no_memory \/ q.error.codes = e.codes
        BY MakeMutableBuilds
    <2>2. /\ q.error.do_not_free => q.error = error_masked_by_no_memory
          /\ ~q.error.do_not_free => Mutable(q.error)
        BY <2>1, BuildsFacts
    <2>3. /\ q.error \in Errors /\ Owned(q.error) \cap rest = {}
          /\ q.heap = rest \cup Owned(q.error)
        BY <2>1 DEF Builds
    <2>4. q.error = error_masked_by_no_memory =>
              q.error.do_not_free /\ q.error.codes = {"MEMORY"}
        BY MaskedFacts
    <2>. QED
        BY <2>1, <2>2, <2>3, <2>4
<1>. HIDE DEF made
<1>2. CASE a = Text
    <2>1. PICK q \in made :
              r \in IF q.error.do_not_free THEN {q} ELSE add_to_mutable(q.heap, q.error)
        BY <1>2 DEF Add, error_add_v, made
    <2>2. Text \notin Codes
        BY DEF Text, Codes
    <2>3. CASE q.error.do_not_free
        BY <2>1, <2>3, <1>1
    <2>4. CASE ~q.error.do_not_free
        <3>1. r \in add_to_mutable(rest \cup Owned(q.error), q.error)
            BY <2>1, <2>4, <1>1
        <3>2. /\ Builds(r, rest)
              /\ r.error = error_masked_by_no_memory \/ r.error.codes = q.error.codes
            BY <3>1, <2>4, <1>1, AddToMutableBuilds
        <3>. QED
            BY <3>2, <2>2, <1>2, <2>4, <1>1, MaskedFacts
    <2>. QED
        BY <2>3, <2>4
<1>3. CASE a # Text
    <2>0. a \in Codes
        BY <1>3 DEF Additions
    <2>1. PICK q \in made :
              r \in IF q.error.do_not_free THEN {q}
                    ELSE add_code_to_mutable(q.heap, q.error, a)
        BY <1>3 DEF Add, error_add_code, made
    <2>3. CASE q.error.do_not_free
        BY <2>1, <2>3, <1>1
    <2>4. CASE ~q.error.do_not_free
        <3>1. r \in add_code_to_mutable(rest \cup Owned(q.error), q.error, a)
            BY <2>1, <2>4, <1>1
        <3>2. /\ Builds(r, rest)
              /\ \/ r.error = error_masked_by_no_memory
                 \/ r.error.codes = q.error.codes \cup {a}
            BY SMTT(30), <3>1, <2>0, <2>4, <1>1, AddCodeToMutableBuilds
        <3>. QED
            BY <3>2, <2>0, <2>4, <1>1, MaskedFacts
    <2>. QED
        BY <2>3, <2>4
<1>. QED
    BY <1>2, <1>3

-----------------------------------------------------------------------------
(* The additions for a system code.                                        *)

Elements(s) == {s[k] : k \in 1..Len(s)}

(* The additions build an error, with these codes. *)
Tells(additions, codes) ==
    /\ additions \in Seq(Additions)
    /\ additions # <<>>
    /\ Elements(additions) \cup {Text} = codes \cup {Text}

(* What a concatenation has in it. *)
LEMMA ConcatElements ==
    ASSUME NEW S, NEW s \in Seq(S), NEW t \in Seq(S)
    PROVE  /\ s \o t \in Seq(S)
           /\ Elements(s \o t) = Elements(s) \cup Elements(t)
           /\ s # <<>> => s \o t # <<>>
<1>1. s \o t \in Seq(S) /\ Len(s \o t) = Len(s) + Len(t)
    OBVIOUS
<1>2. Len(s) \in Nat /\ Len(t) \in Nat
    OBVIOUS
<1>3. \A k \in 1..Len(s) : (s \o t)[k] = s[k]
    OBVIOUS
<1>4. \A k \in 1..Len(t) : (s \o t)[Len(s) + k] = t[k]
    OBVIOUS
<1>5. \A k \in 1..Len(s \o t) : k \in 1..Len(s) \/ (k - Len(s)) \in 1..Len(t)
    BY <1>1, <1>2
<1>6. Elements(s \o t) \subseteq Elements(s) \cup Elements(t)
    <2>1. SUFFICES ASSUME NEW k \in 1..Len(s \o t)
                   PROVE  (s \o t)[k] \in Elements(s) \cup Elements(t)
        BY DEF Elements
    <2>2. CASE k \in 1..Len(s)
        BY <2>2, <1>3 DEF Elements
    <2>3. CASE (k - Len(s)) \in 1..Len(t)
        <3>1. (s \o t)[Len(s) + (k - Len(s))] = t[k - Len(s)]
            BY <2>3, <1>4
        <3>2. Len(s) + (k - Len(s)) = k
            BY <1>2
        <3>. QED
            BY <3>1, <3>2, <2>3 DEF Elements
    <2>. QED
        BY <1>5, <2>2, <2>3
<1>7. Elements(s) \subseteq Elements(s \o t)
    <2>1. \A k \in 1..Len(s) : k \in 1..Len(s \o t)
        BY <1>1, <1>2
    <2>. QED
        BY <2>1, <1>3 DEF Elements
<1>8. Elements(t) \subseteq Elements(s \o t)
    <2>1. \A k \in 1..Len(t) : (Len(s) + k) \in 1..Len(s \o t)
        BY <1>1, <1>2
    <2>. QED
        BY <2>1, <1>4 DEF Elements
<1>9. s # <<>> => s \o t # <<>>
    <2>1. s # <<>> => Len(s) # 0
        OBVIOUS
    <2>2. s \o t = <<>> => Len(s \o t) = 0
        OBVIOUS
    <2>. QED
        BY <2>1, <2>2, <1>1, <1>2
<1>. QED
    BY <1>1, <1>6, <1>7, <1>8, <1>9

(* What a list has in it. *)
LEMMA ListElements ==
    /\ Elements(<<>>) = {}
    /\ \A a : Elements(<<a>>) = {a}
    /\ \A a, b : Elements(<<a, b>>) = {a, b}
    /\ \A a, b, c : Elements(<<a, b, c>>) = {a, b, c}
<1>1. Elements(<<>>) = {}
    BY DEF Elements
<1>2. \A a : Elements(<<a>>) = {a}
    BY DEF Elements
<1>3. \A a, b : Elements(<<a, b>>) = {a, b}
    <2>. TAKE a, b
    <2>1. Elements(<<a, b>>) = {<<a, b>>[k] : k \in {1, 2}}
        BY DEF Elements
    <2>. QED
        BY <2>1
<1>4. \A a, b, c : Elements(<<a, b, c>>) = {a, b, c}
    <2>. TAKE a, b, c
    <2>1. Elements(<<a, b, c>>) = {<<a, b, c>>[k] : k \in {1, 2, 3}}
        BY DEF Elements
    <2>. QED
        BY <2>1
<1>. QED
    BY <1>1, <1>2, <1>3, <1>4

(* The texts around what the switch says add no code. *)
LEMMA FromSystemTells ==
    ASSUME NEW s \in Seq(Additions), NEW skip \in BOOLEAN
    PROVE  Tells(FromSystem(s, skip), Elements(s))
<1>. DEFINE begin == <<Text>>
            end == IF skip THEN <<Text>> ELSE <<Text, Text>>
            first == begin \o s
<1>1. Text \in Additions
    BY DEF Additions
<1>2. begin \in Seq(Additions) /\ end \in Seq(Additions)
    BY <1>1
<1>3. Elements(begin) = {Text} /\ Elements(end) = {Text} /\ begin # <<>>
    BY ListElements
<1>4. FromSystem(s, skip) = first \o end
    BY DEF FromSystem
<1>. HIDE DEF begin, end
<1>5. /\ first \in Seq(Additions)
      /\ Elements(first) = {Text} \cup Elements(s)
      /\ first # <<>>
    BY <1>2, <1>3, ConcatElements
<1>. HIDE DEF first
<1>6. /\ first \o end \in Seq(Additions)
      /\ Elements(first \o end) = {Text} \cup Elements(s)
      /\ first \o end # <<>>
    BY <1>2, <1>3, <1>5, ConcatElements
<1>. QED
    BY <1>4, <1>6 DEF Tells

(* The three forms that the switches have. *)
LEMMA SwitchTells ==
    ASSUME NEW skip \in BOOLEAN
    PROVE  /\ Tells(FromSystem(<<>>, skip), {})
           /\ Tells(FromSystem(<<Text>>, skip), {})
           /\ \A a \in Codes : Tells(FromSystem(<<a>>, skip), {a})
           /\ \A a \in Codes : Tells(FromSystem(<<Text, a>>, skip), {a})
           /\ \A a, b \in Codes : Tells(FromSystem(<<Text, a, b>>, skip), {a, b})
<1>1. Text \in Additions /\ Codes \subseteq Additions
    BY DEF Additions
<1>2. Tells(FromSystem(<<>>, skip), {})
    <2>1. <<>> \in Seq(Additions)
        OBVIOUS
    <2>. QED
        BY <2>1, FromSystemTells, ListElements
<1>3. Tells(FromSystem(<<Text>>, skip), {})
    <2>1. <<Text>> \in Seq(Additions)
        BY <1>1
    <2>2. Tells(FromSystem(<<Text>>, skip), {Text})
        BY <2>1, FromSystemTells, ListElements
    <2>. QED
        BY <2>2 DEF Tells
<1>4. ASSUME NEW a \in Codes
      PROVE  Tells(FromSystem(<<a>>, skip), {a})
    <2>1. <<a>> \in Seq(Additions)
        BY <1>1
    <2>. QED
        BY <2>1, FromSystemTells, ListElements
<1>5. ASSUME NEW a \in Codes
      PROVE  Tells(FromSystem(<<Text, a>>, skip), {a})
    <2>1. <<Text, a>> \in Seq(Additions)
        BY <1>1
    <2>2. Tells(FromSystem(<<Text, a>>, skip), {Text, a})
        BY <2>1, FromSystemTells, ListElements
    <2>. QED
        BY <2>2 DEF Tells
<1>6. ASSUME NEW a \in Codes, NEW b \in Codes
      PROVE  Tells(FromSystem(<<Text, a, b>>, skip), {a, b})
    <2>1. <<Text, a, b>> \in Seq(Additions)
        BY <1>1
    <2>2. Tells(FromSystem(<<Text, a, b>>, skip), {Text, a, b})
        BY ZenonT(40), <2>1, FromSystemTells, ListElements
    <2>. QED
        BY <2>2 DEF Tells
<1>. QED
    BY <1>2, <1>3, <1>4, <1>5, <1>6

(* The numbers of Linux. *)
LEMMA ErrnoTells ==
    /\ Tells(error_create_errno("ETIMEDOUT"), {"TIMEOUT"})
    /\ Tells(error_create_errno("EPIPE"), {"STALL", "DEVICE_DISCONNECTED"})
    /\ Tells(error_create_errno("ENODEV"), {"DEVICE_DISCONNECTED"})
    /\ Tells(error_create_errno("ESHUTDOWN"), {"DEVICE_DISCONNECTED"})
    /\ Tells(error_create_errno("EPROTO"), {"DEVICE_DISCONNECTED"})
    /\ Tells(error_create_errno("EILSEQ"), {"DEVICE_DISCONNECTED", "CANCELLED"})
    /\ Tells(error_create_errno("EOVERFLOW"), {})
    /\ Tells(error_create_errno("ENOMEM"), {"MEMORY"})
    /\ Tells(error_create_errno("EINVAL"), {})
    /\ Tells(error_create_errno("ENOENT"), {})
    /\ Tells(error_from_urb_status("ENOENT"), {"CANCELLED"})
<1>1. /\ "TIMEOUT" \in Codes /\ "STALL" \in Codes /\ "DEVICE_DISCONNECTED" \in Codes
      /\ "CANCELLED" \in Codes /\ "MEMORY" \in Codes
    BY DEF Codes
<1>2. /\ error_create_errno("ETIMEDOUT") = FromSystem(<<Text, "TIMEOUT">>, TRUE)
      /\ error_create_errno("EPIPE") =
             FromSystem(<<Text, "STALL", "DEVICE_DISCONNECTED">>, TRUE)
      /\ error_create_errno("ENODEV") = FromSystem(<<Text, "DEVICE_DISCONNECTED">>, TRUE)
      /\ error_create_errno("ESHUTDOWN") = FromSystem(<<Text, "DEVICE_DISCONNECTED">>, TRUE)
      /\ error_create_errno("EPROTO") = FromSystem(<<"DEVICE_DISCONNECTED">>, FALSE)
      /\ error_create_errno("EILSEQ") =
             FromSystem(<<Text, "DEVICE_DISCONNECTED", "CANCELLED">>, TRUE)
      /\ error_create_errno("EOVERFLOW") = FromSystem(<<Text>>, TRUE)
      /\ error_create_errno("ENOMEM") = FromSystem(<<"MEMORY">>, FALSE)
      /\ error_create_errno("EINVAL") = FromSystem(<<>>, FALSE)
      /\ error_create_errno("ENOENT") = FromSystem(<<>>, FALSE)
    BY DEF error_create_errno
<1>3. Tells(<<Text, Text, "CANCELLED">>, {"CANCELLED"})
    <2>1. <<Text, Text, "CANCELLED">> \in Seq(Additions)
        BY <1>1 DEF Additions
    <2>2. Elements(<<Text, Text, "CANCELLED">>) = {Text, "CANCELLED"}
        BY ListElements
    <2>. QED
        BY <2>1, <2>2 DEF Tells
<1>4. error_from_urb_status("ENOENT") = <<Text, Text, "CANCELLED">>
    BY DEF error_from_urb_status
<1>. QED
    BY <1>1, <1>2, <1>3, <1>4, SwitchTells

(* The numbers of Windows. *)
LEMMA WinapiTells ==
    /\ Tells(error_create_winapi("ERROR_SEM_TIMEOUT"), {"TIMEOUT"})
    /\ Tells(error_create_winapi("ERROR_GEN_FAILURE"), {"STALL", "DEVICE_DISCONNECTED"})
    /\ Tells(error_create_winapi("ERROR_NOT_ENOUGH_MEMORY"), {"MEMORY"})
    /\ Tells(error_create_winapi("ERROR_OPERATION_ABORTED"), {"CANCELLED"})
    /\ Tells(error_create_winapi("ERROR_INVALID_PARAMETER"), {})
    /\ Tells(error_create_overlapped("ERROR_FILE_NOT_FOUND"), {"DEVICE_DISCONNECTED"})
<1>1. /\ "TIMEOUT" \in Codes /\ "STALL" \in Codes /\ "DEVICE_DISCONNECTED" \in Codes
      /\ "CANCELLED" \in Codes /\ "MEMORY" \in Codes
    BY DEF Codes
<1>2. /\ error_create_winapi("ERROR_SEM_TIMEOUT") = FromSystem(<<Text, "TIMEOUT">>, TRUE)
      /\ error_create_winapi("ERROR_GEN_FAILURE") =
             FromSystem(<<Text, "STALL", "DEVICE_DISCONNECTED">>, TRUE)
      /\ error_create_winapi("ERROR_NOT_ENOUGH_MEMORY") = FromSystem(<<"MEMORY">>, FALSE)
      /\ error_create_winapi("ERROR_OPERATION_ABORTED") =
             FromSystem(<<Text, "CANCELLED">>, TRUE)
      /\ error_create_winapi("ERROR_INVALID_PARAMETER") = FromSystem(<<>>, FALSE)
    BY DEF error_create_winapi
<1>3. error_create_overlapped("ERROR_FILE_NOT_FOUND") =
          FromSystem(<<Text, "DEVICE_DISCONNECTED">>, TRUE)
    BY DEF error_create_overlapped
<1>. QED
    BY <1>1, <1>2, <1>3, SwitchTells

(* The numbers of macOS. *)
LEMMA MachTells ==
    /\ Tells(error_create_mach("kIOUSBTransactionTimeout"), {"TIMEOUT"})
    /\ Tells(error_create_mach("kIOUSBPipeStalled"), {"STALL", "DEVICE_DISCONNECTED"})
    /\ Tells(error_create_mach("kIOReturnNoDevice"), {"DEVICE_DISCONNECTED"})
    /\ Tells(error_create_mach("kIOReturnOverrun"), {})
    /\ Tells(error_create_mach("kIOReturnAborted"), {"CANCELLED"})
    /\ Tells(error_create_mach("kIOReturnBadArgument"), {})
<1>1. /\ "TIMEOUT" \in Codes /\ "STALL" \in Codes /\ "DEVICE_DISCONNECTED" \in Codes
      /\ "CANCELLED" \in Codes
    BY DEF Codes
<1>2. /\ error_create_mach("kIOUSBTransactionTimeout") =
             FromSystem(<<Text, "TIMEOUT">>, TRUE)
      /\ error_create_mach("kIOUSBPipeStalled") =
             FromSystem(<<Text, "STALL", "DEVICE_DISCONNECTED">>, TRUE)
      /\ error_create_mach("kIOReturnNoDevice") =
             FromSystem(<<"DEVICE_DISCONNECTED">>, FALSE)
      /\ error_create_mach("kIOReturnOverrun") = FromSystem(<<Text>>, TRUE)
      /\ error_create_mach("kIOReturnAborted") = FromSystem(<<Text, "CANCELLED">>, TRUE)
      /\ error_create_mach("kIOReturnBadArgument") = FromSystem(<<>>, FALSE)
    BY DEF error_create_mach
<1>. QED
    BY <1>1, <1>2, SwitchTells

-----------------------------------------------------------------------------
(* What a call makes of an event.                                          *)

(* The additions end in an error that names the event and nothing wrong. *)
Explains(additions, event) ==
    /\ additions \in Seq(Additions)
    /\ additions # <<>>
    /\ CodeOf(event) \subseteq Elements(additions)
    /\ "TIMEOUT" \in Elements(additions) => event = "timeout"

FailedEvents == Events \ {"success", "argument"}

LEMMA TextIsNoCode == Text \notin Codes /\ Text # "TIMEOUT"
BY DEF Text, Codes

(* The codes of the events. *)
LEMMA CodeOfFacts ==
    /\ CodeOf("success") = {} /\ CodeOf("argument") = {}
    /\ CodeOf("timeout") = {"TIMEOUT"} /\ CodeOf("stall") = {"STALL"}
    /\ CodeOf("gone") = {"DEVICE_DISCONNECTED"} /\ CodeOf("cancelled") = {"CANCELLED"}
    /\ CodeOf("overflow") = {} /\ CodeOf("other") = {}
    /\ CodeOf("memory") = IF platform = "macos" THEN {} ELSE {"MEMORY"}
BY DEF CodeOf

LEMMA CodeOfIsCode ==
    ASSUME NEW event \in Events
    PROVE  CodeOf(event) \subseteq Codes
BY CodeOfFacts DEF Events, Codes

(* Additions that tell the code of an event explain it. *)
LEMMA TellsExplains ==
    ASSUME NEW additions, NEW codes, NEW event \in Events, Tells(additions, codes),
           CodeOf(event) \subseteq codes, "TIMEOUT" \in codes => event = "timeout"
    PROVE  Explains(additions, event)
<1>1. CodeOf(event) \subseteq Codes
    BY CodeOfIsCode
<1>. QED
    BY <1>1, TextIsNoCode DEF Tells, Explains

(* Linux: whichever number the kernel has for the event. *)
LEMMA ErrnosExplain ==
    ASSUME platform = "linux", NEW event \in FailedEvents, NEW n \in Errnos(event)
    PROVE  /\ event # "cancelled" => Explains(error_create_errno(n), event)
           /\ Explains(error_from_urb_status(n), event)
<1>0. event \in Events
    BY DEF FailedEvents
<1>1. n # "ENOENT" => error_from_urb_status(n) = error_create_errno(n)
    BY DEF error_from_urb_status
<1>2. CASE event = "timeout"
    <2>1. n = "ETIMEDOUT"
        BY <1>2 DEF Errnos
    <2>. QED
        BY <2>1, <1>0, <1>1, <1>2, ErrnoTells, CodeOfFacts, TellsExplains
<1>3. CASE event = "stall"
    <2>1. n = "EPIPE"
        BY <1>3 DEF Errnos
    <2>. QED
        BY <2>1, <1>0, <1>1, <1>3, ErrnoTells, CodeOfFacts, TellsExplains
<1>4. CASE event = "gone"
    <2>1. n \in {"ENODEV", "ESHUTDOWN", "EPROTO", "EILSEQ"}
        BY <1>4 DEF Errnos
    <2>2. CASE n = "EILSEQ"
        BY <2>2, <1>0, <1>1, <1>4, ErrnoTells, CodeOfFacts, TellsExplains
    <2>3. CASE n # "EILSEQ"
        <3>1. Tells(error_create_errno(n), {"DEVICE_DISCONNECTED"})
            BY <2>1, <2>3, ErrnoTells
        <3>. QED
            BY <2>1, <3>1, <1>0, <1>1, <1>4, CodeOfFacts, TellsExplains
    <2>. QED
        BY <2>2, <2>3
<1>5. CASE event = "overflow"
    <2>1. n = "EOVERFLOW"
        BY <1>5 DEF Errnos
    <2>. QED
        BY <2>1, <1>0, <1>1, <1>5, ErrnoTells, CodeOfFacts, TellsExplains
<1>6. CASE event = "memory"
    <2>1. n = "ENOMEM"
        BY <1>6 DEF Errnos
    <2>. QED
        BY <2>1, <1>0, <1>1, <1>6, ErrnoTells, CodeOfFacts, TellsExplains
<1>7. CASE event = "cancelled"
    <2>1. n = "ENOENT"
        BY <1>7 DEF Errnos
    <2>. QED
        BY <2>1, <1>0, <1>7, ErrnoTells, CodeOfFacts, TellsExplains
<1>8. CASE event = "other"
    <2>1. n = "EINVAL"
        BY <1>8 DEF Errnos
    <2>. QED
        BY <2>1, <1>0, <1>1, <1>8, ErrnoTells, CodeOfFacts, TellsExplains
<1>. QED
    BY <1>2, <1>3, <1>4, <1>5, <1>6, <1>7, <1>8 DEF FailedEvents, Events

(* Windows, for a synchronous and for an overlapped transfer. *)
LEMMA WinapiExplains ==
    ASSUME platform = "windows", NEW event \in FailedEvents
    PROVE  /\ Explains(error_create_winapi(WinapiNumber(event)), event)
           /\ Explains(error_create_overlapped(OverlappedNumber(event)), event)
<1>0. event \in Events
    BY DEF FailedEvents
<1>. DEFINE n == WinapiNumber(event)
<1>1. /\ n # "ERROR_FILE_NOT_FOUND"
      /\ event = "timeout" => n = "ERROR_SEM_TIMEOUT"
      /\ event \in {"stall", "gone"} => n = "ERROR_GEN_FAILURE"
      /\ event = "memory" => n = "ERROR_NOT_ENOUGH_MEMORY"
      /\ event = "cancelled" => n = "ERROR_OPERATION_ABORTED"
      /\ event \in {"overflow", "other"} => n = "ERROR_INVALID_PARAMETER"
    BY DEF WinapiNumber, FailedEvents, Events
<1>. HIDE DEF n
<1>2. Explains(error_create_winapi(n), event)
    <2>1. CASE event \in {"stall", "gone"}
        <3>1. Tells(error_create_winapi(n), {"STALL", "DEVICE_DISCONNECTED"})
            BY <2>1, <1>1, WinapiTells
        <3>. QED
            BY <3>1, <2>1, <1>0, CodeOfFacts, TellsExplains
    <2>2. CASE event \in {"overflow", "other"}
        <3>1. Tells(error_create_winapi(n), {})
            BY <2>2, <1>1, WinapiTells
        <3>. QED
            BY <3>1, <2>2, <1>0, CodeOfFacts, TellsExplains
    <2>3. CASE event = "timeout"
        BY <2>3, <1>0, <1>1, WinapiTells, CodeOfFacts, TellsExplains
    <2>4. CASE event = "memory"
        BY <2>4, <1>0, <1>1, WinapiTells, CodeOfFacts, TellsExplains
    <2>5. CASE event = "cancelled"
        BY <2>5, <1>0, <1>1, WinapiTells, CodeOfFacts, TellsExplains
    <2>. QED
        BY <2>1, <2>2, <2>3, <2>4, <2>5 DEF FailedEvents, Events
<1>3. Explains(error_create_overlapped(OverlappedNumber(event)), event)
    <2>1. CASE event = "gone"
        <3>1. OverlappedNumber(event) = "ERROR_FILE_NOT_FOUND"
            BY <2>1 DEF OverlappedNumber
        <3>. QED
            BY <3>1, <2>1, <1>0, WinapiTells, CodeOfFacts, TellsExplains
    <2>2. CASE event # "gone"
        <3>1. OverlappedNumber(event) = n
            BY <2>2 DEF OverlappedNumber, n
        <3>2. error_create_overlapped(n) = error_create_winapi(n)
            BY <1>1 DEF error_create_overlapped
        <3>. QED
            BY <3>1, <3>2, <1>2
    <2>. QED
        BY <2>1, <2>2
<1>. QED
    BY <1>2, <1>3 DEF n

(* macOS. *)
LEMMA MachExplains ==
    ASSUME platform = "macos", NEW event \in FailedEvents
    PROVE  Explains(error_create_mach(MachNumber(event)), event)
<1>0. event \in Events
    BY DEF FailedEvents
<1>. DEFINE n == MachNumber(event)
<1>1. /\ event = "timeout" => n = "kIOUSBTransactionTimeout"
      /\ event = "stall" => n = "kIOUSBPipeStalled"
      /\ event = "gone" => n = "kIOReturnNoDevice"
      /\ event = "overflow" => n = "kIOReturnOverrun"
      /\ event = "cancelled" => n = "kIOReturnAborted"
      /\ event \in {"memory", "other"} => n = "kIOReturnBadArgument"
    BY DEF MachNumber
<1>. HIDE DEF n
<1>. SUFFICES Explains(error_create_mach(n), event)
    BY DEF n
<1>2. CASE event = "timeout"
    BY <1>2, <1>0, <1>1, MachTells, CodeOfFacts, TellsExplains
<1>3. CASE event = "stall"
    BY <1>3, <1>0, <1>1, MachTells, CodeOfFacts, TellsExplains
<1>4. CASE event = "gone"
    BY <1>4, <1>0, <1>1, MachTells, CodeOfFacts, TellsExplains
<1>5. CASE event = "overflow"
    BY <1>5, <1>0, <1>1, MachTells, CodeOfFacts, TellsExplains
<1>6. CASE event = "cancelled"
    BY <1>6, <1>0, <1>1, MachTells, CodeOfFacts, TellsExplains
<1>7. CASE event \in {"memory", "other"}
    <2>1. Tells(error_create_mach(n), {}) /\ CodeOf(event) = {}
        BY <1>7, <1>1, MachTells, CodeOfFacts
    <2>. QED
        BY <2>1, <1>0, TellsExplains
<1>. QED
    BY <1>2, <1>3, <1>4, <1>5, <1>6, <1>7 DEF FailedEvents, Events

(* On every platform an event ends in an error that explains it. *)
LEMMA SystemErrorExplains ==
    ASSUME platform \in {"linux", "windows", "macos"}, NEW event \in FailedEvents
    PROVE  /\ event # "cancelled" =>
                  \A additions \in SystemError(event) : Explains(additions, event)
           /\ \A additions \in AsyncError(event) : Explains(additions, event)
<1>1. CASE platform = "linux"
    BY <1>1, ErrnosExplain DEF SystemError, AsyncError
<1>2. CASE platform = "windows"
    BY <1>2, WinapiExplains DEF SystemError, AsyncError
<1>3. CASE platform = "macos"
    BY <1>3, MachExplains DEF SystemError, AsyncError
<1>. QED
    BY <1>1, <1>2, <1>3

(* The context of the call is one more text, or nothing. *)
LEMMA ContextExplains ==
    ASSUME NEW additions, NEW event \in Events, Explains(additions, event),
           NEW context \in {<<>>, <<Text>>}
    PROVE  Explains(additions \o context, event)
<1>1. context \in Seq(Additions) /\ "TIMEOUT" \notin Elements(context)
    <2>1. Text \in Additions
        BY DEF Additions
    <2>2. CASE context = <<>>
        BY <2>2, ListElements
    <2>3. CASE context = <<Text>>
        BY <2>1, <2>3, ListElements, TextIsNoCode
    <2>. QED
        BY <2>2, <2>3
<1>2. /\ additions \o context \in Seq(Additions)
      /\ Elements(additions \o context) = Elements(additions) \cup Elements(context)
      /\ additions \o context # <<>>
    BY <1>1, ConcatElements DEF Explains
<1>. QED
    BY <1>1, <1>2 DEF Explains

-----------------------------------------------------------------------------
(* The transfers.                                                          *)

(* A call, as Begin records it, that says of its bytes what is true. *)
HonestCall(c) ==
    /\ c.op \in Ops /\ c.event \in Events
    /\ c.size \in Sizes /\ c.moved \in Sizes /\ c.transferred \in Sizes
    /\ c.op \in {"read", "write"} /\ (c.moved # 0 \/ c.event = "success") =>
           c.reached = c.id /\ IsIn(c.reached) = (c.op = "read")
    /\ c.event \in {"success", "argument"} => c.transferred = c.moved
    /\ \/ c.transferred <= c.moved
       \/ platform = "macos" /\ c.op = "read" /\ c.transferred = c.size
    /\ c.op \in {"control", "read", "write"} /\ c.event # "argument" =>
           c.timeout = asked[c.id]

(* What Begin has to be given: a call, and what explains its failure. *)
GoodStart(c, additions) ==
    /\ HonestCall(c)
    /\ additions \in Seq(Additions)
    /\ c.event = "success" <=> additions = <<>>
    /\ CodeOf(c.event) \subseteq Elements(additions)
    /\ "TIMEOUT" \in Elements(additions) =>
           IF c.op = "async" THEN c.id \in timed ELSE asked[c.id] # 0

LEMMA BeginKeeps ==
    ASSUME SyncInv, NEW c, NEW additions, Begin(c, additions), GoodStart(c, additions)
    PROVE  SyncInv'
<1>1. /\ todo = <<>> /\ error = NoError
      /\ call' = c /\ todo' = additions
      /\ UNCHANGED <<out_timeout, in_timeout, policy, asked, timed, platform, endpoints,
                     connected, error, copy, heap>>
    BY DEF Begin, CanCall, handleVars, systemVars
<1>2. HeapIsOwned'
    BY <1>1 DEF SyncInv, HeapIsOwned, TypeOK, GoodStart, HonestCall
<1>3. FailureInProgress'
    BY <1>1 DEF FailureInProgress, GoodStart
<1>4. Coming' = Elements(additions) /\ CodeOf(call.event)' = CodeOf(c.event)
    BY <1>1 DEF Coming, Elements, CodeOf
<1>5. CauseIsComing' /\ TimeoutIsComing'
    BY <1>1, <1>4, NoErrorFacts DEF CauseIsComing, TimeoutIsComing, GoodStart
<1>6. TimeoutsAreKept'
    BY <1>1 DEF SyncInv, TimeoutsAreKept
<1>7. NamedEndpointIsUsed' /\ CountIsTrusted' /\ TimeoutIsGiven'
    BY <1>1 DEF NamedEndpointIsUsed, CountIsTrusted, TimeoutIsGiven, AsksTheSystem,
       GoodStart, HonestCall
<1>. QED
    BY <1>2, <1>3, <1>5, <1>6, <1>7 DEF SyncInv

(* The fields of a call. *)
LEMMA CallFields ==
    ASSUME NEW op, NEW id, NEW size, NEW event, NEW moved, NEW transferred, NEW reached,
           NEW timeout,
           NEW c, c = Call(op, id, size, event, moved, transferred, reached, timeout)
    PROVE  /\ c.op = op /\ c.id = id /\ c.size = size /\ c.event = event
           /\ c.moved = moved /\ c.transferred = transferred /\ c.reached = reached
           /\ c.timeout = timeout
BY DEF Call

(* A call whose arguments are refused moves nothing and has an error. *)
LEMMA RefuseKeeps ==
    ASSUME SyncInv, NEW op \in {"control", "read", "write"}, NEW id,
           NEW size \in Sizes, NEW context \in {<<>>, <<Text>>},
           Refuse(op, id, size, context)
    PROVE  SyncInv'
<1>. DEFINE c == Call(op, id, size, "argument", 0, 0, 0, 0)
            additions == <<Text>> \o context
<1>1. Begin(c, additions)
    BY DEF Refuse
<1>2. Explains(additions, "argument")
    <2>1. Explains(<<Text>>, "argument")
        <3>1. <<Text>> \in Seq(Additions) /\ <<Text>> # <<>>
            BY DEF Additions
        <3>. QED
            BY <3>1, ListElements, TextIsNoCode, CodeOfFacts DEF Explains
    <2>. QED
        BY <2>1, ContextExplains DEF Events
<1>3. /\ c.op = op /\ c.event = "argument" /\ c.size = size
      /\ c.moved = 0 /\ c.transferred = 0
    BY CallFields
<1>. HIDE DEF c, additions
<1>4. HonestCall(c)
    BY <1>3, MaxSizeAssumption DEF HonestCall, Ops, Events, Sizes
<1>5. GoodStart(c, additions)
    BY <1>2, <1>3, <1>4 DEF GoodStart, Explains
<1>. QED
    BY <1>1, <1>5, BeginKeeps

(* What the caller may be told of an answer of the system. *)
HonestAnswer(op, id, reached, size, timeout, o, transferred) ==
    /\ o.event \in (FailedEvents \ {"cancelled"}) \cup {"success"}
    /\ o.moved \in 0..size
    /\ transferred \in 0..size
    /\ o.event = "success" => transferred = o.moved
    /\ \/ transferred <= o.moved
       \/ platform = "macos" /\ op = "read" /\ transferred = size
    /\ timeout = asked[id]
    /\ o.event = "timeout" => asked[id] # 0
    /\ op \in {"read", "write"} /\ (o.moved # 0 \/ o.event = "success") =>
           reached = id /\ IsIn(reached) = (op = "read")

LEMMA FinishKeeps ==
    ASSUME SyncInv, NEW op \in {"control", "read", "write"}, NEW id, NEW size \in Sizes,
           NEW reached, NEW timeout, NEW o, NEW transferred,
           NEW context \in {<<>>, <<Text>>},
           HonestAnswer(op, id, reached, size, timeout, o, transferred),
           Finish(op, id, size, reached, timeout, o, transferred, context)
    PROVE  SyncInv'
<1>. DEFINE c == Call(op, id, size, o.event, o.moved, transferred, reached, timeout)
<1>1. /\ c.op = op /\ c.id = id /\ c.size = size /\ c.event = o.event
      /\ c.moved = o.moved /\ c.transferred = transferred /\ c.reached = reached
      /\ c.timeout = timeout
    BY CallFields
<1>2. /\ o.event = "success" => Begin(c, <<>>)
      /\ o.event # "success" =>
             \E additions \in SystemError(o.event) : Begin(c, additions \o context)
    BY DEF Finish
<1>. HIDE DEF c
<1>3. o.moved \in Sizes /\ transferred \in Sizes
    BY MaxSizeAssumption DEF HonestAnswer, Sizes
<1>4. o.event \in Events /\ o.event # "argument"
    BY DEF HonestAnswer, FailedEvents, Events
<1>5. HonestCall(c)
    BY <1>1, <1>3, <1>4 DEF HonestCall, HonestAnswer, Ops
<1>6. CASE o.event = "success"
    <2>1. GoodStart(c, <<>>)
        BY <1>1, <1>5, <1>6, ListElements, CodeOfFacts DEF GoodStart
    <2>. QED
        BY <1>2, <1>6, <2>1, BeginKeeps
<1>7. CASE o.event # "success"
    <2>1. PICK additions \in SystemError(o.event) : Begin(c, additions \o context)
        BY <1>2, <1>7
    <2>2. o.event \in FailedEvents /\ o.event # "cancelled"
        BY <1>7 DEF HonestAnswer
    <2>3. platform \in {"linux", "windows", "macos"}
        BY DEF SyncInv, HeapIsOwned, TypeOK
    <2>4. Explains(additions, o.event)
        BY <2>2, <2>3, SystemErrorExplains
    <2>5. Explains(additions \o context, o.event)
        BY <1>4, <2>4, ContextExplains
    <2>6. GoodStart(c, additions \o context)
        BY <1>1, <1>5, <1>7, <2>5 DEF GoodStart, Explains, HonestAnswer
    <2>. QED
        BY <2>1, <2>6, BeginKeeps
<1>. QED
    BY <1>6, <1>7

(* What the system answers. *)
LEMMA AnswersFacts ==
    ASSUME NEW op \in {"control", "read", "write"}, NEW reached, NEW size \in Sizes,
           NEW timeout, NEW o \in Answers(op, reached, size, timeout)
    PROVE  /\ o.event \in (FailedEvents \ {"cancelled"}) \cup {"success"}
           /\ o.moved \in 0..size
           /\ o.event = "timeout" => timeout # 0
           /\ op # "control" /\ reached = 0 => o.moved = 0 /\ o.event # "success"
           /\ op = "write" /\ o.event = "success" => o.moved = size
<1>0. size \in Nat
    BY MaxSizeAssumption DEF Sizes
<1>1. CASE o \in {Outcome("gone", 0), Outcome("other", 0)}
    <2>1. o.event \in {"gone", "other"} /\ o.moved = 0
        BY <1>1 DEF Outcome
    <2>. QED
        BY <2>1, <1>0 DEF FailedEvents, Events
<1>2. CASE o \in Failures(size, timeout) /\ ~(op # "control" /\ reached = 0)
    <2>1. PICK event \in {"stall", "gone", "overflow", "memory", "other"}
                         \cup {e \in {"timeout"} : timeout # 0}, n \in 0..size :
              o = Outcome(event, n)
        BY <1>2 DEF Failures
    <2>2. o.event = event /\ o.moved = n
        BY <2>1 DEF Outcome
    <2>. QED
        BY <2>2, <1>0, <1>2 DEF FailedEvents, Events
<1>3. CASE /\ ~(op # "control" /\ reached = 0)
           /\ o \in {Outcome("success", n) : n \in IF op = "write" THEN {size} ELSE 0..size}
    <2>1. PICK n \in IF op = "write" THEN {size} ELSE 0..size : o = Outcome("success", n)
        BY <1>3
    <2>2. o.event = "success" /\ o.moved = n
        BY <2>1 DEF Outcome
    <2>. QED
        BY <2>1, <2>2, <1>0, <1>3
<1>. QED
    BY <1>1, <1>2, <1>3 DEF Answers

-----------------------------------------------------------------------------
(* The endpoint of a pipe.                                                 *)

(* An endpoint address of the interface, and a pipe id, is a byte. *)
LEMMA EndpointsAreBytes ==
    ASSUME TypeOK
    PROVE  /\ Len(endpoints) \in Nat
           /\ \A i \in 1..Len(endpoints) : endpoints[i] \in 1..255
           /\ PipeIds \subseteq 0..255
<1>1. endpoints \in Seq(PipeIds \ {0})
    BY LayoutsAssumption DEF TypeOK
<1>2. \A i \in 1..Len(endpoints) : endpoints[i] \in PipeIds \ {0}
    BY <1>1
<1>3. \A x \in PipeIds \ {0} : x \in 1..255
    BY PipeIdsAssumption
<1>4. Len(endpoints) \in Nat
    BY <1>1
<1>5. \A i \in 1..Len(endpoints) : endpoints[i] \in 1..255
    BY <1>2, <1>3
<1>. QED
    BY <1>4, <1>5, PipeIdsAssumption

(* A set of natural numbers has a smallest one. *)
LEMMA SmallestOf ==
    ASSUME NEW T \in SUBSET Nat, T # {}
    PROVE  \E x \in T : \A y \in T : x <= y
<1>. DEFINE less == {pair \in Nat \X Nat : pair[1] < pair[2]}
<1>1. IsWellFoundedOn(less, Nat)
    BY NatLessThanWellFounded DEF OpToRel
<1>2. \A a, b \in Nat : <<a, b>> \in less <=> a < b
    OBVIOUS
<1>. HIDE DEF less
<1>3. PICK x \in T : \A y \in T : ~(<<y, x>> \in less)
    BY <1>1, WFMin
<1>4. ASSUME NEW y \in T
      PROVE  x <= y
    <2>1. x \in Nat /\ y \in Nat /\ ~(y < x)
        BY <1>2, <1>3
    <2>. QED
        BY <2>1
<1>. QED
    BY <1>4

(* The array entry is defined: some endpoints have a last one. *)
LEMMA LastOf ==
    ASSUME NEW n \in Nat, NEW S \in SUBSET (1..n), S # {}
    PROVE  \E i \in S : \A j \in S : j <= i
<1>. DEFINE after == {n - i : i \in S}
<1>1. after \in SUBSET Nat /\ after # {}
    <2>1. \A i \in S : i \in 1..n /\ n - i \in Nat
        OBVIOUS
    <2>. QED
        BY <2>1
<1>2. PICK g \in after : \A h \in after : g <= h
    BY <1>1, SmallestOf
<1>3. PICK i \in S : g = n - i
    BY <1>2
<1>4. ASSUME NEW j \in S
      PROVE  j <= i
    <2>1. n - i <= n - j
        BY <1>2, <1>3
    <2>2. i \in 1..n /\ j \in 1..n
        OBVIOUS
    <2>. QED
        BY <2>1, <2>2
<1>. QED
    BY <1>4

(* An address names the endpoint itself. *)
LEMMA ByAddressIsNamed ==
    ASSUME NEW id, ByAddress(id) # 0
    PROVE  ByAddress(id) = id
BY DEF ByAddress

(* Bits 0 to 6 of a byte. *)
LEMMA LowBits ==
    ASSUME NEW x \in 0..255
    PROVE  x % 128 = IF x >= 128 THEN x - 128 ELSE x
OBVIOUS

(***************************************************************************)
(* The index that the array of process_pipe_properties has for a direction *)
(* and a number leads to the endpoint with just this address, because the  *)
(* reserved bits of both are zero.                                         *)
(***************************************************************************)
LEMMA ByIndexIsNamed ==
    ASSUME TypeOK, NEW id \in PipeIds, check_pipe_id(id), ByIndex(id) # 0
    PROVE  ByIndex(id) = id
<1>. DEFINE S == IndicesOf(id)
            last == CHOOSE i \in S : \A j \in S : j <= i
<1>0. id \in 0..255 /\ Len(endpoints) \in Nat
    BY EndpointsAreBytes
<1>1. process_pipe_properties(id) = IF S = {} THEN 0 ELSE last
    BY DEF process_pipe_properties
<1>2. S # {}
    BY <1>1 DEF ByIndex
<1>3. S \subseteq 1..Len(endpoints)
    BY DEF IndicesOf
<1>4. \E i \in S : \A j \in S : j <= i
    BY <1>0, <1>2, <1>3, LastOf
<1>5. last \in S
    BY <1>4
<1>. HIDE DEF last
<1>6. last # 0 /\ ByIndex(id) = endpoints[last]
    BY <1>0, <1>1, <1>2, <1>3, <1>5 DEF ByIndex
<1>7. endpoints[last] \in 1..255
    BY <1>3, <1>5, EndpointsAreBytes
<1>8. /\ endpoints[last] % 128 = id % 16
      /\ endpoints[last] >= 128 <=> id >= 128
      /\ id % 128 <= 15
    BY <1>5, <1>0, <1>7 DEF IndicesOf, NumberFromSystem, EndpointNumber, IsIn, check_pipe_id,
       MAX_ENDPOINT_NUMBER
<1>9. id % 16 = id % 128
    BY <1>0, <1>8
<1>10. endpoints[last] = id
    <2>. DEFINE e == endpoints[last]
    <2>1. e \in 0..255 /\ id \in 0..255
        BY <1>0, <1>7
    <2>2. e % 128 = id % 128 /\ (e >= 128 <=> id >= 128)
        BY <1>8, <1>9
    <2>3. /\ e % 128 = IF e >= 128 THEN e - 128 ELSE e
          /\ id % 128 = IF id >= 128 THEN id - 128 ELSE id
        BY <2>1, LowBits
    <2>. HIDE DEF e
    <2>4. e = id
        BY <2>1, <2>2, <2>3
    <2>. QED
        BY <2>4 DEF e
<1>. QED
    BY <1>6, <1>10

-----------------------------------------------------------------------------
(* The timeout that a transfer is made with is the one asked for its pipe. *)
LEMMA TimeoutOfPipe ==
    ASSUME SyncInv, NEW id \in PipeIds \cup {0}, check_pipe_id(id)
    PROVE  /\ platform = "windows" => policy[id] = asked[id]
           /\ platform # "windows" /\ IsIn(id) =>
                  in_timeout[EndpointNumber(id)] = asked[id]
           /\ platform # "windows" /\ ~IsIn(id) =>
                  out_timeout[EndpointNumber(id)] = asked[id]
BY DEF SyncInv, TimeoutsAreKept

(* Control transfers use pipe 0. *)
LEMMA PipeZero == check_pipe_id(0) /\ ~IsIn(0) /\ EndpointNumber(0) = 0
BY DEF check_pipe_id, IsIn, EndpointNumber, MAX_ENDPOINT_NUMBER

(* What the functions tell of the bytes, each in its own way. *)
LEMMA CountIsHonest ==
    ASSUME NEW op \in {"control", "read", "write"}, NEW reached, NEW size \in Sizes,
           NEW timeout, NEW o \in Answers(op, reached, size, timeout), NEW transferred,
           \/ transferred \in {o.moved, OnSuccess(o)}
           \/ platform = "macos" /\ op = "read" /\ transferred \in MacReadCounts(o, size)
           \/ op = "write" /\ transferred = IF o.event = "success" THEN size ELSE 0
    PROVE  /\ transferred \in 0..size
           /\ o.event = "success" => transferred = o.moved
           /\ \/ transferred <= o.moved
              \/ platform = "macos" /\ op = "read" /\ transferred = size
<1>1. /\ o.moved \in 0..size
      /\ op = "write" /\ o.event = "success" => o.moved = size
    BY AnswersFacts
<1>2. size \in Nat
    BY MaxSizeAssumption DEF Sizes
<1>. QED
    BY <1>1, <1>2 DEF OnSuccess, MacReadCounts

(* A read or a write with good arguments, on any platform. *)
LEMMA PipeTransferKeeps ==
    ASSUME SyncInv, NEW op \in {"read", "write"}, NEW id \in PipeIds, NEW size \in Sizes,
           check_pipe_id(id), IsIn(id) <=> op = "read",
           NEW reached, reached # 0 => reached = id,
           NEW timeout, timeout = asked[id],
           NEW o \in Answers(op, reached, size, timeout), NEW transferred,
           \/ transferred \in {o.moved, OnSuccess(o)}
           \/ platform = "macos" /\ op = "read" /\ transferred \in MacReadCounts(o, size)
           \/ op = "write" /\ transferred = IF o.event = "success" THEN size ELSE 0,
           Finish(op, id, size, reached, timeout, o, transferred, <<Text>>)
    PROVE  SyncInv'
<1>1. /\ o.event \in (FailedEvents \ {"cancelled"}) \cup {"success"}
      /\ o.moved \in 0..size
      /\ o.event = "timeout" => timeout # 0
      /\ reached = 0 => o.moved = 0 /\ o.event # "success"
    BY AnswersFacts
<1>2. /\ transferred \in 0..size
      /\ o.event = "success" => transferred = o.moved
      /\ \/ transferred <= o.moved
         \/ platform = "macos" /\ op = "read" /\ transferred = size
    BY CountIsHonest
<1>3. HonestAnswer(op, id, reached, size, timeout, o, transferred)
    BY <1>1, <1>2 DEF HonestAnswer, IsIn
<1>. QED
    BY <1>3, FinishKeeps

(* A control transfer, on any platform. *)
LEMMA ControlTransferKeeps ==
    ASSUME SyncInv, NEW size \in Sizes, NEW timeout, timeout = asked[0],
           NEW o \in Answers("control", 0, size, timeout),
           NEW transferred \in {o.moved, OnSuccess(o)},
           Finish("control", 0, size, 0, timeout, o, transferred, <<>>)
    PROVE  SyncInv'
<1>1. /\ o.event \in (FailedEvents \ {"cancelled"}) \cup {"success"}
      /\ o.moved \in 0..size
      /\ o.event = "timeout" => timeout # 0
    BY AnswersFacts
<1>2. /\ transferred \in 0..size
      /\ o.event = "success" => transferred = o.moved
      /\ transferred <= o.moved
    BY SMTT(30), CountIsHonest
<1>3. HonestAnswer("control", 0, 0, size, timeout, o, transferred)
    BY <1>1, <1>2 DEF HonestAnswer
<1>. QED
    BY <1>3, FinishKeeps

(* The arguments that pass the tests. *)
LEMMA GoodArguments ==
    ASSUME NEW id, NEW size, NEW isNull
    PROVE  /\ GoodRead(id, size, isNull) => check_pipe_id(id) /\ IsIn(id)
           /\ GoodWrite(id, size, isNull) => check_pipe_id(id) /\ ~IsIn(id)
BY DEF GoodRead, GoodWrite, check_pipe_id_in, check_pipe_id_out

LEMMA ControlKeeps ==
    ASSUME SyncInv, NEW size \in Sizes, NEW isNull \in BOOLEAN,
           \/ linux_control_transfer(size)
           \/ mac_control_transfer(size)
           \/ windows_control_transfer(size, isNull)
    PROVE  SyncInv'
<1>1. /\ platform = "windows" => policy[0] = asked[0]
      /\ platform # "windows" => out_timeout[0] = asked[0]
    BY TimeoutOfPipe, PipeZero
<1>2. CASE linux_control_transfer(size)
    <2>1. /\ platform # "windows"
          /\ \E o \in Answers("control", 0, size, out_timeout[0]) :
                 Finish("control", 0, size, 0, out_timeout[0], o, OnSuccess(o), <<>>)
        BY <1>2 DEF linux_control_transfer
    <2>. QED
        BY <2>1, <1>1, ControlTransferKeeps
<1>3. CASE mac_control_transfer(size)
    <2>1. /\ platform # "windows"
          /\ \E o \in Answers("control", 0, size, out_timeout[0]) :
                 Finish("control", 0, size, 0, out_timeout[0], o, o.moved, <<>>)
        BY <1>3 DEF mac_control_transfer
    <2>. QED
        BY <2>1, <1>1, ControlTransferKeeps
<1>4. CASE windows_control_transfer(size, isNull)
    <2>1. CASE Refuse("control", 0, size, <<>>)
        BY <2>1, RefuseKeeps
    <2>2. CASE \E o \in Answers("control", 0, size, policy[0]) :
                   Finish("control", 0, size, 0, policy[0], o, OnSuccess(o), <<>>)
        <3>1. platform = "windows"
            BY <1>4 DEF windows_control_transfer
        <3>. QED
            BY <2>2, <3>1, <1>1, ControlTransferKeeps
    <2>. QED
        BY <1>4, <2>1, <2>2 DEF windows_control_transfer
<1>. QED
    BY <1>2, <1>3, <1>4

LEMMA ReadKeeps ==
    ASSUME SyncInv, NEW id \in PipeIds, NEW size \in Sizes, NEW isNull \in BOOLEAN,
           \/ linux_read_pipe(id, size, isNull)
           \/ windows_read_pipe(id, size, isNull)
           \/ mac_read_pipe(id, size, isNull)
    PROVE  SyncInv'
<1>1. CASE Refuse("read", id, size, <<Text>>)
    BY <1>1, RefuseKeeps
<1>. DEFINE Reads(reached, timeout) ==
         \E o \in Answers("read", reached, size, timeout) :
             \E transferred \in {o.moved, OnSuccess(o)} \cup
                     {n \in MacReadCounts(o, size) : platform = "macos"} :
                 Finish("read", id, size, reached, timeout, o, transferred, <<Text>>)
<1>2. ASSUME GoodRead(id, size, isNull), NEW reached, reached # 0 => reached = id,
             NEW timeout, timeout = asked[id], Reads(reached, timeout)
      PROVE  SyncInv'
    <2>1. check_pipe_id(id) /\ IsIn(id)
        BY <1>2, GoodArguments
    <2>. QED
        BY <1>2, <2>1, PipeTransferKeeps
<1>3. CASE linux_read_pipe(id, size, isNull) /\ ~Refuse("read", id, size, <<Text>>)
    <2>1. /\ GoodRead(id, size, isNull) /\ platform # "windows"
          /\ Reads(ByAddress(id), in_timeout[EndpointNumber(id)])
        BY <1>3 DEF linux_read_pipe
    <2>2. in_timeout[EndpointNumber(id)] = asked[id]
        BY <2>1, GoodArguments, TimeoutOfPipe
    <2>. QED
        BY <2>1, <2>2, <1>2, ByAddressIsNamed
<1>4. CASE windows_read_pipe(id, size, isNull) /\ ~Refuse("read", id, size, <<Text>>)
    <2>1. /\ GoodRead(id, size, isNull) /\ platform = "windows"
          /\ Reads(ByAddress(id), policy[id])
        BY <1>4 DEF windows_read_pipe
    <2>2. policy[id] = asked[id]
        BY <2>1, GoodArguments, TimeoutOfPipe
    <2>. QED
        BY <2>1, <2>2, <1>2, ByAddressIsNamed
<1>5. CASE mac_read_pipe(id, size, isNull) /\ ~Refuse("read", id, size, <<Text>>)
    <2>1. /\ GoodRead(id, size, isNull) /\ platform # "windows"
          /\ Reads(ByIndex(id), in_timeout[EndpointNumber(id)])
        BY <1>5 DEF mac_read_pipe
    <2>2. in_timeout[EndpointNumber(id)] = asked[id]
        BY <2>1, GoodArguments, TimeoutOfPipe
    <2>3. TypeOK /\ check_pipe_id(id)
        BY <2>1, GoodArguments DEF SyncInv, HeapIsOwned
    <2>. QED
        BY <2>1, <2>2, <2>3, <1>2, ByIndexIsNamed
<1>. QED
    BY <1>1, <1>3, <1>4, <1>5

LEMMA WriteKeeps ==
    ASSUME SyncInv, NEW id \in PipeIds, NEW size \in Sizes, NEW isNull \in BOOLEAN,
           \/ linux_write_pipe(id, size, isNull)
           \/ windows_write_pipe(id, size, isNull)
           \/ mac_write_pipe(id, size, isNull)
    PROVE  SyncInv'
<1>1. CASE Refuse("write", id, size, <<Text>>)
    BY <1>1, RefuseKeeps
<1>. DEFINE Writes(reached, timeout) ==
         \E o \in Answers("write", reached, size, timeout) :
             \E transferred \in {o.moved, OnSuccess(o),
                                 IF o.event = "success" THEN size ELSE 0} :
                 Finish("write", id, size, reached, timeout, o, transferred, <<Text>>)
<1>2. ASSUME GoodWrite(id, size, isNull), NEW reached, reached # 0 => reached = id,
             NEW timeout, timeout = asked[id], Writes(reached, timeout)
      PROVE  SyncInv'
    <2>1. check_pipe_id(id) /\ ~IsIn(id)
        BY <1>2, GoodArguments
    <2>. QED
        BY <1>2, <2>1, PipeTransferKeeps
<1>3. CASE linux_write_pipe(id, size, isNull) /\ ~Refuse("write", id, size, <<Text>>)
    <2>1. /\ GoodWrite(id, size, isNull) /\ platform # "windows"
          /\ Writes(ByAddress(id), out_timeout[EndpointNumber(id)])
        BY <1>3 DEF linux_write_pipe
    <2>2. out_timeout[EndpointNumber(id)] = asked[id]
        BY <2>1, GoodArguments, TimeoutOfPipe
    <2>. QED
        BY <2>1, <2>2, <1>2, ByAddressIsNamed
<1>4. CASE windows_write_pipe(id, size, isNull) /\ ~Refuse("write", id, size, <<Text>>)
    <2>1. /\ GoodWrite(id, size, isNull) /\ platform = "windows"
          /\ Writes(ByAddress(id), policy[id])
        BY <1>4 DEF windows_write_pipe
    <2>2. policy[id] = asked[id]
        BY <2>1, GoodArguments, TimeoutOfPipe
    <2>. QED
        BY <2>1, <2>2, <1>2, ByAddressIsNamed
<1>5. CASE mac_write_pipe(id, size, isNull) /\ ~Refuse("write", id, size, <<Text>>)
    <2>1. /\ GoodWrite(id, size, isNull) /\ platform # "windows"
          /\ Writes(ByIndex(id), out_timeout[EndpointNumber(id)])
        BY <1>5 DEF mac_write_pipe
    <2>2. out_timeout[EndpointNumber(id)] = asked[id]
        BY <2>1, GoodArguments, TimeoutOfPipe
    <2>3. TypeOK /\ check_pipe_id(id)
        BY <2>1, GoodArguments DEF SyncInv, HeapIsOwned
    <2>. QED
        BY <2>1, <2>2, <2>3, <1>2, ByIndexIsNamed
<1>. QED
    BY <1>1, <1>3, <1>4, <1>5

LEMMA AsyncKeeps ==
    ASSUME SyncInv, NEW id \in PipeIds, async_transfer_fails(id)
    PROVE  SyncInv'
<1>1. PICK event \in {"stall", "gone", "overflow", "cancelled", "timeout", "other"} :
          /\ event = "timeout" => id \in timed
          /\ \E additions \in AsyncError(event) :
                 Begin(Call("async", id, 0, event, 0, 0, id, 0), additions)
    BY DEF async_transfer_fails
<1>2. PICK additions \in AsyncError(event) :
          Begin(Call("async", id, 0, event, 0, 0, id, 0), additions)
    BY <1>1
<1>. DEFINE c == Call("async", id, 0, event, 0, 0, id, 0)
<1>3. /\ c.op = "async" /\ c.id = id /\ c.event = event /\ c.size = 0
      /\ c.moved = 0 /\ c.transferred = 0
    BY CallFields
<1>4. Begin(c, additions)
    BY <1>2
<1>. HIDE DEF c
<1>5. event \in FailedEvents /\ event \in Events
    BY DEF FailedEvents, Events
<1>6. Explains(additions, event)
    BY <1>2, <1>5, SystemErrorExplains DEF SyncInv, HeapIsOwned, TypeOK
<1>7. HonestCall(c)
    BY <1>3, <1>5, MaxSizeAssumption DEF HonestCall, Ops, Sizes
<1>8. GoodStart(c, additions)
    BY <1>1, <1>3, <1>6, <1>7 DEF GoodStart, Explains
<1>. QED
    BY <1>4, <1>8, BeginKeeps

-----------------------------------------------------------------------------
(* The timeouts.                                                           *)

(* Between two calls nothing is coming. *)
LEMMA NothingIsComing ==
    ASSUME CanCall
    PROVE  error = NoError /\ error.codes = {} /\ Coming = {}
BY NoErrorFacts, ListElements DEF CanCall, Coming, Elements

(* The number and the direction are all of a pipe id. *)
LEMMA PipeOfNumber ==
    ASSUME NEW id \in PipeIds \cup {0}, NEW other \in PipeIds \cup {0},
           check_pipe_id(id), check_pipe_id(other),
           EndpointNumber(id) = EndpointNumber(other), IsIn(id) <=> IsIn(other)
    PROVE  id = other
<1>1. id \in 0..255 /\ other \in 0..255
    BY PipeIdsAssumption
<1>2. id % 128 <= 15 /\ other % 128 <= 15 /\ id % 16 = other % 16
    BY DEF check_pipe_id, EndpointNumber, MAX_ENDPOINT_NUMBER
<1>3. /\ id % 128 = IF id >= 128 THEN id - 128 ELSE id
      /\ other % 128 = IF other >= 128 THEN other - 128 ELSE other
    BY <1>1, LowBits
<1>4. id % 16 = id % 128 /\ other % 16 = other % 128
    BY <1>1, <1>2
<1>. QED
    BY <1>1, <1>2, <1>3, <1>4 DEF IsIn

(* Before the first call, and after one whose error was freed. *)
LEMMA NoCallFacts ==
    /\ NoCall.op = "none" /\ NoCall.op \in Ops
    /\ NoCall.event = "success" /\ NoCall.event \in Events
    /\ NoCall.size = 0 /\ NoCall.moved = 0 /\ NoCall.transferred = 0 /\ 0 \in Sizes
BY MaxSizeAssumption DEF NoCall, Call, Ops, Events, Sizes

LEMMA SetTimeoutKeeps ==
    ASSUME SyncInv, NEW id \in PipeIds, NEW timeout \in Timeouts, set_timeout(id, timeout)
    PROVE  SyncInv'
<1>. USE DEF systemVars
<1>1. /\ CanCall /\ check_pipe_id(id) /\ platform # "windows"
      /\ asked' = [asked EXCEPT ![id] = timeout]
      /\ call' = NoCall
      /\ UNCHANGED <<policy, timed, platform, endpoints, connected, todo, error, copy, heap>>
    BY DEF set_timeout, Asks
<1>2. TypeOK /\ EndpointNumber(id) \in EndpointNumbers
    BY DEF SyncInv, HeapIsOwned, EndpointNumbers
<1>3. /\ IsIn(id) => /\ in_timeout' = [in_timeout EXCEPT ![EndpointNumber(id)] = timeout]
                     /\ out_timeout' = out_timeout
      /\ ~IsIn(id) => /\ out_timeout' = [out_timeout EXCEPT ![EndpointNumber(id)] = timeout]
                      /\ in_timeout' = in_timeout
    BY DEF set_timeout
<1>4. HeapIsOwned'
    <2>1. /\ asked' \in [PipeIds \cup {0} -> Timeouts]
          /\ in_timeout' \in [EndpointNumbers -> Timeouts]
          /\ out_timeout' \in [EndpointNumbers -> Timeouts]
        BY <1>1, <1>2, <1>3 DEF TypeOK
    <2>. QED
        BY <2>1, <1>1, NoCallFacts DEF SyncInv, HeapIsOwned, TypeOK
<1>5. FailureInProgress' /\ CauseIsComing' /\ NamedEndpointIsUsed'
      /\ CountIsTrusted' /\ TimeoutIsGiven'
    BY <1>1, NoCallFacts DEF FailureInProgress, CauseIsComing, NamedEndpointIsUsed,
       CountIsTrusted, TimeoutIsGiven, AsksTheSystem, CanCall, CodeOf
<1>6. TimeoutIsComing'
    <2>1. error'.codes = {} /\ Coming' = {}
        BY <1>1, NothingIsComing DEF Coming
    <2>. QED
        BY <2>1 DEF TimeoutIsComing
<1>7. TimeoutsAreKept'
    <2>1. SUFFICES ASSUME NEW other \in PipeIds \cup {0}, check_pipe_id(other)
                   PROVE  asked'[other] = IF IsIn(other) THEN in_timeout'[EndpointNumber(other)]
                                          ELSE out_timeout'[EndpointNumber(other)]
        BY <1>1 DEF TimeoutsAreKept
    <2>2. EndpointNumber(other) \in EndpointNumbers
        BY PipeZero DEF EndpointNumbers
    <2>3. /\ asked \in [PipeIds \cup {0} -> Timeouts]
          /\ in_timeout \in [EndpointNumbers -> Timeouts]
          /\ out_timeout \in [EndpointNumbers -> Timeouts]
        BY <1>2 DEF TypeOK
    <2>4. CASE other = id
        BY <2>2, <2>3, <2>4, <1>1, <1>2, <1>3
    <2>5. CASE other # id
        <3>1. asked'[other] = asked[other]
            BY <2>3, <2>5, <1>1
        <3>2. asked[other] = IF IsIn(other) THEN in_timeout[EndpointNumber(other)]
                             ELSE out_timeout[EndpointNumber(other)]
            BY <2>1, <1>1, TimeoutOfPipe
        <3>3. EndpointNumber(other) # EndpointNumber(id) \/ ~(IsIn(id) <=> IsIn(other))
            BY <2>1, <2>5, <1>1, PipeOfNumber
        <3>. QED
            BY <3>1, <3>2, <3>3, <2>2, <2>3, <1>2, <1>3
    <2>. QED
        BY <2>4, <2>5
<1>. QED
    BY <1>4, <1>5, <1>6, <1>7 DEF SyncInv

LEMMA WindowsSetTimeoutKeeps ==
    ASSUME SyncInv, NEW id \in PipeIds, NEW timeout \in Timeouts,
           windows_set_timeout(id, timeout)
    PROVE  SyncInv'
<1>1. /\ CanCall /\ platform = "windows"
      /\ policy' = [policy EXCEPT ![id] = timeout]
      /\ timed' \subseteq timed \cup {id}
      /\ asked' = [asked EXCEPT ![id] = timeout]
      /\ call' = NoCall
      /\ UNCHANGED <<out_timeout, in_timeout, platform, endpoints, connected, todo,
                     error, copy, heap>>
    BY DEF windows_set_timeout, Asks, systemVars
<1>2. HeapIsOwned'
    BY <1>1, NoCallFacts DEF SyncInv, HeapIsOwned, TypeOK
<1>3. FailureInProgress' /\ CauseIsComing' /\ NamedEndpointIsUsed'
      /\ CountIsTrusted' /\ TimeoutIsGiven'
    BY <1>1, NoCallFacts DEF FailureInProgress, CauseIsComing, NamedEndpointIsUsed,
       CountIsTrusted, TimeoutIsGiven, AsksTheSystem, CanCall, CodeOf
<1>4. TimeoutIsComing'
    <2>1. error'.codes = {} /\ Coming' = {}
        BY <1>1, NothingIsComing DEF Coming
    <2>. QED
        BY <2>1 DEF TimeoutIsComing
<1>5. TimeoutsAreKept'
    BY <1>1 DEF SyncInv, HeapIsOwned, TypeOK, TimeoutsAreKept
<1>. QED
    BY <1>2, <1>3, <1>4, <1>5 DEF SyncInv

-----------------------------------------------------------------------------
(* The error object in the hands of the call and of the user.              *)

(* The two errors of the program and their memory. *)
LEMMA ErrorsOfTheProgram ==
    ASSUME HeapIsOwned
    PROVE  /\ error \in Errors /\ copy \in Errors
           /\ WellFormed(error) /\ WellFormed(copy)
           /\ Owned(error) \subseteq Blocks /\ Owned(copy) \subseteq Blocks
           /\ Owned(error) \cap Owned(copy) = {}
           /\ heap = Owned(copy) \cup Owned(error)
BY DEF HeapIsOwned, TypeOK, Owned

(* What the next addition takes from the list. *)
LEMMA HeadAndTail ==
    ASSUME NEW s \in Seq(Additions), s # <<>>
    PROVE  /\ Head(s) \in Additions /\ Tail(s) \in Seq(Additions)
           /\ Elements(s) = Elements(Tail(s)) \cup {Head(s)}
<1>1. /\ Head(s) \in Additions /\ Tail(s) \in Seq(Additions) /\ Head(s) = s[1]
      /\ Len(s) \in Nat /\ Len(s) # 0 /\ Len(Tail(s)) = Len(s) - 1
    OBVIOUS
<1>2. \A k \in 1..Len(Tail(s)) : Tail(s)[k] = s[k + 1]
    OBVIOUS
<1>3. Elements(Tail(s)) \subseteq Elements(s)
    <2>1. \A k \in 1..Len(Tail(s)) : (k + 1) \in 1..Len(s)
        BY <1>1
    <2>. QED
        BY <1>2, <2>1 DEF Elements
<1>4. Head(s) \in Elements(s)
    <2>1. 1 \in 1..Len(s)
        BY <1>1
    <2>. QED
        BY <1>1, <2>1 DEF Elements
<1>5. Elements(s) \subseteq Elements(Tail(s)) \cup {Head(s)}
    <2>1. SUFFICES ASSUME NEW k \in 1..Len(s), k # 1
                   PROVE  s[k] \in Elements(Tail(s))
        BY <1>1 DEF Elements
    <2>2. (k - 1) \in 1..Len(Tail(s)) /\ (k - 1) + 1 = k
        BY <1>1, <2>1
    <2>3. Tail(s)[k - 1] = s[k]
        BY <1>2, <2>2
    <2>. QED
        BY <2>2, <2>3 DEF Elements
<1>. QED
    BY <1>1, <1>3, <1>4, <1>5

LEMMA AddsKeeps ==
    ASSUME SyncInv, Adds
    PROVE  SyncInv'
<1>. USE DEF handleVars, systemVars
<1>1. /\ todo # <<>> /\ todo' = Tail(todo)
      /\ UNCHANGED <<out_timeout, in_timeout, policy, asked, timed, platform, endpoints,
                     connected, call, copy>>
    BY DEF Adds
<1>2. PICK r \in Add(heap, error, Head(todo)) : heap' = r.heap /\ error' = r.error
    BY DEF Adds
<1>3. /\ todo \in Seq(Additions) /\ HeapIsOwned
      /\ Head(todo) \in Additions /\ Tail(todo) \in Seq(Additions)
      /\ Elements(todo) = Elements(Tail(todo)) \cup {Head(todo)}
    BY <1>1, HeadAndTail DEF SyncInv, HeapIsOwned, TypeOK
<1>4. Builds(r, Owned(copy)) /\ Extended(r.error.codes, error.codes, Head(todo))
    <2>1. /\ Owned(copy) \in SUBSET Blocks /\ error \in Errors /\ WellFormed(error)
          /\ Owned(error) \cap Owned(copy) = {}
        BY <1>3, ErrorsOfTheProgram
    <2>2. r \in Add(Owned(copy) \cup Owned(error), error, Head(todo))
        BY <1>2, <1>3, ErrorsOfTheProgram
    <2>. QED
        BY <2>1, <2>2, <1>3, AddBuilds
<1>5. /\ error' # NoError /\ WellFormed(error') /\ error' \in Errors
      /\ Owned(error') \cap Owned(copy) = {}
      /\ heap' = Owned(copy) \cup Owned(error')
    BY <1>2, <1>4, BuildsFacts DEF Builds
<1>6. HeapIsOwned'
    <2>1. Owned(error)' = Owned(error') /\ Owned(copy)' = Owned(copy)
        BY <1>1 DEF Owned
    <2>2. WellFormed(error)' /\ WellFormed(copy)'
        BY <1>1, <1>3, <1>5 DEF WellFormed, HeapIsOwned
    <2>3. heap' \subseteq Blocks
        BY <1>5 DEF Owned
    <2>4. TypeOK'
        BY <1>1, <1>3, <1>5, <2>3 DEF HeapIsOwned, TypeOK
    <2>. QED
        BY <2>1, <2>2, <2>4, <1>5 DEF HeapIsOwned
<1>7. FailureInProgress'
    BY <1>1, <1>5 DEF SyncInv, FailureInProgress
<1>8. /\ Coming = Elements(todo) /\ Coming' = Elements(Tail(todo))
      /\ CodeOf(call.event)' = CodeOf(call.event)
    BY <1>1 DEF Coming, Elements, CodeOf
<1>9. CodeOf(call.event) \subseteq Codes
    BY <1>3, CodeOfIsCode DEF HeapIsOwned, TypeOK
<1>10. CauseIsComing'
    <2>1. CASE r.error.codes = {"MEMORY"}
        BY <2>1, <1>2 DEF CauseIsComing
    <2>2. CASE r.error.codes = error.codes \cup ({Head(todo)} \cap Codes)
        <3>1. "MEMORY" \in error.codes => "MEMORY" \in error'.codes
            BY <2>2, <1>2
        <3>2. CodeOf(call.event) \subseteq error.codes \cup Coming =>
                  CodeOf(call.event) \subseteq error'.codes \cup Coming'
            BY <2>2, <1>2, <1>3, <1>8, <1>9
        <3>. QED
            BY <3>1, <3>2, <1>8 DEF SyncInv, CauseIsComing
    <2>. QED
        BY <1>4, <2>1, <2>2 DEF Extended
<1>11. TimeoutIsComing'
    <2>1. "TIMEOUT" \in error'.codes \cup Coming' => "TIMEOUT" \in error.codes \cup Coming
        BY <1>2, <1>3, <1>4, <1>8 DEF Extended
    <2>. QED
        BY <2>1, <1>1 DEF SyncInv, TimeoutIsComing
<1>12. TimeoutsAreKept' /\ NamedEndpointIsUsed' /\ CountIsTrusted' /\ TimeoutIsGiven'
    BY <1>1 DEF SyncInv, TimeoutsAreKept, NamedEndpointIsUsed, CountIsTrusted,
       TimeoutIsGiven, AsksTheSystem
<1>. QED
    BY <1>6, <1>7, <1>10, <1>11, <1>12 DEF SyncInv

LEMMA UserCopiesKeeps ==
    ASSUME SyncInv, UserCopies
    PROVE  /\ SyncInv'
           /\ copy'.codes = error.codes \/ "MEMORY" \in copy'.codes
<1>. USE DEF handleVars, systemVars
<1>1. /\ todo = <<>> /\ error # NoError /\ copy = NoError
      /\ UNCHANGED <<out_timeout, in_timeout, policy, asked, timed, platform, endpoints,
                     connected, call, todo, error>>
    BY DEF UserCopies, Returned
<1>2. PICK r \in libusbp_error_copy(heap, error) : heap' = r.heap /\ copy' = r.error
    BY DEF UserCopies
<1>3. /\ HeapIsOwned /\ error \in Errors /\ WellFormed(error)
      /\ heap = Owned(error) /\ heap \in SUBSET Blocks
    BY <1>1, ErrorsOfTheProgram, NoErrorFacts DEF SyncInv
<1>4. error.self # NULL /\ error.codes \subseteq Codes
    <2>1. error.codes \subseteq Codes
        BY <1>3 DEF Errors
    <2>2. CASE error = error_masked_by_no_memory
        BY <2>1, <2>2, MaskedFacts DEF NULL, Static
    <2>3. CASE error # error_masked_by_no_memory
        BY <2>1, <2>3, <1>1, <1>3, BlocksAreMemory DEF WellFormed
    <2>. QED
        BY <2>2, <2>3
<1>5. /\ Builds(r, heap)
      /\ r.error = error_masked_by_no_memory \/ r.error.codes = error.codes
    BY <1>2, <1>3, <1>4, CopyBuilds
<1>6. /\ WellFormed(copy') /\ copy' \in Errors
      /\ Owned(copy') \cap Owned(error) = {}
      /\ heap' = Owned(error) \cup Owned(copy')
    BY <1>2, <1>3, <1>5, BuildsFacts DEF Builds
<1>7. HeapIsOwned'
    <2>1. Owned(error)' = Owned(error) /\ Owned(copy)' = Owned(copy')
        BY <1>1 DEF Owned
    <2>2. WellFormed(error)' /\ WellFormed(copy)'
        BY <1>1, <1>3, <1>6 DEF WellFormed
    <2>3. heap' \subseteq Blocks
        BY <1>6 DEF Owned
    <2>4. TypeOK'
        BY <1>1, <1>3, <1>6, <2>3 DEF HeapIsOwned, TypeOK
    <2>. QED
        BY <2>1, <2>2, <2>4, <1>6 DEF HeapIsOwned
<1>8. /\ FailureInProgress' /\ CauseIsComing' /\ TimeoutIsComing' /\ TimeoutsAreKept'
      /\ NamedEndpointIsUsed' /\ CountIsTrusted' /\ TimeoutIsGiven'
    BY <1>1 DEF SyncInv, FailureInProgress, CauseIsComing, TimeoutIsComing,
       TimeoutsAreKept, NamedEndpointIsUsed, CountIsTrusted, TimeoutIsGiven,
       AsksTheSystem, Coming, CodeOf
<1>9. copy'.codes = error.codes \/ "MEMORY" \in copy'.codes
    BY <1>2, <1>5, MaskedFacts
<1>. QED
    BY <1>7, <1>8, <1>9 DEF SyncInv

(* Freeing an error of the program gives back its blocks, all and only. *)
LEMMA FreeWellFormed ==
    ASSUME NEW e, WellFormed(e), NEW rest, Owned(e) \cap rest = {}
    PROVE  libusbp_error_free(rest \cup Owned(e), e) = rest
<1>1. CASE e = NoError
    BY <1>1, NoErrorFacts DEF libusbp_error_free
<1>2. CASE e = error_masked_by_no_memory
    BY <1>2, MaskedFacts DEF libusbp_error_free
<1>3. CASE Mutable(e)
    BY <1>3, FreeMutable
<1>. QED
    BY <1>1, <1>2, <1>3 DEF WellFormed, Mutable

LEMMA UserFreesKeeps ==
    ASSUME SyncInv, UserFrees
    PROVE  SyncInv'
<1>. USE DEF handleVars, systemVars
<1>1. /\ todo = <<>> /\ error' = NoError /\ call' = NoCall
      /\ heap' = libusbp_error_free(heap, error)
      /\ UNCHANGED <<out_timeout, in_timeout, policy, asked, timed, platform, endpoints,
                     connected, todo, copy>>
    BY DEF UserFrees, Returned
<1>2. HeapIsOwned
    BY DEF SyncInv
<1>3. heap' = Owned(copy)
    BY <1>1, <1>2, ErrorsOfTheProgram, FreeWellFormed
<1>4. /\ NoCall.op = "none" /\ NoCall.event = "success" /\ NoCall.size = 0
      /\ NoCall.moved = 0 /\ NoCall.transferred = 0
    BY CallFields DEF NoCall
<1>5. HeapIsOwned'
    <2>1. Owned(error)' = {} /\ Owned(copy)' = Owned(copy)
        BY <1>1, NoErrorFacts DEF Owned
    <2>2. WellFormed(error)' /\ WellFormed(copy)'
        BY <1>1, <1>2 DEF WellFormed, HeapIsOwned
    <2>3. heap' \subseteq Blocks
        BY <1>3 DEF Owned
    <2>4. TypeOK'
        <3>1. /\ call'.op \in Ops /\ call'.event \in Events /\ call'.size \in Sizes
              /\ call'.moved \in Sizes /\ call'.transferred \in Sizes
            BY <1>1, <1>4, MaxSizeAssumption DEF Ops, Events, Sizes
        <3>2. error' \in Errors
            BY <1>1, NoErrorFacts
        <3>. QED
            BY <1>1, <1>2, <2>3, <3>1, <3>2 DEF HeapIsOwned, TypeOK
    <2>. QED
        BY <2>1, <2>2, <2>4, <1>3 DEF HeapIsOwned
<1>6. FailureInProgress'
    BY <1>1, <1>4 DEF FailureInProgress
<1>7. CauseIsComing'
    <2>1. CodeOf(call.event)' = {}
        BY <1>1, <1>4 DEF CodeOf
    <2>. QED
        BY <2>1 DEF CauseIsComing
<1>8. TimeoutIsComing'
    <2>1. error'.codes = {} /\ Coming' = {}
        BY <1>1, NoErrorFacts, ListElements DEF Coming, Elements
    <2>. QED
        BY <2>1 DEF TimeoutIsComing
<1>9. TimeoutsAreKept'
    BY <1>1 DEF SyncInv, TimeoutsAreKept
<1>10. NamedEndpointIsUsed' /\ CountIsTrusted' /\ TimeoutIsGiven'
    BY <1>1, <1>4 DEF NamedEndpointIsUsed, CountIsTrusted, TimeoutIsGiven, AsksTheSystem
<1>. QED
    BY <1>5, <1>6, <1>7, <1>8, <1>9, <1>10 DEF SyncInv

LEMMA UserFreesCopyKeeps ==
    ASSUME SyncInv, UserFreesCopy
    PROVE  SyncInv'
<1>. USE DEF handleVars, systemVars
<1>1. /\ copy' = NoError
      /\ heap' = libusbp_error_free(heap, copy)
      /\ UNCHANGED <<out_timeout, in_timeout, policy, asked, timed, platform, endpoints,
                     connected, call, todo, error>>
    BY DEF UserFreesCopy
<1>2. HeapIsOwned
    BY DEF SyncInv
<1>3. heap' = Owned(error)
    <2>1. /\ WellFormed(copy) /\ Owned(copy) \cap Owned(error) = {}
          /\ heap = Owned(error) \cup Owned(copy)
        BY <1>2, ErrorsOfTheProgram
    <2>. QED
        BY <2>1, <1>1, FreeWellFormed
<1>4. HeapIsOwned'
    <2>1. Owned(copy)' = {} /\ Owned(error)' = Owned(error)
        BY <1>1, NoErrorFacts DEF Owned
    <2>2. WellFormed(error)' /\ WellFormed(copy)'
        BY <1>1, <1>2 DEF WellFormed, HeapIsOwned
    <2>3. heap' \subseteq Blocks
        BY <1>3 DEF Owned
    <2>4. TypeOK'
        BY <1>1, <1>2, <2>3, NoErrorFacts DEF HeapIsOwned, TypeOK
    <2>. QED
        BY <2>1, <2>2, <2>4, <1>3 DEF HeapIsOwned
<1>5. /\ FailureInProgress' /\ CauseIsComing' /\ TimeoutIsComing' /\ TimeoutsAreKept'
      /\ NamedEndpointIsUsed' /\ CountIsTrusted' /\ TimeoutIsGiven'
    BY <1>1 DEF SyncInv, FailureInProgress, CauseIsComing, TimeoutIsComing,
       TimeoutsAreKept, NamedEndpointIsUsed, CountIsTrusted, TimeoutIsGiven,
       AsksTheSystem, Coming, CodeOf
<1>. QED
    BY <1>4, <1>5 DEF SyncInv

(* The device is unplugged between two calls; and nothing happens. *)
LEMMA UnplugKeeps ==
    ASSUME SyncInv, Unplug \/ UNCHANGED vars
    PROVE  SyncInv'
<1>1. /\ connected' \in BOOLEAN
      /\ UNCHANGED <<out_timeout, in_timeout, policy, asked, timed, platform, endpoints,
                     call, todo, error, copy, heap>>
    BY DEF Unplug, vars, handleVars, systemVars, SyncInv, HeapIsOwned, TypeOK
<1>2. HeapIsOwned'
    BY <1>1 DEF SyncInv, HeapIsOwned, TypeOK, WellFormed, Owned
<1>3. /\ FailureInProgress' /\ CauseIsComing' /\ TimeoutIsComing' /\ TimeoutsAreKept'
      /\ NamedEndpointIsUsed' /\ CountIsTrusted' /\ TimeoutIsGiven'
    BY <1>1 DEF SyncInv, FailureInProgress, CauseIsComing, TimeoutIsComing,
       TimeoutsAreKept, NamedEndpointIsUsed, CountIsTrusted, TimeoutIsGiven,
       AsksTheSystem, Coming, CodeOf
<1>. QED
    BY <1>2, <1>3 DEF SyncInv

-----------------------------------------------------------------------------
(* The theorems.                                                           *)

LEMMA InitHolds == Init => SyncInv
<1>. SUFFICES ASSUME Init PROVE SyncInv
    OBVIOUS
<1>. USE DEF Init
<1>1. /\ NoCall.op = "none" /\ NoCall.event = "success" /\ NoCall.size = 0
      /\ NoCall.moved = 0 /\ NoCall.transferred = 0
    BY CallFields DEF NoCall
<1>2. TypeOK
    BY <1>1, NoErrorFacts, MaxSizeAssumption, TimeoutsAssumption
       DEF TypeOK, Ops, Events, Sizes
<1>3. HeapIsOwned
    BY <1>2, NoErrorFacts DEF HeapIsOwned, WellFormed
<1>4. Coming = {} /\ CodeOf(call.event) = {} /\ error.codes = {}
    BY <1>1, NoErrorFacts, CodeOfFacts, ListElements DEF Coming, Elements
<1>5. FailureInProgress /\ CauseIsComing /\ TimeoutIsComing
    BY <1>1, <1>4 DEF FailureInProgress, CauseIsComing, TimeoutIsComing
<1>6. TimeoutsAreKept
    <2>1. \A id \in PipeIds \cup {0} : EndpointNumber(id) \in EndpointNumbers
        BY PipeZero DEF EndpointNumbers
    <2>. QED
        BY <2>1 DEF TimeoutsAreKept
<1>7. NamedEndpointIsUsed /\ CountIsTrusted /\ TimeoutIsGiven
    BY <1>1 DEF NamedEndpointIsUsed, CountIsTrusted, TimeoutIsGiven, AsksTheSystem
<1>. QED
    BY <1>3, <1>5, <1>6, <1>7 DEF SyncInv

(* Every step of every platform keeps the inductive invariant. *)
LEMMA NextKeeps == SyncInv /\ [Next]_vars => SyncInv'
<1>. SUFFICES ASSUME SyncInv, [Next]_vars PROVE SyncInv'
    OBVIOUS
<1>1. CASE Transfer
    BY <1>1, ControlKeeps, ReadKeeps, WriteKeeps, AsyncKeeps DEF Transfer
<1>2. CASE \E id \in PipeIds, timeout \in Timeouts :
               set_timeout(id, timeout) \/ windows_set_timeout(id, timeout)
    BY <1>2, SetTimeoutKeeps, WindowsSetTimeoutKeeps
<1>3. CASE Adds
    BY <1>3, AddsKeeps
<1>4. CASE UserCopies
    BY <1>4, UserCopiesKeeps
<1>5. CASE UserFrees
    BY <1>5, UserFreesKeeps
<1>6. CASE UserFreesCopy
    BY <1>6, UserFreesCopyKeeps
<1>7. CASE Unplug \/ UNCHANGED vars
    BY <1>7, UnplugKeeps
<1>. QED
    BY <1>1, <1>2, <1>3, <1>4, <1>5, <1>6, <1>7 DEF Next

(* The inductive invariant holds of every behaviour. *)
THEOREM SyncInvariant == Spec => []SyncInv
<1>. QED
    BY InitHolds, NextKeeps, PTL DEF Spec

(***************************************************************************)
(* No block of an error object is leaked, freed twice or shared, and no    *)
(* static object is changed or freed, whichever allocations fail and       *)
(* however long the list of additions is (error.c).                        *)
(***************************************************************************)
THEOREM HeapStaysOwned == Spec => []HeapIsOwned
<1>1. SyncInv => HeapIsOwned
    BY DEF SyncInv
<1>. QED
    BY <1>1, SyncInvariant, PTL

(* A call returns an error if and only if it failed. *)
THEOREM FailuresAreReported == Spec => []FailureIsReported
<1>1. SyncInv => FailureIsReported
    BY DEF SyncInv, FailureInProgress, FailureIsReported
<1>. QED
    BY <1>1, SyncInvariant, PTL

(***************************************************************************)
(* The error names what happened, with the code that libusbp.h documents,  *)
(* for every number by which the three systems name it, unless memory ran  *)
(* out, which it then says.                                                *)
(***************************************************************************)
THEOREM CausesAreTold == Spec => []CauseIsTold
<1>1. SyncInv => CauseIsTold
    <2>. SUFFICES ASSUME SyncInv, todo = <<>> PROVE CauseIsTold
        BY DEF CauseIsTold
    <2>1. Coming = {}
        BY ListElements DEF Coming, Elements
    <2>. QED
        BY <2>1 DEF SyncInv, CauseIsComing, CauseIsTold
<1>. QED
    BY <1>1, SyncInvariant, PTL

(***************************************************************************)
(* A transfer is made with the timeout that was last set for its pipe      *)
(* (libusbp_generic_handle_set_timeout), and reports a timeout only if     *)
(* that is not zero.                                                       *)
(***************************************************************************)
THEOREM TimeoutsWereAskedFor == Spec => []TimeoutWasAskedFor
<1>1. SyncInv => TimeoutWasAskedFor
    BY DEF SyncInv, TimeoutIsComing, TimeoutWasAskedFor
<1>. QED
    BY <1>1, SyncInvariant, PTL

(***************************************************************************)
(* Bytes move through the endpoint with the address that the pipe id names *)
(* and no other, for every layout of the interface: also on macOS, where   *)
(* the system is given an index (process_pipe_properties).                 *)
(***************************************************************************)
THEOREM NamedEndpointsAreUsed == Spec => []NamedEndpointIsUsed
<1>1. SyncInv => NamedEndpointIsUsed
    BY DEF SyncInv
<1>. QED
    BY <1>1, SyncInvariant, PTL

(***************************************************************************)
(* A success tells the exact number of bytes, and a failure no more than   *)
(* were moved, but for a failed read on macOS, which may tell the size.    *)
(***************************************************************************)
THEOREM CountsAreTrusted == Spec => []CountIsTrusted
<1>1. SyncInv => CountIsTrusted
    BY DEF SyncInv
<1>. QED
    BY <1>1, SyncInvariant, PTL

(* A copy of an error has its codes, or says that there was no memory. *)
THEOREM CopiesTellTheSame == Spec => CopyTellsTheSame
<1>. DEFINE Same == copy = NoError /\ copy' # NoError =>
                        copy'.codes = error.codes \/ "MEMORY" \in copy'.codes
<1>1. SyncInv /\ [Next]_vars => [Same]_vars
    <2>. SUFFICES ASSUME SyncInv, Next, copy = NoError, copy' # NoError
                  PROVE  copy'.codes = error.codes \/ "MEMORY" \in copy'.codes
        OBVIOUS
    <2>1. UserCopies
        <3>1. ~(Transfer \/ \E id \in PipeIds, timeout \in Timeouts :
                    set_timeout(id, timeout) \/ windows_set_timeout(id, timeout))
            <4>1. \A c, additions : Begin(c, additions) => copy' = copy
                BY DEF Begin
            <4>. QED
                BY <4>1 DEF Transfer, set_timeout, windows_set_timeout,
                   linux_control_transfer, mac_control_transfer, windows_control_transfer,
                   linux_read_pipe, linux_write_pipe, windows_read_pipe,
                   windows_write_pipe, mac_read_pipe, mac_write_pipe,
                   async_transfer_fails, Finish, Refuse
        <3>2. ~Adds /\ ~UserFrees /\ ~UserFreesCopy /\ ~Unplug
            BY DEF Adds, UserFrees, UserFreesCopy, Unplug
        <3>. QED
            BY <3>1, <3>2 DEF Next
    <2>. QED
        BY <2>1, UserCopiesKeeps
<1>2. Spec => [][Same]_vars
    BY <1>1, SyncInvariant, PTL DEF Spec
<1>. QED
    BY <1>2 DEF CopyTellsTheSame
=============================================================================
