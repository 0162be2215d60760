------------------------------- MODULE Bridge -------------------------------
(***************************************************************************)
(* One of the three thread-safe functions of napi_init.cpp: g_statusTsfn   *)
(* (onDeskflowStatus), g_clipboardTsfn (onClipboardData) or g_tsfn         *)
(* (onChange).  Native threads post values to it, the JS loop hands them   *)
(* to the callback that was registered.                                    *)
(*                                                                         *)
(* A thread reads the pointer under g_tsfnMutex and makes the call after   *)
(* the unlock, so a post is two steps; the critical sections themselves    *)
(* only copy or exchange the pointer and are one step each.  The           *)
(* thread-safe functions are external: each has a queue without bound; a   *)
(* released one is still emptied by the JS loop and then freed.  A         *)
(* creation succeeds (g_tsfn's is given no resource name, which a comment  *)
(* on the other two says makes it fail; no page calls onChange).           *)
(***************************************************************************)
EXTENDS Naturals, Sequences

CONSTANTS
    Poster,         \* native threads
    Value,          \* what they post
    MaxFunctions    \* bound on the registrations

ASSUME BridgeAssumption == MaxFunctions \in Nat \ {0}

Function == 1..MaxFunctions
nullptr == 0

VARIABLES
    tsfn,       \* the pointer behind g_tsfnMutex
    created,    \* functions created so far
    queue,      \* values in the queue of each
    released,   \* functions released by a new registration
    freed,      \* of these, the ones emptied and freed
    call        \* of each thread: the pointer it copied and its value

vars == <<tsfn, created, queue, released, freed, call>>

NoCall == <<>>
Calling(p) == call[p] # NoCall

Init ==
    /\ tsfn = nullptr /\ created = 0
    /\ queue = [f \in Function |-> <<>>]
    /\ released = {} /\ freed = {}
    /\ call = [p \in Poster |-> NoCall]

-----------------------------------------------------------------------------
(* The JS thread.                                                          *)

\* Mutant: the old function is released, but the pointer stays.
RegisterBehindOld ==
    /\ created < MaxFunctions
    /\ released' = IF tsfn = nullptr THEN released ELSE released \cup {tsfn}
    /\ created' = created + 1
    /\ tsfn' = IF tsfn = nullptr THEN created + 1 ELSE tsfn
    /\ UNCHANGED <<queue, freed, call>>

\* Release the old function, create a new one.
Register ==
    /\ created < MaxFunctions
    /\ released' = IF tsfn = nullptr THEN released ELSE released \cup {tsfn}
    /\ created' = created + 1
    /\ tsfn' = created + 1
    /\ UNCHANGED <<queue, freed, call>>

\* The callback gets the oldest value, which is then deleted.
Dispatch(f) ==
    /\ queue[f] # <<>>
    /\ queue' = [queue EXCEPT ![f] = Tail(@)]
    /\ UNCHANGED <<tsfn, created, released, freed, call>>

\* Mutant: a released function is freed with what is in it.
FreeAtOnce(f) ==
    /\ f \in released \ freed
    /\ freed' = freed \cup {f}
    /\ queue' = [queue EXCEPT ![f] = <<>>]
    /\ UNCHANGED <<tsfn, created, released, call>>

Free(f) ==
    /\ f \in released \ freed /\ queue[f] = <<>>
    /\ freed' = freed \cup {f}
    /\ UNCHANGED <<tsfn, created, queue, released, call>>

-----------------------------------------------------------------------------
(* A native thread: DeskflowStatusCb, PublishClipboard or PublishValue.    *)

Post(p, v) ==
    /\ ~Calling(p)
    /\ call' = [call EXCEPT ![p] = <<tsfn, v>>]
    /\ UNCHANGED <<tsfn, created, queue, released, freed>>

\* Nothing is registered: the value is dropped.
Drop(p) ==
    /\ Calling(p) /\ call[p][1] = nullptr
    /\ call' = [call EXCEPT ![p] = NoCall]
    /\ UNCHANGED <<tsfn, created, queue, released, freed>>

\* Mutant: napi_tsfn_blocking, with a queue of one.
EnqueueBlocking(p) ==
    /\ Calling(p) /\ call[p][1] # nullptr
    /\ queue[call[p][1]] = <<>>
    /\ queue' = [queue EXCEPT ![call[p][1]] = Append(@, call[p][2])]
    /\ call' = [call EXCEPT ![p] = NoCall]
    /\ UNCHANGED <<tsfn, created, released, freed>>

\* napi_tsfn_nonblocking.  A call to a freed function is a use after free and undefined;
\* here its value is leaked.  MCBridge counts these.
Enqueue(p) ==
    /\ Calling(p) /\ call[p][1] # nullptr
    /\ queue' = IF call[p][1] \in freed THEN queue
                ELSE [queue EXCEPT ![call[p][1]] = Append(@, call[p][2])]
    /\ call' = [call EXCEPT ![p] = NoCall]
    /\ UNCHANGED <<tsfn, created, released, freed>>

-----------------------------------------------------------------------------
Js == Register \/ \E f \in Function : Dispatch(f) \/ Free(f)
Native(p) == (\E v \in Value : Post(p, v)) \/ Drop(p) \/ Enqueue(p)

Next == Js \/ \E p \in Poster : Native(p)

Spec == Init /\ [][Next]_vars
=============================================================================
