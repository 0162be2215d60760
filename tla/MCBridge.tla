------------------------------ MODULE MCBridge ------------------------------
(***************************************************************************)
(* Bridge with numbered values and a record of what became of them.  Each  *)
(* thread posts its values in the order of their numbers.                  *)
(***************************************************************************)
EXTENDS Bridge

CONSTANT MaxPosts    \* bound on the values of a thread

ASSUME MaxPostsAssumption == MaxPosts \in Nat \ {0}

VARIABLES
    posted,       \* values each thread has posted so far
    delivered,    \* values the callback was called with
    dropped,      \* values dropped because nothing was registered
    misused       \* <<f, v>>: v was given to f, which had been freed

mcvars == <<vars, posted, delivered, dropped, misused>>

Numbered == Poster \X (1..MaxPosts)

MCInit ==
    /\ Init
    /\ posted = [p \in Poster |-> 0]
    /\ delivered = <<>> /\ dropped = {} /\ misused = {}

JsStep ==
    \/ /\ Register \/ \E f \in Function : Free(f)
       /\ UNCHANGED <<posted, delivered, dropped, misused>>
    \/ \E f \in Function :
          /\ Dispatch(f)
          /\ delivered' = Append(delivered, Head(queue[f]))
          /\ UNCHANGED <<posted, dropped, misused>>

PostStep(p) ==
    /\ posted[p] < MaxPosts
    /\ Post(p, <<p, posted[p] + 1>>)
    /\ posted' = [posted EXCEPT ![p] = @ + 1]
    /\ UNCHANGED <<delivered, dropped, misused>>

CallStep(p) ==
    /\ UNCHANGED <<posted, delivered>>
    /\ \/ Drop(p) /\ dropped' = dropped \cup {call[p][2]} /\ UNCHANGED misused
       \/ /\ Enqueue(p) /\ UNCHANGED dropped
          /\ misused' = IF call[p][1] \in freed THEN misused \cup {call[p]} ELSE misused

MCNext == JsStep \/ \E p \in Poster : PostStep(p) \/ CallStep(p)

\* A native thread goes on whatever the JS thread does.
MCSpec == MCInit /\ [][MCNext]_mcvars /\ \A p \in Poster : WF_mcvars(CallStep(p))

\* The JS loop gets to every function that has something to do.
JsLoops == \A f \in Function :
    /\ WF_mcvars(Dispatch(f) /\ JsStep)
    /\ WF_mcvars(Free(f) /\ JsStep)

-----------------------------------------------------------------------------
(* Properties.                                                             *)

TypeOK ==
    /\ tsfn \in Function \cup {nullptr} /\ created \in 0..MaxFunctions
    /\ queue \in [Function -> Seq(Numbered)]
    /\ released \subseteq Function /\ freed \subseteq released
    /\ tsfn \notin released
    /\ \A p \in Poster : Calling(p) => call[p] \in (Function \cup {nullptr}) \X Numbered

\* Where v is: with its thread, in a queue, at the callback, dropped or gone to a freed function.
WithThread(v) == {p \in Poster : Calling(p) /\ call[p][2] = v}
InQueue(v) == UNION {{f} \X {i \in 1..Len(queue[f]) : queue[f][i] = v} : f \in Function}
AtCallback(v) == {i \in 1..Len(delivered) : delivered[i] = v}
AtFreed(v) == {f \in Function : <<f, v>> \in misused}
Places(v) ==
    ({"thread"} \X WithThread(v)) \cup ({"queue"} \X InQueue(v))
        \cup ({"callback"} \X AtCallback(v))
        \cup ({"dropped"} \X (dropped \cap {v})) \cup ({"misused"} \X AtFreed(v))

Posted(v) == v[2] <= posted[v[1]]

InOnePlace ==
    \A v \in Numbered :
        IF Posted(v) THEN \E place \in Places(v) : Places(v) = {place} ELSE Places(v) = {}

\* Values are lost, in a use after free, only by calls that a new registration has
\* overtaken: one at most for each thread and function.
OneLossPerRelease ==
    \A lost, other \in misused :
        lost[1] = other[1] /\ lost[2][1] = other[2][1] => lost = other

\* No value is doubled or deleted twice: each one posted is in exactly one place, once.
\* That place may be a function that had been freed, where the value is leaked and the call
\* is undefined; but a thread loses no more than the one value it was about to post when
\* the callback was registered again, and goes on with the new function.
EachValueOnce == InOnePlace /\ OneLossPerRelease

\* A post never waits for the JS thread, which may be busy for ever.  ("blocking would make
\* the message loop hang")
PostReturns == \A p \in Poster : Calling(p) ~> ~Calling(p)

\* What is in a queue is delivered, even if its function has been released meanwhile.
Queued(v) == \E f \in Function : \E i \in 1..Len(queue[f]) : queue[f][i] = v
QueuedArrives ==
    JsLoops => \A v \in Numbered :
        Queued(v) ~> \E i \in 1..Len(delivered) : delivered[i] = v

\* "The snapshot of the pointer and the post are made under the lock, so that there is no
\* use after free."
NoCallAfterFree == misused = {}
=============================================================================
