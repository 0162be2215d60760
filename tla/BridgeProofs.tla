---------------------------- MODULE BridgeProofs ----------------------------
(***************************************************************************)
(* Proofs about Bridge as MCBridge records it, for any number of threads,  *)
(* values and registrations.                                               *)
(***************************************************************************)
EXTENDS MCBridge, SequenceTheorems, TLAPS

-----------------------------------------------------------------------------
(* The inductive invariant.                                                *)

\* TypeOK and the types of the record; functions are numbered as they are created, so that
\* a new one has not been released.
Types ==
    /\ TypeOK
    /\ tsfn <= created /\ \A f \in released : f < tsfn
    /\ DOMAIN call = Poster
    /\ posted \in [Poster -> 0..MaxPosts]
    /\ delivered \in Seq(Numbered)
    /\ dropped \subseteq Numbered /\ misused \subseteq Function \X Numbered

\* What was lost was lost to a released function, and its thread no longer calls that one.
LossesAreOver ==
    /\ \A p \in Poster : Calling(p) => call[p][2][1] = p
    /\ \A lost \in misused : lost[1] \in released
    /\ \A lost \in misused : \A p \in Poster :
          Calling(p) /\ lost[2][1] = p => call[p][1] # lost[1]

IndInv == Types /\ EachValueOnce /\ LossesAreOver

-----------------------------------------------------------------------------
\* Bounds are numbers.
LEMMA Bounds == MaxFunctions \in Nat \ {0} /\ MaxPosts \in Nat \ {0}
BY BridgeAssumption, MaxPostsAssumption

\* What a thread that is calling holds.
LEMMA Held ==
    ASSUME TypeOK, NEW p \in Poster, Calling(p)
    PROVE  /\ call[p] = <<call[p][1], call[p][2]>>
           /\ call[p][1] \in Function \cup {nullptr} /\ call[p][2] \in Numbered
BY DEF TypeOK

\* Nothing has been posted at first.
LEMMA InitInd == MCInit => IndInv
<1> SUFFICES ASSUME MCInit PROVE IndInv
  OBVIOUS
<1> USE DEF MCInit, Init
<1>1. <<>> \in Seq(Numbered) /\ Len(<<>>) = 0
  OBVIOUS
<1>2. Types
  BY <1>1, Bounds DEF Types, TypeOK, Calling, NoCall, nullptr
<1>3. ASSUME NEW v \in Numbered PROVE ~Posted(v) /\ Places(v) = {}
  <2>1. v[1] \in Poster /\ v[2] \in 1..MaxPosts
    BY <1>3 DEF Numbered
  <2>2. ~Posted(v)
    BY <2>1, Bounds DEF Posted
  <2>3. WithThread(v) = {} /\ AtCallback(v) = {} /\ AtFreed(v) = {}
    BY DEF WithThread, AtCallback, AtFreed, Calling, NoCall
  <2>4. InQueue(v) = {}
    BY DEF InQueue
  <2> QED BY <2>2, <2>3, <2>4 DEF Places
<1>4. OneLossPerRelease /\ LossesAreOver
  BY DEF OneLossPerRelease, LossesAreOver, Calling
<1> QED BY <1>2, <1>3, <1>4 DEF IndInv, EachValueOnce, InOnePlace

\* Types, action by action.
LEMMA TypesStep == Types /\ [MCNext]_mcvars => Types'
<1> SUFFICES ASSUME Types, [MCNext]_mcvars PROVE Types'
  OBVIOUS
<1> USE Bounds DEF Types, TypeOK
<1>1. ASSUME Register, UNCHANGED <<posted, delivered, dropped, misused>> PROVE Types'
  <2>1. /\ created' = created + 1 /\ tsfn' = created + 1 /\ created + 1 \in Function
        /\ UNCHANGED <<queue, freed, call>>
    BY <1>1 DEF Register, Function
  <2>2. released' \subseteq Function /\ \A f \in released' : f < tsfn'
    BY <1>1, <2>1 DEF Register, Function, nullptr
  <2>3. freed' \subseteq released' /\ tsfn' \notin released' /\ tsfn' <= created'
    BY <1>1, <2>1, <2>2 DEF Register
  <2>4. tsfn' \in Function \cup {nullptr} /\ created' \in 0..MaxFunctions
    BY <2>1 DEF Function
  <2>5. \A p \in Poster : Calling(p)' => call'[p] \in (Function \cup {nullptr}) \X Numbered
    BY <2>1 DEF Calling
  <2> QED BY <1>1, <2>1, <2>2, <2>3, <2>4, <2>5
<1>2. ASSUME NEW f \in Function, Free(f), UNCHANGED <<posted, delivered, dropped, misused>>
      PROVE  Types'
  BY <1>2 DEF Free, Calling
<1>3. ASSUME NEW f \in Function, Dispatch(f), delivered' = Append(delivered, Head(queue[f])),
             UNCHANGED <<posted, dropped, misused>>
      PROVE  Types'
  <2>1. queue[f] \in Seq(Numbered) /\ queue[f] # <<>>
    BY <1>3 DEF Dispatch
  <2>2. Tail(queue[f]) \in Seq(Numbered) /\ Head(queue[f]) \in Numbered
    BY <2>1, HeadTailProperties
  <2>3. queue' \in [Function -> Seq(Numbered)] /\ delivered' \in Seq(Numbered)
    BY <1>3, <2>2 DEF Dispatch
  <2> QED BY <1>3, <2>3 DEF Dispatch, Calling
<1>4. ASSUME NEW p \in Poster, PostStep(p) PROVE Types'
  <2>1. posted[p] + 1 \in 1..MaxPosts /\ posted[p] + 1 \in 0..MaxPosts
    BY <1>4 DEF PostStep
  <2>2. posted' \in [Poster -> 0..MaxPosts]
    BY <1>4, <2>1 DEF PostStep
  <2>3. <<tsfn, <<p, posted[p] + 1>>>> \in (Function \cup {nullptr}) \X Numbered
    BY <2>1 DEF Numbered
  <2>4. call' = [call EXCEPT ![p] = <<tsfn, <<p, posted[p] + 1>>>>]
    BY <1>4 DEF PostStep, Post
  <2>5. DOMAIN call' = Poster /\ \A q \in Poster :
            Calling(q)' => call'[q] \in (Function \cup {nullptr}) \X Numbered
    BY <2>3, <2>4 DEF Calling
  <2> QED BY <1>4, <2>2, <2>5 DEF PostStep, Post
<1>5. ASSUME NEW p \in Poster, CallStep(p) PROVE Types'
  <2>1. call' = [call EXCEPT ![p] = NoCall] /\ Calling(p)
    BY <1>5 DEF CallStep, Drop, Enqueue
  <2>2. DOMAIN call' = Poster /\ \A q \in Poster :
            Calling(q)' => call'[q] \in (Function \cup {nullptr}) \X Numbered
    BY <2>1 DEF Calling
  <2>3. call[p][1] \in Function \cup {nullptr} /\ call[p][2] \in Numbered
    BY <2>1, Held
  <2>4. queue' \in [Function -> Seq(Numbered)]
    <3>1. CASE Drop(p)
      BY <3>1 DEF Drop
    <3>2. CASE Enqueue(p)
      <4>1. call[p][1] \in Function
        BY <2>3, <3>2 DEF Enqueue
      <4>2. Append(queue[call[p][1]], call[p][2]) \in Seq(Numbered)
        BY <2>3, <4>1
      <4> QED BY <3>2, <4>1, <4>2 DEF Enqueue
    <3> QED BY <1>5, <3>1, <3>2 DEF CallStep
  <2> QED BY <1>5, <2>2, <2>3, <2>4 DEF CallStep, Drop, Enqueue
<1>6. CASE UNCHANGED mcvars
  BY <1>6 DEF mcvars, vars, Calling
<1> QED BY <1>1, <1>2, <1>3, <1>4, <1>5, <1>6 DEF MCNext, JsStep
-----------------------------------------------------------------------------
(* Where a value is.                                                       *)

OnceFor(v) ==
    IF Posted(v) THEN \E place \in Places(v) : Places(v) = {place} ELSE Places(v) = {}

\* Positions in the queues, now and after a step.
LEMMA QueuePlaces ==
    ASSUME NEW v, NEW x
    PROVE  /\ x \in InQueue(v)
                <=> \E f \in Function : \E i \in 1..Len(queue[f]) : x = <<f, i>> /\ queue[f][i] = v
           /\ x \in InQueue(v)'
                <=> \E f \in Function : \E i \in 1..Len(queue'[f]) : x = <<f, i>> /\ queue'[f][i] = v
BY DEF InQueue

\* A value nothing happens to stays where it is.
LEMMA OnceSame ==
    ASSUME NEW v, OnceFor(v), posted'[v[1]] = posted[v[1]],
           WithThread(v)' = WithThread(v), InQueue(v)' = InQueue(v),
           AtCallback(v)' = AtCallback(v),
           v \in dropped' <=> v \in dropped, AtFreed(v)' = AtFreed(v)
    PROVE  OnceFor(v)'
<1>1. dropped' \cap {v} = dropped \cap {v}
  OBVIOUS
<1>2. Places(v)' = Places(v)
  BY <1>1 DEF Places
<1>3. Posted(v)' = Posted(v)
  BY DEF Posted
<1> QED BY <1>2, <1>3 DEF OnceFor

\* A value a thread has in its hands is nowhere else.
LEMMA OnlyWithThread ==
    ASSUME NEW v, OnceFor(v), NEW p \in WithThread(v)
    PROVE  /\ Posted(v) /\ WithThread(v) = {p} /\ InQueue(v) = {} /\ AtCallback(v) = {}
           /\ v \notin dropped /\ AtFreed(v) = {}
<1>1. <<"thread", p>> \in Places(v)
  BY DEF Places
<1>2. Posted(v) /\ Places(v) = {<<"thread", p>>}
  BY <1>1 DEF OnceFor
<1>3. /\ \A q \in WithThread(v) : <<"thread", q>> \in Places(v)
      /\ \A x \in InQueue(v) : <<"queue", x>> \in Places(v)
      /\ \A i \in AtCallback(v) : <<"callback", i>> \in Places(v)
      /\ v \in dropped => <<"dropped", v>> \in Places(v)
      /\ \A f \in AtFreed(v) : <<"misused", f>> \in Places(v)
  BY DEF Places
<1> QED BY <1>2, <1>3

\* Nor is a value in a queue.
LEMMA OnlyInQueue ==
    ASSUME NEW v, OnceFor(v), NEW x \in InQueue(v)
    PROVE  /\ Posted(v) /\ WithThread(v) = {} /\ InQueue(v) = {x} /\ AtCallback(v) = {}
           /\ v \notin dropped /\ AtFreed(v) = {}
<1>1. <<"queue", x>> \in Places(v)
  BY DEF Places
<1>2. Posted(v) /\ Places(v) = {<<"queue", x>>}
  BY <1>1 DEF OnceFor
<1>3. /\ \A q \in WithThread(v) : <<"thread", q>> \in Places(v)
      /\ \A y \in InQueue(v) : <<"queue", y>> \in Places(v)
      /\ \A i \in AtCallback(v) : <<"callback", i>> \in Places(v)
      /\ v \in dropped => <<"dropped", v>> \in Places(v)
      /\ \A f \in AtFreed(v) : <<"misused", f>> \in Places(v)
  BY DEF Places
<1> QED BY <1>2, <1>3

-----------------------------------------------------------------------------
(* Each step moves one value at most, from one place to one other.         *)

\* The JS loop hands the oldest value of a queue to the callback; the others move up.
LEMMA DispatchOnce ==
    ASSUME Types, NEW f \in Function, Dispatch(f), delivered' = Append(delivered, Head(queue[f])),
           UNCHANGED <<posted, dropped, misused>>, NEW v \in Numbered, OnceFor(v)
    PROVE  OnceFor(v)'
<1> DEFINE h == Head(queue[f])
           n == Len(delivered) + 1
<1>1. /\ queue \in [Function -> Seq(Numbered)] /\ delivered \in Seq(Numbered)
      /\ queue[f] \in Seq(Numbered) /\ queue[f] # <<>> /\ Len(queue[f]) \in Nat
  BY DEF Types, TypeOK, Dispatch
<1>2. /\ h = queue[f][1] /\ Len(queue[f]) >= 1
      /\ Len(queue'[f]) = Len(queue[f]) - 1
      /\ \A i \in 1..Len(queue'[f]) : queue'[f][i] = queue[f][i + 1]
      /\ \A g \in Function : g # f => queue'[g] = queue[g]
  BY <1>1, HeadTailProperties DEF Dispatch
<1>2a. \A i \in Nat : i \in 1..Len(queue'[f])
          => i + 1 \in 1..Len(queue[f]) /\ queue[f][i + 1] = queue'[f][i]
  BY <1>1, <1>2
<1>3. WithThread(v)' = WithThread(v) /\ Posted(v)' = Posted(v) /\ AtFreed(v)' = AtFreed(v)
  BY DEF Dispatch, WithThread, Calling, Posted, AtFreed
<1>4. /\ Len(delivered') = n /\ n \in Nat
      /\ \A i \in 1..n : delivered'[i] = IF i = n THEN h ELSE delivered[i]
  BY <1>1
<1>5. CASE v = h
  <2>1. <<f, 1>> \in InQueue(v)
    BY <1>2, <1>5, QueuePlaces
  <2>2. /\ Posted(v) /\ WithThread(v) = {} /\ InQueue(v) = {<<f, 1>>} /\ AtCallback(v) = {}
        /\ v \notin dropped /\ AtFreed(v) = {}
    BY <2>1, OnlyInQueue
  <2>3. InQueue(v)' = {}
    <3> SUFFICES ASSUME NEW x \in InQueue(v)' PROVE FALSE
      OBVIOUS
    <3>1. PICK g \in Function, i \in Nat :
              i \in 1..Len(queue'[g]) /\ x = <<g, i>> /\ queue'[g][i] = v
      BY QueuePlaces
    <3>2. CASE g = f
      <4>1. i + 1 \in 1..Len(queue[f]) /\ queue[f][i + 1] = v
        BY <1>2a, <3>1, <3>2
      <4>2. <<f, i + 1>> \in InQueue(v)
        BY <4>1, QueuePlaces
      <4> QED BY <2>2, <3>1, <4>2
    <3>3. CASE g # f
      <4>1. <<g, i>> \in InQueue(v)
        BY <1>2, <3>1, <3>3, QueuePlaces
      <4> QED BY <2>2, <3>3, <4>1
    <3> QED BY <3>2, <3>3
  <2>4. AtCallback(v)' = {n}
    <3>1. \A i \in 1..n : delivered'[i] = v <=> i = n
      BY <1>4, <1>5, <2>2 DEF AtCallback
    <3> QED BY <1>4, <3>1 DEF AtCallback
  <2>5. dropped' \cap {v} = {} /\ AtFreed(v)' = {}
    BY <1>3, <2>2
  <2>6. Places(v)' = {<<"callback", n>>}
    BY <1>3, <2>2, <2>3, <2>4, <2>5 DEF Places
  <2> QED BY <1>3, <2>2, <2>6 DEF OnceFor
<1>6. CASE v # h
  <2>1. AtCallback(v)' = AtCallback(v)
    BY <1>4, <1>6 DEF AtCallback
  <2>2. CASE \E i \in 1..Len(queue[f]) : queue[f][i] = v
    <3>1. PICK i \in 1..Len(queue[f]) : queue[f][i] = v
      BY <2>2
    <3>2. <<f, i>> \in InQueue(v)
      BY <3>1, QueuePlaces
    <3>3. /\ Posted(v) /\ WithThread(v) = {} /\ InQueue(v) = {<<f, i>>} /\ AtCallback(v) = {}
          /\ v \notin dropped /\ AtFreed(v) = {}
      BY <3>2, OnlyInQueue
    <3>4. InQueue(v)' = {<<f, i - 1>>}
      <4>1. i # 1 /\ i - 1 \in 1..Len(queue'[f]) /\ queue'[f][i - 1] = v
        BY <1>1, <1>2, <1>6, <3>1
      <4>2. <<f, i - 1>> \in InQueue(v)'
        BY <4>1, QueuePlaces
      <4>3. ASSUME NEW x \in InQueue(v)' PROVE x = <<f, i - 1>>
        <5>1. PICK g \in Function, j \in Nat :
                  j \in 1..Len(queue'[g]) /\ x = <<g, j>> /\ queue'[g][j] = v
          BY QueuePlaces
        <5>2. CASE g = f
          <6>1. j + 1 \in 1..Len(queue[f]) /\ queue[f][j + 1] = v
            BY <1>2a, <5>1, <5>2
          <6>2. <<f, j + 1>> \in InQueue(v)
            BY <6>1, QueuePlaces
          <6>3. j + 1 = i
            BY <3>3, <6>2
          <6> QED BY <5>1, <5>2, <6>3
        <5>3. CASE g # f
          <6>1. <<g, j>> \in InQueue(v)
            BY <1>2, <5>1, <5>3, QueuePlaces
          <6> QED BY <3>3, <5>3, <6>1
        <5> QED BY <5>2, <5>3
      <4> QED BY <4>2, <4>3
    <3>5. dropped' \cap {v} = {} /\ AtFreed(v)' = {}
      BY <1>3, <3>3
    <3>6. Places(v)' = {<<"queue", <<f, i - 1>>>>}
      BY <1>3, <2>1, <3>3, <3>4, <3>5 DEF Places
    <3> QED BY <1>3, <3>3, <3>6 DEF OnceFor
  <2>3. CASE ~\E i \in 1..Len(queue[f]) : queue[f][i] = v
    <3>1. InQueue(v)' = InQueue(v)
      <4>1. ~\E i \in 1..Len(queue'[f]) : queue'[f][i] = v
        <5> SUFFICES ASSUME NEW i \in 1..Len(queue'[f]), queue'[f][i] = v PROVE FALSE
          OBVIOUS
        <5>1. i + 1 \in 1..Len(queue[f]) /\ queue[f][i + 1] = v
          BY <1>1, <1>2
        <5> QED BY <2>3, <5>1
      <4>2. ASSUME NEW x PROVE x \in InQueue(v)' <=> x \in InQueue(v)
        <5>1. x \in InQueue(v)'
                 => \E g \in Function \ {f} : \E i \in 1..Len(queue[g]) :
                        x = <<g, i>> /\ queue[g][i] = v
          BY <1>2, <4>1, QueuePlaces
        <5>2. x \in InQueue(v)
                 => \E g \in Function \ {f} : \E i \in 1..Len(queue'[g]) :
                        x = <<g, i>> /\ queue'[g][i] = v
          BY <1>2, <2>3, QueuePlaces
        <5> QED BY <1>2, <5>1, <5>2, QueuePlaces
      <4> QED BY <4>2 DEF InQueue
    <3> QED BY <1>3, <2>1, <3>1, OnceSame
  <2> QED BY <2>2, <2>3
<1> QED BY <1>5, <1>6

\* A thread takes a new value into its hands.
LEMMA PostOnce ==
    ASSUME Types, NEW p \in Poster, PostStep(p), NEW v \in Numbered, OnceFor(v)
    PROVE  OnceFor(v)'
<1> DEFINE new == <<p, posted[p] + 1>>
<1>1. /\ posted \in [Poster -> 0..MaxPosts] /\ posted' = [posted EXCEPT ![p] = posted[p] + 1]
      /\ posted[p] \in Nat /\ DOMAIN call = Poster
  BY Bounds DEF Types, PostStep
<1>2. /\ ~Calling(p) /\ call' = [call EXCEPT ![p] = <<tsfn, new>>]
      /\ UNCHANGED <<queue, delivered, dropped, misused>>
  BY DEF PostStep, Post
<1>3. v = <<v[1], v[2]>> /\ v[1] \in Poster /\ v[2] \in Nat
  BY Bounds DEF Numbered
<1>4. InQueue(v)' = InQueue(v) /\ AtCallback(v)' = AtCallback(v) /\ AtFreed(v)' = AtFreed(v)
  BY <1>2 DEF InQueue, AtCallback, AtFreed
<1>5. \A q \in Poster : q \in WithThread(v)' <=> IF q = p THEN v = new ELSE q \in WithThread(v)
  BY <1>1, <1>2 DEF WithThread, Calling, NoCall
<1>6. CASE v = new
  <2>1. ~Posted(v) /\ Posted(v)'
    BY <1>1, <1>6 DEF Posted
  <2>2. Places(v) = {}
    BY <2>1 DEF OnceFor
  <2>3. WithThread(v) = {} /\ InQueue(v) = {} /\ AtCallback(v) = {}
        /\ v \notin dropped /\ AtFreed(v) = {}
    <3>1. /\ \A q \in WithThread(v) : <<"thread", q>> \in Places(v)
          /\ \A x \in InQueue(v) : <<"queue", x>> \in Places(v)
          /\ \A i \in AtCallback(v) : <<"callback", i>> \in Places(v)
          /\ v \in dropped => <<"dropped", v>> \in Places(v)
          /\ \A f \in AtFreed(v) : <<"misused", f>> \in Places(v)
      BY DEF Places
    <3> QED BY <2>2, <3>1
  <2>4. WithThread(v)' = {p}
    BY <1>5, <1>6, <2>3 DEF WithThread
  <2>5. dropped' \cap {v} = {} /\ AtFreed(v)' = {}
    BY <1>2, <1>4, <2>3
  <2>6. Places(v)' = {<<"thread", p>>}
    BY <1>4, <2>3, <2>4, <2>5 DEF Places
  <2> QED BY <2>1, <2>6 DEF OnceFor
<1>7. CASE v # new
  <2>1. WithThread(v)' = WithThread(v)
    BY <1>2, <1>5, <1>7 DEF WithThread
  <2>2. Posted(v)' = Posted(v)
    BY <1>1, <1>3, <1>7 DEF Posted
  <2>3. Places(v)' = Places(v)
    BY <1>2, <1>4, <2>1 DEF Places
  <2> QED BY <2>2, <2>3 DEF OnceFor
<1> QED BY <1>6, <1>7

\* A thread's call drops its value, appends it to the queue or gives it to a freed function.
LEMMA CallOnce ==
    ASSUME Types, NEW p \in Poster, CallStep(p), NEW v \in Numbered, OnceFor(v)
    PROVE  OnceFor(v)'
<1> DEFINE held == call[p][2]
           f == call[p][1]
<1>1. /\ Calling(p) /\ call' = [call EXCEPT ![p] = NoCall] /\ DOMAIN call = Poster
      /\ UNCHANGED <<posted, delivered>>
  BY DEF CallStep, Drop, Enqueue, Types
<1>2. f \in Function \cup {nullptr} /\ held \in Numbered
  BY <1>1, Held DEF Types
<1>3. AtCallback(v)' = AtCallback(v) /\ Posted(v)' = Posted(v)
  BY <1>1 DEF AtCallback, Posted
<1>4. \A q \in Poster : q \in WithThread(v)' <=> q # p /\ q \in WithThread(v)
  BY <1>1 DEF WithThread, Calling
<1>5. CASE v # held
  <2>1. WithThread(v)' = WithThread(v)
    BY <1>1, <1>4, <1>5 DEF WithThread
  <2>2. v \in dropped' <=> v \in dropped
    BY <1>5 DEF CallStep
  <2>3. AtFreed(v)' = AtFreed(v)
    BY <1>1, <1>5, Held DEF CallStep, AtFreed, Types
  <2>4. InQueue(v)' = InQueue(v)
    <3>1. CASE queue' = queue
      BY <3>1 DEF InQueue
    <3>2. CASE queue' # queue
      <4>1. f \in Function /\ queue' = [queue EXCEPT ![f] = Append(queue[f], held)]
        BY <1>2, <3>2 DEF CallStep, Drop, Enqueue
      <4>2. queue[f] \in Seq(Numbered) /\ queue \in [Function -> Seq(Numbered)]
        BY <4>1 DEF Types, TypeOK
      <4>3. /\ Len(queue'[f]) = Len(queue[f]) + 1 /\ Len(queue[f]) \in Nat
            /\ \A i \in 1..Len(queue[f]) : queue'[f][i] = queue[f][i]
            /\ queue'[f][Len(queue[f]) + 1] = held
            /\ \A g \in Function : g # f => queue'[g] = queue[g]
        BY <1>2, <4>1, <4>2
      <4>4. ASSUME NEW g \in Function, NEW i
            PROVE  i \in 1..Len(queue'[g]) /\ queue'[g][i] = v
                      <=> i \in 1..Len(queue[g]) /\ queue[g][i] = v
        <5> DEFINE n == Len(queue[f])
        <5>1. CASE g # f
          BY <4>3, <5>1
        <5>2. CASE g = f
          <6>1. 1..Len(queue'[f]) = 1..n \cup {n + 1}
            BY <4>3
          <6>2. CASE i = n + 1
            BY <1>5, <4>3, <5>2, <6>2
          <6>3. CASE i \in 1..n
            BY <4>3, <5>2, <6>1, <6>3
          <6> QED BY <5>2, <6>1, <6>2, <6>3
        <5> QED BY <5>1, <5>2
      <4>5. ASSUME NEW x PROVE x \in InQueue(v)' <=> x \in InQueue(v)
        BY <4>4, QueuePlaces
      <4> QED BY <4>5 DEF InQueue
    <3> QED BY <3>1, <3>2
  <2> QED BY <1>1, <1>3, <2>1, <2>2, <2>3, <2>4, OnceSame
<1>6. CASE v = held
  <2>1. p \in WithThread(v)
    BY <1>1, <1>6 DEF WithThread
  <2>2. /\ Posted(v) /\ WithThread(v) = {p} /\ InQueue(v) = {} /\ AtCallback(v) = {}
        /\ v \notin dropped /\ AtFreed(v) = {}
    BY <2>1, OnlyWithThread
  <2>3. WithThread(v)' = {}
    BY <1>4, <2>2 DEF WithThread
  <2>4. CASE Drop(p)
    <3>1. dropped' = dropped \cup {v} /\ UNCHANGED <<queue, misused>>
      BY <1>6, <2>4 DEF CallStep, Drop, Enqueue
    <3>2. InQueue(v)' = {} /\ dropped' \cap {v} = {v} /\ AtFreed(v)' = {}
      BY <2>2, <3>1 DEF InQueue, AtFreed
    <3>3. Places(v)' = {<<"dropped", v>>}
      BY <1>3, <2>2, <2>3, <3>2 DEF Places
    <3> QED BY <1>3, <2>2, <3>3 DEF OnceFor
  <2>5. CASE Enqueue(p) /\ f \in freed
    <3>1. misused' = misused \cup {call[p]} /\ UNCHANGED <<queue, dropped>>
      BY <1>6, <2>5 DEF CallStep, Drop, Enqueue
    <3>2. f \in Function /\ call[p] = <<f, v>>
      BY <1>1, <1>6, <2>5, Held DEF Types, TypeOK
    <3>3. AtFreed(v)' = {f}
      BY <2>2, <3>1, <3>2 DEF AtFreed
    <3>4. InQueue(v)' = {} /\ dropped' \cap {v} = {}
      BY <2>2, <3>1 DEF InQueue
    <3>5. Places(v)' = {<<"misused", f>>}
      BY <1>3, <2>2, <2>3, <3>3, <3>4 DEF Places
    <3> QED BY <1>3, <2>2, <3>5 DEF OnceFor
  <2>6. CASE Enqueue(p) /\ f \notin freed
    <3> DEFINE n == Len(queue[f]) + 1
    <3>1. /\ f \in Function /\ queue' = [queue EXCEPT ![f] = Append(queue[f], v)]
          /\ UNCHANGED <<dropped, misused>>
      BY <1>2, <1>6, <2>6 DEF CallStep, Drop, Enqueue
    <3>2. queue[f] \in Seq(Numbered) /\ queue \in [Function -> Seq(Numbered)]
      BY <3>1 DEF Types, TypeOK
    <3>3. /\ Len(queue'[f]) = n /\ n \in Nat \ {0}
          /\ \A i \in 1..n : queue'[f][i] = IF i = n THEN v ELSE queue[f][i]
          /\ \A g \in Function : g # f => queue'[g] = queue[g]
      BY <1>2, <3>1, <3>2
    <3>4. ASSUME NEW g \in Function, NEW i
          PROVE  i \in 1..Len(queue'[g]) /\ queue'[g][i] = v <=> g = f /\ i = n
      <4>1. ~(i \in 1..Len(queue[g]) /\ queue[g][i] = v)
        BY <2>2, QueuePlaces
      <4>2. CASE g = f
        BY <3>2, <3>3, <4>1, <4>2
      <4>3. CASE g # f
        BY <3>3, <4>1, <4>3
      <4> QED BY <4>2, <4>3
    <3>5. InQueue(v)' = {<<f, n>>}
      <4>1. ASSUME NEW x PROVE x \in InQueue(v)' <=> x = <<f, n>>
        BY <3>1, <3>4, QueuePlaces
      <4> QED BY <4>1
    <3>6. dropped' \cap {v} = {} /\ AtFreed(v)' = {}
      BY <2>2, <3>1 DEF AtFreed
    <3>7. Places(v)' = {<<"queue", <<f, n>>>>}
      BY <1>3, <2>2, <2>3, <3>5, <3>6 DEF Places
    <3> QED BY <1>3, <2>2, <3>7 DEF OnceFor
  <2> QED BY <2>4, <2>5, <2>6 DEF CallStep
<1> QED BY <1>5, <1>6

\* A new call goes to the current function, which has not been released; a lost one is over.
LEMMA LossesStep ==
    ASSUME Types, OneLossPerRelease, LossesAreOver, [MCNext]_mcvars
    PROVE  (OneLossPerRelease /\ LossesAreOver)'
<1>1. ASSUME UNCHANGED <<call, misused>>, released \subseteq released'
      PROVE  (OneLossPerRelease /\ LossesAreOver)'
  BY <1>1 DEF OneLossPerRelease, LossesAreOver, Calling
<1>2. CASE JsStep \/ UNCHANGED mcvars
  BY <1>1, <1>2 DEF JsStep, Register, Free, Dispatch, mcvars, vars
<1>3. ASSUME NEW p \in Poster, PostStep(p) PROVE (OneLossPerRelease /\ LossesAreOver)'
  <2>1. /\ call' = [call EXCEPT ![p] = <<tsfn, <<p, posted[p] + 1>>>>] /\ DOMAIN call = Poster
        /\ UNCHANGED <<misused, released>>
    BY <1>3 DEF PostStep, Post, Types
  <2>2. \A lost \in misused : tsfn # lost[1]
    BY DEF LossesAreOver, Types, TypeOK
  <2>3. \A q \in Poster : call'[q] = IF q = p THEN <<tsfn, <<p, posted[p] + 1>>>> ELSE call[q]
    BY <2>1
  <2> QED BY <2>1, <2>2, <2>3 DEF OneLossPerRelease, LossesAreOver, Calling
<1>4. ASSUME NEW p \in Poster, CallStep(p) PROVE (OneLossPerRelease /\ LossesAreOver)'
  <2>1. /\ Calling(p) /\ call' = [call EXCEPT ![p] = NoCall] /\ DOMAIN call = Poster
        /\ UNCHANGED released
    BY <1>4 DEF CallStep, Drop, Enqueue, Types
  <2>2. \A q \in Poster : Calling(q)' => q # p /\ Calling(q) /\ call'[q] = call[q]
    BY <2>1 DEF Calling
  <2>3. CASE misused' = misused
    BY <2>1, <2>2, <2>3 DEF OneLossPerRelease, LossesAreOver
  <2>4. CASE misused' # misused
    <3>1. misused' = misused \cup {call[p]} /\ call[p][1] \in freed
      BY <1>4, <2>4 DEF CallStep
    <3>2. call[p][1] \in released /\ call[p][2][1] = p
      BY <2>1, <3>1 DEF Types, TypeOK, LossesAreOver
    <3>3. \A other \in misused : ~(other[1] = call[p][1] /\ other[2][1] = p)
      BY <2>1 DEF LossesAreOver
    <3>4. OneLossPerRelease'
      BY <3>1, <3>2, <3>3 DEF OneLossPerRelease
    <3>5. LossesAreOver'
      BY <2>1, <2>2, <3>1, <3>2 DEF LossesAreOver
    <3> QED BY <3>4, <3>5
  <2> QED BY <2>3, <2>4
<1> QED BY <1>2, <1>3, <1>4 DEF MCNext

\* One step per action, as in MCNext.
LEMMA NextInd == IndInv /\ [MCNext]_mcvars => IndInv'
<1> SUFFICES ASSUME IndInv, [MCNext]_mcvars PROVE IndInv'
  OBVIOUS
<1>1. Types /\ Types' /\ \A v \in Numbered : OnceFor(v)
  BY TypesStep DEF IndInv, EachValueOnce, InOnePlace, OnceFor
<1>2. ASSUME NEW v \in Numbered PROVE OnceFor(v)'
  <2>1. ASSUME UNCHANGED <<queue, call, posted, delivered, dropped, misused>> PROVE OnceFor(v)'
    BY <1>1, <2>1, OnceSame DEF WithThread, Calling, InQueue, AtCallback, AtFreed
  <2>2. CASE Register /\ UNCHANGED <<posted, delivered, dropped, misused>>
    BY <2>1, <2>2 DEF Register
  <2>3. ASSUME NEW f \in Function, Free(f), UNCHANGED <<posted, delivered, dropped, misused>>
        PROVE  OnceFor(v)'
    BY <2>1, <2>3 DEF Free
  <2>4. ASSUME NEW f \in Function, Dispatch(f), delivered' = Append(delivered, Head(queue[f])),
               UNCHANGED <<posted, dropped, misused>>
        PROVE  OnceFor(v)'
    BY <1>1, <2>4, DispatchOnce
  <2>5. ASSUME NEW p \in Poster, PostStep(p) PROVE OnceFor(v)'
    BY <1>1, <2>5, PostOnce
  <2>6. ASSUME NEW p \in Poster, CallStep(p) PROVE OnceFor(v)'
    BY <1>1, <2>6, CallOnce
  <2>7. CASE UNCHANGED mcvars
    BY <2>1, <2>7 DEF mcvars, vars
  <2> QED BY <2>2, <2>3, <2>4, <2>5, <2>6, <2>7 DEF MCNext, JsStep
<1>3. (OneLossPerRelease /\ LossesAreOver)'
  BY LossesStep DEF IndInv, EachValueOnce
<1> QED BY <1>1, <1>2, <1>3 DEF IndInv, EachValueOnce, InOnePlace, OnceFor

-----------------------------------------------------------------------------
(* Theorems.                                                               *)

\* The strengthening holds in every reachable state.
THEOREM Inductive == MCSpec => []IndInv
BY InitInd, NextInd, PTL DEF MCSpec

\* Every variable keeps its type; the current function is never one that was released.
THEOREM TypeCorrect == MCSpec => []TypeOK
<1>1. IndInv => TypeOK
  BY DEF IndInv, Types
<1> QED BY <1>1, Inductive, PTL

\* Each value posted is in one place, once, whenever a new registration of the callback comes
\* between a thread's copy of the pointer and its call; and of the values that are lost to a
\* freed function in this way, each thread has one at most for each function.
THEOREM ValuesOnce == MCSpec => []EachValueOnce
<1>1. IndInv => EachValueOnce
  BY DEF IndInv
<1> QED BY <1>1, Inductive, PTL
=============================================================================
