-------------------------- MODULE ChunkRouterProofs --------------------------
(***************************************************************************)
(* Proofs about the routing of the chunks: what a run returned, why a      *)
(* chunk was given up, that every try was counted, and that the load of a  *)
(* channel is the number of threads in it, for any number of channels,     *)
(* threads and chunks and any budget.                                      *)
(*                                                                         *)
(* The invariant follows a chunk from the pool to its end: one thread at   *)
(* most has it (WhoWorks), the channels it may still use are those it was  *)
(* not given to (TriesFollow), it has an answer once it is reported        *)
(* (AnswersFollow), and after it was given up nobody has it (RaisedGone)   *)
(* and the cause stays one (RaisedForCause).  A step inside a channel is a *)
(* Moves step, one that lets go of a request is an Ends step, and the      *)
(* others are WorksOn steps; each kind is shown to keep the invariant      *)
(* once.                                                                   *)
(***************************************************************************)
EXTENDS ChunkRouter, FiniteSetTheorems, WellFoundedInduction, TLAPS

Shaped(j) == j = [request |-> j.request, channel |-> j.channel, rest |-> j.rest,
                  attempt |-> j.attempt, wake |-> j.wake, seen |-> j.seen, ok |-> j.ok,
                  answer |-> j.answer]

\* The types of what is counted; when a slot starts is not typed here.
Shape ==
    /\ fallback \in BOOLEAN
    /\ calls \in Nat /\ spent \in Nat /\ taken \in 0 .. NumChunks /\ completed \in Nat
    /\ pc \in [Threads -> Steps]
    /\ job = [t \in Threads |-> job[t]]
    /\ \A t \in Threads :
          /\ Shaped(job[t])
          /\ job[t].request \in Requests \cup {None}
          /\ job[t].channel \in Channels \cup {None}
          /\ job[t].rest \subseteq Channels
          /\ job[t].seen \in Nat /\ job[t].ok \in BOOLEAN /\ job[t].answer \in 0 .. Mock
    /\ inflight \in [Channels -> Nat]
    /\ tried \in [Requests -> SUBSET Channels]
    /\ results \in [Requests -> 0 .. Mock]
    /\ raised \subseteq Requests
    /\ leaked \subseteq Channels \X Chunks
    /\ counted \subseteq Chunks

\* The steps of a request that belong to chunks alone.
ChunkSteps == {"spend", "mark", "settle", "notify", "tell"}

\* A chunk is with one thread of the pool at most, and the caller works on none.
WhoWorks ==
    /\ \A t \in Threads : pc[t] = "idle" <=> Request(t) = None
    /\ \A w \in Workers : pc[w] # "idle" => Request(w) \in 1 .. taken
    /\ pc[Caller] # "idle" => Request(Caller) \notin Chunks /\ pc[Caller] \notin ChunkSteps
    /\ \A v, w \in Workers : v # w /\ pc[v] # "idle" => Request(v) # Request(w)
    /\ \A t \in Threads : pc[t] \in InChannel \cup {"spend"} => Channel(t) \in Channels

\* A request that was given up is with nobody.
RaisedGone ==
    /\ \A k \in raised \cap Chunks : k <= taken
    /\ \A t \in Threads : Request(t) \notin raised
    /\ \A leak \in leaked : leak[2] \in raised

\* Of the channels a chunk may use, those it was not given to are still ahead of it.
TriesFollow ==
    /\ \A k \in Chunks : k > taken => tried[k] = {}
    /\ \A w \in Workers : pc[w] = "select" => tried[Request(w)] = {}
    /\ \A w \in Workers : pc[w] \in InChannel \cup {"spend"} =>
          /\ Channel(w) \in Eligible(Request(w)) \ job[w].rest
          /\ job[w].rest \subseteq Eligible(Request(w))
          /\ tried[Request(w)] =
               Eligible(Request(w)) \ (job[w].rest \cup IF pc[w] = "spend" THEN {Channel(w)} ELSE {})

\* Why a chunk was given up.
Excused(k) ==
    \/ tried[k] = Eligible(k)
    \/ \E c \in Eligible(k) \ tried[k] : ~WithinBudget(c)
    \/ \E c \in Channels : <<c, k>> \in leaked
    \/ k \in collided

RaisedForCause == \A k \in raised \cap Chunks : Excused(k)

\* A chunk that was handed out has its answer, was given up or is with a thread.
AnswersFollow ==
    /\ \A k \in Chunks : k > taken => ~Answered(k)
    /\ \A w \in Workers : pc[w] # "idle" =>
          (Answered(Request(w)) <=> pc[w] \in {"notify", "tell"})
    /\ \A t \in Threads : pc[t] \in {"mark", "settle", "report"} /\ job[t].ok =>
          job[t].answer # None
    /\ \A w \in Workers : pc[w] = "report" => job[w].ok
    /\ \A k \in 1 .. taken : Answered(k) \/ k \in raised \/ \E w \in Workers : Request(w) = k
    /\ outcome = "returned" => taken = NumChunks /\ \A r \in Requests : Answered(r)

CountsAgree ==
    /\ calls = Cardinality(Tries)
    /\ completed = Cardinality({k \in Chunks : Answered(k)})

RInv ==
    /\ Shape /\ WhoWorks /\ RaisedGone /\ TriesFollow /\ RaisedForCause
    /\ AnswersFollow /\ CountsAgree /\ LoadAccounts
-----------------------------------------------------------------------------
(* Lemmas. *)

\* A set of numbers has a least one.
LEMMA MinIn ==
    ASSUME NEW S, S \subseteq Nat, S # {}
    PROVE  Min(S) \in S
  <1>1. PICK x \in S : \A y \in S : <<y, x>> \notin OpToRel(<, Nat)
    BY WFMin, NatLessThanWellFounded
  <1>2. ASSUME NEW y \in S PROVE x <= y
    <2>1. x \in Nat /\ y \in Nat
      OBVIOUS
    <2>2. ~(y < x)
      BY <1>1, <2>1 DEF OpToRel
    <2>3. QED
      BY <2>1, <2>2
  <1>3. QED
    BY <1>2 DEF Min

\* The requests of the pool are the chunks.
LEMMA ChunkKind ==
    ASSUME NEW r \in Requests
    PROVE  KindOf(r) = "chunk" <=> r \in Chunks
  <1>1. CASE r \in Chunks
    BY <1>1 DEF KindOf
  <1>2. CASE r \notin Chunks
    <2>1. r - NumChunks \in 1 .. Len(AfterChunks)
      BY <1>2, RouterAssumption DEF Requests, Chunks
    <2>2. AfterChunks[r - NumChunks] \in Kinds \ {"chunk"}
      BY <2>1, RouterAssumption
    <2>3. QED
      BY <1>2, <2>2 DEF KindOf
  <1>3. QED
    BY <1>1, <1>2

\* Constants that every step needs.
LEMMA Bounds ==
    /\ Chunks \subseteq Requests /\ Requests \subseteq Nat \ {0}
    /\ Caller \notin Workers /\ Caller \in Threads /\ Workers \subseteq Threads
    /\ \A t \in Threads : t = Caller \/ t \in Workers
    /\ None \notin Requests /\ None \notin Channels /\ Mock # None
    /\ Mock \in Nat /\ Channels \subseteq 0 .. Mock /\ Channels \subseteq Nat
    /\ \A r \in Requests : Eligible(r) \subseteq Channels
    /\ \A c \in Channels : ChunkCost[c] \in Nat
    /\ MaxCalls \in Nat /\ MaxCost \in Nat /\ NumChunks \in Nat
  BY RouterAssumption
     DEF Chunks, Requests, Caller, Workers, Threads, None, Channels, Mock, Eligible

\* What is counted is finite.
LEMMA Finite ==
    /\ IsFiniteSet(Threads) /\ IsFiniteSet(Chunks) /\ IsFiniteSet(Channels \X Chunks)
    /\ Cardinality(Chunks) = NumChunks
  <1>1. IsFiniteSet(1 .. NumWorkers) /\ IsFiniteSet(Chunks) /\ IsFiniteSet(Channels)
        /\ Cardinality(Chunks) = NumChunks
    <2>1. NumWorkers \in Nat /\ NumChunks \in Nat /\ NumChannels \in Nat /\ 1 \in Int
      BY RouterAssumption
    <2>2. IsFiniteSet(1 .. NumWorkers) /\ IsFiniteSet(1 .. NumChannels)
          /\ IsFiniteSet(1 .. NumChunks)
      BY <2>1, FS_Interval
    <2>3. Cardinality(1 .. NumChunks) = IF 1 > NumChunks THEN 0 ELSE NumChunks - 1 + 1
      BY <2>1, FS_Interval
    <2>4. QED
      BY <2>1, <2>2, <2>3 DEF Chunks, Channels
  <1>2. IsFiniteSet(Threads)
    BY <1>1, FS_Singleton, FS_Union DEF Threads, Workers
  <1>3. IsFiniteSet(Channels \X Chunks)
    BY <1>1, FS_Product
  <1>4. QED
    BY <1>1, <1>2, <1>3

\* The threads in a channel, and the chunks that left it without a word.
In(c)  == {t \in Threads : Inside(t, c)}
Out(c) == {k \in Chunks : <<c, k>> \in leaked}

LEMMA LoadParts ==
    /\ \A c : IsFiniteSet(In(c)) /\ Cardinality(In(c)) \in Nat
    /\ \A c : IsFiniteSet(Out(c)) /\ Cardinality(Out(c)) \in Nat
    /\ LoadAccounts <=> \A c \in Channels \ torn :
                            inflight[c] = Cardinality(In(c)) + Cardinality(Out(c))
  <1>1. \A c : In(c) \subseteq Threads /\ Out(c) \subseteq Chunks
    BY DEF In, Out
  <1>2. \A c : IsFiniteSet(In(c)) /\ IsFiniteSet(Out(c))
    BY <1>1, Finite, FS_Subset
  <1>3. \A c : Cardinality(In(c)) \in Nat /\ Cardinality(Out(c)) \in Nat
    BY <1>2, FS_CardinalityType
  <1>4. QED
    BY <1>2, <1>3 DEF LoadAccounts, In, Out

\* LoadAccounts in the next state, by the same parts.
LEMMA LoadPartsNext ==
    LoadAccounts' <=> \A c \in Channels \ torn' :
                          inflight'[c] = Cardinality(In(c)') + Cardinality(Out(c)')
  BY DEF LoadAccounts, In, Out

\* A step that moves nobody into or out of a channel leaves the load right.
LEMMA LoadStays ==
    ASSUME LoadAccounts, UNCHANGED <<inflight, leaked, torn>>,
           \A t \in Threads, c \in Channels : Inside(t, c)' <=> Inside(t, c)
    PROVE  LoadAccounts'
  <1>1. \A c \in Channels : In(c)' = In(c) /\ Out(c)' = Out(c)
    BY DEF In, Out
  <1>2. QED
    BY <1>1, LoadParts, LoadPartsNext

\* A thread that counts itself in.
LEMMA LoadEnters ==
    ASSUME Shape, LoadAccounts, NEW t \in Threads, NEW d \in Channels,
           UNCHANGED <<leaked, torn>>,
           inflight' = [inflight EXCEPT ![d] = @ + 1],
           \A u \in Threads \ {t}, c \in Channels : Inside(u, c)' <=> Inside(u, c),
           \A c \in Channels : ~Inside(t, c),
           \A c \in Channels : Inside(t, c)' <=> c = d
    PROVE  LoadAccounts'
  <1>1. \A c \in Channels : Out(c)' = Out(c)
    BY DEF Out
  <1>2. \A c \in Channels \ {d} : In(c)' = In(c) /\ inflight'[c] = inflight[c]
    BY DEF In, Shape
  <1>3. In(d)' = In(d) \cup {t} /\ t \notin In(d) /\ inflight'[d] = inflight[d] + 1
    BY DEF In, Shape
  <1>4. Cardinality(In(d)') = Cardinality(In(d)) + 1
    BY <1>3, LoadParts, FS_AddElement
  <1>5. ASSUME NEW c \in Channels \ torn'
        PROVE  inflight'[c] = Cardinality(In(c)') + Cardinality(Out(c)')
    <2>1. inflight[c] = Cardinality(In(c)) + Cardinality(Out(c))
      BY LoadParts
    <2>2. CASE c = d
      <3>1. Cardinality(In(c)) \in Nat /\ Cardinality(Out(c)) \in Nat
        BY LoadParts
      <3>2. inflight'[c] = inflight[c] + 1 /\ Cardinality(In(c)') = Cardinality(In(c)) + 1
        BY <1>3, <1>4, <2>2
      <3>3. Out(c)' = Out(c)
        BY <1>1
      <3>4. QED
        BY <2>1, <3>1, <3>2, <3>3
    <2>3. CASE c # d
      BY <1>1, <1>2, <2>1, <2>3
    <2>4. QED
      BY <2>2, <2>3
  <1>6. QED
    BY <1>5, LoadPartsNext

\* A thread that counts itself out, from what it read before.
LEMMA LoadLeaves ==
    ASSUME Shape, LoadAccounts, NEW t \in Threads, Leave(t),
           NEW d \in Channels, d = Channel(t), Inside(t, d),
           \A u \in Threads \ {t}, c \in Channels : Inside(u, c)' <=> Inside(u, c),
           \A c \in Channels : ~Inside(t, c)'
    PROVE  LoadAccounts' /\ inflight' \in [Channels -> Nat]
  <1>1. \A c \in Channels : Out(c)' = Out(c)
    BY DEF Out, Leave
  <1>2. job[t].seen \in Nat
    BY DEF Shape
  <1>3. Max({0, job[t].seen - 1}) = IF job[t].seen = 0 THEN 0 ELSE job[t].seen - 1
    <2>1. CASE job[t].seen = 0
      <3>1. \A x \in {0, job[t].seen - 1} : x = 0 \/ x = -1
        BY <2>1
      <3>2. QED
        BY <2>1, <3>1 DEF Max
    <2>2. CASE job[t].seen # 0
      <3>1. job[t].seen - 1 \in Nat
        BY <1>2, <2>2
      <3>2. \A y \in {0, job[t].seen - 1} : job[t].seen - 1 >= y
        BY <3>1
      <3>3. \A x \in {0, job[t].seen - 1} :
              (\A y \in {0, job[t].seen - 1} : x >= y) => x = job[t].seen - 1
        BY <3>1
      <3>4. QED
        BY <2>2, <3>2, <3>3 DEF Max
    <2>3. QED
      BY <2>1, <2>2
  <1>4. inflight' \in [Channels -> Nat]
    BY <1>2, <1>3 DEF Leave, Shape
  <1>5. \A c \in Channels \ {d} :
            In(c)' = In(c) /\ inflight'[c] = inflight[c] /\ (c \in torn' <=> c \in torn)
    <2>1. \A c \in Channels \ {d} : ~Inside(t, c)
      BY DEF Inside
    <2>2. QED
      BY <2>1 DEF In, Shape, Leave
  <1>6. In(d)' = In(d) \ {t} /\ t \in In(d)
    BY DEF In
  <1>7. Cardinality(In(d)') = Cardinality(In(d)) - 1 /\ Cardinality(In(d)) # 0
    <2>1. Cardinality(In(d)) # 0
      BY <1>6, LoadParts, FS_EmptySet
    <2>2. QED
      BY <1>6, <2>1, LoadParts, FS_RemoveElement
  <1>8. ASSUME NEW c \in Channels \ torn'
        PROVE  inflight'[c] = Cardinality(In(c)') + Cardinality(Out(c)')
    <2>1. CASE c = d
      <3>1. c \notin torn /\ inflight[c] = job[t].seen
        BY <2>1 DEF Leave
      <3>2. inflight[c] = Cardinality(In(c)) + Cardinality(Out(c))
        BY <3>1, LoadParts
      <3>3. Cardinality(In(c)) \in Nat /\ Cardinality(Out(c)) \in Nat
        BY LoadParts
      <3>4. inflight[c] # 0
        BY <1>7, <2>1, <3>2, <3>3
      <3>5. inflight'[c] = inflight[c] - 1
        BY <1>3, <2>1, <3>1, <3>4 DEF Leave, Shape
      <3>6. Out(c)' = Out(c) /\ Cardinality(In(c)') = Cardinality(In(c)) - 1
        BY <1>1, <1>7, <2>1
      <3>7. QED
        BY <3>2, <3>3, <3>5, <3>6
    <2>2. CASE c # d
      <3>1. inflight[c] = Cardinality(In(c)) + Cardinality(Out(c))
        BY <1>5, <2>2, LoadParts
      <3>2. QED
        BY <1>1, <1>5, <2>2, <3>1
    <2>3. QED
      BY <2>1, <2>2
  <1>9. QED
    BY <1>4, <1>8, LoadPartsNext

\* A thread that leaves with an exception of the cache is still counted.
LEMMA LoadLeaks ==
    ASSUME Shape, LoadAccounts, NEW t \in Threads, NEW d \in Channels, NEW k \in Chunks,
           UNCHANGED <<inflight, torn>>, leaked' = leaked \cup {<<d, k>>},
           <<d, k>> \notin leaked, Inside(t, d),
           \A u \in Threads \ {t}, c \in Channels : Inside(u, c)' <=> Inside(u, c),
           \A c \in Channels : ~Inside(t, c)'
    PROVE  LoadAccounts'
  <1>1. \A c \in Channels \ {d} : ~Inside(t, c)
    BY DEF Inside
  <1>2. \A c \in Channels \ {d} : In(c)' = In(c) /\ Out(c)' = Out(c)
    BY <1>1 DEF In, Out
  <1>3. In(d)' = In(d) \ {t} /\ t \in In(d)
    BY DEF In
  <1>4. Cardinality(In(d)') = Cardinality(In(d)) - 1 /\ Cardinality(In(d)) # 0
    <2>1. Cardinality(In(d)) # 0
      BY <1>3, LoadParts, FS_EmptySet
    <2>2. QED
      BY <1>3, <2>1, LoadParts, FS_RemoveElement
  <1>5. Out(d)' = Out(d) \cup {k} /\ k \notin Out(d)
    BY DEF Out
  <1>6. Cardinality(Out(d)') = Cardinality(Out(d)) + 1
    BY <1>5, LoadParts, FS_AddElement
  <1>7. ASSUME NEW c \in Channels \ torn'
        PROVE  inflight'[c] = Cardinality(In(c)') + Cardinality(Out(c)')
    <2>1. inflight'[c] = Cardinality(In(c)) + Cardinality(Out(c))
      BY LoadParts
    <2>2. CASE c = d
      BY <1>4, <1>6, <2>1, <2>2, LoadParts
    <2>3. CASE c # d
      BY <1>2, <2>1, <2>3
    <2>4. QED
      BY <2>2, <2>3
  <1>8. QED
    BY <1>7, LoadPartsNext

\* What excused a chunk goes on excusing it.
LEMMA ExcusedStays ==
    ASSUME Shape, NEW k \in Chunks, Excused(k), tried'[k] = tried[k],
           leaked \subseteq leaked', collided \subseteq collided',
           calls' \in Nat, spent' \in Nat, calls <= calls', spent <= spent'
    PROVE  Excused(k)'
  <1>1. ASSUME NEW c \in Eligible(k), ~WithinBudget(c) PROVE ~WithinBudget(c)'
    <2>1. ChunkCost[c] \in Nat
      BY Bounds
    <2>2. QED
      BY <1>1, <2>1, Bounds DEF WithinBudget, Shape
  <1>2. QED
    BY <1>1 DEF Excused
-----------------------------------------------------------------------------
(* A request inside its channel: what it does there changes no account. *)

\* A thread goes on with its request in the same channel.
Moves(t) ==
    /\ pc[t] \in InChannel \ {"settle"}
    /\ pc' = [u \in Threads |-> IF u = t THEN pc'[t] ELSE pc[u]]
    /\ pc'[t] \in InChannel \cup {"report"}
    /\ t \in Workers => pc'[t] \in InChannel
    /\ t = Caller => pc'[t] \notin ChunkSteps
    /\ job' = [u \in Threads |-> IF u = t THEN job'[t] ELSE job[u]]
    /\ Shaped(job'[t])
    /\ job'[t].request = job[t].request
    /\ job'[t].channel = job[t].channel
    /\ job'[t].rest = job[t].rest
    /\ job'[t].seen \in Nat /\ job'[t].ok \in BOOLEAN /\ job'[t].answer \in 0 .. Mock
    /\ pc'[t] \in {"mark", "settle", "report"} /\ job'[t].ok => job'[t].answer # None
    /\ UNCHANGED <<fallback, taken, inflight, calls, spent, results, completed, counted,
                   raised, outcome, tried, leaked, torn, collided>>

\* The requests of the threads: chunks for the pool, others for the caller.
LEMMA WhoHas ==
    ASSUME Shape, WhoWorks, NEW t \in Threads, pc[t] # "idle"
    PROVE  /\ Request(t) \in Requests
           /\ t \in Workers => Request(t) \in Chunks /\ IsChunk(t)
           /\ t = Caller => Request(t) \notin Chunks /\ ~IsChunk(t)
  <1>1. Request(t) \in Requests
    BY DEF Shape, WhoWorks, Request
  <1>2. t \in Workers => Request(t) \in Chunks
    <2>1. t \in Workers => Request(t) \in 1 .. taken
      BY DEF WhoWorks
    <2>2. taken \in 0 .. NumChunks
      BY DEF Shape
    <2>3. QED
      BY <2>1, <2>2, Bounds DEF Chunks
  <1>3. t = Caller => Request(t) \notin Chunks
    BY DEF WhoWorks
  <1>4. QED
    BY <1>1, <1>2, <1>3, ChunkKind DEF IsChunk

\* A step inside a channel keeps the invariant.
LEMMA MovesOn ==
    ASSUME RInv, NEW t \in Threads, Moves(t)
    PROVE  RInv'
  <1> USE DEF RInv
  <1>1. Shape'
    BY DEF Shape, Moves, InChannel, Steps
  <1>2. WhoWorks'
    BY Bounds DEF WhoWorks, Moves, InChannel, Request, Channel
  <1>3. RaisedGone'
    BY DEF RaisedGone, Moves, Request, Shape
  <1>t. /\ pc[t] \in InChannel /\ pc[t] \notin {"idle", "select", "spend", "notify", "tell"}
        /\ pc'[t] \in InChannel \cup {"report"} /\ t \in Workers => pc'[t] \in InChannel
        /\ pc'[t] \notin {"idle", "select", "spend", "notify", "tell"}
        /\ \A u \in Threads \ {t} : pc'[u] = pc[u] /\ job'[u] = job[u]
        /\ job'[t].request = job[t].request /\ job'[t].channel = job[t].channel
        /\ job'[t].rest = job[t].rest
        /\ UNCHANGED <<tried, results, raised, taken, outcome>>
    BY DEF Moves, InChannel
  <1>4. TriesFollow'
    <2>1. \A k \in Chunks : k > taken' => tried'[k] = {}
      BY <1>t DEF TriesFollow
    <2>2. \A w \in Workers : pc'[w] = "select" => tried'[Request(w)'] = {}
      BY <1>t, Bounds DEF TriesFollow, Request
    <2>3. ASSUME NEW w \in Workers, pc'[w] \in InChannel \cup {"spend"}
          PROVE  /\ Channel(w)' \in Eligible(Request(w)') \ job'[w].rest
                 /\ job'[w].rest \subseteq Eligible(Request(w)')
                 /\ tried'[Request(w)'] =
                      Eligible(Request(w)') \ (job'[w].rest \cup
                        IF pc'[w] = "spend" THEN {Channel(w)'} ELSE {})
      <3>1. /\ Request(w)' = Request(w) /\ Channel(w)' = Channel(w) /\ job'[w].rest = job[w].rest
            /\ pc[w] \in InChannel \cup {"spend"} /\ (pc'[w] = "spend" <=> pc[w] = "spend")
        BY <1>t, <2>3, Bounds DEF Request, Channel
      <3>2. QED
        BY <1>t, <3>1 DEF TriesFollow
    <2>4. QED
      BY <2>1, <2>2, <2>3 DEF TriesFollow
  <1>5. RaisedForCause'
    BY DEF RaisedForCause, Excused, Moves, WithinBudget
  <1>6. AnswersFollow'
    <2>1. \A w \in Threads : Request(w)' = Request(w)
      BY <1>t DEF Request
    <2>2. \A r : Answered(r)' <=> Answered(r)
      BY <1>t DEF Answered
    <2>3. \A w \in Workers : /\ pc'[w] # "idle" => pc[w] # "idle"
                             /\ pc'[w] \in {"notify", "tell"} <=> pc[w] \in {"notify", "tell"}
                             /\ pc'[w] = "report" => pc[w] = "report" /\ job'[w].ok = job[w].ok
      BY <1>t, Bounds DEF InChannel
    <2>4. \A u \in Threads : pc'[u] \in {"mark", "settle", "report"} /\ job'[u].ok =>
            job'[u].answer # None
      BY <1>t DEF AnswersFollow, Moves
    <2>5. Workers \subseteq Threads
      BY Bounds
    <2>6. \A w \in Workers : pc'[w] # "idle" =>
            (Answered(Request(w))' <=> pc'[w] \in {"notify", "tell"})
      BY <2>1, <2>2, <2>3, <2>5 DEF AnswersFollow
    <2>7. \A w \in Workers : pc'[w] = "report" => job'[w].ok
      BY <2>3 DEF AnswersFollow
    <2>8. \A k \in 1 .. taken' :
            Answered(k)' \/ k \in raised' \/ \E w \in Workers : Request(w)' = k
      BY <1>t, <2>1, <2>2, <2>5 DEF AnswersFollow
    <2>9. QED
      BY <1>t, <2>2, <2>4, <2>6, <2>7, <2>8 DEF AnswersFollow
  <1>7. CountsAgree'
    BY DEF CountsAgree, Tries, Answered, Moves
  <1>8. LoadAccounts'
    <2>1. pc[t] # "idle"
      BY DEF Moves, InChannel
    <2>2. \A u \in Threads, c \in Channels : Inside(u, c)' <=> Inside(u, c)
      <3>1. \A u \in Threads \ {t}, c \in Channels : Inside(u, c)' <=> Inside(u, c)
        BY DEF Inside, Moves, Channel, IsChunk, Request
      <3>2. \A c \in Channels : Inside(t, c)' <=> Inside(t, c)
        <4>1. CASE t \in Workers
          BY <4>1 DEF Inside, Moves, Channel, IsChunk, Request
        <4>2. CASE t = Caller
          <5>1. ~IsChunk(t) /\ ~IsChunk(t)'
            BY <2>1, <4>2, WhoHas, Bounds DEF IsChunk, Request, Moves
          <5>2. QED
            BY <5>1 DEF Inside
        <4>3. QED
          BY <4>1, <4>2, Bounds
      <3>3. QED
        BY <3>1, <3>2
    <2>3. QED
      BY <2>2, LoadStays DEF Moves
  <1>9. QED
    BY <1>1, <1>2, <1>3, <1>4, <1>5, <1>6, <1>7, <1>8

\* The steps between the entry into a channel and the mark of its end.
LEMMA InChannelMoves ==
    ASSUME RInv, NEW t \in Threads,
           \/ CacheHit(t) \/ CircuitRefuses(t) \/ Admit(t) \/ ReserveSlot(t) \/ OverQuota(t)
           \/ Wake(t) \/ NoStream(t) \/ Retry(t) \/ Store(t) \/ GiveUp(t) \/ MarkHealth(t)
    PROVE  Moves(t)
  <1>1. pc[t] \in InChannel \ {"settle"}
    BY DEF CacheHit, CircuitRefuses, Admit, ReserveSlot, OverQuota, Wake, NoStream, Retry,
           Store, GiveUp, MarkHealth, At, Sent, InChannel
  <1>2. /\ Shape /\ WhoWorks /\ pc[t] # "idle"
        /\ Channel(t) \in Channels /\ Channel(t) \in Nat
    BY <1>1, Bounds DEF RInv, WhoWorks, InChannel
  <1>3. t \in Workers \/ t = Caller
    BY Bounds
  <1>4. /\ t \in Workers => IsChunk(t) /\ t # Caller
        /\ t = Caller => ~IsChunk(t)
    BY <1>2, WhoHas, Bounds
  <1>5. /\ Shaped(job[t]) /\ job[t].seen \in Nat /\ job[t].ok \in BOOLEAN
        /\ job[t].answer \in 0 .. Mock /\ fallback \in BOOLEAN
        /\ job = [u \in Threads |-> job[u]] /\ pc \in [Threads -> Steps]
        /\ inflight \in [Channels -> Nat]
    BY <1>2 DEF Shape
  <1>6. 0 \in 0 .. Mock /\ Mock \in 0 .. Mock /\ Channel(t) \in 0 .. Mock /\ Mock # None
        /\ Channel(t) # None /\ None = 0
    BY <1>2, Bounds DEF None
  <1>7. CASE Admit(t)
    BY <1>1, <1>3, <1>4, <1>5, <1>7
       DEF Admit, Goto, Moves, Shaped, At, shared, told, history, InChannel, ChunkSteps
  <1>8. CASE ReserveSlot(t)
    BY <1>1, <1>3, <1>4, <1>5, <1>8
       DEF ReserveSlot, Goto, Moves, Shaped, At, told, InChannel, ChunkSteps
  <1>9. CASE Wake(t) \/ NoStream(t)
    BY <1>1, <1>3, <1>4, <1>5, <1>9
       DEF Wake, NoStream, Goto, Moves, Shaped, At, shared, told, history, InChannel, ChunkSteps
  <1>10. CASE Retry(t)
    BY <1>1, <1>3, <1>4, <1>5, <1>10
       DEF Retry, Goto, Moves, Shaped, Sent, shared, told, history, InChannel, ChunkSteps
  <1>11. CASE MarkHealth(t)
    <2>1. t # Caller
      BY <1>11 DEF MarkHealth, At, RInv, WhoWorks, ChunkSteps
    <2>2. inflight[Channel(t)] \in Nat
      BY <1>2, <1>5
    <2>3. job[t].ok => job[t].answer # None
      BY <1>11 DEF MarkHealth, At, RInv, AnswersFollow
    <2>4. QED
      BY <1>1, <1>5, <1>11, <2>1, <2>2, <2>3
         DEF MarkHealth, Goto, Moves, Shaped, At, told, history, InChannel, ChunkSteps
  <1>12. ASSUME NEW ok \in BOOLEAN, NEW answer \in 0 .. Mock, ok => answer # None,
                Ended(t, ok, answer), AfterEnd(t),
                UNCHANGED <<fallback, taken, inflight, calls, spent, results, completed,
                            counted, raised, outcome, tried, leaked, torn, collided>>
         PROVE  Moves(t)
    <2>1. /\ job'[t].ok = ok /\ job'[t].answer = answer /\ Shaped(job'[t])
          /\ job'[t].request = job[t].request /\ job'[t].channel = job[t].channel
          /\ job'[t].rest = job[t].rest /\ job'[t].seen = job[t].seen
          /\ job' = [u \in Threads |-> IF u = t THEN job'[t] ELSE job[u]]
      BY <1>5, <1>12 DEF Ended, Shaped
    <2>2. /\ pc' = [u \in Threads |-> IF u = t THEN pc'[t] ELSE pc[u]]
          /\ pc'[t] = IF IsChunk(t) THEN "mark" ELSE "report"
      BY <1>5, <1>12 DEF AfterEnd, Goto
    <2>3. QED
      BY <1>1, <1>3, <1>4, <1>5, <1>12, <2>1, <2>2 DEF Moves, InChannel, ChunkSteps
  <1>13. CASE CacheHit(t)
    BY <1>6, <1>12, <1>13 DEF CacheHit, shared, told, history
  <1>14. CASE CircuitRefuses(t) \/ OverQuota(t)
    BY <1>6, <1>12, <1>14 DEF CircuitRefuses, OverQuota, shared, told, history
  <1>15. CASE Store(t)
    BY <1>6, <1>12, <1>15 DEF Store, told, history
  <1>16. CASE GiveUp(t)
    BY <1>5, <1>6, <1>12, <1>16 DEF GiveUp, told, history
  <1>17. QED
    BY <1>7, <1>8, <1>9, <1>10, <1>11, <1>13, <1>14, <1>15, <1>16
-----------------------------------------------------------------------------
(* A thread ends its request. *)

\* Two threads never work on the same request.
LEMMA Apart ==
    ASSUME Shape, WhoWorks, NEW t \in Threads, NEW u \in Threads, u # t, pc[t] # "idle"
    PROVE  Request(u) # Request(t)
  <1>1. CASE pc[u] = "idle"
    <2>1. Request(u) = None /\ Request(t) # None
      BY <1>1 DEF WhoWorks
    <2>2. QED
      BY <2>1
  <1>2. CASE pc[u] # "idle"
    <2>1. CASE t \in Workers /\ u \in Workers
      BY <2>1 DEF WhoWorks
    <2>2. CASE t = Caller \/ u = Caller
      BY <1>2, <2>2, WhoHas, Bounds
    <2>3. QED
      BY <2>1, <2>2, Bounds
  <1>3. QED
    BY <1>1, <1>2

\* The others go on as they were.
OthersStay(t) == \A u \in Threads \ {t} : pc'[u] = pc[u] /\ job'[u] = job[u]

\* A thread becomes idle; a chunk has been answered or is given up.
Ends(t) ==
    /\ pc[t] # "idle"
    /\ job' = [job EXCEPT ![t] = Idle] /\ Goto(t, "idle")
    /\ raised \subseteq raised' /\ raised' \subseteq raised \cup {Request(t)}
    /\ UNCHANGED <<fallback, taken, calls, spent, completed, outcome, tried>>
    /\ results' \in [Requests -> 0 .. Mock]
    /\ \A q \in Chunks : results'[q] = results[q]
    /\ \A q \in Requests : results[q] # None => results'[q] # None
    /\ inflight' \in [Channels -> Nat] /\ counted' \subseteq Chunks
    /\ leaked \subseteq leaked' /\ leaked' \subseteq Channels \X Chunks
    /\ \A leak \in leaked' : leak \in leaked \/ (leak[2] = Request(t) /\ leak[2] \in raised')
    /\ collided \subseteq collided'

\* A thread that lets go of its request keeps the invariant: a chunk it had was answered
\* or has a cause to be given up.
LEMMA EndsKeeps ==
    ASSUME RInv, NEW t \in Threads, Ends(t), LoadAccounts',
           t \in Workers => Answered(Request(t)) \/ Request(t) \in raised',
           NEW r, r = Request(t), r \in Chunks /\ r \in raised' => Excused(r)'
    PROVE  RInv'
  <1>1. /\ Shape /\ WhoWorks /\ RaisedGone /\ TriesFollow /\ RaisedForCause
        /\ AnswersFollow /\ CountsAgree
    BY DEF RInv
  <1>2. /\ pc[t] # "idle" /\ pc' \in [Threads -> Steps] /\ pc'[t] = "idle"
        /\ job' = [u \in Threads |-> job'[u]] /\ job'[t] = Idle
        /\ OthersStay(t)
    BY <1>1 DEF Ends, Goto, Shape, OthersStay, Steps
  <1>3. /\ raised \subseteq raised' /\ raised' \subseteq raised \cup {Request(t)}
        /\ UNCHANGED <<taken, calls, spent, completed, outcome, tried>>
        /\ \A q \in Chunks : results'[q] = results[q]
    BY DEF Ends
  <1>4. \A u \in Threads \ {t} : Request(u)' = Request(u) /\ Channel(u)' = Channel(u)
    BY <1>2 DEF Request, Channel, OthersStay
  <1>5. Request(t)' = None
    BY <1>2 DEF Request, Idle
  <1>6. Request(t) \in Requests
    BY <1>1, <1>2, WhoHas
  <1>7. Shape'
    <2>1. Shaped(Idle) /\ Idle.request = None /\ Idle.channel = None /\ Idle.rest = {}
          /\ Idle.seen = 0 /\ Idle.ok = FALSE /\ Idle.answer \in 0 .. Mock
      BY Bounds DEF Shaped, Idle, None
    <2>2. \A u \in Threads :
          /\ Shaped(job'[u])
          /\ job'[u].request \in Requests \cup {None}
          /\ job'[u].channel \in Channels \cup {None}
          /\ job'[u].rest \subseteq Channels
          /\ job'[u].seen \in Nat /\ job'[u].ok \in BOOLEAN /\ job'[u].answer \in 0 .. Mock
      <3>1. TAKE u \in Threads
      <3>2. CASE u = t
        <4>1. job'[u] = Idle
          BY <1>2, <3>2
        <4>2. 0 \in Nat /\ FALSE \in BOOLEAN
          OBVIOUS
        <4>3. Shaped(job'[u])
          BY <2>1, <4>1 DEF Shaped
        <4>4. QED
          BY <2>1, <4>1, <4>2, <4>3
      <3>3. CASE u # t
        <4>1. job'[u] = job[u]
          BY <1>2, <3>3 DEF OthersStay
        <4>2. QED
          BY <1>1, <4>1 DEF Shape
      <3>4. QED
        BY <3>2, <3>3
    <2>3. QED
      BY <1>1, <1>2, <1>3, <1>6, <2>2 DEF Shape, Ends
  <1>8. WhoWorks'
    <2>1. \A u \in Threads : pc'[u] = "idle" <=> Request(u)' = None
      BY <1>1, <1>2, <1>4, <1>5 DEF WhoWorks, OthersStay
    <2>2. \A u \in Threads : pc'[u] # "idle" =>
            u # t /\ pc'[u] = pc[u] /\ Request(u)' = Request(u) /\ Channel(u)' = Channel(u)
      BY <1>2, <1>4 DEF OthersStay
    <2>3. \A w \in Workers : pc'[w] # "idle" => Request(w)' \in 1 .. taken'
      BY <1>1, <1>3, <2>2, Bounds DEF WhoWorks
    <2>4. pc'[Caller] # "idle" => Request(Caller)' \notin Chunks /\ pc'[Caller] \notin ChunkSteps
      BY <1>1, <2>2, Bounds DEF WhoWorks
    <2>5. ASSUME NEW v \in Workers, NEW w \in Workers, v # w, pc'[v] # "idle"
          PROVE  Request(v)' # Request(w)'
      <3>1. v \in Threads /\ w \in Threads /\ v # t /\ pc[v] # "idle" /\ Request(v)' = Request(v)
        BY <2>2, <2>5, Bounds
      <3>2. CASE w = t
        BY <1>1, <1>5, <3>1, <3>2 DEF WhoWorks
      <3>3. CASE w # t
        BY <1>1, <1>4, <2>5, <3>1, <3>3 DEF WhoWorks
      <3>4. QED
        BY <3>2, <3>3
    <2>6. \A u \in Threads : pc'[u] \in InChannel \cup {"spend"} => Channel(u)' \in Channels
      BY <1>1, <2>2 DEF WhoWorks, InChannel
    <2>7. QED
      BY <2>1, <2>3, <2>4, <2>5, <2>6 DEF WhoWorks
  <1>9. RaisedGone'
    <2>1. \A k \in raised' \cap Chunks : k <= taken'
      <3>1. Request(t) \in Chunks => t \in Workers
        BY <1>1, <1>2, WhoHas, Bounds
      <3>2. Request(t) \in Chunks => Request(t) <= taken
        BY <1>1, <1>2, <3>1 DEF WhoWorks
      <3>3. QED
        BY <1>1, <1>3, <3>2 DEF RaisedGone
    <2>2. \A u \in Threads : Request(u)' \notin raised'
      <3>1. None \notin raised'
        BY <1>1, <1>3, <1>6, Bounds DEF Shape
      <3>2. QED
        BY <1>1, <1>2, <1>3, <1>4, <1>5, <3>1, Apart DEF RaisedGone
    <2>3. \A leak \in leaked' : leak[2] \in raised'
      BY <1>1, <1>3 DEF RaisedGone, Ends
    <2>4. QED
      BY <2>1, <2>2, <2>3 DEF RaisedGone
  <1>10. TriesFollow'
    <2>1. \A w \in Workers : pc'[w] = "select" => tried'[Request(w)'] = {}
      BY <1>1, <1>2, <1>3, <1>4, Bounds DEF TriesFollow, OthersStay
    <2>2. ASSUME NEW w \in Workers, pc'[w] \in InChannel \cup {"spend"}
          PROVE  /\ Channel(w)' \in Eligible(Request(w)') \ job'[w].rest
                 /\ job'[w].rest \subseteq Eligible(Request(w)')
                 /\ tried'[Request(w)'] =
                      Eligible(Request(w)') \ (job'[w].rest \cup
                        IF pc'[w] = "spend" THEN {Channel(w)'} ELSE {})
      <3>1. w # t /\ w \in Threads
        BY <1>2, <2>2, Bounds DEF InChannel
      <3>2. pc'[w] = pc[w] /\ job'[w] = job[w]
        BY <1>2, <3>1 DEF OthersStay
      <3>3. QED
        BY <1>1, <1>3, <1>4, <2>2, <3>1, <3>2 DEF TriesFollow
    <2>3. QED
      BY <1>1, <1>3, <2>1, <2>2 DEF TriesFollow
  <1>11. RaisedForCause'
    <2>1. ASSUME NEW k \in raised \cap Chunks PROVE Excused(k)'
      BY <1>1, <1>3, <2>1, ExcusedStays DEF RaisedForCause, Shape, Ends
    <2>2. raised' \subseteq raised \cup {r}
      BY <1>3
    <2>3. QED
      BY <2>1, <2>2 DEF RaisedForCause
  <1>12. AnswersFollow'
    <2>1. \A q \in Chunks : Answered(q)' <=> Answered(q)
      BY <1>3 DEF Answered
    <2>2. \A w \in Workers : pc'[w] # "idle" =>
            (Answered(Request(w))' <=> pc'[w] \in {"notify", "tell"})
      <3>1. \A w \in Workers : pc'[w] # "idle" =>
              w # t /\ pc'[w] = pc[w] /\ Request(w)' = Request(w) /\ Request(w) \in Chunks
        BY <1>1, <1>2, <1>4, WhoHas, Bounds DEF OthersStay
      <3>2. QED
        BY <1>1, <1>3, <3>1 DEF AnswersFollow, Answered
    <2>3. \A u \in Threads : pc'[u] \in {"mark", "settle", "report"} /\ job'[u].ok =>
            job'[u].answer # None
      BY <1>1, <1>2 DEF AnswersFollow, OthersStay
    <2>4. \A w \in Workers : pc'[w] = "report" => job'[w].ok
      BY <1>1, <1>2, Bounds DEF AnswersFollow, OthersStay
    <2>5. \A k \in 1 .. taken' :
            Answered(k)' \/ k \in raised' \/ \E w \in Workers : Request(w)' = k
      <3>1. TAKE k \in 1 .. taken'
      <3>2. k \in 1 .. taken /\ k \in Chunks
        <4>1. taken \in 0 .. NumChunks
          BY <1>1 DEF Shape
        <4>2. QED
          BY <1>3, <4>1, Bounds DEF Chunks
      <3>3. CASE \E w \in Workers : Request(w) = k
        <4>1. PICK w \in Workers : Request(w) = k
          BY <3>3
        <4>2. CASE w = t
          BY <1>1, <2>1, <3>2, <4>1, <4>2
        <4>3. CASE w # t
          BY <1>4, <4>1, <4>3, Bounds
        <4>4. QED
          BY <4>2, <4>3
      <3>4. CASE Answered(k) \/ k \in raised
        BY <1>3, <2>1, <3>2, <3>4
      <3>5. QED
        BY <1>1, <3>2, <3>3, <3>4 DEF AnswersFollow
    <2>6. \A q \in Requests : Answered(q) => Answered(q)'
      BY DEF Answered, Ends
    <2>7. QED
      BY <1>1, <1>3, <2>1, <2>2, <2>3, <2>4, <2>5, <2>6 DEF AnswersFollow
  <1>13. CountsAgree'
    BY <1>1, <1>3 DEF CountsAgree, Tries, Answered
  <1>14. QED
    BY <1>7, <1>8, <1>9, <1>10, <1>11, <1>12, <1>13 DEF RInv

\* A thread that is in no channel, before and after, leaves the load right.
LEMMA OutsideStays ==
    ASSUME LoadAccounts, NEW t \in Threads, UNCHANGED <<inflight, leaked, torn>>,
           OthersStay(t), \A c \in Channels : ~Inside(t, c) /\ ~Inside(t, c)'
    PROVE  LoadAccounts'
  <1>1. \A u \in Threads, c \in Channels : Inside(u, c)' <=> Inside(u, c)
    BY DEF Inside, OthersStay, Channel, IsChunk, Request
  <1>2. QED
    BY <1>1, LoadStays

\* The progress report of a chunk, whether or not it meets that of another thread.
LEMMA TellKeeps ==
    ASSUME RInv, NEW t \in Threads, Tell(t) \/ TellCollides(t)
    PROVE  RInv'
  <1>1. /\ pc[t] = "tell" /\ Shape /\ WhoWorks /\ AnswersFollow /\ LoadAccounts
        /\ inflight \in [Channels -> Nat] /\ counted \subseteq Chunks
        /\ leaked \subseteq Channels \X Chunks
        /\ results \in [Requests -> 0 .. Mock]
    BY DEF Tell, TellCollides, At, RInv, Shape
  <1>2. /\ Ends(t) /\ UNCHANGED <<inflight, leaked, torn>>
        /\ Request(t) \in raised' => Request(t) \in raised \/ Request(t) \in collided'
    BY <1>1 DEF Tell, TellCollides, Ends, Raise, Goto, shared, told, history
  <1>3. OthersStay(t) /\ pc'[t] = "idle"
    BY <1>1, <1>2 DEF Ends, Goto, Shape, OthersStay
  <1>4. LoadAccounts'
    <2>1. \A c \in Channels : ~Inside(t, c) /\ ~Inside(t, c)'
      BY <1>1, <1>3 DEF Inside, InChannel
    <2>2. QED
      BY <1>1, <1>2, <1>3, <2>1, OutsideStays
  <1>5. t \in Workers => Answered(Request(t))
    BY <1>1 DEF AnswersFollow
  <1>6. ASSUME NEW r, r = Request(t), r \in raised' PROVE Excused(r)'
    <2>1. r \notin raised
      BY <1>6 DEF RInv, RaisedGone
    <2>2. r \in collided'
      BY <1>2, <1>6, <2>1
    <2>3. QED
      BY <2>2 DEF Excused
  <1>7. QED
    BY <1>2, <1>4, <1>5, <1>6, EndsKeeps

\* _within_budget refuses: the channel it refuses is the cause, and stays one.
LEMMA OverBudgetKeeps ==
    ASSUME RInv, NEW t \in Threads, OverBudget(t)
    PROVE  RInv'
  <1>1. /\ pc[t] = "spend" /\ Shape /\ WhoWorks /\ LoadAccounts /\ TriesFollow
        /\ inflight \in [Channels -> Nat] /\ counted \subseteq Chunks
        /\ leaked \subseteq Channels \X Chunks
        /\ results \in [Requests -> 0 .. Mock]
    BY DEF OverBudget, At, RInv, Shape
  <1>2. Ends(t) /\ UNCHANGED <<inflight, leaked, torn, calls, spent, tried>>
        /\ raised' = raised \cup {Request(t)}
    BY <1>1 DEF OverBudget, Ends, Raise, Goto, shared, history
  <1>3. OthersStay(t) /\ pc'[t] = "idle"
    BY <1>1, <1>2 DEF Ends, Goto, Shape, OthersStay
  <1>4. LoadAccounts'
    <2>1. \A c \in Channels : ~Inside(t, c) /\ ~Inside(t, c)'
      BY <1>1, <1>3 DEF Inside, InChannel
    <2>2. QED
      BY <1>1, <1>2, <1>3, <2>1, OutsideStays
  <1>5. t \in Workers
    BY <1>1, Bounds DEF WhoWorks, ChunkSteps
  <1>6. ASSUME NEW r, r = Request(t) PROVE Excused(r)'
    <2>1. /\ Channel(t) \in Eligible(Request(t))
          /\ tried[Request(t)] = Eligible(Request(t)) \ (job[t].rest \cup {Channel(t)})
      BY <1>1, <1>5 DEF TriesFollow
    <2>2. ~WithinBudget(Channel(t))
      BY DEF OverBudget
    <2>3. Excused(r)
      BY <1>6, <2>1, <2>2 DEF Excused
    <2>4. r \in Chunks
      BY <1>1, <1>5, <1>6, WhoHas
    <2>5. QED
      BY <1>1, <1>2, <2>3, <2>4, ExcusedStays DEF Shape, Ends
  <1>7. QED
    BY <1>2, <1>4, <1>6, EndsKeeps

\* A request after the chunks fails in the calling thread.
LEMMA CallerRaisesKeeps ==
    ASSUME RInv, NEW t \in Threads, CallerRaises(t)
    PROVE  RInv'
  <1>1. /\ pc[t] = "report" /\ ~job[t].ok /\ Shape /\ WhoWorks /\ AnswersFollow /\ LoadAccounts
        /\ inflight \in [Channels -> Nat] /\ counted \subseteq Chunks
        /\ leaked \subseteq Channels \X Chunks
        /\ results \in [Requests -> 0 .. Mock]
    BY DEF CallerRaises, At, RInv, Shape
  <1>2. Ends(t) /\ UNCHANGED <<inflight, leaked, torn>>
        /\ raised' = raised \cup {Request(t)}
    BY <1>1 DEF CallerRaises, Ends, Raise, Goto, shared, history
  <1>3. OthersStay(t) /\ pc'[t] = "idle"
    BY <1>1, <1>2 DEF Ends, Goto, Shape, OthersStay
  <1>4. LoadAccounts'
    <2>1. \A c \in Channels : ~Inside(t, c) /\ ~Inside(t, c)'
      BY <1>1, <1>3 DEF Inside, InChannel
    <2>2. QED
      BY <1>1, <1>2, <1>3, <2>1, OutsideStays
  <1>5. t \notin Workers
    BY <1>1 DEF AnswersFollow
  <1>6. Request(t) \notin Chunks
    BY <1>1, <1>5, WhoHas, Bounds
  <1>7. QED
    BY <1>2, <1>4, <1>5, <1>6, EndsKeeps

\* The last channel of a chunk failed: all that it may use were tried.
LEMMA AllFailedKeeps ==
    ASSUME RInv, NEW t \in Threads, AllFailed(t)
    PROVE  RInv'
  <1>1. /\ pc[t] = "settle" /\ job[t].rest = {} /\ Shape /\ WhoWorks /\ LoadAccounts
        /\ TriesFollow /\ counted \subseteq Chunks /\ leaked \subseteq Channels \X Chunks
        /\ results \in [Requests -> 0 .. Mock]
    BY DEF AllFailed, At, RInv, Shape
  <1>2. t \in Workers
    BY <1>1, Bounds DEF WhoWorks, ChunkSteps
  <1>3. Channel(t) \in Channels /\ IsChunk(t) /\ Request(t) \in Chunks
    BY <1>1, <1>2, WhoHas DEF WhoWorks, InChannel
  <1>4. OthersStay(t) /\ pc'[t] = "idle"
    BY <1>1 DEF AllFailed, Raise, Goto, Shape, OthersStay
  <1>5. LoadAccounts' /\ inflight' \in [Channels -> Nat]
    <2>1. Inside(t, Channel(t)) /\ \A c \in Channels : ~Inside(t, c)'
      BY <1>1, <1>3, <1>4 DEF Inside, InChannel
    <2>2. \A u \in Threads \ {t}, c \in Channels : Inside(u, c)' <=> Inside(u, c)
      BY <1>4 DEF Inside, OthersStay, Channel, IsChunk, Request
    <2>3. Leave(t)
      BY DEF AllFailed
    <2>4. QED
      BY <1>1, <1>3, <2>1, <2>2, <2>3, LoadLeaves
  <1>6. Ends(t) /\ raised' = raised \cup {Request(t)} /\ UNCHANGED tried
    BY <1>1, <1>5 DEF AllFailed, Leave, Ends, Raise, Goto
  <1>7. ASSUME NEW r, r = Request(t) PROVE Excused(r)'
    <2>1. tried[r] = Eligible(r)
      BY <1>1, <1>2, <1>7 DEF TriesFollow, InChannel
    <2>2. QED
      BY <1>6, <2>1 DEF Excused
  <1>8. QED
    BY <1>5, <1>6, <1>7, EndsKeeps

\* The cache file cannot be written: the thread stays counted in its channel.
LEMMA StoreFaultKeeps ==
    ASSUME RInv, NEW t \in Threads, StoreFault(t)
    PROVE  RInv'
  <1>1. /\ pc[t] \in InChannel /\ pc[t] # "idle" /\ Shape /\ WhoWorks /\ RaisedGone /\ LoadAccounts
        /\ counted \subseteq Chunks /\ leaked \subseteq Channels \X Chunks
        /\ inflight \in [Channels -> Nat] /\ results \in [Requests -> 0 .. Mock]
    BY DEF StoreFault, Sent, InChannel, RInv, Shape
  <1>2. Channel(t) \in Channels
    BY <1>1 DEF WhoWorks
  <1>3. OthersStay(t) /\ pc'[t] = "idle"
    BY <1>1 DEF StoreFault, Raise, Goto, Shape, OthersStay
  <1>4. /\ raised' = raised \cup {Request(t)} /\ UNCHANGED <<inflight, torn>>
        /\ leaked' = leaked \cup (IF IsChunk(t) THEN {<<Channel(t), Request(t)>>} ELSE {})
    BY DEF StoreFault, Raise
  <1>5. \A u \in Threads \ {t}, c \in Channels : Inside(u, c)' <=> Inside(u, c)
    BY <1>3 DEF Inside, OthersStay, Channel, IsChunk, Request
  <1>6. \A c \in Channels : ~Inside(t, c)'
    BY <1>3 DEF Inside, InChannel
  <1>7. IsChunk(t) <=> Request(t) \in Chunks
    BY <1>1, WhoHas, Bounds
  <1>8. LoadAccounts'
    <2>1. CASE IsChunk(t)
      <3>1. Inside(t, Channel(t)) /\ Request(t) \in Chunks
        BY <1>1, <1>7, <2>1 DEF Inside
      <3>2. <<Channel(t), Request(t)>> \notin leaked
        <4>1. Request(t) \notin raised /\ \A leak \in leaked : leak[2] \in raised
          BY <1>1 DEF RaisedGone
        <4>2. QED
          BY <4>1
      <3>3. leaked' = leaked \cup {<<Channel(t), Request(t)>>}
        BY <1>4, <2>1
      <3>4. QED
        BY <1>1, <1>2, <1>4, <1>5, <1>6, <3>1, <3>2, <3>3, LoadLeaks
    <2>2. CASE ~IsChunk(t)
      <3>1. leaked' = leaked
        BY <1>4, <2>2
      <3>2. \A c \in Channels : ~Inside(t, c)
        BY <2>2 DEF Inside
      <3>3. QED
        BY <1>1, <1>3, <1>4, <1>6, <3>1, <3>2, OutsideStays
    <2>3. QED
      BY <2>1, <2>2
  <1>9. Ends(t)
    BY <1>1, <1>2, <1>4, <1>7 DEF StoreFault, Ends, Raise, Goto
  <1>10. ASSUME NEW r, r = Request(t), r \in Chunks PROVE Excused(r)'
    <2>1. <<Channel(t), r>> \in leaked'
      BY <1>4, <1>7, <1>10
    <2>2. QED
      BY <1>2, <2>1 DEF Excused
  <1>11. QED
    BY <1>4, <1>8, <1>9, <1>10, EndsKeeps
-----------------------------------------------------------------------------
(* A thread takes a request, or goes on with the one it has. *)

\* What such a step does to the accounts of request r, and leaves of all others.
WorksOn(t, r) ==
    /\ pc' \in [Threads -> Steps] /\ pc'[t] # "idle" /\ OthersStay(t)
    /\ job'[t].request = r /\ job[t].request \in {r, None}
    /\ \A u \in Threads \ {t} : Request(u) # r
    /\ r \notin raised
    /\ taken' = taken \/ (taken' = taken + 1 /\ r = taken + 1 /\ taken < NumChunks)
    /\ t \in Workers => r \in 1 .. taken'
    /\ t = Caller => r \notin Chunks /\ pc'[t] \notin ChunkSteps
    /\ UNCHANGED <<raised, outcome, leaked, collided>>
    /\ \A q \in Requests \ {r} : tried'[q] = tried[q] /\ results'[q] = results[q]
    /\ results[r] # None => results'[r] # None
    /\ calls <= calls' /\ spent <= spent'
    /\ pc'[t] \in InChannel \cup {"spend"} => job'[t].channel \in Channels
    /\ pc'[t] \in {"mark", "settle", "report"} /\ job'[t].ok => job'[t].answer # None

\* What holds of a chunk r with thread t of the pool after the step.
ChunkAt(t, r) ==
    /\ pc[t] = "select" => tried[r] = {}
    /\ pc[t] \in InChannel \cup {"spend"} =>
          /\ Channel(t) \in Eligible(r) \ job[t].rest
          /\ job[t].rest \subseteq Eligible(r)
          /\ tried[r] = Eligible(r) \ (job[t].rest \cup IF pc[t] = "spend" THEN {Channel(t)} ELSE {})
    /\ results[r] # None <=> pc[t] \in {"notify", "tell"}
    /\ pc[t] = "report" => job[t].ok

\* A thread that takes a request or goes on with it keeps the invariant.
LEMMA WorksOnKeeps ==
    ASSUME RInv, NEW t \in Threads, NEW r \in Requests, WorksOn(t, r),
           Shape', LoadAccounts', CountsAgree', t \in Workers => ChunkAt(t, r)'
    PROVE  RInv'
  <1>1. /\ Shape /\ WhoWorks /\ RaisedGone /\ TriesFollow /\ RaisedForCause
        /\ AnswersFollow /\ CountsAgree
    BY DEF RInv
  <1>2. \A u \in Threads \ {t} : /\ pc'[u] = pc[u] /\ job'[u] = job[u]
                               /\ Request(u)' = Request(u) /\ Channel(u)' = Channel(u)
                               /\ Request(u)' # r
    BY DEF WorksOn, OthersStay, Request, Channel
  <1>3. Request(t)' = r /\ r # None /\ pc'[t] # "idle" /\ Request(t) \in {r, None}
    BY Bounds DEF WorksOn, Request
  <1>4. /\ taken' = taken \/ (taken' = taken + 1 /\ r = taken + 1 /\ taken < NumChunks)
        /\ taken \in Nat /\ taken' \in Nat /\ taken <= taken' /\ NumChunks \in Nat
        /\ r \notin raised
        /\ UNCHANGED <<raised, outcome, leaked, collided>>
    BY <1>1, Bounds DEF WorksOn, Shape
  <1>5. WhoWorks'
    <2>1. \A u \in Threads : pc'[u] = "idle" <=> Request(u)' = None
      BY <1>1, <1>2, <1>3 DEF WhoWorks
    <2>2. \A w \in Workers : pc'[w] # "idle" => Request(w)' \in 1 .. taken'
      <3>1. ASSUME NEW w \in Workers, pc'[w] # "idle" PROVE Request(w)' \in 1 .. taken'
        <4>1. CASE w = t
          BY <1>3, <4>1 DEF WorksOn
        <4>2. CASE w # t
          <5>1. Request(w)' \in 1 .. taken
            BY <1>1, <1>2, <3>1, <4>2, Bounds DEF WhoWorks
          <5>2. QED
            BY <1>4, <5>1
        <4>3. QED
          BY <4>1, <4>2
      <3>2. QED
        BY <3>1
    <2>3. pc'[Caller] # "idle" => Request(Caller)' \notin Chunks /\ pc'[Caller] \notin ChunkSteps
      <3>1. CASE t = Caller
        BY <1>3, <3>1 DEF WorksOn
      <3>2. CASE t # Caller
        BY <1>1, <1>2, <3>2, Bounds DEF WhoWorks
      <3>3. QED
        BY <3>1, <3>2
    <2>4. \A v, w \in Workers : v # w /\ pc'[v] # "idle" => Request(v)' # Request(w)'
      <3>1. ASSUME NEW v \in Workers, NEW w \in Workers, v # w, pc'[v] # "idle"
            PROVE  Request(v)' # Request(w)'
        <4>1. v \in Threads /\ w \in Threads
          BY Bounds
        <4>2. CASE v = t
          BY <1>2, <1>3, <3>1, <4>1, <4>2
        <4>3. CASE w = t
          BY <1>2, <1>3, <3>1, <4>1, <4>3
        <4>4. CASE v # t /\ w # t
          BY <1>1, <1>2, <3>1, <4>1, <4>4 DEF WhoWorks
        <4>5. QED
          BY <4>2, <4>3, <4>4
      <3>2. QED
        BY <3>1
    <2>5. \A u \in Threads : pc'[u] \in InChannel \cup {"spend"} => Channel(u)' \in Channels
      <3>1. pc'[t] \in InChannel \cup {"spend"} => Channel(t)' \in Channels
        BY DEF WorksOn, Channel
      <3>2. QED
        BY <1>1, <1>2, <3>1 DEF WhoWorks
    <2>6. QED
      BY <2>1, <2>2, <2>3, <2>4, <2>5 DEF WhoWorks
  <1>6. RaisedGone'
    <2>1. \A k \in raised' \cap Chunks : k <= taken'
      <3>1. \A k \in raised \cap Chunks : k <= taken /\ k \in Nat
        BY <1>1, Bounds DEF RaisedGone
      <3>2. QED
        BY <1>4, <3>1
    <2>2. \A u \in Threads : Request(u)' \notin raised'
      BY <1>1, <1>2, <1>3, <1>4 DEF RaisedGone
    <2>3. QED
      BY <1>1, <1>4, <2>1, <2>2 DEF RaisedGone
  <1>7. \A k \in Chunks : k > taken' => k > taken /\ k # r
    <2>1. \A k \in Chunks : k \in Nat
      BY Bounds
    <2>2. r \in Chunks => r <= taken'
      <3>1. CASE t \in Workers
        BY <1>4, <3>1 DEF WorksOn
      <3>2. CASE t = Caller
        BY <3>2 DEF WorksOn
      <3>3. QED
        BY <3>1, <3>2, Bounds
    <2>3. QED
      BY <1>4, <2>1, <2>2
  <1>8. \A q \in Requests \ {r} : tried'[q] = tried[q] /\ results'[q] = results[q]
    BY DEF WorksOn
  <1>9. \A w \in Workers \ {t} : pc[w] # "idle" => Request(w) \in Requests \ {r}
    BY <1>1, <1>2, Bounds, WhoHas
  <1>10. TriesFollow'
    <2>1. \A k \in Chunks : k > taken' => tried'[k] = {}
      BY <1>1, <1>7, <1>8, Bounds DEF TriesFollow
    <2>2. \A w \in Workers : pc'[w] = "select" => tried'[Request(w)'] = {}
      <3>1. ASSUME NEW w \in Workers, pc'[w] = "select" PROVE tried'[Request(w)'] = {}
        <4>1. CASE w = t
          BY <1>3, <3>1, <4>1 DEF ChunkAt
        <4>2. CASE w # t
          BY <1>1, <1>2, <1>8, <1>9, <3>1, <4>2, Bounds DEF TriesFollow
        <4>3. QED
          BY <4>1, <4>2
      <3>2. QED
        BY <3>1
    <2>3. ASSUME NEW w \in Workers, pc'[w] \in InChannel \cup {"spend"}
          PROVE  /\ Channel(w)' \in Eligible(Request(w)') \ job'[w].rest
                 /\ job'[w].rest \subseteq Eligible(Request(w)')
                 /\ tried'[Request(w)'] =
                      Eligible(Request(w)') \ (job'[w].rest \cup
                        IF pc'[w] = "spend" THEN {Channel(w)'} ELSE {})
      <3>1. CASE w = t
        BY <1>3, <2>3, <3>1 DEF ChunkAt
      <3>2. CASE w # t
        <4>1. pc'[w] = pc[w] /\ job'[w] = job[w] /\ Request(w)' = Request(w)
              /\ Channel(w)' = Channel(w)
          BY <1>2, <3>2, Bounds
        <4>2. tried'[Request(w)] = tried[Request(w)]
          BY <1>8, <1>9, <2>3, <3>2, <4>1 DEF InChannel
        <4>3. QED
          BY <1>1, <2>3, <4>1, <4>2 DEF TriesFollow
      <3>3. QED
        BY <3>1, <3>2
    <2>4. QED
      BY <2>1, <2>2, <2>3 DEF TriesFollow
  <1>11. RaisedForCause'
    <2>1. ASSUME NEW k \in raised \cap Chunks PROVE Excused(k)'
      <3>1. tried'[k] = tried[k]
        BY <1>4, <1>8, <2>1, Bounds
      <3>2. calls' \in Nat /\ spent' \in Nat /\ calls <= calls' /\ spent <= spent'
        BY DEF Shape, WorksOn
      <3>3. QED
        BY <1>1, <1>4, <3>1, <3>2, ExcusedStays DEF RaisedForCause
    <2>2. QED
      BY <1>4, <2>1 DEF RaisedForCause
  <1>12. AnswersFollow'
    <2>1. \A q \in Requests \ {r} : Answered(q)' <=> Answered(q)
      BY <1>8 DEF Answered
    <2>2. Answered(r) => Answered(r)'
      BY DEF Answered, WorksOn
    <2>3. \A k \in Chunks : k > taken' => ~Answered(k)'
      BY <1>1, <1>7, <2>1, Bounds DEF AnswersFollow
    <2>4. ASSUME NEW w \in Workers, pc'[w] # "idle"
          PROVE  Answered(Request(w))' <=> pc'[w] \in {"notify", "tell"}
      <3>1. CASE w = t
        BY <1>3, <3>1 DEF ChunkAt, Answered
      <3>2. CASE w # t
        <4>1. pc'[w] = pc[w] /\ Request(w)' = Request(w) /\ Request(w) \in Requests \ {r}
          BY <1>2, <1>9, <2>4, <3>2, Bounds
        <4>2. Answered(Request(w))' <=> Answered(Request(w))
          BY <1>8, <4>1 DEF Answered
        <4>3. QED
          BY <1>1, <2>4, <4>1, <4>2 DEF AnswersFollow
      <3>3. QED
        BY <3>1, <3>2
    <2>5. \A u \in Threads : pc'[u] \in {"mark", "settle", "report"} /\ job'[u].ok =>
            job'[u].answer # None
      <3>1. pc'[t] \in {"mark", "settle", "report"} /\ job'[t].ok => job'[t].answer # None
        BY DEF WorksOn
      <3>2. QED
        BY <1>1, <1>2, <3>1 DEF AnswersFollow
    <2>6. \A w \in Workers : pc'[w] = "report" => job'[w].ok
      <3>1. ASSUME NEW w \in Workers, pc'[w] = "report" PROVE job'[w].ok
        <4>1. CASE w = t
          BY <3>1, <4>1 DEF ChunkAt
        <4>2. CASE w # t
          BY <1>1, <1>2, <3>1, <4>2, Bounds DEF AnswersFollow
        <4>3. QED
          BY <4>1, <4>2
      <3>2. QED
        BY <3>1
    <2>7. ASSUME NEW k \in 1 .. taken'
          PROVE  Answered(k)' \/ k \in raised' \/ \E w \in Workers : Request(w)' = k
      <3>1. CASE k \in 1 .. taken
        <4>1. k \in Requests
          <5>1. taken \in 0 .. NumChunks
            BY <1>1 DEF Shape
          <5>2. QED
            BY <3>1, <5>1, Bounds DEF Chunks
        <4>2. CASE Answered(k) \/ k \in raised
          BY <1>4, <2>1, <2>2, <4>1, <4>2
        <4>3. CASE \E w \in Workers : Request(w) = k
          <5>1. PICK w \in Workers : Request(w) = k
            BY <4>3
          <5>2. CASE w = t
            <6>1. k = r
              BY <1>3, <4>1, <5>1, <5>2, Bounds
            <6>2. QED
              BY <1>3, <5>2, <6>1
          <5>3. CASE w # t
            BY <1>2, <5>1, <5>3, Bounds
          <5>4. QED
            BY <5>2, <5>3
        <4>4. QED
          BY <1>1, <3>1, <4>2, <4>3 DEF AnswersFollow
      <3>2. CASE k \notin 1 .. taken
        <4>1. taken' = taken + 1 /\ r = taken + 1 /\ k = r /\ taken < NumChunks
          BY <1>4, <3>2
        <4>2. r \in Chunks
          BY <1>4, <4>1 DEF Chunks
        <4>3. t \in Workers
          BY <4>2, Bounds DEF WorksOn
        <4>4. QED
          BY <1>3, <4>1, <4>3
      <3>3. QED
        BY <3>1, <3>2
    <2>8. outcome' = "returned" => taken' = NumChunks /\ \A q \in Requests : Answered(q)'
      <3>1. HAVE outcome' = "returned"
      <3>2. taken = NumChunks /\ \A q \in Requests : Answered(q)
        BY <1>1, <1>4, <3>1 DEF AnswersFollow
      <3>3. taken' = NumChunks
        BY <1>4, <3>2
      <3>4. QED
        BY <2>1, <2>2, <3>2, <3>3
    <2>9. QED
      BY <2>3, <2>4, <2>5, <2>6, <2>7, <2>8 DEF AnswersFollow
  <1>13. QED
    BY <1>5, <1>6, <1>10, <1>11, <1>12 DEF RInv
-----------------------------------------------------------------------------
(* Each such step. *)

\* The typing of one thread's request: Shape holds when that of the thread does.
LEMMA ShapeSteps ==
    ASSUME Shape, NEW t \in Threads, OthersStay(t), pc' \in [Threads -> Steps],
           job' = [u \in Threads |-> job'[u]], Shaped(job'[t]),
           job'[t].request \in Requests \cup {None}, job'[t].channel \in Channels \cup {None},
           job'[t].rest \subseteq Channels, job'[t].seen \in Nat, job'[t].ok \in BOOLEAN,
           job'[t].answer \in 0 .. Mock, fallback' \in BOOLEAN, calls' \in Nat, spent' \in Nat,
           taken' \in 0 .. NumChunks, completed' \in Nat, inflight' \in [Channels -> Nat],
           tried' \in [Requests -> SUBSET Channels], results' \in [Requests -> 0 .. Mock],
           raised' \subseteq Requests, leaked' \subseteq Channels \X Chunks, counted' \subseteq Chunks
    PROVE  Shape'
  <1>1. ASSUME NEW u \in Threads
        PROVE  /\ Shaped(job'[u])
               /\ job'[u].request \in Requests \cup {None}
               /\ job'[u].channel \in Channels \cup {None}
               /\ job'[u].rest \subseteq Channels
               /\ job'[u].seen \in Nat /\ job'[u].ok \in BOOLEAN /\ job'[u].answer \in 0 .. Mock
    <2>1. CASE u = t
      BY <2>1
    <2>2. CASE u # t
      <3>1. job'[u] = job[u]
        BY <2>2 DEF OthersStay
      <3>2. QED
        BY <3>1 DEF Shape
    <2>3. QED
      BY <2>1, <2>2
  <1>2. QED
    BY <1>1 DEF Shape

\* What is known of a thread in the middle of its request.
LEMMA Known ==
    ASSUME RInv, NEW t \in Threads, pc[t] # "idle"
    PROVE  /\ Shape /\ WhoWorks /\ RaisedGone /\ TriesFollow /\ AnswersFollow /\ CountsAgree
           /\ LoadAccounts
           /\ Request(t) \in Requests /\ Request(t) # None /\ Request(t) \notin raised
           /\ t \in Workers => Request(t) \in Chunks /\ IsChunk(t) /\ Request(t) \in 1 .. taken
                               /\ t # Caller
           /\ t = Caller => Request(t) \notin Chunks /\ ~IsChunk(t) /\ pc[t] \notin ChunkSteps
           /\ \A u \in Threads \ {t} : Request(u) # Request(t)
           /\ pc[t] \in ChunkSteps => t \in Workers
           /\ t \in Workers \/ t = Caller
           /\ pc[t] \in InChannel \cup {"spend"} => Channel(t) \in Channels
  BY WhoHas, Apart, Bounds DEF RInv, WhoWorks, RaisedGone

\* select_channel: the other candidates are ahead of the chunk.
LEMMA SelectKeeps ==
    ASSUME RInv, NEW t \in Threads, Select(t)
    PROVE  RInv'
  <1>1. pc[t] = "select"
    BY DEF Select, At
  <1>2. PICK r : r = Request(t)
    OBVIOUS
  <1>3. /\ r \in Requests /\ Eligible(r) \subseteq Channels
        /\ r \in Chunks <=> IsChunk(t)
        /\ t \in Workers <=> IsChunk(t)
    BY <1>1, <1>2, Known, Bounds
  <1>4. PICK c \in Eligible(r) :
            job' = [job EXCEPT ![t].channel = c,
                               ![t].rest = IF IsChunk(t) THEN Others(r, c) ELSE {}]
    <2>1. BestForMap(r) \subseteq Eligible(r) /\ BestForStrong(r) \subseteq Eligible(r)
      BY DEF BestForMap, BestForStrong
    <2>2. QED
      BY <1>2, <2>1 DEF Select
  <1>5. /\ job'[t].channel = c /\ job'[t].rest = IF IsChunk(t) THEN Eligible(r) \ {c} ELSE {}
        /\ job'[t].request = r /\ job'[t].seen = job[t].seen /\ job'[t].ok = job[t].ok
        /\ job'[t].answer = job[t].answer /\ Shaped(job'[t])
        /\ job' = [u \in Threads |-> job'[u]] /\ \A u \in Threads \ {t} : job'[u] = job[u]
    <2>1. Shaped(job[t]) /\ job = [u \in Threads |-> job[u]]
      BY <1>1, Known DEF Shape
    <2>2. QED
      BY <1>2, <1>4, <2>1 DEF Shaped, Others, Request
  <1>6. /\ pc' = [pc EXCEPT ![t] = IF IsChunk(t) THEN "spend" ELSE "lookup"]
        /\ UNCHANGED <<fallback, taken, inflight, calls, spent, results, completed, counted,
                       raised, outcome, tried, leaked, torn, collided>>
    BY DEF Select, Goto, shared, told, history
  <1>7. /\ pc' \in [Threads -> Steps] /\ OthersStay(t)
        /\ pc'[t] = IF IsChunk(t) THEN "spend" ELSE "lookup"
    BY <1>1, <1>5, <1>6, Known DEF Shape, OthersStay, Steps
  <1>8. Shape'
    <2>1. /\ job[t].seen \in Nat /\ job[t].ok \in BOOLEAN /\ job[t].answer \in 0 .. Mock
          /\ fallback \in BOOLEAN /\ calls \in Nat /\ spent \in Nat
          /\ taken \in 0 .. NumChunks /\ completed \in Nat /\ inflight \in [Channels -> Nat]
          /\ tried \in [Requests -> SUBSET Channels] /\ results \in [Requests -> 0 .. Mock]
          /\ raised \subseteq Requests /\ leaked \subseteq Channels \X Chunks /\ counted \subseteq Chunks
      BY <1>1, Known DEF Shape
    <2>2. job'[t].rest \subseteq Channels /\ job'[t].channel \in Channels
      BY <1>3, <1>5
    <2>3. QED
      BY <1>1, <1>3, <1>5, <1>6, <1>7, <2>1, <2>2, Known, ShapeSteps
  <1>9. LoadAccounts'
    <2>1. \A d \in Channels : ~Inside(t, d) /\ ~Inside(t, d)'
      <3>1. ~IsChunk(t) => ~IsChunk(t)'
        BY <1>2, <1>5 DEF IsChunk, Request
      <3>2. QED
        BY <1>1, <1>7, <3>1 DEF Inside, InChannel
    <2>2. QED
      BY <1>1, <1>6, <1>7, <2>1, Known, OutsideStays
  <1>10. CountsAgree'
    BY <1>1, <1>6, Known DEF CountsAgree, Tries, Answered
  <1>11. ASSUME t \in Workers PROVE ChunkAt(t, r)'
    <2>1. tried[r] = {} /\ results[r] = None
      BY <1>1, <1>2, <1>11, Known DEF TriesFollow, AnswersFollow, Answered
    <2>2. IsChunk(t) /\ pc'[t] = "spend"
      BY <1>3, <1>7, <1>11
    <2>3. Eligible(r) \ ((Eligible(r) \ {c}) \cup {c}) = {}
      OBVIOUS
    <2>4. QED
      BY <1>5, <1>6, <2>1, <2>2, <2>3 DEF ChunkAt, Channel
  <1>12. WorksOn(t, r)
    <2>1. pc'[t] \in {"spend", "lookup"} /\ (t = Caller => pc'[t] = "lookup")
      BY <1>1, <1>7, Known
    <2>2. calls \in Nat /\ spent \in Nat
      BY <1>1, Known DEF Shape
    <2>3. QED
      BY <1>1, <1>2, <1>3, <1>5, <1>6, <1>7, <2>1, <2>2, Known
         DEF WorksOn, Request, ChunkSteps, InChannel
  <1>13. QED
    BY <1>3, <1>8, <1>9, <1>10, <1>11, <1>12, WorksOnKeeps

\* _within_budget and mark_in_flight: one call more, one try more, one thread more.
LEMMA SpendKeeps ==
    ASSUME RInv, NEW t \in Threads, Spend(t)
    PROVE  RInv'
  <1>1. pc[t] = "spend" /\ pc[t] # "idle"
    BY DEF Spend, At
  <1>2. PICK r : r = Request(t)
    OBVIOUS
  <1>3. PICK c : c = Channel(t)
    OBVIOUS
  <1>4. /\ r \in Requests /\ r \in Chunks /\ t \in Workers /\ IsChunk(t) /\ c \in Channels
    BY <1>1, <1>2, <1>3, Known DEF ChunkSteps
  <1>5. /\ calls' = calls + 1 /\ spent' = spent + ChunkCost[c]
        /\ inflight' = [inflight EXCEPT ![c] = @ + 1]
        /\ tried' = [tried EXCEPT ![r] = @ \cup {c}]
        /\ pc' = [pc EXCEPT ![t] = "lookup"]
        /\ UNCHANGED <<fallback, job, taken, results, completed, counted, raised, outcome,
                       leaked, torn, collided>>
    BY <1>2, <1>3 DEF Spend, Goto, told
  <1>6. /\ pc' \in [Threads -> Steps] /\ pc'[t] = "lookup" /\ OthersStay(t)
    BY <1>1, <1>5, Known DEF Shape, OthersStay, Steps
  <1>7. /\ inflight \in [Channels -> Nat] /\ tried \in [Requests -> SUBSET Channels]
        /\ calls \in Nat /\ spent \in Nat /\ ChunkCost[c] \in Nat
    BY <1>1, <1>4, Known, Bounds DEF Shape
  <1>8. Shape'
    <2>1. inflight' \in [Channels -> Nat] /\ tried' \in [Requests -> SUBSET Channels]
          /\ calls' \in Nat /\ spent' \in Nat
      BY <1>4, <1>5, <1>7
    <2>2. QED
      BY <1>1, <1>5, <1>6, <2>1, Known, ShapeSteps DEF Shape
  <1>9. LoadAccounts'
    <2>1. \A d \in Channels : ~Inside(t, d) /\ (Inside(t, d)' <=> d = c)
      BY <1>1, <1>3, <1>4, <1>5, <1>6 DEF Inside, InChannel, Channel, IsChunk, Request
    <2>2. \A u \in Threads \ {t}, d \in Channels : Inside(u, d)' <=> Inside(u, d)
      BY <1>6 DEF Inside, OthersStay, Channel, IsChunk, Request
    <2>3. QED
      BY <1>1, <1>4, <1>5, <2>1, <2>2, Known, LoadEnters
  <1>10. tried[r] = Eligible(r) \ (job[t].rest \cup {c}) /\ c \in Eligible(r) \ job[t].rest
         /\ job[t].rest \subseteq Eligible(r)
    BY <1>1, <1>2, <1>3, <1>4, Known DEF TriesFollow
  <1>11. CountsAgree'
    <2>1. Tries' = Tries \cup {<<c, r>>} /\ <<c, r>> \notin Tries
      <3>1. \A d \in Channels, k \in Chunks :
              d \in tried'[k] <=> d \in tried[k] \/ (d = c /\ k = r)
        BY <1>4, <1>5, <1>7, Bounds
      <3>2. c \notin tried[r]
        BY <1>10
      <3>3. QED
        BY <1>4, <3>1, <3>2 DEF Tries
    <2>2. IsFiniteSet(Tries)
      BY Finite, FS_Subset DEF Tries
    <2>3. Cardinality(Tries') = Cardinality(Tries) + 1
      BY <2>1, <2>2, FS_AddElement
    <2>4. QED
      BY <1>1, <1>5, <2>3, Known DEF CountsAgree, Answered
  <1>12. ChunkAt(t, r)'
    <2>1. tried'[r] = tried[r] \cup {c}
      BY <1>4, <1>5, <1>7
    <2>2. tried'[r] = Eligible(r) \ job[t].rest
      BY <1>10, <2>1
    <2>3. results[r] = None
      BY <1>1, <1>2, <1>4, Known DEF AnswersFollow, Answered
    <2>4. QED
      BY <1>3, <1>5, <1>6, <1>10, <2>2, <2>3 DEF ChunkAt, Channel, InChannel
  <1>13. WorksOn(t, r)
    BY <1>1, <1>2, <1>3, <1>4, <1>5, <1>6, <1>7, Known
       DEF WorksOn, Request, Channel, ChunkSteps, InChannel
  <1>14. QED
    BY <1>4, <1>8, <1>9, <1>11, <1>12, <1>13, WorksOnKeeps

\* A thread leaves its channel: the load and the others are as they should be.
LEMMA LeaveKeepsLoad ==
    ASSUME RInv, NEW t \in Threads, pc[t] = "settle", Leave(t), OthersStay(t),
           pc'[t] \notin InChannel
    PROVE  LoadAccounts' /\ inflight' \in [Channels -> Nat]
  <1>1. t \in Workers /\ IsChunk(t) /\ Channel(t) \in Channels /\ Shape /\ LoadAccounts
    BY Known DEF ChunkSteps, InChannel
  <1>2. Inside(t, Channel(t)) /\ \A c \in Channels : ~Inside(t, c)'
    BY <1>1 DEF Inside, InChannel
  <1>3. \A u \in Threads \ {t}, c \in Channels : Inside(u, c)' <=> Inside(u, c)
    BY DEF Inside, OthersStay, Channel, IsChunk, Request
  <1>4. QED
    BY <1>1, <1>2, <1>3, LoadLeaves

\* mark_success, the end of it: the chunk leaves its channel with an answer.
LEMMA SettleSuccessKeeps ==
    ASSUME RInv, NEW t \in Threads, SettleSuccess(t)
    PROVE  RInv'
  <1>1. pc[t] = "settle" /\ pc[t] # "idle" /\ job[t].ok
    BY DEF SettleSuccess, At
  <1>2. PICK r : r = Request(t)
    OBVIOUS
  <1>3. r \in Requests /\ t \in Workers
    BY <1>1, <1>2, Known DEF ChunkSteps
  <1>4. /\ Leave(t) /\ pc' = [pc EXCEPT ![t] = "report"]
        /\ UNCHANGED <<fallback, job, taken, calls, spent, results, completed, counted, raised,
                       outcome, tried, leaked, collided>>
    BY DEF SettleSuccess, Leave, Goto, told
  <1>5. /\ pc' \in [Threads -> Steps] /\ pc'[t] = "report" /\ OthersStay(t)
    BY <1>1, <1>4, Known DEF Shape, OthersStay, Steps
  <1>6. LoadAccounts' /\ inflight' \in [Channels -> Nat]
    BY <1>1, <1>4, <1>5, LeaveKeepsLoad DEF InChannel
  <1>7. Shape'
    BY <1>1, <1>4, <1>5, <1>6, Known, ShapeSteps DEF Shape
  <1>8. CountsAgree'
    BY <1>1, <1>4, Known DEF CountsAgree, Tries, Answered
  <1>9. results[r] = None /\ job[t].answer # None
    BY <1>1, <1>2, <1>3, Known DEF AnswersFollow, Answered
  <1>10. ChunkAt(t, r)'
    BY <1>1, <1>4, <1>5, <1>9 DEF ChunkAt, InChannel
  <1>11. WorksOn(t, r)
    <2>1. calls \in Nat /\ spent \in Nat
      BY <1>1, Known DEF Shape
    <2>2. QED
      BY <1>1, <1>2, <1>3, <1>4, <1>5, <1>9, <2>1, Known
         DEF WorksOn, Request, ChunkSteps, InChannel
  <1>12. QED
    BY <1>3, <1>6, <1>7, <1>8, <1>10, <1>11, WorksOnKeeps

\* mark_failure, the end of it: the chunk goes to the next candidate.
LEMMA FailOverKeeps ==
    ASSUME RInv, NEW t \in Threads, FailOver(t)
    PROVE  RInv'
  <1>1. pc[t] = "settle" /\ pc[t] # "idle" /\ job[t].rest # {}
    BY DEF FailOver, At
  <1>2. PICK r : r = Request(t)
    OBVIOUS
  <1>3. r \in Requests /\ r \in Chunks /\ t \in Workers /\ Eligible(r) \subseteq Channels
    BY <1>1, <1>2, Known, Bounds DEF ChunkSteps
  <1>4. PICK rest : rest = job[t].rest
    OBVIOUS
  <1>5. /\ tried[r] = Eligible(r) \ rest /\ rest \subseteq Eligible(r) /\ results[r] = None
    BY <1>1, <1>2, <1>3, <1>4, Known DEF TriesFollow, AnswersFollow, Answered, InChannel
  <1>6. PICK next \in rest : next = Min(rest)
    <2>1. rest \subseteq Nat /\ rest # {}
      BY <1>1, <1>3, <1>4, <1>5, Bounds
    <2>2. QED
      BY <2>1, MinIn
  <1>7. /\ Leave(t) /\ pc' = [pc EXCEPT ![t] = "spend"]
        /\ job' = [job EXCEPT ![t] = [Idle EXCEPT !.request = r, !.channel = next,
                                                  !.rest = rest \ {next}]]
        /\ UNCHANGED <<fallback, taken, calls, spent, results, completed, counted, raised,
                       outcome, tried, leaked, collided>>
    BY <1>2, <1>4, <1>6 DEF FailOver, Leave, Goto, told, Request
  <1>8. /\ job'[t].request = r /\ job'[t].channel = next /\ job'[t].rest = rest \ {next}
        /\ job'[t].seen = 0 /\ job'[t].ok = FALSE /\ job'[t].answer = None /\ Shaped(job'[t])
        /\ job' = [u \in Threads |-> job'[u]] /\ \A u \in Threads \ {t} : job'[u] = job[u]
    <2>1. job = [u \in Threads |-> job[u]]
      BY <1>1, Known DEF Shape
    <2>2. QED
      BY <1>7, <2>1 DEF Shaped, Idle
  <1>9. /\ pc' \in [Threads -> Steps] /\ pc'[t] = "spend" /\ OthersStay(t)
    BY <1>1, <1>7, <1>8, Known DEF Shape, OthersStay, Steps
  <1>10. LoadAccounts' /\ inflight' \in [Channels -> Nat]
    BY <1>1, <1>7, <1>9, LeaveKeepsLoad DEF InChannel
  <1>11. Shape'
    <2>1. /\ job'[t].rest \subseteq Channels /\ next \in Channels /\ 0 \in Nat /\ FALSE \in BOOLEAN
          /\ None \in 0 .. Mock
      BY <1>3, <1>5, <1>8, Bounds DEF None
    <2>2. QED
      BY <1>1, <1>3, <1>7, <1>8, <1>9, <1>10, <2>1, Known, ShapeSteps DEF Shape
  <1>12. CountsAgree'
    BY <1>1, <1>7, Known DEF CountsAgree, Tries, Answered
  <1>13. ChunkAt(t, r)'
    <2>1. Eligible(r) \ rest = Eligible(r) \ ((rest \ {next}) \cup {next})
      BY <1>6
    <2>2. QED
      BY <1>5, <1>6, <1>7, <1>8, <1>9, <2>1 DEF ChunkAt, Channel
  <1>14. WorksOn(t, r)
    <2>1. calls \in Nat /\ spent \in Nat /\ next \in Channels
      BY <1>1, <1>3, <1>5, <1>6, Known DEF Shape
    <2>2. QED
      BY <1>1, <1>2, <1>3, <1>7, <1>8, <1>9, <2>1, Known
         DEF WorksOn, Request, ChunkSteps, InChannel
  <1>15. QED
    BY <1>3, <1>10, <1>11, <1>12, <1>13, <1>14, WorksOnKeeps

\* report_completion counts the chunk.
LEMMA NotifyKeeps ==
    ASSUME RInv, NEW t \in Threads, Notify(t)
    PROVE  RInv'
  <1>1. pc[t] = "notify" /\ pc[t] # "idle"
    BY DEF Notify, At
  <1>2. PICK r : r = Request(t)
    OBVIOUS
  <1>3. r \in Requests /\ r \in Chunks /\ t \in Workers
    BY <1>1, <1>2, Known DEF ChunkSteps
  <1>4. /\ counted' = counted \cup {r} /\ counted' \subseteq Chunks
        /\ Cardinality(counted') \in Nat
    <2>1. counted' = counted \cup {r} /\ counted' \subseteq Chunks
      BY <1>1, <1>2, <1>3, Known DEF Notify, Shape
    <2>2. QED
      BY <2>1, Finite, FS_Subset, FS_CardinalityType
  <1>5. /\ pc' = [pc EXCEPT ![t] = "tell"]
        /\ job' = [job EXCEPT ![t].seen = Cardinality(counted')]
        /\ UNCHANGED <<fallback, taken, inflight, calls, spent, results, completed, raised,
                       outcome, tried, leaked, torn, collided>>
    BY DEF Notify, Goto, shared, history
  <1>6. /\ job'[t].seen \in Nat /\ job'[t].request = job[t].request
        /\ job'[t].channel = job[t].channel /\ job'[t].rest = job[t].rest
        /\ job'[t].ok = job[t].ok /\ job'[t].answer = job[t].answer /\ Shaped(job'[t])
        /\ job' = [u \in Threads |-> job'[u]] /\ \A u \in Threads \ {t} : job'[u] = job[u]
    <2>1. Shaped(job[t]) /\ job = [u \in Threads |-> job[u]]
      BY <1>1, Known DEF Shape
    <2>2. QED
      BY <1>4, <1>5, <2>1 DEF Shaped
  <1>7. /\ pc' \in [Threads -> Steps] /\ pc'[t] = "tell" /\ OthersStay(t)
    BY <1>1, <1>5, <1>6, Known DEF Shape, OthersStay, Steps
  <1>8. Shape'
    BY <1>1, <1>4, <1>5, <1>6, <1>7, Known, ShapeSteps DEF Shape
  <1>9. LoadAccounts'
    <2>1. \A c \in Channels : ~Inside(t, c) /\ ~Inside(t, c)'
      BY <1>1, <1>7 DEF Inside, InChannel
    <2>2. QED
      BY <1>1, <1>5, <1>7, <2>1, Known, OutsideStays
  <1>10. CountsAgree'
    BY <1>1, <1>5, Known DEF CountsAgree, Tries, Answered
  <1>11. results[r] # None
    BY <1>1, <1>2, <1>3, Known DEF AnswersFollow, Answered
  <1>12. ChunkAt(t, r)'
    BY <1>5, <1>7, <1>11 DEF ChunkAt, InChannel
  <1>13. WorksOn(t, r)
    <2>1. calls \in Nat /\ spent \in Nat
      BY <1>1, Known DEF Shape
    <2>2. QED
      BY <1>1, <1>2, <1>3, <1>5, <1>6, <1>7, <2>1, Known
         DEF WorksOn, Request, ChunkSteps, InChannel
  <1>14. QED
    BY <1>3, <1>8, <1>9, <1>10, <1>12, <1>13, WorksOnKeeps

\* A result gets its place, and the count of those reported goes up with it.
LEMMA ReportKeeps ==
    ASSUME RInv, NEW t \in Threads, Report(t)
    PROVE  RInv'
  <1>1. pc[t] = "report" /\ pc[t] # "idle" /\ job[t].ok
    BY DEF Report, At
  <1>2. PICK r : r = Request(t)
    OBVIOUS
  <1>3. r \in Requests /\ (r \in Chunks <=> t \in Workers) /\ (IsChunk(t) <=> t \in Workers)
    BY <1>1, <1>2, Known, Bounds
  <1>4. job[t].answer \in 0 .. Mock /\ job[t].answer # None
    BY <1>1, Known DEF Shape, AnswersFollow
  <1>5. /\ results' = [results EXCEPT ![r] = job[t].answer]
        /\ completed' = completed + (IF IsChunk(t) THEN 1 ELSE 0)
        /\ UNCHANGED <<fallback, taken, inflight, calls, spent, counted, raised, outcome, tried,
                       leaked, torn, collided>>
    BY <1>2 DEF Report, shared, history
  <1>6. /\ results \in [Requests -> 0 .. Mock] /\ results' \in [Requests -> 0 .. Mock]
        /\ results'[r] # None /\ \A q \in Requests \ {r} : results'[q] = results[q]
        /\ completed \in Nat /\ inflight \in [Channels -> Nat] /\ counted \subseteq Chunks
        /\ leaked \subseteq Channels \X Chunks /\ calls \in Nat /\ spent \in Nat
    BY <1>1, <1>3, <1>4, <1>5, Known DEF Shape
  <1>7. CASE t \in Workers
    <2>1. pc' = [pc EXCEPT ![t] = "notify"] /\ UNCHANGED job
      BY <1>3, <1>7 DEF Report, Goto
    <2>2. /\ pc' \in [Threads -> Steps] /\ pc'[t] = "notify" /\ OthersStay(t)
      BY <1>1, <2>1, Known DEF Shape, OthersStay, Steps
    <2>3. Shape'
      BY <1>1, <1>3, <1>5, <1>6, <1>7, <2>1, <2>2, Known, ShapeSteps DEF Shape
    <2>4. LoadAccounts'
      <3>1. \A c \in Channels : ~Inside(t, c) /\ ~Inside(t, c)'
        BY <1>1, <2>2 DEF Inside, InChannel
      <3>2. QED
        BY <1>1, <1>5, <2>2, <3>1, Known, OutsideStays
    <2>5. CountsAgree'
      <3>1. r \in Chunks /\ results[r] = None
        BY <1>1, <1>2, <1>3, <1>7, Known DEF AnswersFollow, Answered
      <3>2. PICK done : done = {k \in Chunks : Answered(k)}
        OBVIOUS
      <3>3. {k \in Chunks : Answered(k)'} = done \cup {r} /\ r \notin done
        BY <1>6, <3>1, <3>2, Bounds DEF Answered
      <3>4. IsFiniteSet(done)
        BY <3>2, Finite, FS_Subset
      <3>5. Cardinality(done \cup {r}) = Cardinality(done) + 1
        BY <3>3, <3>4, FS_AddElement
      <3>6. completed = Cardinality(done) /\ completed' = completed + 1
        BY <1>1, <1>3, <1>5, <1>7, <3>2, Known DEF CountsAgree
      <3>7. calls' = Cardinality(Tries')
        BY <1>1, <1>5, Known DEF CountsAgree, Tries
      <3>8. QED
        BY <3>3, <3>5, <3>6, <3>7 DEF CountsAgree
    <2>6. ChunkAt(t, r)'
      BY <1>6, <2>2 DEF ChunkAt, InChannel
    <2>7. WorksOn(t, r)
      BY <1>1, <1>2, <1>3, <1>5, <1>6, <1>7, <2>1, <2>2, Known
         DEF WorksOn, Request, ChunkSteps, InChannel
    <2>8. QED
      BY <1>3, <2>3, <2>4, <2>5, <2>6, <2>7, WorksOnKeeps
  <1>8. CASE t \notin Workers
    <2>1. pc' = [pc EXCEPT ![t] = "idle"] /\ job' = [job EXCEPT ![t] = Idle]
          /\ completed' = completed
      BY <1>3, <1>5, <1>6, <1>8 DEF Report, Goto
    <2>2. r \notin Chunks
      BY <1>3, <1>8
    <2>3. Ends(t)
      <3>1. /\ \A q \in Chunks : results'[q] = results[q]
            /\ \A q \in Requests : results[q] # None => results'[q] # None
        BY <1>6, <2>2, Bounds
      <3>2. QED
        BY <1>1, <1>5, <1>6, <2>1, <3>1 DEF Ends, Goto
    <2>4. OthersStay(t) /\ pc'[t] = "idle"
      BY <1>1, <2>1, Known DEF Shape, OthersStay
    <2>5. LoadAccounts'
      <3>1. \A c \in Channels : ~Inside(t, c) /\ ~Inside(t, c)'
        BY <1>1, <2>4 DEF Inside, InChannel
      <3>2. QED
        BY <1>1, <1>5, <2>4, <3>1, Known, OutsideStays
    <2>6. QED
      BY <1>2, <1>8, <2>2, <2>3, <2>5, EndsKeeps
  <1>9. QED
    BY <1>7, <1>8

\* The new request of a thread, with nothing known of it yet.
LEMMA Fresh ==
    ASSUME RInv, NEW t \in Threads, NEW r \in Requests, pc[t] = "idle",
           job' = [job EXCEPT ![t] = [Idle EXCEPT !.request = r]], Goto(t, "select"),
           taken' \in 0 .. NumChunks,
           UNCHANGED <<fallback, inflight, calls, spent, results, completed, counted, raised,
                       outcome, tried, leaked, torn, collided>>
    PROVE  /\ Shape' /\ LoadAccounts' /\ CountsAgree'
           /\ OthersStay(t) /\ pc' \in [Threads -> Steps] /\ pc'[t] = "select"
           /\ job'[t].request = r
  <1>1. Shape /\ LoadAccounts /\ CountsAgree /\ job = [u \in Threads |-> job[u]]
    BY DEF RInv, Shape
  <1>2. /\ job'[t].request = r /\ job'[t].channel = None /\ job'[t].rest = {}
        /\ job'[t].seen = 0 /\ job'[t].ok = FALSE /\ job'[t].answer = None /\ Shaped(job'[t])
        /\ job' = [u \in Threads |-> job'[u]] /\ \A u \in Threads \ {t} : job'[u] = job[u]
    BY <1>1 DEF Shaped, Idle
  <1>3. /\ pc' \in [Threads -> Steps] /\ pc'[t] = "select" /\ OthersStay(t)
    BY <1>1, <1>2 DEF Shape, OthersStay, Steps, Goto
  <1>4. Shape'
    <2>1. 0 \in Nat /\ FALSE \in BOOLEAN /\ None \in 0 .. Mock
      BY Bounds DEF None
    <2>2. QED
      BY <1>1, <1>2, <1>3, <2>1, ShapeSteps DEF Shape
  <1>5. LoadAccounts'
    <2>1. \A c \in Channels : ~Inside(t, c) /\ ~Inside(t, c)'
      BY <1>3 DEF Inside, InChannel
    <2>2. QED
      BY <1>1, <1>3, <2>1, OutsideStays
  <1>6. CountsAgree'
    BY <1>1 DEF CountsAgree, Tries, Answered
  <1>7. QED
    BY <1>2, <1>3, <1>4, <1>5, <1>6

\* A thread of the pool takes the next chunk, which nobody has.
LEMMA TakeKeeps ==
    ASSUME RInv, NEW t \in Threads, Take(t)
    PROVE  RInv'
  <1>1. /\ Shape /\ WhoWorks /\ RaisedGone /\ TriesFollow /\ AnswersFollow
        /\ taken \in 0 .. NumChunks /\ NumChunks \in Nat
    BY Bounds DEF RInv, Shape
  <1>2. t \in Workers /\ t # Caller /\ pc[t] = "idle" /\ taken < NumChunks
    BY Bounds DEF Take, At
  <1>3. PICK r : r = taken + 1
    OBVIOUS
  <1>4. /\ r \in Chunks /\ r \in Requests /\ r > taken /\ taken' = r /\ taken' \in 0 .. NumChunks
        /\ r \in 1 .. taken'
    BY <1>1, <1>2, <1>3, Bounds DEF Chunks, Take
  <1>5. /\ job' = [job EXCEPT ![t] = [Idle EXCEPT !.request = r]] /\ Goto(t, "select")
        /\ UNCHANGED <<fallback, inflight, calls, spent, results, completed, counted, raised,
                       outcome, tried, leaked, torn, collided>>
    BY <1>3 DEF Take, told, history
  <1>6. /\ Shape' /\ LoadAccounts' /\ CountsAgree'
        /\ OthersStay(t) /\ pc' \in [Threads -> Steps] /\ pc'[t] = "select"
        /\ job'[t].request = r
    BY <1>2, <1>4, <1>5, Fresh
  <1>7. tried[r] = {} /\ results[r] = None /\ r \notin raised
    <2>1. r \notin raised
      <3>1. r \in raised => r <= taken
        BY <1>1, <1>4 DEF RaisedGone
      <3>2. QED
        BY <1>1, <1>3, <3>1
    <2>2. QED
      BY <1>1, <1>4, <2>1 DEF TriesFollow, AnswersFollow, Answered
  <1>8. \A u \in Threads \ {t} : Request(u) # r
    <2>1. ASSUME NEW u \in Threads, Request(u) = r PROVE FALSE
      <3>1. pc[u] # "idle"
        BY <1>1, <1>4, <2>1, Bounds DEF WhoWorks
      <3>2. u \in Workers
        BY <1>1, <1>4, <2>1, <3>1, Bounds DEF WhoWorks
      <3>3. r \in 1 .. taken
        BY <1>1, <2>1, <3>1, <3>2 DEF WhoWorks
      <3>4. QED
        BY <1>1, <1>3, <3>3
    <2>2. QED
      BY <2>1
  <1>9. ChunkAt(t, r)'
    BY <1>5, <1>6, <1>7 DEF ChunkAt, InChannel
  <1>10. WorksOn(t, r)
    <2>1. calls \in Nat /\ spent \in Nat /\ job[t].request = None
      BY <1>1, <1>2 DEF Shape, WhoWorks, Request
    <2>2. QED
      BY <1>2, <1>3, <1>4, <1>5, <1>6, <1>7, <1>8, <2>1 DEF WorksOn, InChannel
  <1>11. QED
    BY <1>4, <1>6, <1>9, <1>10, WorksOnKeeps

\* The caller goes on with the request after the chunks.
LEMMA NextAfterChunksKeeps ==
    ASSUME RInv, NextAfterChunks
    PROVE  RInv'
  <1>1. /\ Shape /\ WhoWorks /\ RaisedGone /\ taken \in 0 .. NumChunks
        /\ Caller \in Threads /\ Caller \notin Workers
    BY Bounds DEF RInv, Shape
  <1>2. PICK r \in Requests \ Chunks :
            job' = [job EXCEPT ![Caller] = [Idle EXCEPT !.request = r]]
    BY DEF NextAfterChunks
  <1>3. /\ pc[Caller] = "idle" /\ raised = {} /\ Goto(Caller, "select")
        /\ UNCHANGED <<fallback, taken, inflight, calls, spent, results, completed, counted, raised,
                       outcome, tried, leaked, torn, collided>>
    BY DEF NextAfterChunks, At, shared, told, history
  <1>4. /\ Shape' /\ LoadAccounts' /\ CountsAgree'
        /\ OthersStay(Caller) /\ pc' \in [Threads -> Steps] /\ pc'[Caller] = "select"
        /\ job'[Caller].request = r
    BY <1>1, <1>2, <1>3, Fresh
  <1>5. \A u \in Threads \ {Caller} : Request(u) # r
    <2>1. ASSUME NEW u \in Threads \ {Caller} PROVE Request(u) # r
      <3>1. CASE pc[u] = "idle"
        BY <1>1, <1>2, <3>1, Bounds DEF WhoWorks
      <3>2. CASE pc[u] # "idle"
        BY <1>1, <1>2, <3>2, WhoHas, Bounds
      <3>3. QED
        BY <3>1, <3>2
    <2>2. QED
      BY <2>1
  <1>6. WorksOn(Caller, r)
    <2>1. calls \in Nat /\ spent \in Nat /\ job[Caller].request = None
      BY <1>1, <1>3 DEF Shape, WhoWorks, Request
    <2>2. QED
      BY <1>1, <1>2, <1>3, <1>4, <1>5, <2>1 DEF WorksOn, InChannel, ChunkSteps
  <1>7. QED
    BY <1>1, <1>2, <1>4, <1>6, WorksOnKeeps
-----------------------------------------------------------------------------
(* The run as a whole. *)

\* Every step of a run keeps the invariant.
LEMMA InvStep ==
    ASSUME RInv, [RNext]_vars
    PROVE  RInv'
  <1>1. ASSUME NEW t \in Threads, Step(t) PROVE RInv'
    <2>1. CASE \/ CacheHit(t) \/ CircuitRefuses(t) \/ Admit(t) \/ ReserveSlot(t) \/ OverQuota(t)
               \/ Wake(t) \/ NoStream(t) \/ Retry(t) \/ Store(t) \/ GiveUp(t) \/ MarkHealth(t)
      BY <2>1, InChannelMoves, MovesOn
    <2>2. CASE Take(t) \/ Select(t) \/ Spend(t)
      BY <2>2, TakeKeeps, SelectKeeps, SpendKeeps
    <2>3. CASE OverBudget(t) \/ StoreFault(t) \/ AllFailed(t) \/ CallerRaises(t)
      BY <2>3, OverBudgetKeeps, StoreFaultKeeps, AllFailedKeeps, CallerRaisesKeeps
    <2>4. CASE SettleSuccess(t) \/ FailOver(t)
      BY <2>4, SettleSuccessKeeps, FailOverKeeps
    <2>5. CASE Report(t) \/ Notify(t) \/ Tell(t) \/ TellCollides(t)
      BY <2>5, ReportKeeps, NotifyKeeps, TellKeeps
    <2>6. QED
      BY <1>1, <2>1, <2>2, <2>3, <2>4, <2>5 DEF Step
  <1>2. ASSUME UNCHANGED <<fallback, pc, job, taken, inflight, calls, spent, results, completed,
                           counted, raised, tried, leaked, torn, collided>>,
               outcome' = "returned" =>
                   outcome = "returned" \/ (taken = NumChunks /\ \A r \in Requests : Answered(r))
        PROVE  RInv'
    <2>1. Shape' /\ WhoWorks' /\ RaisedGone' /\ TriesFollow' /\ CountsAgree'
      BY <1>2 DEF RInv, Shape, WhoWorks, RaisedGone, TriesFollow, CountsAgree, Tries, Answered,
                  Request, Channel
    <2>2. RaisedForCause'
      BY <1>2 DEF RInv, RaisedForCause, Excused, WithinBudget
    <2>3. AnswersFollow'
      BY <1>2 DEF RInv, AnswersFollow, Answered, Request
    <2>4. LoadAccounts'
      BY <1>2, LoadStays DEF RInv, Inside, Channel, IsChunk, Request
    <2>5. QED
      BY <2>1, <2>2, <2>3, <2>4 DEF RInv
  <1>3. CASE Tick \/ RaiseFirst \/ UNCHANGED vars
    BY <1>2, <1>3 DEF Tick, RaiseFirst, vars, shared, told, history
  <1>4. CASE Return
    <2>1. taken = NumChunks /\ raised = {} /\ \A w \in Workers : pc[w] = "idle"
      BY <1>4 DEF Return, ChunksOver, At
    <2>2. \A k \in Chunks : Answered(k)
      <3>1. \A w \in Workers : Request(w) = None
        BY <2>1, Bounds DEF RInv, WhoWorks
      <3>2. \A k \in 1 .. taken : Answered(k) \/ \E w \in Workers : Request(w) = k
        BY <2>1 DEF RInv, AnswersFollow
      <3>3. QED
        BY <2>1, <3>1, <3>2, Bounds DEF Chunks
    <2>3. \A r \in Requests : Answered(r)
      BY <1>4, <2>2 DEF Return
    <2>4. QED
      BY <1>2, <1>4, <2>1, <2>3 DEF Return, shared, history
  <1>5. QED
    BY <1>1, <1>3, <1>4, NextAfterChunksKeeps DEF RNext, CallerStep

\* A new adapter has the invariant.
LEMMA InvInit ==
    ASSUME RInit
    PROVE  RInv
  <1>1. /\ job = [t \in Threads |-> Idle] /\ pc = [t \in Threads |-> "idle"]
        /\ inflight = [c \in Channels |-> 0] /\ tried = [r \in Requests |-> {}]
        /\ results = [r \in Requests |-> None] /\ raised = {} /\ leaked = {} /\ counted = {}
        /\ torn = {} /\ collided = {} /\ calls = 0 /\ spent = 0 /\ taken = 0 /\ completed = 0
        /\ outcome = "running" /\ fallback \in BOOLEAN
    BY DEF RInit
  <1>2. Shaped(Idle) /\ Idle.request = None /\ Idle.channel = None /\ Idle.rest = {}
        /\ Idle.seen = 0 /\ Idle.ok = FALSE /\ Idle.answer = None
    BY DEF Shaped, Idle
  <1>3. \A t \in Threads : job[t] = Idle /\ pc[t] = "idle" /\ Request(t) = None
    BY <1>1, <1>2 DEF Request
  <1>4. Shape
    <2>1. None \in 0 .. Mock /\ 0 \in 0 .. NumChunks /\ 0 \in Nat
      BY Bounds DEF None
    <2>2. QED
      BY <1>1, <1>2, <1>3, <2>1 DEF Shape, Steps
  <1>5. WhoWorks /\ RaisedGone /\ RaisedForCause
    BY <1>1, <1>3, Bounds DEF WhoWorks, RaisedGone, RaisedForCause, InChannel
  <1>6. TriesFollow
    BY <1>1, <1>3, Bounds DEF TriesFollow, InChannel
  <1>7. AnswersFollow
    BY <1>1, <1>3, Bounds DEF AnswersFollow, Answered, InChannel
  <1>8. CountsAgree
    <2>1. Tries = {}
      BY <1>1, Bounds DEF Tries
    <2>2. {k \in Chunks : Answered(k)} = {}
      BY <1>1, Bounds DEF Answered
    <2>3. QED
      BY <1>1, <2>1, <2>2, FS_EmptySet DEF CountsAgree
  <1>9. LoadAccounts
    <2>1. \A c \in Channels : In(c) = {} /\ Out(c) = {}
      BY <1>1, <1>3 DEF In, Out, Inside, InChannel
    <2>2. \A c \in Channels : Cardinality(In(c)) = 0 /\ Cardinality(Out(c)) = 0
      BY <2>1, FS_EmptySet
    <2>3. QED
      BY <1>1, <2>2, LoadParts
  <1>10. QED
    BY <1>4, <1>5, <1>6, <1>7, <1>8, <1>9 DEF RInv

\* The inductive invariant holds of every run.
THEOREM RouterInvariant == RSpec => []RInv
  <1>1. RInit => RInv
    BY InvInit
  <1>2. RInv /\ [RNext]_vars => RInv'
    BY InvStep
  <1>3. QED
    BY <1>1, <1>2, PTL DEF RSpec

\* Whatever the threads do, the load of a channel whose counter no two threads
\* updated at once counts the threads in it and those that left by an exception.
THEOREM LoadAlwaysAccounts == RSpec => []LoadAccounts
  <1>1. RInv => LoadAccounts
    BY DEF RInv
  <1>2. QED
    BY <1>1, RouterInvariant, PTL

\* A run never returns without every answer, a chunk never fails before every
\* channel it may use was tried or ruled out, and no call escapes the budget.
THEOREM AlwaysFailsClosed == RSpec => []FailsClosed
  <1>1. ASSUME RInv PROVE FailsClosed
    <2>1. outcome = "returned" => completed = NumChunks /\ \A r \in Requests : Answered(r)
      <3>1. HAVE outcome = "returned"
      <3>2. \A r \in Requests : Answered(r)
        BY <1>1, <3>1 DEF RInv, AnswersFollow
      <3>3. {k \in Chunks : Answered(k)} = Chunks
        BY <3>2, Bounds
      <3>4. QED
        BY <1>1, <3>2, <3>3, Finite DEF RInv, CountsAgree
    <2>2. QED
      BY <1>1, <2>1 DEF FailsClosed, RInv, RaisedForCause, Excused, CountsAgree
  <1>2. QED
    BY <1>1, RouterInvariant, PTL
=============================================================================
