----------------------------- MODULE ChunkRouter -----------------------------
(***************************************************************************)
(* The language model side of an analysis: RouterLLMAdapter sends the      *)
(* chunks of a book over several channels from a pool of threads, each     *)
(* channel is a RuntimeLLMAdapter with its cache, circuit breaker, request *)
(* slots and retries, and the provider behind it is an OpenAIAdapter.      *)
(* After the chunks the calling thread makes the requests that build on    *)
(* them: reductions, skills and reviews.                                   *)
(*                                                                         *)
(* A thread is a worker; what it does between two reads or writes of state *)
(* that others share is one step.  A cost in floating point is a natural   *)
(* number here, latency is the order in which equally loaded channels are  *)
(* preferred, and what a provider answers is only whether it did.          *)
(***************************************************************************)
EXTENDS RequestSlots, SequencesExt

CONSTANTS
    NumChannels,    \* channels are numbers in the order of their profile ids
    Roles,          \* the kinds of requests every channel may serve, a sequence
    Streaming,      \* the channels that ask for a stream first
    NumWorkers,     \* max_global_workers
    TokenLimit,     \* tokens_per_minute of every channel, a sequence
    MaxInFlight,    \* max_concurrent_requests of every channel, a sequence
    NumChunks,      \* chunks are numbered in the order they are submitted
    ChunkTokens,    \* the tokens of every chunk, a sequence
    AfterChunks,    \* the kinds of requests made when the chunks are done
    MaxCalls,       \* max_total_calls
    MaxCost,        \* max_total_cost
    ChunkCost,      \* the cost of one chunk on every channel, a sequence
    MaxRetries,     \* max_retries
    Threshold,      \* failures in a row that open a circuit
    MaxMishaps,     \* bound: cache writes that raise
    EarlierCaches,  \* bound: what earlier runs may have left in the cache files
    Horizon         \* bound: until when time passes with nobody asleep

Channels == 1 .. NumChannels
Chunks   == 1 .. NumChunks
Requests == 1 .. NumChunks + Len(AfterChunks)
Kinds    == {"chunk", "synthesis", "skills", "review"}
Caller   == 0
Workers  == 1 .. NumWorkers
Threads  == {Caller} \cup Workers

KindOf(r)   == IF r \in Chunks THEN "chunk" ELSE AfterChunks[r - NumChunks]
TokensIn(r) == IF r \in Chunks THEN ChunkTokens[r] ELSE 1

\* can_serve and accepts_material: a channel that may not be sent the material
\* has no roles here.
Eligible(r) == {c \in Channels : KindOf(r) \in Roles[c]}

ASSUME RouterAssumption ==
    /\ NumChannels \in Nat \ {0} /\ NumWorkers \in Nat \ {0} /\ NumChunks \in Nat
    /\ Streaming \subseteq Channels
    /\ TokenLimit \in [Channels -> Nat \ {0}]
    /\ MaxInFlight \in [Channels -> Nat \ {0}] /\ Threshold \in Nat \ {0}
    /\ MaxCalls \in Nat /\ MaxCost \in Nat /\ MaxRetries \in Nat /\ MaxMishaps \in Nat
    /\ EarlierCaches \subseteq SUBSET (Channels \X Requests) /\ Horizon \in Nat
    /\ ChunkTokens \in [Chunks -> Nat \ {0}]
    /\ ChunkCost \in [Channels -> Nat]
    /\ AfterChunks \in Seq(Kinds \ {"chunk"})
    /\ Roles \in [Channels -> SUBSET Kinds] /\ \A r \in Requests : Eligible(r) # {}

VARIABLES
    fallback,   \* allow_fallback of the run
    now,        \* time in ticks
    pc, job,    \* of every thread: its next step, and the locals of its request
    taken,      \* how many chunks the pool has handed out
    inflight,   \* ChannelHealth.in_flight
    fails,      \* ChannelHealth.consecutive_failures
    calls, spent,  \* RouterLLMAdapter._total_calls and _total_cost
    trips,      \* RuntimeLLMAdapter._consecutive_failures
    slots,      \* RuntimeLLMAdapter._next_request_start, _token_reservations
    cache,      \* the pairs of channel and request the cache files answer
    results,    \* the channel whose answer each request got, or None
    completed,  \* the count that on_completed reports
    counted,    \* the chunks the progress report has counted
    raised,     \* the requests whose exception a future or the caller has
    outcome,    \* of the run: "running", "returned" or "raised"
    tried,      \* history: the channels each request was given to
    schedule,   \* history: every start a channel has given out
    leaked,     \* history: channel and request of threads that never said they left
    torn,       \* history: channels two threads updated the load of at once
    collided,   \* history: chunks whose report met that of another thread
    mishaps

vars == <<fallback, now, pc, job, taken, inflight, fails, calls, spent, trips, slots, cache,
          results, completed, counted, raised, outcome, tried, schedule, leaked, torn,
          collided, mishaps>>

shared  == <<fallback, now, taken, inflight, fails, calls, spent, trips, slots, cache>>
told    == <<results, completed, counted, raised, outcome>>
history == <<tried, schedule, leaked, torn, collided, mishaps>>

None == 0
Mock == NumChannels + 1     \* an answer of the deterministic fallback

Steps == {"idle", "select", "spend", "lookup", "reserve", "asleep", "sent",
          "resent", "mark", "settle", "report",
          "notify", "tell"}

Idle == [request |-> None, channel |-> None, rest |-> {}, attempt |-> 0,
         wake |-> 0, seen |-> 0, ok |-> FALSE, answer |-> None]

Jobs == [request : Requests \cup {None}, channel : Channels \cup {None},
         rest : SUBSET Channels, attempt : 0 .. MaxRetries + 1, wake : Nat,
         seen : Nat, ok : BOOLEAN, answer : 0 .. Mock]

RTypeOK ==
    /\ fallback \in BOOLEAN /\ now \in Nat /\ calls \in 0 .. MaxCalls /\ spent \in 0 .. MaxCost
    /\ pc \in [Threads -> Steps] /\ job \in [Threads -> Jobs]
    /\ taken \in 0 .. NumChunks /\ completed \in 0 .. NumChunks
    /\ inflight \in [Channels -> Nat] /\ fails \in [Channels -> Nat]
    /\ trips \in [Channels -> Nat] /\ slots \in [Channels -> Slots]
    /\ cache \subseteq Channels \X Requests
    /\ results \in [Requests -> 0 .. Mock] /\ raised \subseteq Requests
    /\ outcome \in {"running", "returned", "raised"}
    /\ tried \in [Requests -> SUBSET Channels] /\ schedule \in [Channels -> Seq(Reservation)]
    /\ leaked \subseteq Channels \X Chunks /\ torn \subseteq Channels
    /\ counted \subseteq Chunks /\ collided \subseteq Chunks /\ mishaps \in 0 .. MaxMishaps

Goto(t, step)   == pc' = [pc EXCEPT ![t] = step]
Request(t)      == job[t].request
Channel(t)      == job[t].channel
IsChunk(t)      == KindOf(Request(t)) = "chunk"
At(t, step)     == pc[t] = step

(***************************************************************************)
(* Changed forms of the code, for the mutants of PROJECT.json.             *)
(***************************************************************************)

\* The failover order names the selected channel once more.
OthersAndItself(r, c) == Eligible(r)

\* mark_failure counts the failure but not the thread that left.
LeaveOnSuccess(t) ==
    /\ inflight' = IF job[t].ok THEN [inflight EXCEPT ![Channel(t)] = Max({0, job[t].seen - 1})]
                   ELSE inflight
    /\ torn' = IF inflight[Channel(t)] # job[t].seen THEN torn \cup {Channel(t)} ELSE torn
    /\ UNCHANGED <<fallback, now, taken, fails, calls, spent, trips, slots, cache,
                   tried, schedule, leaked, collided, mishaps>>

\* The pool hands out no chunk after the first exception, and is waited for.
TakeUntilRaised(w) ==
    /\ w \in Workers /\ At(w, "idle") /\ taken < NumChunks /\ raised = {}
    /\ taken' = taken + 1
    /\ job' = [job EXCEPT ![w] = [Idle EXCEPT !.request = taken + 1]]
    /\ Goto(w, "select")
    /\ UNCHANGED <<fallback, now, inflight, fails, calls, spent, trips, slots, cache,
                   told, history>>

(***************************************************************************)
(* Choice of a channel.                                                    *)
(***************************************************************************)
CircuitOpen(c) == fails[c] >= Threshold

\* _map_sort_key: open circuits last, then the least loaded.  Which of equally
\* loaded channels comes first depends on latencies, so any of them may.
BestForMap(r) ==
    LET closed == {c \in Eligible(r) : ~CircuitOpen(c)}
        pool   == IF closed = {} THEN Eligible(r) ELSE closed
    IN  {c \in pool : \A d \in pool : inflight[c] * MaxInFlight[d] <= inflight[d] * MaxInFlight[c]}

\* _score: an open circuit outweighs all else.  The bonus of the default profile
\* can be outweighed by latency, so any channel with a closed circuit may win.
BestForStrong(r) ==
    LET closed == {c \in Eligible(r) : ~CircuitOpen(c)}
    IN  IF closed = {} THEN Eligible(r) ELSE closed

\* _failover_order: the other candidates, to be taken in the order of their ids.
Others(r, c) == Eligible(r) \ {c}

\* A thread of the pool takes the next chunk that was submitted.
Take(w) ==
    /\ w \in Workers /\ At(w, "idle") /\ taken < NumChunks
    /\ taken' = taken + 1
    /\ job' = [job EXCEPT ![w] = [Idle EXCEPT !.request = taken + 1]]
    /\ Goto(w, "select")
    /\ UNCHANGED <<fallback, now, inflight, fails, calls, spent, trips, slots, cache, told, history>>

\* All futures of the pool are over and none raised: the caller goes on with
\* the request after those that have their answer.
ChunksOver == taken = NumChunks /\ \A w \in Workers : At(w, "idle")

Answered(r) == results[r] # None

NextAfterChunks ==
    /\ At(Caller, "idle") /\ outcome = "running" /\ ChunksOver /\ raised = {}
    /\ \E r \in Requests \ Chunks :
          /\ ~Answered(r) /\ \A q \in Requests \ Chunks : q < r => Answered(q)
          /\ job' = [job EXCEPT ![Caller] = [Idle EXCEPT !.request = r]]
    /\ Goto(Caller, "select")
    /\ UNCHANGED <<shared, told, history>>

\* select_channel reads the health of the channels without the lock.  Only
\* chunks have a budget and other channels to fail over to.
Select(t) ==
    /\ At(t, "select")
    /\ \E c \in IF IsChunk(t) THEN BestForMap(Request(t)) ELSE BestForStrong(Request(t)) :
          job' = [job EXCEPT ![t].channel = c,
                             ![t].rest = IF IsChunk(t) THEN Others(Request(t), c) ELSE {}]
    /\ Goto(t, IF IsChunk(t) THEN "spend" ELSE "lookup")
    /\ UNCHANGED <<shared, told, history>>

(***************************************************************************)
(* The budget, counted before anything is known of what the call will do.  *)
(***************************************************************************)
WithinBudget(c) == calls < MaxCalls /\ spent + ChunkCost[c] <= MaxCost

\* _within_budget under the lock, then mark_in_flight.
Spend(t) ==
    /\ At(t, "spend") /\ WithinBudget(Channel(t))
    /\ calls' = calls + 1
    /\ spent' = spent + ChunkCost[Channel(t)]
    /\ inflight' = [inflight EXCEPT ![Channel(t)] = @ + 1]
    /\ tried' = [tried EXCEPT ![Request(t)] = @ \cup {Channel(t)}]
    /\ Goto(t, "lookup")
    /\ UNCHANGED <<fallback, now, job, taken, fails, trips, slots, cache, told,
                   schedule, leaked, torn, collided, mishaps>>

\* A thread whose future raises takes the next chunk all the same.
Raise(t) ==
    /\ raised' = raised \cup {Request(t)}
    /\ job' = [job EXCEPT ![t] = Idle]
    /\ Goto(t, "idle")

OverBudget(t) ==
    /\ At(t, "spend") /\ ~WithinBudget(Channel(t))
    /\ Raise(t)
    /\ UNCHANGED <<shared, results, completed, counted, outcome, history>>

(***************************************************************************)
(* One request on its channel.                                             *)
(***************************************************************************)
HasCache(r) == KindOf(r) \in {"chunk", "synthesis"}

Ended(t, ok, answer) == job' = [job EXCEPT ![t].ok = ok, ![t].answer = answer]

\* Chunks go back to the router, other requests to the caller.
AfterEnd(t) == Goto(t, IF IsChunk(t) THEN "mark" ELSE "report")

CacheHit(t) ==
    /\ At(t, "lookup") /\ HasCache(Request(t)) /\ <<Channel(t), Request(t)>> \in cache
    /\ Ended(t, TRUE, Channel(t)) /\ AfterEnd(t)
    /\ UNCHANGED <<shared, told, history>>

Missed(t) == ~(HasCache(Request(t)) /\ <<Channel(t), Request(t)>> \in cache)

\* The circuit of the channel is only asked about for chunks.  It is not the
\* router's circuit: the two count failures of their own.
Tripped(t) == IsChunk(t) /\ trips[Channel(t)] >= Threshold

CircuitRefuses(t) ==
    /\ At(t, "lookup") /\ Missed(t) /\ Tripped(t)
    /\ Ended(t, FALSE, None) /\ AfterEnd(t)
    /\ UNCHANGED <<shared, told, history>>

Admit(t) ==
    /\ At(t, "lookup") /\ Missed(t) /\ ~Tripped(t)
    /\ job' = [job EXCEPT ![t].attempt = 1]
    /\ Goto(t, "reserve")
    /\ UNCHANGED <<shared, told, history>>

ReserveSlot(t) ==
    /\ At(t, "reserve") /\ ~TooLarge(TokensIn(Request(t)), TokenLimit[Channel(t)])
    /\ LET after == Reserved(slots[Channel(t)], now, TokensIn(Request(t)),
                                TokenLimit[Channel(t)])
           given == Last(after.held)
       IN  /\ slots' = [slots EXCEPT ![Channel(t)] = after]
           /\ schedule' = [schedule EXCEPT ![Channel(t)] = Append(@, given)]
           /\ job' = [job EXCEPT ![t].wake = given.at]
    /\ Goto(t, "asleep")
    /\ UNCHANGED <<fallback, now, taken, inflight, fails, calls, spent, trips, cache, told,
                   tried, leaked, torn, collided, mishaps>>

\* LLMQuotaExceededError ends the request at once: no attempt, no fallback, and
\* no failure towards the circuit.  The router fails over as for any error.
OverQuota(t) ==
    /\ At(t, "reserve") /\ TooLarge(TokensIn(Request(t)), TokenLimit[Channel(t)])
    /\ Ended(t, FALSE, None) /\ AfterEnd(t)
    /\ UNCHANGED <<shared, told, history>>

Wake(t) ==
    /\ At(t, "asleep") /\ now >= job[t].wake
    /\ Goto(t, "sent")
    /\ UNCHANGED <<shared, job, told, history>>

\* An endpoint that takes no streams gets the request again, in the same slot.
NoStream(t) ==
    /\ At(t, "sent") /\ Channel(t) \in Streaming
    /\ Goto(t, "resent")
    /\ UNCHANGED <<shared, job, told, history>>

Sent(t) == pc[t] \in {"sent", "resent"}

\* Every kind of request but a review is tried again, with a slot of its own,
\* after a timeout, an error of the endpoint or an answer that breaks the contract.
MayRetry(t) == KindOf(Request(t)) # "review" /\ job[t].attempt <= MaxRetries

Retry(t) ==
    /\ Sent(t) /\ MayRetry(t)
    /\ Goto(t, "reserve")
    /\ job' = [job EXCEPT ![t].attempt = @ + 1, ![t].wake = 0]
    /\ UNCHANGED <<shared, told, history>>

\* The answer keeps the contract: it closes the circuit and is cached by a rename.
Store(t) ==
    /\ Sent(t)
    /\ trips' = IF IsChunk(t) THEN [trips EXCEPT ![Channel(t)] = 0] ELSE trips
    /\ cache' = cache \cup (IF HasCache(Request(t)) THEN {<<Channel(t), Request(t)>>} ELSE {})
    /\ Ended(t, TRUE, Channel(t)) /\ AfterEnd(t)
    /\ UNCHANGED <<fallback, now, taken, inflight, fails, calls, spent, slots, told, history>>

\* Writing the cache raises OSError, which nobody catches: the request fails
\* although it was answered, and the router does not count the thread out.
StoreFault(t) ==
    /\ Sent(t) /\ HasCache(Request(t)) /\ mishaps < MaxMishaps
    /\ mishaps' = mishaps + 1
    /\ trips' = IF IsChunk(t) THEN [trips EXCEPT ![Channel(t)] = 0] ELSE trips
    /\ leaked' = leaked \cup (IF IsChunk(t) THEN {<<Channel(t), Request(t)>>} ELSE {})
    /\ Raise(t)
    /\ UNCHANGED <<fallback, now, taken, inflight, fails, calls, spent, slots, cache,
                   results, completed, counted, outcome, tried, schedule, torn, collided>>

\* The last attempt failed: the circuit counts it, and the deterministic
\* fallback answers in its place where the user allowed that.
GiveUp(t) ==
    /\ Sent(t) /\ ~MayRetry(t)
    /\ trips' = IF IsChunk(t) THEN [trips EXCEPT ![Channel(t)] = @ + 1] ELSE trips
    /\ Ended(t, fallback, IF fallback THEN Mock ELSE None) /\ AfterEnd(t)
    /\ UNCHANGED <<fallback, now, taken, inflight, fails, calls, spent, slots, cache, told, history>>

(***************************************************************************)
(* Back in the router.  mark_success and mark_failure are not under its    *)
(* lock: each reads in_flight, calls max() and writes it back.             *)
(***************************************************************************)
MarkHealth(t) ==
    /\ At(t, "mark")
    /\ fails' = [fails EXCEPT ![Channel(t)] = IF job[t].ok THEN 0 ELSE @ + 1]
    /\ job' = [job EXCEPT ![t].seen = inflight[Channel(t)]]
    /\ Goto(t, "settle")
    /\ UNCHANGED <<fallback, now, taken, inflight, calls, spent, trips, slots, cache, told, history>>

\* The channel left, a failure goes to the next one of the order.
Leave(t) ==
    /\ inflight' = [inflight EXCEPT ![Channel(t)] = Max({0, job[t].seen - 1})]
    /\ torn' = IF inflight[Channel(t)] # job[t].seen THEN torn \cup {Channel(t)} ELSE torn
    /\ UNCHANGED <<fallback, now, taken, fails, calls, spent, trips, slots, cache,
                   tried, schedule, leaked, collided, mishaps>>

SettleSuccess(t) ==
    /\ At(t, "settle") /\ job[t].ok /\ Leave(t)
    /\ Goto(t, "report")
    /\ UNCHANGED <<job, told>>

FailOver(t) ==
    /\ At(t, "settle") /\ ~job[t].ok /\ job[t].rest # {} /\ Leave(t)
    /\ LET next == Min(job[t].rest)
       IN  job' = [job EXCEPT ![t] = [Idle EXCEPT !.request = job[t].request,
                     !.channel = next, !.rest = job[t].rest \ {next}]]
    /\ Goto(t, "spend")
    /\ UNCHANGED told

AllFailed(t) ==
    /\ At(t, "settle") /\ ~job[t].ok /\ job[t].rest = {} /\ Leave(t)
    /\ Raise(t)
    /\ UNCHANGED <<results, completed, counted, outcome>>

\* Under the local lock: the result gets its place and the count goes up.
Report(t) ==
    /\ At(t, "report") /\ job[t].ok
    /\ results' = [results EXCEPT ![Request(t)] = job[t].answer]
    /\ completed' = completed + (IF IsChunk(t) THEN 1 ELSE 0)
    /\ IF IsChunk(t) THEN Goto(t, "notify") /\ UNCHANGED job
       ELSE Goto(t, "idle") /\ job' = [job EXCEPT ![t] = Idle]
    /\ UNCHANGED <<shared, counted, raised, outcome, history>>

\* on_completed runs in the thread of the pool: report_completion adds the chunk
\* to a set and then goes through that set to estimate what is left.
Notify(t) ==
    /\ At(t, "notify")
    /\ counted' = counted \cup {Request(t)}
    /\ job' = [job EXCEPT ![t].seen = Cardinality(counted')]
    /\ Goto(t, "tell")
    /\ UNCHANGED <<shared, results, completed, raised, outcome, history>>

Tell(t) ==
    /\ At(t, "tell")
    /\ job' = [job EXCEPT ![t] = Idle]
    /\ Goto(t, "idle")
    /\ UNCHANGED <<shared, told, history>>

\* The set grew under the iteration, which then raises RuntimeError: the future
\* of a chunk that has its result fails, and the run with it.
TellCollides(t) ==
    /\ At(t, "tell") /\ Cardinality(counted) # job[t].seen
    /\ Raise(t)
    /\ collided' = collided \cup {Request(t)}
    /\ UNCHANGED <<shared, results, completed, counted, outcome, tried, schedule, leaked,
                   torn, mishaps>>

CallerRaises(t) ==
    /\ At(t, "report") /\ ~job[t].ok
    /\ Raise(t)
    /\ UNCHANGED <<shared, results, completed, counted, outcome, history>>

(***************************************************************************)
(* The run.  The first exception leaves the loop over the futures, but the *)
(* pool waits for all of them before analyze_chunks raises it.             *)
(***************************************************************************)
Return ==
    /\ outcome = "running" /\ ChunksOver /\ At(Caller, "idle") /\ raised = {}
    /\ \A r \in Requests \ Chunks : Answered(r)
    /\ outcome' = "returned"
    /\ UNCHANGED <<shared, pc, job, results, completed, counted, raised, history>>

RaiseFirst ==
    /\ outcome = "running" /\ ChunksOver /\ At(Caller, "idle") /\ raised # {}
    /\ outcome' = "raised"
    /\ UNCHANGED <<shared, pc, job, results, completed, counted, raised, history>>

\* Time passes; the run is over before it has to be bounded, but for calls.
Tick ==
    /\ outcome = "running"
    /\ now < Horizon \/ \E t \in Threads : At(t, "asleep") /\ now < job[t].wake
    /\ now' = now + 1
    /\ UNCHANGED <<fallback, pc, job, taken, inflight, fails, calls, spent, trips, slots, cache,
                   told, history>>

\* A new adapter: counters at zero, and the cache files of earlier runs.
RInit ==
    /\ fallback \in BOOLEAN
    /\ now = 0 /\ calls = 0 /\ spent = 0 /\ taken = 0 /\ completed = 0
    /\ pc = [t \in Threads |-> "idle"] /\ job = [t \in Threads |-> Idle]
    /\ inflight = [c \in Channels |-> 0] /\ fails = [c \in Channels |-> 0]
    /\ trips = [c \in Channels |-> 0] /\ slots = [c \in Channels |-> NoSlots]
    /\ cache \in EarlierCaches
    /\ results = [r \in Requests |-> None] /\ raised = {} /\ outcome = "running"
    /\ tried = [r \in Requests |-> {}] /\ schedule = [c \in Channels |-> << >>]
    /\ leaked = {} /\ torn = {} /\ counted = {} /\ collided = {} /\ mishaps = 0

Step(t) ==
    \/ Take(t) \/ Select(t) \/ Spend(t) \/ OverBudget(t)
    \/ CacheHit(t) \/ CircuitRefuses(t) \/ Admit(t)
    \/ ReserveSlot(t) \/ OverQuota(t) \/ Wake(t)
    \/ NoStream(t) \/ Retry(t)
    \/ Store(t) \/ StoreFault(t) \/ GiveUp(t)
    \/ MarkHealth(t) \/ SettleSuccess(t) \/ FailOver(t) \/ AllFailed(t)
    \/ Report(t) \/ CallerRaises(t)
    \/ Notify(t) \/ Tell(t) \/ TellCollides(t)

CallerStep == NextAfterChunks \/ Return \/ RaiseFirst

RNext == (\E t \in Threads : Step(t)) \/ CallerStep \/ Tick

\* Threads are scheduled, the clock goes on, and a request is answered or
\* runs into its timeout.
RSpec ==
    /\ RInit /\ [][RNext]_vars
    /\ \A t \in Threads : WF_vars(Step(t))
    /\ WF_vars(CallerStep) /\ WF_vars(Tick)

(***************************************************************************)
(* Properties.                                                             *)
(***************************************************************************)

InChannel == {"lookup", "reserve", "asleep", "sent", "resent", "mark", "settle"}

Inside(t, c) == pc[t] \in InChannel /\ Channel(t) = c /\ IsChunk(t)

\* Every channel a chunk was given to, with the chunk.
Tries == {try \in Channels \X Chunks : try[1] \in tried[try[2]]}

\* Whatever the threads of a channel ask for at once, the starts they are given
\* keep both budgets: in no 60 seconds do the reserved tokens exceed
\* tokens_per_minute, and starts are 60 / rpm seconds apart.  Reservations are
\* dropped by a time that lies ahead of the clock, which could be too early.
QuotaKept == \A c \in Channels : Paced(schedule[c]) /\ WithinQuota(schedule[c], TokenLimit[c])

\* analyze_chunks and the requests after it return only when every request has
\* an answer.  A chunk fails only after every channel it may use was tried, when the
\* budget forbids one that was not, when its cache file could not be written or when its
\* progress report met another; each channel is tried at most once, and every
\* try is counted in the budget.
FailsClosed ==
    /\ outcome = "returned" => completed = NumChunks /\ \A r \in Requests : Answered(r)
    /\ \A k \in raised \cap Chunks :
          \/ tried[k] = Eligible(k)
          \/ \E c \in Eligible(k) \ tried[k] : ~WithinBudget(c)
          \/ \E c \in Channels : <<c, k>> \in leaked
          \/ k \in collided
    /\ calls = Cardinality(Tries)

\* The load that selection goes by is the number of threads in the channel,
\* with those that left through an exception of the cache still counted.  It
\* fails only once two threads updated the counter of that channel at once.
LoadAccounts ==
    \A c \in Channels \ torn :
        inflight[c] = Cardinality({t \in Threads : Inside(t, c)})
                      + Cardinality({k \in Chunks : <<c, k>> \in leaked})

\* An analysis ends: slots are given out, sleepers wake, and the pool drains,
\* whatever the providers answer.
RunEnds == <>(outcome # "running")
=============================================================================
