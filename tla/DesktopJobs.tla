----------------------------- MODULE DesktopJobs -----------------------------
(***************************************************************************)
(* The desktop's job manager and event bus (desktop/jobs.py), the HTTP     *)
(* handlers that drive them (desktop/server.py) and the one window that    *)
(* listens (desktop/static/app.js).                                        *)
(*                                                                         *)
(* Handlers, jobs and streams are threads; the two locks of jobs.py make   *)
(* the sections they guard single and everything else interleaves.  *)
(* EventBus.publish is such a section followed by one put per subscriber.  *)
(* The window may be loaded again, its event stream may break, and a       *)
(* queue may be full. A queue stands for all that is between a publish     *)
(* call and the window: the subscriber queue and the connection.           *)
(*                                                                         *)
(* The n-th click on "run" is request n, and the job it starts is job n.   *)
(***************************************************************************)
EXTENDS Naturals, Sequences, FiniteSets

CONSTANTS
    MaxRuns,       \* bound on the clicks on "run"
    MaxCancels,    \* bound on the clicks on "cancel"
    MaxStreams,    \* bound on the event streams at any one time
    MaxExtras,     \* bound on all that a job may do without: see Extra
    QueueSize      \* capacity of a subscriber's queue, 256 in the code

ASSUME DesktopAssumption ==
    /\ MaxRuns \in Nat /\ MaxCancels \in Nat /\ MaxStreams \in Nat
    /\ MaxExtras \in Nat /\ QueueSize \in Nat \ {0}

VARIABLES
    active,      \* JobManager._active: the job, or 0
    stop,        \* jobs whose cancel_event is set
    last,        \* EventBus._last_terminal_event
    request,     \* request[r]: the handler of a POST to /api/jobs/<kind>
    job,         \* job[j]: the thread of the job
    cancel,      \* cancel[c]: the handler of a POST to /api/jobs/cancel
    sending,     \* sending[t]: the publish call thread t is in
    stream,      \* stream[s]: the handler of a GET of /api/events
    queue,       \* queue[s]: its subscriber queue
    replay,      \* replay[s]: the end subscribe() has read to replay
    page,        \* the state of the window
    extras,      \* how many of them happened so far
    \* History variables.
    told,        \* told[s]: jobs whose end was put into queue[s], or met a full one
    repeated,    \* whether an end was put twice into a queue
    cost         \* what may have kept the window from learning how a job ended

server  == <<active, stop, last>>
threads == <<request, job, cancel>>
streams == <<stream, queue, replay>>
history == <<told, repeated, cost>>
vars    == <<active, stop, last, request, job, cancel, sending, stream,
             queue, replay, page, extras, told, repeated, cost>>

Jobs    == 1..MaxRuns
Cancels == 1..MaxCancels
Streams == 1..MaxStreams
Threads == ({"start", "job"} \X Jobs) \cup ({"cancel"} \X Cancels)

Ends    == {"completed", "failed", "cancelled"}
Events  == [type : {"none", "started", "progress", "cancellation_requested"} \cup Ends,
            job : 0..MaxRuns]
NoEvent == [type |-> "none", job |-> 0]
Event(type, j) == [type |-> type, job |-> j]

\* A publish call: its event and the subscribers still to get it.
Sends == [event : Events, to : SUBSET Streams]
Idle  == [event |-> NoEvent, to |-> {}]

RequestStates == {"none", "sent", "claimed", "reset", "announced", "accepted",
                  "refused", "broken", "done"}
JobStates     == {"none", "running", "checked", "ended", "released"}
CancelStates  == {"none", "sent", "flagged", "done"}
StreamStates  == {"none", "subscribed", "open", "lost", "leaked"}

\* The window: state.jobId, state.terminalJobId, whether it shows a job running,
\* its bootstrap request and the job in the answer, its stream, the requests it
\* waits for, and (history) the jobs whose end it has shown.
Pages   == [job : 0..MaxRuns, ended : 0..MaxRuns, busy : BOOLEAN,
            boot : {"asked", "answered", "done"}, status : 0..MaxRuns,
            stream : 0..MaxStreams, waits : SUBSET Jobs, heard : SUBSET Jobs]
NewPage == [job |-> 0, ended |-> 0, busy |-> FALSE, boot |-> "asked", status |-> 0,
            stream |-> 0, waits |-> {}, heard |-> {}]

\* What EventBus._subscribers holds.
Subscribers == {s \in Streams : stream[s] # "none"}

Quiet(t) == sending[t] = Idle

\* The locked section of EventBus.publish; the puts follow.
Publish(t, e) ==
    /\ Quiet(t)
    /\ last' = IF e.type \in Ends THEN e ELSE last
    /\ sending' = [sending EXCEPT ![t] =
                      IF Subscribers = {} THEN Idle
                      ELSE [event |-> e, to |-> Subscribers]]

HasRoom(s) == Len(queue[s]) < QueueSize

-----------------------------------------------------------------------------
(* Changed forms of the code, for the mutants of PROJECT.json.               *)

\* start() does not ask whether a job is active.
ClaimAlways(r) ==
    /\ request[r] = "sent"
    /\ active' = r
    /\ request' = [request EXCEPT ![r] = "claimed"]
    /\ UNCHANGED <<stop, last, job, cancel, sending, streams, page, extras, history>>

\* start() does not forget the end of the job before.
ResetTerminalSkipped(r) ==
    /\ request[r] = "claimed"
    /\ request' = [request EXCEPT ![r] = "reset"]
    /\ UNCHANGED <<server, job, cancel, sending, streams, page, extras, history>>

\* subscribe() does not read what to replay.
SubscribeBlank(s) ==
    /\ page.stream = 0
    /\ stream[s] = "none"
    /\ \A u \in Streams : u < s => stream[u] # "none"
    /\ \A t \in Threads : s \notin sending[t].to
    /\ stream' = [stream EXCEPT ![s] = "subscribed"]
    /\ page' = [page EXCEPT !.stream = s]
    /\ UNCHANGED <<server, threads, sending, queue, replay, extras, history>>

\* subscribe() reads what to replay after it has left the lock.
OpenReading(s) ==
    /\ stream[s] = "subscribed"
    /\ IF last = NoEvent \/ ~HasRoom(s) THEN UNCHANGED <<queue, told, repeated>>
       ELSE /\ queue' = [queue EXCEPT ![s] = Append(@, last)]
            /\ told' = [told EXCEPT ![s] = @ \cup {last.job}]
            /\ repeated' = (repeated \/ last.job \in told[s])
    /\ stream' = [stream EXCEPT ![s] = IF page.stream = s THEN "open" ELSE "lost"]
    /\ replay' = [replay EXCEPT ![s] = NoEvent]
    /\ UNCHANGED <<server, threads, sending, page, extras, cost>>

\* run() does not ask whether the end was shown before the answer came.
AnsweredBusy(r) ==
    /\ request[r] \in {"accepted", "refused", "broken"}
    /\ request' = [request EXCEPT ![r] = "done"]
    /\ page' = IF r \notin page.waits THEN page
               ELSE IF request[r] # "accepted" THEN [page EXCEPT !.waits = @ \ {r}]
               ELSE [page EXCEPT !.waits = @ \ {r}, !.job = r, !.busy = TRUE]
    /\ UNCHANGED <<server, job, cancel, sending, streams, extras, history>>
-----------------------------------------------------------------------------
\* put_nowait
PutInto(s, e) ==
    /\ queue' = IF HasRoom(s) THEN [queue EXCEPT ![s] = Append(@, e)] ELSE queue
    /\ told' = IF e.type \in Ends THEN [told EXCEPT ![s] = @ \cup {e.job}] ELSE told
    /\ repeated' = (repeated \/ (e.type \in Ends /\ e.job \in told[s]))

\* A progress event, a click on "cancel", a double click on "run", a page loaded
\* again, a broken stream, a thread that cannot be started.
Extra == extras < MaxExtras /\ extras' = extras + 1

(* What may leave a settled window wrong about the job:                      *)
(*   overlap  "run" was clicked while an earlier click waited for its answer *)
(*   orphan   the page was loaded again before its request was handled       *)
(*   stale    the bootstrap answer names a job whose end was shown already   *)
(*   adopted  the start of another job was taken for the one clicked         *)
(*   full     a start or an end met a full queue                             *)
(*   thread   a thread could not be started, and nobody clears _active       *)
Costs == {"overlap", "orphan", "stale", "adopted", "full", "thread"}
Spend(c) == cost' = cost \cup {c}
-----------------------------------------------------------------------------
Init ==
    /\ active = 0
    /\ stop = {}
    /\ last = NoEvent
    /\ request = [r \in Jobs |-> "none"]
    /\ job = [j \in Jobs |-> "none"]
    /\ cancel = [c \in Cancels |-> "none"]
    /\ sending = [t \in Threads |-> Idle]
    /\ stream = [s \in Streams |-> "none"]
    /\ queue = [s \in Streams |-> <<>>]
    /\ replay = [s \in Streams |-> NoEvent]
    /\ page = NewPage
    /\ extras = 0
    /\ told = [s \in Streams |-> {}]
    /\ repeated = FALSE
    /\ cost = {}

-----------------------------------------------------------------------------
(* JobManager.start, in the handler of request r. *)

Claim(r) ==
    /\ request[r] = "sent"
    /\ active = 0
    /\ active' = r
    /\ request' = [request EXCEPT ![r] = "claimed"]
    /\ UNCHANGED <<stop, last, job, cancel, sending, streams, page, extras, history>>

\* "A Book2Skill job is already running."
RefuseBusy(r) ==
    /\ request[r] = "sent"
    /\ active # 0
    /\ request' = [request EXCEPT ![r] = "refused"]
    /\ UNCHANGED <<server, job, cancel, sending, streams, page, extras, history>>

ResetTerminal(r) ==
    /\ request[r] = "claimed"
    /\ last' = NoEvent
    /\ request' = [request EXCEPT ![r] = "reset"]
    /\ UNCHANGED <<active, stop, job, cancel, sending, streams, page, extras, history>>

Announce(r) ==
    /\ request[r] = "reset"
    /\ Publish(<<"start", r>>, Event("started", r))
    /\ request' = [request EXCEPT ![r] = "announced"]
    /\ UNCHANGED <<active, stop, job, cancel, streams, page, extras, history>>

StartThread(r) ==
    /\ request[r] = "announced"
    /\ Quiet(<<"start", r>>)
    /\ request' = [request EXCEPT ![r] = "accepted"]
    /\ job' = [job EXCEPT ![r] = "running"]
    /\ UNCHANGED <<server, cancel, sending, streams, page, extras, history>>

\* "can't start new thread": nobody clears _active.
StartThreadFails(r) ==
    /\ request[r] = "announced"
    /\ Quiet(<<"start", r>>)
    /\ request' = [request EXCEPT ![r] = "broken"]
    /\ Extra
    /\ Spend("thread")
    /\ UNCHANGED <<server, job, cancel, sending, streams, page, told, repeated>>

-----------------------------------------------------------------------------
(* JobManager._run, in the thread of job j. *)

\* JobContext.progress, when check_cancelled does not raise.
Progress(j) ==
    /\ job[j] = "running"
    /\ j \notin stop
    /\ Extra
    /\ Publish(<<"job", j>>, Event("progress", j))
    /\ UNCHANGED <<active, stop, request, job, cancel, streams, page, history>>

\* The runner returned, and nobody has cancelled the job so far.
CheckCancelled(j) ==
    /\ job[j] = "running"
    /\ j \notin stop
    /\ Quiet(<<"job", j>>)
    /\ job' = [job EXCEPT ![j] = "checked"]
    /\ UNCHANGED <<server, request, cancel, sending, streams, page, extras, history>>

\* One of the three events that end a job.
End(j) ==
    /\ \/ job[j] = "running" /\ Publish(<<"job", j>>, Event("failed", j))
       \/ job[j] = "running" /\ j \in stop
          /\ Publish(<<"job", j>>, Event("cancelled", j))
       \/ job[j] = "checked" /\ Publish(<<"job", j>>, Event("completed", j))
    /\ job' = [job EXCEPT ![j] = "ended"]
    /\ UNCHANGED <<active, stop, request, cancel, streams, page, extras, history>>

Release(j) ==
    /\ job[j] = "ended"
    /\ Quiet(<<"job", j>>)
    /\ job' = [job EXCEPT ![j] = "released"]
    /\ stop' = stop \ {j}
    /\ active' = IF active = j THEN 0 ELSE active
    /\ UNCHANGED <<last, request, cancel, sending, streams, page, extras, history>>

-----------------------------------------------------------------------------
(* JobManager.cancel, in the handler of click c. *)

Flag(c) ==
    /\ cancel[c] = "sent"
    /\ \/ active # 0 /\ stop' = stop \cup {active}
          /\ cancel' = [cancel EXCEPT ![c] = "flagged"]
          /\ sending' = [sending EXCEPT ![<<"cancel", c>>].event =
                            Event("cancellation_requested", active)]
       \/ active = 0 /\ cancel' = [cancel EXCEPT ![c] = "done"]
          /\ UNCHANGED <<stop, sending>>
    /\ UNCHANGED <<active, last, request, job, streams, page, extras, history>>

\* The event waits in `sending` until its publish call starts.
TellCancel(c) ==
    /\ cancel[c] = "flagged"
    /\ cancel' = [cancel EXCEPT ![c] = "done"]
    /\ sending' = [sending EXCEPT ![<<"cancel", c>>] =
                      IF Subscribers = {} THEN Idle ELSE [@ EXCEPT !.to = Subscribers]]
    /\ UNCHANGED <<server, request, job, streams, page, extras, history>>

-----------------------------------------------------------------------------
(* The event bus and its streams. *)

\* One put of a publish call; a subscriber that has left meanwhile keeps its queue
\* until the call has passed it.
Put(t) ==
    \E s \in sending[t].to :
        LET e == sending[t].event
            rest == sending[t].to \ {s}
        IN  /\ IF stream[s] = "none" THEN UNCHANGED <<queue, told, repeated>> ELSE PutInto(s, e)
            /\ sending' = [sending EXCEPT ![t] =
                              IF rest = {} THEN Idle ELSE [@ EXCEPT !.to = rest]]
            /\ cost' = IF ~HasRoom(s) /\ e.type \in Ends \cup {"started"} /\ s = page.stream
                       THEN cost \cup {"full"} ELSE cost
            /\ UNCHANGED <<server, threads, stream, replay, page, extras>>

\* EventSource connects, now or after its stream broke: the locked section of
\* subscribe(), which appends the queue and reads what to replay.
Subscribe(s) ==
    /\ page.stream = 0
    /\ stream[s] = "none"
    /\ \A u \in Streams : u < s => stream[u] # "none"
    /\ \A t \in Threads : s \notin sending[t].to
    /\ stream' = [stream EXCEPT ![s] = "subscribed"]
    /\ replay' = [replay EXCEPT ![s] = last]
    /\ page' = [page EXCEPT !.stream = s]
    /\ UNCHANGED <<server, threads, sending, queue, extras, history>>

\* The rest of subscribe(), outside the lock, and the response headers.
Open(s) ==
    /\ stream[s] = "subscribed"
    /\ IF replay[s] = NoEvent THEN UNCHANGED <<queue, told, repeated>>
       ELSE HasRoom(s) /\ PutInto(s, replay[s])
    /\ stream' = [stream EXCEPT ![s] = IF page.stream = s THEN "open" ELSE "lost"]
    /\ replay' = [replay EXCEPT ![s] = NoEvent]
    /\ UNCHANGED <<server, threads, sending, page, extras, cost>>

\* An exception in there leaves the queue subscribed for good: queue.Full, or the
\* window is gone.
OpenFails(s) ==
    /\ stream[s] = "subscribed"
    /\ \/ replay[s] # NoEvent /\ ~HasRoom(s)
       \/ page.stream # s
    /\ stream' = [stream EXCEPT ![s] = "leaked"]
    /\ replay' = [replay EXCEPT ![s] = NoEvent]
    /\ page' = [page EXCEPT !.stream = IF @ = s THEN 0 ELSE @]
    /\ UNCHANGED <<server, threads, sending, queue, extras, history>>

\* The connection breaks; EventSource will connect again.
Disconnect ==
    /\ page.stream # 0
    /\ stream[page.stream] = "open"
    /\ Extra
    /\ stream' = [stream EXCEPT ![page.stream] = "lost"]
    /\ page' = [page EXCEPT !.stream = 0]
    /\ UNCHANGED <<server, threads, sending, queue, replay, history>>

\* The handler notices when it writes the next event or heartbeat.
Unsubscribe(s) ==
    /\ stream[s] = "lost"
    /\ stream' = [stream EXCEPT ![s] = "none"]
    /\ queue' = [queue EXCEPT ![s] = <<>>]
    /\ told' = [told EXCEPT ![s] = {}]
    /\ UNCHANGED <<server, threads, sending, replay, page, extras, repeated, cost>>

-----------------------------------------------------------------------------
(* The window. *)

\* handleEvent: events of a job other than the one shown are ignored.
Handled(e) ==
    LET shown == IF e.type = "started" /\ page.job = 0 THEN e.job ELSE page.job
        show  == [page EXCEPT !.job = shown]
    IN  CASE shown # 0 /\ e.job # shown -> show
          [] e.type = "started" -> [show EXCEPT !.busy = TRUE]
          [] e.type \in Ends -> [show EXCEPT !.busy = FALSE, !.ended = e.job,
                                             !.heard = @ \cup {e.job}]
          [] OTHER -> show

\* A start that is not the one run() waits for may still be taken for it.
Receive ==
    /\ page.stream # 0
    /\ stream[page.stream] = "open"
    /\ queue[page.stream] # <<>>
    /\ LET e == Head(queue[page.stream])
       IN  /\ page' = Handled(e)
           /\ IF e.type = "started" /\ page.job = 0 /\ page.waits # {} /\ e.job \notin page.waits
              THEN Spend("adopted") ELSE UNCHANGED cost
    /\ queue' = [queue EXCEPT ![page.stream] = Tail(@)]
    /\ UNCHANGED <<server, threads, sending, stream, replay, extras, told, repeated>>

\* run(), up to its request.
ClickRun(r) ==
    /\ ~page.busy
    /\ request[r] = "none"
    /\ \A q \in Jobs : q < r => request[q] # "none"
    /\ request' = [request EXCEPT ![r] = "sent"]
    /\ page' = [page EXCEPT !.job = 0, !.ended = 0, !.waits = @ \cup {r}]
    /\ IF page.waits # {} THEN Extra /\ Spend("overlap") ELSE UNCHANGED <<extras, cost>>
    /\ UNCHANGED <<server, job, cancel, sending, streams, told, repeated>>

\* run(), from its answer on.
Answered(r) ==
    /\ request[r] \in {"accepted", "refused", "broken"}
    /\ request' = [request EXCEPT ![r] = "done"]
    /\ page' = IF r \notin page.waits THEN page
               ELSE IF request[r] # "accepted" THEN [page EXCEPT !.waits = @ \ {r}]
               ELSE [page EXCEPT !.waits = @ \ {r}, !.job = r,
                                 !.busy = IF page.ended # r THEN TRUE ELSE @]
    /\ UNCHANGED <<server, job, cancel, sending, streams, extras, history>>

ClickCancel(c) ==
    /\ page.busy
    /\ cancel[c] = "none"
    /\ \A d \in Cancels : d < c => cancel[d] # "none"
    /\ cancel' = [cancel EXCEPT ![c] = "sent"]
    /\ Extra
    /\ UNCHANGED <<server, request, job, sending, streams, page, history>>

\* GET /api/bootstrap: JobManager.status, and what the page makes of it.
Status ==
    /\ page.boot = "asked"
    /\ page' = [page EXCEPT !.boot = "answered", !.status = active]
    /\ UNCHANGED <<server, threads, sending, streams, extras, history>>

Booted ==
    /\ page.boot = "answered"
    /\ page' = [page EXCEPT !.boot = "done", !.busy = @ \/ page.status # 0, !.status = 0]
    /\ IF page.status # 0 /\ (\E j \in page.heard : j >= page.status) THEN Spend("stale") ELSE UNCHANGED cost
    /\ UNCHANGED <<server, threads, sending, streams, extras, told, repeated>>

\* The page is loaded again; its stream and the answers it waits for are gone.
Load ==
    /\ Extra
    /\ page' = NewPage
    /\ stream' = [s \in Streams |-> IF s = page.stream /\ stream[s] = "open"
                                    THEN "lost" ELSE stream[s]]
    /\ IF \E r \in page.waits : request[r] = "sent" THEN Spend("orphan") ELSE UNCHANGED cost
    /\ UNCHANGED <<server, threads, sending, queue, replay, told, repeated>>

-----------------------------------------------------------------------------
Start  == \E r \in Jobs : Claim(r) \/ RefuseBusy(r) \/ ResetTerminal(r) \/ Announce(r)
Spawn  == \E r \in Jobs : StartThread(r)
Run    == \E j \in Jobs : CheckCancelled(j) \/ End(j) \/ Release(j)
Cancel == \E c \in Cancels : Flag(c) \/ TellCancel(c)
Stream == \E s \in Streams : Subscribe(s) \/ Open(s) \/ OpenFails(s) \/ Unsubscribe(s)
Send   == \E t \in Threads : Put(t)
Window == Receive \/ Status \/ Booted \/ \E r \in Jobs : Answered(r)

Clicks == (\E r \in Jobs : ClickRun(r)) \/ (\E c \in Cancels : ClickCancel(c))
Fail == (\E r \in Jobs : StartThreadFails(r)) \/ Disconnect \/ Load

Next ==
    \/ Start \/ Spawn \/ Run \/ Cancel \/ Stream \/ Send \/ Window \/ Clicks \/ Fail
    \/ \E j \in Jobs : Progress(j)

Spec == Init /\ [][Next]_vars

\* Threads are scheduled, the pipeline a runner works off is finite, and the window
\* handles what it gets; nobody has to click, and nothing has to break.
FairSpec ==
    /\ Spec
    /\ \A r \in Jobs : WF_vars(Claim(r) \/ RefuseBusy(r) \/ ResetTerminal(r) \/ Announce(r)
                               \/ StartThread(r) \/ StartThreadFails(r))
    /\ \A j \in Jobs : WF_vars(CheckCancelled(j) \/ End(j) \/ Release(j))
    /\ \A c \in Cancels : WF_vars(Flag(c) \/ TellCancel(c))
    /\ \A s \in Streams : WF_vars(Subscribe(s) \/ Open(s) \/ OpenFails(s) \/ Unsubscribe(s))
    /\ \A t \in Threads : WF_vars(Put(t))
    /\ \A r \in Jobs : WF_vars(Answered(r))
    /\ WF_vars(Receive)
    /\ WF_vars(Status \/ Booted)

-----------------------------------------------------------------------------
JTypeOK ==
    /\ active \in 0..MaxRuns
    /\ stop \subseteq Jobs
    /\ last \in Events
    /\ request \in [Jobs -> RequestStates]
    /\ job \in [Jobs -> JobStates]
    /\ cancel \in [Cancels -> CancelStates]
    /\ sending \in [Threads -> Sends]
    /\ stream \in [Streams -> StreamStates]
    /\ \A s \in Streams : queue[s] \in Seq(Events) /\ Len(queue[s]) <= QueueSize
    /\ replay \in [Streams -> Events]
    /\ page \in Pages
    /\ extras \in 0..MaxExtras
    /\ told \in [Streams -> SUBSET Jobs]
    /\ repeated \in BOOLEAN
    /\ cost \subseteq Costs

\* At most one job is under way, and it is the active one, from before its thread exists
\* until after its end was published (jobs.py:160-169, 212-214).
OneJob ==
    \A j \in Jobs :
        request[j] \in {"claimed", "reset", "announced"} \/ job[j] \in {"running", "checked", "ended"}
            => active = j

\* What subscribe() may replay is never the end of a job before the one that
\* runs; between jobs it is the end of the last one (jobs.py:170, 73-77).
ReplayIsCurrent ==
    /\ \A j \in Jobs : job[j] \in {"running", "checked"} => last = NoEvent
    /\ \A j \in Jobs : job[j] = "ended" => last.job = j
    /\ active = 0 /\ (\E j \in Jobs : job[j] = "released") => last # NoEvent

\* A stream that is open has been told, once, of the end the bus remembers, as soon
\* as no publish call is on its way to it and unless its queue was full: the end is
\* either published to it or replayed to it, whenever it subscribes (jobs.py:45-71).
EveryStreamTold ==
    /\ ~repeated
    /\ \A s \in Streams :
          stream[s] = "open" /\ last # NoEvent /\ (\A t \in Threads : s \notin sending[t].to)
              => last.job \in told[s]

\* Nothing is on its way to the window.
Settled ==
    /\ page.waits = {} /\ page.boot = "done"
    /\ page.stream # 0 /\ stream[page.stream] = "open" /\ queue[page.stream] = <<>>
    /\ \A t \in Threads : Quiet(t)
    /\ \A r \in Jobs : request[r] \in {"none", "done"}
    /\ \A c \in Cancels : cancel[c] \in {"none", "done"}
    /\ \A j \in Jobs : job[j] # "ended"

\* The window shows a job running when there is one, once nothing is on its way to
\* it, whatever was clicked, broken off and loaded again (app.js:131-176, 188-244),
\* outside the windows of Costs.
WindowAgrees == Settled /\ cost = {} => page.busy = (active # 0)

\* A window that shows a job running learns that it ended, over a new stream when the
\* old one broke (jobs.py:192-214, app.js:146-175), outside the windows of Costs.
WindowLearns == page.busy ~> (~page.busy \/ cost # {})
=============================================================================
