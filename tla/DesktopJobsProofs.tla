-------------------------- MODULE DesktopJobsProofs --------------------------
(***************************************************************************)
(* Proofs about DesktopJobs for any number of clicks, streams and events:  *)
(* one job at a time, no replay of an end that is not current, and every   *)
(* stream told once of the end the bus remembers.                          *)
(***************************************************************************)
EXTENDS DesktopJobs, TLAPS

\* The handlers and the job threads are where their programs can be.
ThreadsTyped ==
    /\ request \in [Jobs -> RequestStates]
    /\ job \in [Jobs -> JobStates]
    /\ active \in 0..MaxRuns

\* A job has a thread only from the last step of start() on.
StartedIsAccepted ==
    \A j \in Jobs : job[j] # "none" => request[j] \in {"accepted", "done"}

\* Nothing ends between reset_terminal() and the start of the thread.
NoEndBeforeStart ==
    \A j \in Jobs : request[j] \in {"reset", "announced"} => last = NoEvent

\* The inductive invariant: OneJob needs to know that a job that has ended is not
\* being started, ReplayIsCurrent that nothing else ends once the bus was reset.
JobInv ==
    /\ ThreadsTyped
    /\ StartedIsAccepted
    /\ NoEndBeforeStart
    /\ OneJob
    /\ ReplayIsCurrent

\* Publishing an event that ends no job leaves what the bus remembers.
LEMMA PublishKeepsLast ==
    ASSUME NEW t, NEW type, NEW j, type \notin Ends, Publish(t, Event(type, j))
    PROVE  last' = last
  BY DEF Publish, Event

\* Publishing an event that ends job j makes it the one the bus remembers.
LEMMA PublishSetsLast ==
    ASSUME NEW t, NEW type \in Ends, NEW j, Publish(t, Event(type, j))
    PROVE  last'.job = j
  BY DEF Publish, Event

\* Nothing runs at first.
LEMMA JobInvInit == Init => JobInv
  BY DesktopAssumption DEF Init, JobInv, ThreadsTyped, StartedIsAccepted, NoEndBeforeStart, OneJob,
         ReplayIsCurrent, RequestStates, JobStates, Jobs

\* The steps of start() keep JobInv.
LEMMA StartJobInv ==
    ASSUME JobInv, NEW r \in Jobs,
           \/ Claim(r) \/ RefuseBusy(r) \/ ResetTerminal(r) \/ Announce(r)
           \/ StartThread(r) \/ StartThreadFails(r)
    PROVE  JobInv'
  <1> USE DesktopAssumption DEF JobInv, ThreadsTyped, StartedIsAccepted, NoEndBeforeStart, OneJob,
              ReplayIsCurrent, RequestStates, JobStates, Jobs
  <1>1. CASE Claim(r)
    BY <1>1 DEF Claim
  <1>2. CASE RefuseBusy(r)
    BY <1>2 DEF RefuseBusy, server
  <1>3. CASE ResetTerminal(r)
    BY <1>3 DEF ResetTerminal
  <1>4. CASE Announce(r)
    <2>1. last' = last
      BY <1>4, PublishKeepsLast DEF Announce, Ends
    <2>2. QED
      BY <1>4, <2>1 DEF Announce
  <1>5. CASE StartThread(r)
    BY <1>5 DEF StartThread, server
  <1>6. CASE StartThreadFails(r)
    BY <1>6 DEF StartThreadFails, server
  <1>7. QED
    BY <1>1, <1>2, <1>3, <1>4, <1>5, <1>6

\* The steps of a job's thread keep JobInv.
LEMMA RunJobInv ==
    ASSUME JobInv, NEW j \in Jobs,
           Progress(j) \/ CheckCancelled(j) \/ End(j) \/ Release(j)
    PROVE  JobInv'
  <1> USE DesktopAssumption DEF JobInv, ThreadsTyped, StartedIsAccepted, NoEndBeforeStart, OneJob,
              ReplayIsCurrent, RequestStates, JobStates, Jobs
  <1>1. CASE Progress(j)
    <2>1. last' = last
      BY <1>1, PublishKeepsLast DEF Progress, Ends
    <2>2. QED
      BY <1>1, <2>1 DEF Progress
  <1>2. CASE CheckCancelled(j)
    BY <1>2 DEF CheckCancelled, server
  <1>3. CASE End(j)
    <2>1. last'.job = j
      BY <1>3, PublishSetsLast DEF End, Ends
    <2>2. active = j /\ request[j] \in {"accepted", "done"}
      BY <1>3 DEF End
    <2>3. QED
      BY <1>3, <2>1, <2>2 DEF End
  <1>4. CASE Release(j)
    <2>1. active = j /\ request[j] \in {"accepted", "done"} /\ last.job = j
      BY <1>4 DEF Release
    <2>2. last # NoEvent
      BY <2>1 DEF NoEvent
    <2>3. QED
      BY <1>4, <2>1, <2>2 DEF Release
  <1>5. QED
    BY <1>1, <1>2, <1>3, <1>4

\* What answers a click on "run" and sends one are the only steps of the window that
\* JobInv sees.
LEMMA ClickJobInv ==
    ASSUME JobInv, NEW r \in Jobs, ClickRun(r) \/ Answered(r)
    PROVE  JobInv'
  BY DEF ClickRun, Answered, server, JobInv, ThreadsTyped, StartedIsAccepted,
         NoEndBeforeStart, OneJob, ReplayIsCurrent, RequestStates, JobStates, Jobs

\* JobInv speaks of four variables.
LEMMA FrameJobInv ==
    ASSUME JobInv, UNCHANGED <<active, last, request, job>>
    PROVE  JobInv'
  BY DEF JobInv, ThreadsTyped, StartedIsAccepted, NoEndBeforeStart, OneJob,
         ReplayIsCurrent

\* Every step keeps JobInv.
LEMMA JobInvNext == JobInv /\ [Next]_vars => JobInv'
  <1> SUFFICES ASSUME JobInv, [Next]_vars PROVE JobInv'
    OBVIOUS
  <1>1. CASE Start \/ Spawn
    BY <1>1, StartJobInv DEF Start, Spawn
  <1>2. CASE Run
    BY <1>2, RunJobInv DEF Run
  <1>3. CASE Cancel
    BY <1>3, FrameJobInv DEF Cancel, Flag, TellCancel, server
  <1>4. CASE Stream
    BY <1>4, FrameJobInv DEF Stream, Subscribe, Open, OpenFails, Unsubscribe, server, threads
  <1>5. CASE Send
    BY <1>5, FrameJobInv DEF Send, Put, server, threads
  <1>6. CASE Window
    <2>1. CASE Receive \/ Status \/ Booted
      BY <2>1, FrameJobInv DEF Receive, Status, Booted, server, threads
    <2>2. CASE \E r \in Jobs : Answered(r)
      BY <2>2, ClickJobInv
    <2>3. QED
      BY <1>6, <2>1, <2>2 DEF Window
  <1>7. CASE Clicks
    <2>1. CASE \E r \in Jobs : ClickRun(r)
      BY <2>1, ClickJobInv
    <2>2. CASE \E c \in Cancels : ClickCancel(c)
      BY <2>2, FrameJobInv DEF ClickCancel, server
    <2>3. QED
      BY <1>7, <2>1, <2>2 DEF Clicks
  <1>8. CASE Fail
    <2>1. CASE \E r \in Jobs : StartThreadFails(r)
      BY <2>1, StartJobInv
    <2>2. CASE Disconnect \/ Load
      BY <2>2, FrameJobInv DEF Disconnect, Load, server, threads
    <2>3. QED
      BY <1>8, <2>1, <2>2 DEF Fail
  <1>9. CASE \E j \in Jobs : Progress(j)
    BY <1>9, RunJobInv
  <1>10. CASE UNCHANGED vars
    BY <1>10, FrameJobInv DEF vars
  <1>11. QED
    BY <1>1, <1>2, <1>3, <1>4, <1>5, <1>6, <1>7, <1>8, <1>9, <1>10 DEF Next

\* JobManager.start refuses while a job is under way, however its steps, the steps
\* of the job and the clicks interleave (jobs.py:160-169, 212-214).
THEOREM OneJobAlways == Spec => []OneJob
  <1>1. JobInv => OneJob
    BY DEF JobInv
  <1>2. QED
    BY JobInvInit, JobInvNext, <1>1, PTL DEF Spec

\* subscribe() never replays the end of a job before the one that runs, and between
\* jobs has the end of the last one (jobs.py:169, 45-52).
THEOREM ReplayIsCurrentAlways == Spec => []ReplayIsCurrent
  <1>1. JobInv => ReplayIsCurrent
    BY DEF JobInv
  <1>2. QED
    BY JobInvInit, JobInvNext, <1>1, PTL DEF Spec

-----------------------------------------------------------------------------
(* What the streams are told. *)

\* What the streams and the publish calls are.
StreamsTyped ==
    /\ last \in Events /\ (last # NoEvent => last.type \in Ends)
    /\ sending \in [Threads -> Sends]
    /\ stream \in [Streams -> StreamStates]
    /\ replay \in [Streams -> Events]
    /\ told \in [Streams -> SUBSET Jobs]

\* An end is published by the thread of its job, which waits for the puts.
EndsSentByJob ==
    \A t \in Threads : sending[t].event.type \in Ends =>
        /\ t = <<"job", sending[t].event.job>>
        /\ job[sending[t].event.job] = "ended"

\* What the bus remembers, a stream was told or is to be replayed, is the end of a job that has ended.
ToldHaveEnded ==
    /\ last # NoEvent => last.job \in Jobs /\ job[last.job] \in {"ended", "released"}
    /\ \A s \in Streams :
          /\ \A j \in told[s] : job[j] \in {"ended", "released"}
          /\ replay[s] # NoEvent => /\ stream[s] = "subscribed" /\ replay[s].type \in Ends
                                    /\ replay[s].job \in Jobs
                                    /\ job[replay[s].job] \in {"ended", "released"}
          /\ stream[s] = "none" => told[s] = {}

\* No end is on its way twice to one stream.
EndsOnTheirWay ==
    \A s \in Streams :
        /\ replay[s] # NoEvent => replay[s].job \notin told[s]
        /\ \A t \in Threads : s \in sending[t].to /\ sending[t].event.type \in Ends =>
              /\ sending[t].event.job \notin told[s]
              /\ replay[s].job # sending[t].event.job

\* The end the bus remembers was put into each queue, or is on its way there.
NoEndMissed ==
    \A s \in Streams : last # NoEvent /\ stream[s] \in {"subscribed", "open", "lost"} =>
        \/ last.job \in told[s]
        \/ replay[s] # NoEvent /\ replay[s].job = last.job
        \/ \E t \in Threads : s \in sending[t].to /\ sending[t].event = last

StreamInv ==
    /\ StreamsTyped /\ EndsSentByJob /\ ToldHaveEnded /\ EndsOnTheirWay /\ NoEndMissed
    /\ ~repeated

\* Nothing was said at first.
LEMMA StreamInvInit == Init => StreamInv
  BY DesktopAssumption DEF Init, StreamInv, StreamsTyped, EndsSentByJob, ToldHaveEnded,
     EndsOnTheirWay, NoEndMissed, Events, NoEvent, Sends, Idle, Ends, StreamStates

\* The absence of an event ends nothing, and a thread that sends nothing sends that.
LEMMA NoEventType ==
    NoEvent \in Events /\ Idle \in Sends /\ NoEvent.type \notin Ends
  BY DesktopAssumption DEF NoEvent, Events, Idle, Sends, Ends

\* StreamInv speaks of seven variables.
LEMMA FrameStreamInv ==
    ASSUME StreamInv, UNCHANGED <<last, sending, stream, replay, told, repeated, job>>
    PROVE  StreamInv'
  BY DEF StreamInv, StreamsTyped, EndsSentByJob, ToldHaveEnded, EndsOnTheirWay, NoEndMissed

\* A publish call that ends no job has nothing to do with ends.
LEMMA PublishStreamInv ==
    ASSUME StreamInv, NEW t \in Threads, NEW type, NEW j \in Jobs,
           type \in {"started", "progress"}, Publish(t, Event(type, j)),
           UNCHANGED <<stream, replay, told, repeated, job>>
    PROVE  StreamInv'
  <1> USE DEF StreamInv
  <1>1. last' = last /\ sending[t].to = {} /\ sending[t].event = NoEvent
    BY PublishKeepsLast DEF Ends, Publish, Quiet, Idle
  <1>2. /\ sending' \in [Threads -> Sends]
        /\ \A u \in Threads \ {t} : sending'[u] = sending[u]
        /\ sending'[t].event.type \notin Ends
    <2> DEFINE call == IF Subscribers = {} THEN Idle
                       ELSE [event |-> Event(type, j), to |-> Subscribers]
    <2>1. sending' = [sending EXCEPT ![t] = call] /\ sending \in [Threads -> Sends]
      BY DEF Publish, StreamsTyped
    <2>2. call \in Sends /\ call.event.type \notin Ends
      <3>1. Event(type, j) \in Events /\ Event(type, j).type \notin Ends /\ Subscribers \subseteq Streams
        BY DesktopAssumption DEF Event, Events, Ends, Subscribers, Jobs
      <3>2. QED
        BY <3>1, NoEventType DEF Idle, Sends
    <2> HIDE DEF call
    <2>3. QED
      BY <2>1, <2>2
  <1>3. StreamsTyped' /\ ToldHaveEnded'
    BY <1>1, <1>2 DEF StreamsTyped, ToldHaveEnded
  <1>4. EndsSentByJob' /\ EndsOnTheirWay'
    BY <1>2 DEF EndsSentByJob, EndsOnTheirWay
  <1>5. NoEndMissed'
    BY <1>1, <1>2 DEF NoEndMissed
  <1>6. QED
    BY <1>3, <1>4, <1>5

\* A publish call that ends job j owes the end to every subscriber.
LEMMA EndStreamInv ==
    ASSUME JobInv, StreamInv, NEW j \in Jobs, End(j)
    PROVE  StreamInv'
  <1> USE DEF StreamInv
  <1> DEFINE me == <<"job", j>>
  <1>1. PICK type \in Ends : Publish(me, Event(type, j))
    BY DEF End, Ends
  <1>2. /\ job[j] \in {"running", "checked"} /\ job' = [job EXCEPT ![j] = "ended"]
        /\ UNCHANGED <<stream, replay, told, repeated>> /\ me \in Threads
    BY DEF End, streams, Threads, history
  <1>3. /\ last' = Event(type, j) /\ last' \in Events
        /\ last' # NoEvent /\ last'.type = type /\ last'.job = j
    BY <1>1 DEF Publish, Event, Events, Ends, NoEvent, Jobs
  <1>4. /\ sending' \in [Threads -> Sends]
        /\ \A u \in Threads \ {me} : sending'[u] = sending[u]
        /\ Subscribers # {} => sending'[me] = [event |-> last', to |-> Subscribers]
        /\ Subscribers = {} => sending'[me] = Idle
    <2> DEFINE call == IF Subscribers = {} THEN Idle ELSE [event |-> last', to |-> Subscribers]
    <2>1. sending' = [sending EXCEPT ![me] = call] /\ sending \in [Threads -> Sends]
      BY <1>1, <1>3 DEF Publish, StreamsTyped
    <2>2. call \in Sends
      BY <1>3, NoEventType DEF Sends, Subscribers
    <2> HIDE DEF me
    <2>3. QED
      BY <1>2, <2>1, <2>2
  <1>5. job \in [Jobs -> JobStates] /\ \A k \in Jobs \ {j} : job'[k] = job[k]
    BY <1>2 DEF JobInv, ThreadsTyped
  <1>6. StreamsTyped'
    BY <1>2, <1>3, <1>4 DEF StreamsTyped
  <1>7. EndsSentByJob'
    <2> SUFFICES ASSUME NEW t \in Threads, sending'[t].event.type \in Ends
                 PROVE  /\ t = <<"job", sending'[t].event.job>>
                        /\ job'[sending'[t].event.job] = "ended"
      BY DEF EndsSentByJob
    <2>1. CASE t = me
      BY <1>2, <1>3, <1>4, <1>5, <2>1 DEF Idle, NoEvent, Ends
    <2>2. CASE t # me
      BY <1>2, <1>4, <1>5, <2>2 DEF EndsSentByJob
    <2>3. QED
      BY <2>1, <2>2
  <1>8. ToldHaveEnded'
    BY <1>2, <1>3, <1>5 DEF ToldHaveEnded, StreamsTyped
  <1>9. EndsOnTheirWay'
    <2> SUFFICES ASSUME NEW s \in Streams
                 PROVE  /\ replay[s] # NoEvent => replay[s].job \notin told[s]
                        /\ \A t \in Threads : s \in sending'[t].to /\ sending'[t].event.type \in Ends =>
                              /\ sending'[t].event.job \notin told[s]
                              /\ replay[s].job # sending'[t].event.job
      BY <1>2 DEF EndsOnTheirWay
    <2>1. j \notin told[s] /\ replay[s].job # j
      BY <1>2 DEF ToldHaveEnded, NoEvent, Jobs
    <2>2. QED
      BY <1>3, <1>4, <2>1 DEF EndsOnTheirWay, Idle
  <1>10. NoEndMissed'
    BY <1>2, <1>3, <1>4 DEF NoEndMissed, Subscribers
  <1>11. QED
    BY <1>2, <1>6, <1>7, <1>8, <1>9, <1>10

\* A put tells one stream, and takes the end from those still on their way.
LEMMA PutStreamInv ==
    ASSUME StreamInv, NEW t \in Threads, Put(t)
    PROVE  StreamInv'
  <1> USE DEF StreamInv
  <1>1. PICK s \in sending[t].to :
            LET e == sending[t].event
                rest == sending[t].to \ {s}
            IN  /\ IF stream[s] = "none" THEN UNCHANGED <<queue, told, repeated>> ELSE PutInto(s, e)
                /\ sending' = [sending EXCEPT ![t] =
                                  IF rest = {} THEN Idle ELSE [@ EXCEPT !.to = rest]]
                /\ UNCHANGED <<server, threads, stream, replay, page, extras>>
    BY DEF Put
  <1> DEFINE e == sending[t].event
  <1>2. /\ s \in Streams /\ UNCHANGED <<last, stream, replay, job>>
        /\ e \in Events
    BY <1>1 DEF server, threads, StreamsTyped, Sends
  <1>3. /\ sending' \in [Threads -> Sends]
        /\ \A u \in Threads \ {t} : sending'[u] = sending[u]
        /\ sending'[t].to = sending[t].to \ {s}
        /\ sending'[t].event \in {e, NoEvent}
        /\ sending'[t].to # {} => sending'[t].event = e
    <2> DEFINE rest == sending[t].to \ {s}
               call == IF rest = {} THEN Idle ELSE [sending[t] EXCEPT !.to = rest]
    <2>1. sending' = [sending EXCEPT ![t] = call] /\ sending \in [Threads -> Sends]
      BY <1>1 DEF StreamsTyped
    <2>2. call \in Sends /\ call.to = rest /\ call.event \in {e, NoEvent} /\ (rest # {} => call.event = e)
      <3>1. sending[t] \in Sends /\ rest \subseteq Streams
        BY <2>1 DEF Sends
      <3>2. QED
        BY <3>1, NoEventType DEF Idle, Sends
    <2> HIDE DEF call
    <2>3. QED
      BY <2>1, <2>2
  <1>4. /\ \A u \in Streams \ {s} : told'[u] = told[u]
        /\ told'[s] = IF e.type \in Ends /\ stream[s] # "none" THEN told[s] \cup {e.job} ELSE told[s]
        /\ ~repeated'
    BY <1>1, <1>2 DEF StreamsTyped, PutInto, EndsOnTheirWay
  <1>5. e.type \in Ends => e.job \in Jobs /\ job[e.job] = "ended"
    BY DEF EndsSentByJob, Threads
  <1>6. StreamsTyped'
    BY <1>1, <1>2, <1>3, <1>5 DEF StreamsTyped, PutInto
  <1>7. EndsSentByJob'
    BY <1>2, <1>3 DEF EndsSentByJob, NoEvent, Ends
  <1>8. ToldHaveEnded'
    BY <1>2, <1>4, <1>5 DEF ToldHaveEnded
  <1>9. EndsOnTheirWay'
    BY <1>2, <1>3, <1>4, <1>5 DEF EndsOnTheirWay, EndsSentByJob
  <1>10. NoEndMissed'
    BY <1>2, <1>3, <1>4 DEF NoEndMissed, StreamsTyped
  <1>11. QED
    BY <1>4, <1>6, <1>7, <1>8, <1>9, <1>10

\* Subscribing reads what to replay in the section in which publish() does not run.
LEMMA SubscribeStreamInv ==
    ASSUME JobInv, StreamInv, NEW s \in Streams, Subscribe(s)
    PROVE  StreamInv'
  <1> USE DEF StreamInv
  <1>1. /\ stream' = [stream EXCEPT ![s] = "subscribed"] /\ replay' = [replay EXCEPT ![s] = last]
        /\ UNCHANGED <<last, sending, told, repeated, job>>
        /\ stream[s] = "none" /\ \A t \in Threads : s \notin sending[t].to
    BY DEF Subscribe, server, threads, history
  <1>2. last # NoEvent => job[last.job] \in {"ended", "released"}
    BY DEF ToldHaveEnded
  <1>3. StreamsTyped' /\ EndsSentByJob'
    BY <1>1 DEF StreamsTyped, StreamStates, EndsSentByJob
  <1>4. ToldHaveEnded' /\ EndsOnTheirWay' /\ NoEndMissed'
    BY <1>1, <1>2 DEF StreamsTyped, ToldHaveEnded, EndsOnTheirWay, NoEndMissed
  <1>5. QED
    BY <1>1, <1>3, <1>4

\* The rest of subscribe(), and a handler that fails or leaves.
LEMMA OpenStreamInv ==
    ASSUME StreamInv, NEW s \in Streams, Open(s) \/ OpenFails(s) \/ Unsubscribe(s)
    PROVE  StreamInv'
  <1> USE DEF StreamInv, StreamsTyped, StreamStates, EndsSentByJob, ToldHaveEnded,
              EndsOnTheirWay, NoEndMissed, server, threads, history
  <1>1. CASE Open(s)
    <2>1. CASE replay[s] = NoEvent
      BY <1>1, <2>1 DEF Open
    <2>2. CASE replay[s] # NoEvent
      <3>1. /\ told' = [told EXCEPT ![s] = @ \cup {replay[s].job}] /\ ~repeated'
            /\ replay' = [replay EXCEPT ![s] = NoEvent] /\ stream'[s] \in {"open", "lost"}
            /\ \A u \in Streams \ {s} : stream'[u] = stream[u]
            /\ UNCHANGED <<last, sending, job>>
        <4>1. replay[s].type \in Ends /\ replay[s].job \notin told[s]
          BY <2>2
        <4>2. PutInto(s, replay[s])
          BY <1>1, <2>2 DEF Open
        <4>3. told' = [told EXCEPT ![s] = @ \cup {replay[s].job}] /\ ~repeated'
          BY <4>1, <4>2 DEF PutInto
        <4>4. QED
          BY <1>1, <4>3 DEF Open
      <3>2. replay[s].job \in Jobs /\ job[replay[s].job] \in {"ended", "released"}
        BY <2>2
      <3>3. StreamsTyped' /\ EndsSentByJob'
        <4>1. stream' = [stream EXCEPT ![s] = IF page.stream = s THEN "open" ELSE "lost"]
          BY <1>1 DEF Open
        <4>2. QED
          BY <3>1, <3>2, <4>1, NoEventType
      <3>4. ToldHaveEnded'
        BY <3>1, <3>2
      <3>5. EndsOnTheirWay'
        <4> SUFFICES ASSUME NEW u \in Streams, NEW t \in Threads, u \in sending[t].to,
                            sending[t].event.type \in Ends
                     PROVE  /\ sending[t].event.job \notin told'[u]
                            /\ replay'[u].job # sending[t].event.job
          BY <3>1
        <4>1. sending[t].event.job \in Jobs
          BY DEF Threads
        <4>2. NoEvent.job \notin Jobs
          BY DEF NoEvent, Jobs
        <4>3. QED
          BY <3>1, <4>1, <4>2
      <3>6. NoEndMissed'
        BY <2>2, <3>1, <3>2
      <3>7. QED
        BY <3>1, <3>3, <3>4, <3>5, <3>6
    <2>3. QED
      BY <2>1, <2>2
  <1>2. CASE OpenFails(s)
    <2>1. /\ stream' = [stream EXCEPT ![s] = "leaked"] /\ replay' = [replay EXCEPT ![s] = NoEvent]
          /\ UNCHANGED <<last, sending, told, repeated, job>> /\ stream[s] = "subscribed"
      BY <1>2 DEF OpenFails
    <2>2. StreamsTyped' /\ EndsSentByJob' /\ ToldHaveEnded'
      BY <2>1, NoEventType
    <2>3. EndsOnTheirWay'
      <3>1. \A t \in Threads : sending[t].event.type \in Ends => sending[t].event.job \in Jobs
        BY DEF Threads
      <3>2. NoEvent.job \notin Jobs
        BY DEF NoEvent, Jobs
      <3>3. QED
        BY <2>1, <3>1, <3>2
    <2>4. NoEndMissed'
      BY <2>1
    <2>5. QED
      BY <2>1, <2>2, <2>3, <2>4
  <1>3. CASE Unsubscribe(s)
    BY <1>3 DEF Unsubscribe
  <1>4. QED
    BY <1>1, <1>2, <1>3

\* The handlers of start() and cancel(), and the thread of a job between its ends.
LEMMA ThreadStreamInv ==
    ASSUME JobInv, StreamInv, Start \/ Spawn \/ Run \/ Cancel \/ \E j \in Jobs : Progress(j)
    PROVE  StreamInv'
  <1> USE DEF StreamInv
  <1>1. ASSUME NEW r \in Jobs, Claim(r) \/ RefuseBusy(r) PROVE StreamInv'
    BY <1>1, FrameStreamInv DEF Claim, RefuseBusy, server, streams, history
  <1>2. ASSUME NEW r \in Jobs, ResetTerminal(r) PROVE StreamInv'
    BY <1>2, NoEventType DEF ResetTerminal, streams, history, StreamsTyped, EndsSentByJob,
       ToldHaveEnded, EndsOnTheirWay, NoEndMissed
  <1>3. ASSUME NEW r \in Jobs, Announce(r) PROVE StreamInv'
    <2>1. <<"start", r>> \in Threads
      BY DEF Threads
    <2>2. QED
      BY <1>3, <2>1, PublishStreamInv DEF Announce, streams, history
  <1>4. ASSUME NEW j \in Jobs, Progress(j) PROVE StreamInv'
    <2>1. <<"job", j>> \in Threads
      BY DEF Threads
    <2>2. QED
      BY <1>4, <2>1, PublishStreamInv DEF Progress, streams, history
  <1>5. ASSUME NEW j \in Jobs, StartThread(j) \/ CheckCancelled(j) \/ Release(j) PROVE StreamInv'
    <2>1. /\ UNCHANGED <<last, sending, stream, replay, told, repeated>>
          /\ job \in [Jobs -> JobStates]
          /\ \A k \in Jobs \ {j} : job'[k] = job[k]
          /\ job[j] \in {"ended", "released"} => job'[j] \in {"ended", "released"}
      BY <1>5 DEF StartThread, CheckCancelled, Release, server, streams, history, JobInv,
         ThreadsTyped, StartedIsAccepted
    <2>2. ASSUME NEW t \in Threads, sending[t].event.type \in Ends
          PROVE  job'[sending[t].event.job] = "ended"
      <3>1. /\ t = <<"job", sending[t].event.job>> /\ job[sending[t].event.job] = "ended"
            /\ sending[t].event.job \in Jobs
        BY <2>2 DEF EndsSentByJob, Threads
      <3>2. ~Quiet(t)
        BY <2>2, NoEventType DEF Quiet, Idle
      <3>3. sending[t].event.job # j
        BY <1>5, <3>1, <3>2 DEF StartThread, CheckCancelled, Release, JobInv, StartedIsAccepted
      <3>4. QED
        BY <2>1, <3>1, <3>3
    <2>3. StreamsTyped' /\ EndsOnTheirWay' /\ NoEndMissed'
      BY <2>1 DEF StreamsTyped, EndsOnTheirWay, NoEndMissed
    <2>4. EndsSentByJob'
      BY <2>1, <2>2 DEF EndsSentByJob
    <2>5. ToldHaveEnded'
      BY <2>1 DEF ToldHaveEnded, StreamsTyped
    <2>6. QED
      BY <2>1, <2>3, <2>4, <2>5
  <1>6. ASSUME NEW c \in Cancels, Flag(c) \/ TellCancel(c) PROVE StreamInv'
    <2> DEFINE t == <<"cancel", c>>
    <2>1. /\ UNCHANGED <<last, stream, replay, told, repeated, job>> /\ t \in Threads
          /\ sending \in [Threads -> Sends]
      BY <1>6 DEF Flag, TellCancel, server, streams, history, Threads, StreamsTyped
    <2>2. sending[t].event.type \notin Ends
      BY <2>1 DEF EndsSentByJob
    <2>3. PICK call \in Sends : sending' = [sending EXCEPT ![t] = call] /\ call.event.type \notin Ends
      <3>1. CASE UNCHANGED sending
        <4>1. sending' = [sending EXCEPT ![t] = sending[t]] /\ sending[t] \in Sends
          BY <2>1, <3>1
        <4>2. QED
          BY <2>2, <4>1
      <3>2. CASE Flag(c) /\ ~UNCHANGED sending
        <4> DEFINE asked == [sending[t] EXCEPT !.event = Event("cancellation_requested", active)]
        <4>1. active \in 0..MaxRuns
          BY DEF JobInv, ThreadsTyped
        <4>2. asked \in Sends /\ asked.event.type \notin Ends
          BY <2>1, <4>1 DEF Sends, Event, Events, Ends
        <4>3. sending' = [sending EXCEPT ![t] = asked]
          BY <2>1, <3>2 DEF Flag
        <4>4. QED
          BY <4>2, <4>3
      <3>3. CASE TellCancel(c)
        <4> DEFINE called == IF Subscribers = {} THEN Idle ELSE [sending[t] EXCEPT !.to = Subscribers]
        <4>1. called \in Sends /\ called.event.type \notin Ends
          BY <2>1, <2>2, NoEventType DEF Sends, Idle, Subscribers
        <4>2. sending' = [sending EXCEPT ![t] = called]
          BY <2>1, <3>3 DEF TellCancel
        <4>3. QED
          BY <4>1, <4>2
      <3>4. QED
        BY <1>6, <3>1, <3>2, <3>3
    <2>4. /\ sending' \in [Threads -> Sends] /\ sending'[t].event.type \notin Ends
          /\ \A u \in Threads \ {t} : sending'[u] = sending[u]
      BY <2>1, <2>3
    <2> HIDE DEF t
    <2>5. StreamsTyped' /\ EndsSentByJob' /\ ToldHaveEnded' /\ EndsOnTheirWay'
      BY <2>1, <2>4 DEF StreamsTyped, EndsSentByJob, ToldHaveEnded, EndsOnTheirWay
    <2>6. NoEndMissed'
      BY <2>1, <2>2, <2>4 DEF NoEndMissed, StreamsTyped
    <2>7. QED
      BY <2>1, <2>5, <2>6
  <1>7. QED
    BY <1>1, <1>2, <1>3, <1>4, <1>5, <1>6, EndStreamInv DEF Start, Spawn, Run, Cancel

\* The window changes a stream only from "open" to "lost".
LEMMA WindowStreamInv ==
    ASSUME StreamInv, Window \/ Clicks \/ Fail
    PROVE  StreamInv'
  <1>1. CASE Disconnect \/ Load
    <2>1. /\ UNCHANGED <<last, sending, replay, told, repeated, job>>
          /\ stream' \in [Streams -> StreamStates]
          /\ \A s \in Streams : stream'[s] = stream[s] \/ (stream[s] = "open" /\ stream'[s] = "lost")
      BY <1>1 DEF Disconnect, Load, server, threads, history, StreamInv, StreamsTyped, StreamStates
    <2>2. QED
      BY <2>1 DEF StreamInv, StreamsTyped, EndsSentByJob, ToldHaveEnded, EndsOnTheirWay, NoEndMissed
  <1>2. CASE Window
    BY <1>2, FrameStreamInv DEF Window, Receive, Status, Booted, Answered, server, threads,
       streams, history
  <1>3. CASE Clicks
    BY <1>3, FrameStreamInv DEF Clicks, ClickRun, ClickCancel, server, streams, history
  <1>4. CASE \E r \in Jobs : StartThreadFails(r)
    BY <1>4, FrameStreamInv DEF StartThreadFails, server, streams
  <1>5. QED
    BY <1>1, <1>2, <1>3, <1>4 DEF Fail

\* Every step keeps StreamInv.
LEMMA StreamInvNext == JobInv /\ StreamInv /\ [Next]_vars => StreamInv'
  <1> SUFFICES ASSUME JobInv, StreamInv, [Next]_vars PROVE StreamInv'
    OBVIOUS
  <1>1. CASE UNCHANGED vars
    BY <1>1, FrameStreamInv DEF vars
  <1>2. CASE Next
    BY <1>2, ThreadStreamInv, SubscribeStreamInv, OpenStreamInv, PutStreamInv, WindowStreamInv
       DEF Next, Stream, Send
  <1>3. QED
    BY <1>1, <1>2

\* Whenever a stream subscribes, it is told of the end the bus remembers once: by
\* the publish call that found it among the subscribers, or by the replay, and never
\* by both (jobs.py:45-71).
THEOREM EveryStreamToldAlways == Spec => []EveryStreamTold
  <1>1. StreamInv => EveryStreamTold
    BY DEF StreamInv, StreamsTyped, ToldHaveEnded, NoEndMissed, EveryStreamTold
  <1>2. QED
    BY JobInvInit, JobInvNext, StreamInvInit, StreamInvNext, <1>1, PTL DEF Spec
=============================================================================
