-------------------------- MODULE PlanDispatcher --------------------------
(***************************************************************************)
(* The plan dispatcher of ZeroCenter (rpc/plan_dispatcher.cpp with          *)
(* rpc/zero_plan.cpp).  Two threads work on the plans kept in redis:        *)
(*                                                                          *)
(*   "poll"      plan_poll: every second exec_now takes the keys that are   *)
(*               due and exec_plan sends them to their station;             *)
(*   "dispatch"  the station loop: plans handed in (on_plan_start), results *)
(*               of executions (on_plan_result), commands (exec_command).   *)
(*                                                                          *)
(* Neither takes a lock: each handler loads the message, changes its copy   *)
(* and saves fields of it.  A handler is here one action that loads and     *)
(* decides, and leaves in todo[t] the redis writes it has still to make;    *)
(* Write(t) makes them one at a time, so the two threads interleave between *)
(* any two of them.  One load and one save_message are each one step.       *)
(***************************************************************************)
EXTENDS PlanMessage, FiniteSets

CONSTANTS
  Plans,           \* keys  msg:<station>:<plan_id>  of one station
  Requests,        \* what the requesters may ask for
  Answers,         \* statuses the station may answer to a dispatched plan
  Reports,         \* statuses a worker may report
  SendOutcomes,    \* what the send of exec_plan may end in
  Commands,        \* management commands in use
  SkipArg,         \* the argument of the skip command
  ExecTimeout,     \* plan_exec_timeout
  MaxTime,         \* bound: the last second of the clock
  MaxMishaps       \* bound: receives of exec_plan that time out, WAITING
                   \* reports, lost executions, management commands and
                   \* crashes, all told

NoKey == "no key"

ASSUME DispatcherAssumption ==
  /\ IsFiniteSet(Plans) /\ NoKey \notin Plans
  /\ Requests \subseteq Request
  /\ Answers \subseteq {"runing", "ok", "fail", "fault"}
  /\ Reports \subseteq Status \ {"runing"}
  /\ SendOutcomes \subseteq {"sent", "fault", "unfit"}
  /\ Commands \subseteq {"skip", "pause", "reset", "close", "remove"}
  /\ SkipArg \in Nat \cup {-1}
  /\ {ExecTimeout, MaxTime, MaxMishaps} \subseteq Nat

Thread == {"poll", "dispatch"}

(* The redis writes of the handlers, and "check", the local call of         *)
(* check_next between two of them.                                          *)
Op == SaveKind \cup {"check", "join", "state", "zrem", "del"}

NoHash == [plan_state |-> "absent"]
NotQueued == -1

VARIABLES
  now,        \* the clock, in seconds
  store,      \* redis: the hash of every plan
  queue,      \* redis: the scores of plan:time:set
  key, msg,   \* per thread: the message in hand
  todo,       \* per thread: the writes it has still to make
  pc,         \* the poll thread: "sleep", "scan", "send" or "recv"
  polled,     \* the second in which exec_now last started
  batch,      \* keys of the current exec_now still to look at
  requests,   \* dispatched plans in the station's inproc queue
  replies,    \* the station's answers in exec_plan's cached socket
  jobs,       \* executions handed to workers and not answered yet
  results,    \* reports on their way to the dispatcher
  missed,     \* receives of exec_plan that timed out
  crashes,    \* crashes of the process
  others,     \* the other mishaps the bound applies to
  known,      \* history: plans handed in; their ids are unique
  counted,    \* history: results that counted as an execution
  ran,        \* history: executions of all plans handed to workers
  again,      \* history: reasons to execute a plan again, of all plans:
              \* saved results of executions, executions found timed out
  slot        \* history: plan_time of the last request sent

redis   == <<store, queue>>
threads == <<key, msg, todo, pc, polled, batch>>
network == <<requests, replies, jobs, results>>
bounds  == <<missed, crashes, others>>
history == <<known, counted, ran, again, slot>>
vars == <<now, redis, threads, network, bounds, history>>

-----------------------------------------------------------------------------
Init ==
  /\ now = 1
  /\ store = [p \in Plans |-> NoHash]
  /\ queue = [p \in Plans |-> NotQueued]
  /\ key = [t \in Thread |-> NoKey]
  /\ msg = [t \in Thread |-> Blank]
  /\ todo = [t \in Thread |-> <<>>]
  /\ pc = "sleep" /\ polled = 0 /\ batch = {}
  /\ requests = <<>> /\ replies = <<>>
  /\ jobs = [p \in Plans |-> 0]
  /\ results = [p \in Plans |-> [s \in Reports |-> 0]]
  /\ missed = 0 /\ crashes = 0 /\ others = 0
  /\ known = {}
  /\ counted = [p \in Plans |-> 0]
  /\ ran = 0 /\ again = 0
  /\ slot = [p \in Plans |-> 0]

Tick == /\ now < MaxTime
        /\ now' = now + 1
        /\ UNCHANGED <<redis, threads, network, bounds, history>>

CanGoWrong == missed + crashes + others < MaxMishaps

Exists(p) == store[p] # NoHash

(* A message without frames has lost its station and id too: whatever is    *)
(* saved of it goes to another key.                                         *)
Whole(p) == Exists(p) /\ store[p].frames

(* Thread t has the message m of plan p in hand and the writes ops to make. *)
Take(t, p, m, ops) == /\ key' = [key EXCEPT ![t] = p]
                      /\ msg' = [msg EXCEPT ![t] = m]
                      /\ todo' = [todo EXCEPT ![t] = ops]

Drop(t) == Take(t, NoKey, Blank, <<>>)

-----------------------------------------------------------------------------
(* What the handlers do to a message: the changed copy and the writes.      *)

Effect(m, ops) == [m |-> m, ops |-> ops]

(* next(): a message without a state is saved whole, one that was being     *)
(* retried leaves the retry mode; then check_next decides.                  *)
MutantNextTime(m) ==       \* queues a new plan before its hash is there
  IF m.plan_state = "none" THEN Effect(m, <<"check", "full">>)
  ELSE Effect(m, <<"check">>)

NextTime(m) ==
  IF m.plan_state = "none" THEN Effect(m, <<"full", "check">>)
  ELSE IF m.skip_set = -2
       THEN Effect([m EXCEPT !.skip_set = 0, !.skip_num = 0], <<"skip", "check">>)
       ELSE Effect(m, <<"check">>)

PauseIt(m) == Effect([m EXCEPT !.plan_state = "pause"], <<"state", "zrem">>)

(* error() saves before it leaves the queue, close() after.                 *)
ErrorIt(m) == Effect([m EXCEPT !.plan_state = "error"], <<"close", "zrem">>)
CloseIt(m) == Effect([m EXCEPT !.plan_state = "close"], <<"zrem", "close">>)

Checked(m, t) ==
  LET c == CheckNext(m, t)
  IN  CASE c.do = "join"  -> Effect([c.m EXCEPT !.plan_state = JoinState(c.m)],
                                    <<"join", "plan">>)
        [] c.do = "close" -> CloseIt(c.m)
        [] c.do = "error" -> ErrorIt(c.m)

(* on_plan_result with its trailing save_message_result ("res").            *)
Counts(s) == s \in {"ok", "fail", "bug"}

MutantAnswered(m, s) ==    \* every report counts as an execution
  LET n == [m EXCEPT !.exec_state = s, !.real_repet = @ + 1]
  IN  IF s = "wait" THEN Effect(n, <<>>) ELSE NextTime(n)

Answered(m, s) ==
  LET n == [m EXCEPT !.exec_state = s,
                     !.real_repet = IF Counts(s) THEN @ + 1 ELSE @]
  IN  CASE s = "wait"                     -> Effect(n, <<>>)
        [] s \in {"unfit", "bug"}         -> PauseIt(n)
        [] s \in {"ok", "fail"}           -> NextTime(n)
        [] s \in {"fault", "planerr"} ->
             IF n.skip_set = 0
             THEN Effect([n EXCEPT !.skip_set = -2, !.skip_num = 1,
                                   !.plan_state = "retry"], <<>>)
             ELSE IF n.skip_set = -2 /\ n.skip_num < 3
                  THEN Effect(n, <<>>)
                  ELSE PauseIt(n)

Result(t, p, m, s) ==
  /\ LET e == Answered(m, s) IN Take(t, p, e.m, e.ops \o <<"res">>)
  /\ counted' = [counted EXCEPT ![p] = IF Counts(s) THEN @ + 1 ELSE @]

-----------------------------------------------------------------------------
(* The next write of thread t; after the last one it lets go of the message. *)

Advance(t, m) == IF Tail(todo[t]) = <<>> THEN Drop(t)
                 ELSE Take(t, key[t], m, Tail(todo[t]))

Hash(p) == IF store[p] = NoHash THEN Blank ELSE store[p]

Save(t, k) ==
  /\ store' = [store EXCEPT ![key[t]] = Saved(Hash(key[t]), msg[t], k)]
  /\ Advance(t, msg[t])
  /\ UNCHANGED queue

Check(t) ==
  LET e == Checked(msg[t], now)
  IN  /\ Take(t, key[t], e.m, e.ops \o Tail(todo[t]))
      /\ UNCHANGED redis

Enqueue(t) ==      \* zadd of join_queue
  /\ queue' = [queue EXCEPT ![key[t]] = msg[t].plan_time]
  /\ Advance(t, msg[t])
  /\ UNCHANGED store

Dequeue(t) ==      \* zrem of pause, close and error
  /\ queue' = [queue EXCEPT ![key[t]] = NotQueued]
  /\ Advance(t, msg[t])
  /\ UNCHANGED store

(* pause() and reset() write plan_state alone; reset() then calls           *)
(* join_queue, which sets the state of the copy.                            *)
SetState(t) ==
  LET m == msg[t]
  IN  /\ store' = [store EXCEPT ![key[t]] =
                     [Hash(key[t]) EXCEPT !.plan_state = m.plan_state]]
      /\ Advance(t, IF m.plan_state = "none"
                    THEN [m EXCEPT !.plan_state = JoinState(m)] ELSE m)
      /\ UNCHANGED queue

Delete(t) ==       \* remove(): the hash only
  /\ store' = [store EXCEPT ![key[t]] = NoHash]
  /\ Advance(t, msg[t])
  /\ UNCHANGED queue

Write(t) ==
  /\ todo[t] # <<>>
  /\ LET op == Head(todo[t])
     IN  \/ op \in SaveKind /\ Save(t, op)
         \/ op = "check"  /\ Check(t)
         \/ op = "join"   /\ Enqueue(t)
         \/ op = "zrem"   /\ Dequeue(t)
         \/ op = "state"  /\ SetState(t)
         \/ op = "del"    /\ Delete(t)
  /\ UNCHANGED <<now, pc, polled, batch, network, bounds, history>>

-----------------------------------------------------------------------------
(* The poll thread.                                                         *)

(* plan_poll starts exec_now at most once in a second; exec_now takes the   *)
(* keys that are due.  It works them off in the order of their scores, here *)
(* in any order.                                                            *)
StartPoll ==
  /\ pc = "sleep" /\ polled < now
  /\ batch' = {p \in Plans : queue[p] \in 0..now}
  /\ pc' = IF batch' = {} THEN "sleep" ELSE "scan"
  /\ polled' = now
  /\ UNCHANGED <<now, redis, key, msg, todo, network, bounds, history>>

EndPoll ==
  /\ pc = "scan" /\ batch = {} /\ todo["poll"] = <<>>
  /\ pc' = "sleep"
  /\ UNCHANGED <<now, redis, key, msg, todo, polled, batch, network, bounds, history>>

(* One key of exec_now: passed over, ...                                    *)
MutantStillRuning(m) == m.exec_state = "runing"      \* without its time-out

StillRuning(m) == m.exec_state = "runing" /\ now - m.exec_time < ExecTimeout

PassOver(p) ==
  /\ Exists(p) => LET m == store[p] IN
       \/ m.exec_state = "wait" /\ ~m.frames
       \/ m.exec_state # "wait" /\ m.plan_state = "pause"
       \/ m.frames /\ StillRuning(m)
  /\ UNCHANGED <<key, msg, todo, pc>>

(* ... waiting for its worker, dropped as faulty, skipped, ...              *)
PollSave(p) ==
  /\ Whole(p)
  /\ LET m == store[p]
         n == [m EXCEPT !.skip_num = @ + 1]
     IN  \/ /\ m.exec_state = "wait"
            /\ Take("poll", p, n, <<"skip">>)
         \/ /\ m.exec_state = "planerr" /\ m.plan_state # "pause"
            /\ LET e == ErrorIt(m) IN Take("poll", p, e.m, e.ops)
         \/ /\ m.exec_state \notin {"wait", "planerr", "runing"}
            /\ m.plan_state # "pause" /\ SkipsNow(m)
            /\ LET e == NextTime(n) IN Take("poll", p, e.m, e.ops)
  /\ pc' = pc

(* ... or executed: exec_plan takes it over.  A plan whose execution timed  *)
(* out is retried, whatever its skip_set was.                               *)
MutantPollExecute(p) ==    \* saves the new state before it sends
  /\ Whole(p) /\ ~StillRuning(store[p])
  /\ store[p].exec_state # "wait" /\ store[p].plan_state # "pause"
  /\ Take("poll", p, [store[p] EXCEPT !.plan_state = "execute"], <<"skip">>)
  /\ pc' = "send" /\ UNCHANGED again

PollExecute(p) ==
  /\ Whole(p)
  /\ LET m == store[p]
         retried == IF m.exec_state = "runing"
                    THEN [m EXCEPT !.skip_set = -2, !.skip_num = 1]
                    ELSE IF m.skip_set = -2 THEN [m EXCEPT !.skip_num = @ + 1] ELSE m
     IN  /\ m.exec_state \notin {"wait", "planerr"} /\ m.plan_state # "pause"
         /\ ~StillRuning(m)
         /\ m.exec_state = "runing" \/ ~SkipsNow(m)
         /\ Take("poll", p, [retried EXCEPT !.plan_state = "execute",
                                            !.exec_time = now], <<>>)
         /\ again' = IF m.exec_state = "runing" THEN again + 1 ELSE again
  /\ pc' = "send"

PollKey(p) ==
  /\ pc = "scan" /\ todo["poll"] = <<>> /\ p \in batch
  /\ batch' = batch \ {p}
  /\ \/ (PassOver(p) \/ PollSave(p)) /\ UNCHANGED again
     \/ PollExecute(p)
  /\ UNCHANGED <<now, redis, polled, network, bounds, known, counted, ran, slot>>

(* exec_plan: the request, then the answer of the station.  The socket is   *)
(* kept for the station, so an answer that came too late is read by the     *)
(* next execution.                                                          *)
Send ==
  /\ pc = "send"
  /\ \/ /\ "sent" \in SendOutcomes
        /\ requests' = Append(requests, key["poll"])
        /\ pc' = "recv"
        /\ slot' = [slot EXCEPT ![key["poll"]] = msg["poll"].plan_time]
        /\ UNCHANGED <<key, msg, todo, counted>>
     \/ \E s \in SendOutcomes \ {"sent"} :
          /\ Result("poll", key["poll"], msg["poll"], s)
          /\ pc' = "scan"
          /\ UNCHANGED <<requests, slot>>
  /\ UNCHANGED <<now, redis, polled, batch, replies, jobs, results, bounds,
                 known, ran, again>>

Receive ==
  /\ pc = "recv" /\ replies # <<>>
  /\ replies' = Tail(replies)
  /\ IF Head(replies) = "runing"
     THEN /\ Take("poll", key["poll"],
                  [msg["poll"] EXCEPT !.exec_state = "runing"], <<"exec">>)
          /\ UNCHANGED counted
     ELSE Result("poll", key["poll"], msg["poll"], Head(replies))
  /\ pc' = "scan"
  /\ UNCHANGED <<now, redis, polled, batch, requests, jobs, results, bounds,
                 known, ran, again, slot>>

ReceiveTimesOut ==
  /\ pc = "recv" /\ replies = <<>>
  /\ CanGoWrong /\ missed' = missed + 1
  /\ Result("poll", key["poll"], msg["poll"], "fault")
  /\ pc' = "scan"
  /\ UNCHANGED <<now, redis, polled, batch, network, crashes, others,
                 known, ran, again, slot>>

-----------------------------------------------------------------------------
(* The station and its workers.                                             *)

(* job_start hands the request to a worker and answers RUNING; or it        *)
(* answers at once: a broadcast OK, a paused station PAUSE, no worker       *)
(* NOT_WORKER.  write_info put plan_time into the request.                  *)
StationAnswers ==
  /\ requests # <<>>
  /\ LET p == Head(requests)
     IN  \E s \in Answers :
           /\ replies' = Append(replies, s)
           /\ IF s = "runing"
              THEN /\ jobs' = [jobs EXCEPT ![p] = @ + 1]
                   /\ ran' = ran + 1
              ELSE UNCHANGED <<jobs, ran>>
  /\ requests' = Tail(requests)
  /\ UNCHANGED <<now, redis, threads, results, bounds, known, counted, again, slot>>

(* A worker reports; after WAITING it goes on working.  Reports of several  *)
(* workers may overtake each other.                                         *)
WorkerReports(p, s) ==
  /\ jobs[p] > 0
  /\ results' = [results EXCEPT ![p][s] = @ + 1]
  /\ IF s = "wait"
     THEN /\ CanGoWrong /\ others' = others + 1
          /\ UNCHANGED jobs
     ELSE /\ jobs' = [jobs EXCEPT ![p] = @ - 1]
          /\ UNCHANGED others
  /\ UNCHANGED <<now, redis, threads, requests, replies, missed,
                 crashes, history>>

(* The worker dies, or its report is lost.                                  *)
JobLost(p) ==
  /\ jobs[p] > 0
  /\ CanGoWrong /\ others' = others + 1
  /\ jobs' = [jobs EXCEPT ![p] = @ - 1]
  /\ UNCHANGED <<now, redis, threads, requests, replies, results, missed,
                 crashes, history>>

-----------------------------------------------------------------------------
(* The dispatcher thread.                                                   *)

Idle == todo["dispatch"] = <<>>

OnPlanStart(p, r) ==
  /\ Idle
  /\ p \notin known /\ known' = known \cup {p}
  /\ ~Rejected(r)
  /\ LET e == NextTime(NewMessage(r, now)) IN Take("dispatch", p, e.m, e.ops)
  /\ UNCHANGED <<now, redis, pc, polled, batch, network, bounds,
                 counted, ran, again, slot>>

(* How often the report s of p makes the dispatcher save that p is not in   *)
(* execution: a plan without a state is saved by next() and once more.      *)
Frees(p, s) ==
  IF s = "wait" THEN 0
  ELSE IF Whole(p) /\ store[p].plan_state = "none" /\ s \in {"ok", "fail"} THEN 2
  ELSE 1

OnPlanResult(p, s) ==
  /\ Idle
  /\ results[p][s] > 0
  /\ results' = [results EXCEPT ![p][s] = @ - 1]
  /\ IF Whole(p)
     THEN Result("dispatch", p, store[p], s)
     ELSE Drop("dispatch") /\ UNCHANGED counted
  /\ again' = again + Frees(p, s)
  /\ UNCHANGED <<now, redis, pc, polled, batch, requests, replies, jobs, bounds,
                 known, ran, slot>>

OnSkip(p) ==
  /\ store[p].plan_state # "close" /\ store[p].skip_set # SkipArg
  /\ Take("dispatch", p, [store[p] EXCEPT !.skip_set = SkipArg], <<"skip">>)

OnPause(p) ==
  /\ store[p].plan_state \in BeforePause
  /\ LET e == PauseIt(store[p]) IN Take("dispatch", p, e.m, e.ops)

OnReset(p) ==
  /\ store[p].plan_state \in {"pause", "error"}
  /\ Take("dispatch", p, [store[p] EXCEPT !.plan_state = "none"],
          <<"state", "join", "plan">>)

OnClose(p) ==
  LET e == CloseIt(store[p]) IN Take("dispatch", p, e.m, e.ops)

OnRemove(p) ==
  /\ store[p].plan_state = "close"
  /\ Take("dispatch", p, store[p], <<"del">>)

OnCommand(p) ==
  /\ Idle /\ Whole(p)
  /\ CanGoWrong /\ others' = others + 1
  /\ \/ "skip"   \in Commands /\ OnSkip(p)
     \/ "pause"  \in Commands /\ OnPause(p)
     \/ "reset"  \in Commands /\ OnReset(p)
     \/ "close"  \in Commands /\ OnClose(p)
     \/ "remove" \in Commands /\ OnRemove(p)
  /\ UNCHANGED <<now, redis, pc, polled, batch, network, missed, crashes, history>>

-----------------------------------------------------------------------------
(* A crash of the process loses everything but redis and the workers.  The  *)
(* poll thread brings one about itself when it meets a hash without frames: *)
(* it reads frames[0] of an empty vector.                                   *)
Restart ==
  /\ key' = [t \in Thread |-> NoKey]
  /\ msg' = [t \in Thread |-> Blank]
  /\ todo' = [t \in Thread |-> <<>>]
  /\ pc' = "sleep" /\ batch' = {} /\ polled' = polled
  /\ requests' = <<>> /\ replies' = <<>>
  /\ results' = [p \in Plans |-> [s \in Reports |-> 0]]
  /\ UNCHANGED <<now, redis, jobs, missed, others, history>>

Crash ==
  /\ now < MaxTime
  /\ CanGoWrong /\ crashes' = crashes + 1
  /\ Restart

ReadsNoFrame(p) ==
  /\ pc = "scan" /\ todo["poll"] = <<>> /\ p \in batch
  /\ Exists(p) /\ ~store[p].frames
  /\ store[p].exec_state # "wait" /\ store[p].plan_state # "pause"
  /\ Restart
  /\ UNCHANGED crashes

-----------------------------------------------------------------------------
PollNext == \/ StartPoll \/ EndPoll
            \/ \E p \in Plans : PollKey(p)
            \/ Send \/ Receive \/ ReceiveTimesOut
            \/ Write("poll")

DispatchNext == \/ Write("dispatch")
                \/ \E p \in Plans, s \in Reports : OnPlanResult(p, s)

Next == \/ Tick
        \/ PollNext
        \/ DispatchNext
        \/ \E p \in Plans, r \in Requests : OnPlanStart(p, r)
        \/ \E p \in Plans : OnCommand(p)
        \/ StationAnswers
        \/ \E p \in Plans, s \in Reports : WorkerReports(p, s)
        \/ \E p \in Plans : JobLost(p)
        \/ Crash
        \/ \E p \in Plans : ReadsNoFrame(p)

Spec == Init /\ [][Next]_vars

(* The clock goes on, both threads are scheduled by the system whenever     *)
(* they can run, and the station loop takes the next request.  Nothing is   *)
(* assumed of requesters, workers and administrators.                       *)
FairSpec == /\ Spec
            /\ WF_vars(Tick) /\ WF_vars(StationAnswers)
            /\ WF_vars(PollNext) /\ WF_vars(DispatchNext)

-----------------------------------------------------------------------------
(* Properties.                                                              *)

RedisType == /\ store \in [Plans -> Message \cup {NoHash}]
             /\ queue \in [Plans -> Int]

HandType == /\ key \in [Thread -> Plans \cup {NoKey}]
            /\ msg \in [Thread -> Message]
            /\ todo \in [Thread -> Seq(Op)]
            /\ \A t \in Thread : todo[t] # <<>> => key[t] \in Plans

PollType == /\ pc \in {"sleep", "scan", "send", "recv"}
            /\ pc \in {"send", "recv"} => key["poll"] \in Plans /\ todo["poll"] = <<>>
            /\ polled \in Nat /\ batch \in SUBSET Plans

NetworkType == /\ requests \in Seq(Plans) /\ replies \in Seq(Answers)
               /\ jobs \in [Plans -> Nat]
               /\ results \in [Plans -> [Reports -> Nat]]

CountType == /\ now \in Nat /\ missed \in Nat /\ crashes \in Nat /\ others \in Nat
             /\ known \in SUBSET Plans
             /\ counted \in [Plans -> Nat] /\ ran \in Nat /\ again \in Nat
             /\ slot \in [Plans -> Int]

TypeOK == RedisType /\ HandType /\ PollType /\ NetworkType /\ CountType

(* However the saves of the two threads overwrite each other, no copy of a  *)
(* message ever shows more executions than results were counted for its     *)
(* plan (real_repet += 1 in on_plan_result): a repeat count can be used up  *)
(* too late, never too early.                                               *)
CountBacked ==
  \A p \in Plans :
    /\ Exists(p) => store[p].real_repet <= counted[p]
    /\ \A t \in Thread : key[t] = p => msg[t].real_repet <= counted[p]

(* "a plan in execution is not dispatched again" (exec_now, the test of     *)
(* ZERO_STATUS_RUNING_ID): every plan is executed once, and each execution  *)
(* more, on its way or at a worker, has had a reason of its own.  A result  *)
(* was saved, an execution timed out, an answer came too late, the process  *)
(* crashed.  The answer to one plan that came too late is read for another, *)
(* so that no such bound holds for each plan by itself.                     *)
OverlapBounded ==
  ran + Len(requests) <= Cardinality(Plans) + again + missed + crashes

(* A plan that has entered the time queue is sent when its time comes, in   *)
(* spite of a crash between any two writes of any handler.                  *)
QueuedIsSent ==
  \A p \in Plans :
    queue[p] \in 1..(MaxTime - 1) /\ now < MaxTime /\ slot[p] = 0 ~> slot[p] > 0

(* The time-out of exec_now: an execution whose worker died, or whose answer *)
(* was lost, does not keep its plan in RUNING for ever.                     *)
LostIsRetried ==
  \A p \in Plans :
    /\ Exists(p) /\ store[p].exec_state = "runing"
    /\ store[p].exec_time + ExecTimeout <= MaxTime
    /\ queue[p] \in 0..MaxTime /\ polled < MaxTime
    ~> key["poll"] = p \/ queue[p] = NotQueued \/ store[p].exec_state # "runing"

(* "All executable plans must be in the time queue" (doc/zero_plan.md 3.3): *)
(* between two handlers, a plan that is neither paused nor ended is there.  *)
AtRest == (\A t \in Thread : todo[t] = <<>>) /\ pc \in {"sleep", "scan"}

ExecutableIsQueued ==
  AtRest => \A p \in Plans :
    Exists(p) /\ store[p].plan_state \in BeforePause \ {"none"}
      => queue[p] # NotQueued

(* A plan of type time is sent "at the given time" (doc/zero_plan.md 1.2),  *)
(* not before.  For runs that request one such time.                        *)
NotBeforeItsTime ==
  [][\A r \in Requests :
       r.plan_type = "time" /\ slot' # slot => now >= r.plan_time]_vars
=============================================================================
