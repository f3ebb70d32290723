---------------------------- MODULE RedisBridge ----------------------------
(***************************************************************************)
(* A call of a language model through Redis streams: the client of         *)
(* redis_bridge_adapter.py inside the retries of retry.py, the stream of   *)
(* requests with its consumer group, and the workers of                    *)
(* llm_redis_worker.ipynb, which run elsewhere and are started, stopped    *)
(* and killed by hand.  An action is what one side does between two of its *)
(* awaits; Redis executes one command at a time.                           *)
(*                                                                         *)
(* Time is counted in ticks of the request's age.  Left out: the trimming  *)
(* of the stream at 1000 entries, the TTL of the responses, targets a      *)
(* worker does not serve, the wait for a target's rate limit, and the key  *)
(* worker:alive: all workers share it, any of them deletes it or leaves it *)
(* behind, so a client may find it or not whatever runs.                   *)
(***************************************************************************)
EXTENDS Naturals, Sequences, FiniteSets

CONSTANTS
    Calls,               \* calls of the model, each with its retries
    Workers,
    Deadline,            \* request_timeout
    HttpTimeout,         \* HTTP_TIMEOUT_SEC
    ClaimMinIdle,        \* CLAIM_MIN_IDLE_MS
    Skew,                \* how far a worker's clock may be behind the client's
    MaxAttempts,         \* of the worker, for one request
    ConnectAttempts, TransientAttempts,   \* connect_max_attempts, max_attempts
    MaxTroubles          \* bounds how often workers die, stop or are cut off from Redis

ASSUME BridgeAssumption ==
    /\ {Deadline, HttpTimeout, ClaimMinIdle, Skew, MaxTroubles} \subseteq Nat
    /\ {MaxAttempts, ConnectAttempts, TransientAttempts} \subseteq Nat \ {0}
    \* A request that a worker may still set out to answer is not taken for abandoned.
    /\ Deadline + Skew < ClaimMinIdle

NoEntry == 0
MaxAge == Deadline + Skew + 1
MostTries == IF ConnectAttempts > TransientAttempts THEN ConnectAttempts ELSE TransientAttempts

Replies == {"none", "final", "busy", "error"}   \* busy: an error of status 408

\* place: not delivered yet, in the group's list of pending entries, taken off
\* it, or lost.  unheard: the client was told that the XADD failed.  served: how
\* many times a worker set out to answer the entry.
Entries == [by : Calls, age : 0 .. MaxAge, place : {"queued", "pending", "acked", "gone"},
            idle : 0 .. ClaimMinIdle, reply : Replies, unheard : BOOLEAN, served : Nat]

VARIABLES
    requests,      \* the stream {prefix}requests with what the group knows of it
    group,         \* does the consumer group exist?
    client,        \* RedisBridgeClient within retry_on_transient
    worker,
    troubles       \* how many there were

vars == <<requests, group, client, worker, troubles>>

Clients == [phase : {"checking", "posting", "polling", "backoff", "answered", "failed"},
            attempt : 1 .. MostTries, entry : Nat]

Working == {"pausing", "calling", "replying", "acking"}
Looping == {"claiming", "reading"}
WorkerStates == [phase : {"down"} \cup Working \cup Looping, entry : Nat, tries : Nat,
            spent : 0 .. HttpTimeout, reply : Replies, batch : SUBSET Nat, then : Looping]

TypeOK ==
    /\ requests \in Seq(Entries)
    /\ group \in BOOLEAN
    /\ client \in [Calls -> Clients]
    /\ worker \in [Workers -> WorkerStates]
    /\ troubles \in 0 .. MaxTroubles

At(phase) == [phase |-> phase, entry |-> NoEntry, tries |-> 0, spent |-> 0, reply |-> "none",
              batch |-> {}, then |-> "claiming"]

Init ==
    /\ requests = <<>>
    /\ group = TRUE
    /\ client = [c \in Calls |-> [phase |-> "checking", attempt |-> 1, entry |-> NoEntry]]
    /\ worker = [w \in Workers |-> At("down")]
    /\ troubles = 0

Trouble == troubles < MaxTroubles /\ troubles' = troubles + 1
NoTrouble == UNCHANGED troubles

-----------------------------------------------------------------------------
(* The client.                                                              *)

In(c, phase) == client[c].phase = phase
To(c, phase) == client' = [client EXCEPT ![c].phase = phase]
ClientOnly == UNCHANGED <<requests, group, worker, troubles>>

\* The except branch of retry_on_transient: one counter, a limit for each class.
Retry(c, limit) == To(c, IF client[c].attempt >= limit THEN "failed" ELSE "backoff")

\* _ensure_worker_available
CheckWorker(c) == In(c, "checking") /\ To(c, "posting") /\ ClientOnly
NoWorkerSeen(c) == In(c, "checking") /\ Retry(c, ConnectAttempts) /\ ClientOnly

Added(c, unheard) ==
    requests' = Append(requests, [by |-> c, age |-> 0, place |-> "queued", idle |-> 0,
                                  reply |-> "none", unheard |-> unheard, served |-> 0])

Post(c) ==
    /\ In(c, "posting") /\ Added(c, FALSE)
    /\ client' = [client EXCEPT ![c].phase = "polling", ![c].entry = Len(requests')]
    /\ UNCHANGED <<group, worker, troubles>>

\* Redis is away, or carries out the XADD and its answer does not arrive.
PostFails(c) == In(c, "posting") /\ Retry(c, ConnectAttempts) /\ ClientOnly
PostUnheard(c) ==
    /\ In(c, "posting") /\ Added(c, TRUE) /\ Retry(c, ConnectAttempts)
    /\ UNCHANGED <<group, worker, troubles>>

Entry(c) == requests[client[c].entry]
Waiting(c) == In(c, "polling") /\ Entry(c).age < Deadline

\* _handle_terminal: an answer, or one that does not make a ChatCompletion.
TakeAnswer(c) ==
    /\ Waiting(c) /\ Entry(c).reply = "final"
    /\ \E phase \in {"answered", "failed"} : To(c, phase)
    /\ ClientOnly
TakeError(c) ==
    /\ Waiting(c)
    /\ \/ Entry(c).reply = "busy" /\ Retry(c, TransientAttempts)
       \/ Entry(c).reply = "error" /\ To(c, "failed")
    /\ ClientOnly

\* BridgePollError and BridgeDeadlineError: never retried.
\* Mutant: one broken poll is a broken connection like any other.
PollFailsRetried(c) == In(c, "polling") /\ Retry(c, ConnectAttempts) /\ ClientOnly
PollFails(c) == In(c, "polling") /\ To(c, "failed") /\ ClientOnly
GiveUp(c) == In(c, "polling") /\ ~Waiting(c) /\ To(c, "failed") /\ ClientOnly

TryAgain(c) ==
    /\ In(c, "backoff")
    /\ client' = [client EXCEPT ![c].phase = "checking", ![c].attempt = @ + 1]
    /\ ClientOnly

-----------------------------------------------------------------------------
(* The worker: consumer_loop and process_entry.                             *)

Is(w, phase) == worker[w].phase = phase
Go(w, state) == worker' = [worker EXCEPT ![w] = state]
WorkerOnly == UNCHANGED <<requests, group, client>>
Calm == UNCHANGED <<group, client, troubles>>
Running(w) == worker[w].phase \in Working \cup Looping

\* The next step for the entry in hand.
OnWith(w, phase) == [At(phase) EXCEPT !.entry = worker[w].entry, !.batch = worker[w].batch, !.then = worker[w].then]

\* The deadline of the request by the worker's clock.
Expired(e) == e.age > Deadline + Skew

Lowest(i, entries) == i \in entries /\ \A j \in entries : i <= j

\* The entries to process now, in the order of the stream, with what the loop does
\* after the last of them.  Mutant: an expired entry is passed over before the try
\* that acknowledges it.
ProcessSkipping(w, batch, then) ==
    LET timely == {i \in batch : ~Expired(requests[i])}
    IN \/ timely = {} /\ Go(w, At(then))
       \/ \E i \in timely :
             /\ Lowest(i, timely)
             /\ Go(w, [At("pausing") EXCEPT !.entry = i, !.batch = timely \ {i}, !.then = then])
Process(w, batch, then) ==
    \/ batch = {} /\ Go(w, At(then))
    \/ \E i \in batch :
          /\ Lowest(i, batch)
          /\ Go(w, [At(IF Expired(requests[i]) THEN "acking" ELSE "pausing")
                        EXCEPT !.entry = i, !.batch = batch \ {i}, !.then = then])

\* A group made now begins at the end of the stream ("$").
Start(w) ==
    /\ Is(w, "down") /\ Go(w, At("claiming"))
    /\ group' = TRUE
    /\ requests' = [i \in DOMAIN requests |->
                       IF ~group /\ requests[i].place = "queued"
                       THEN [requests[i] EXCEPT !.place = "gone"] ELSE requests[i]]
    /\ UNCHANGED <<client, troubles>>

\* Mutant: whatever is pending.
AbandonedAny(e) == e.place = "pending"
Abandoned(e) == e.place = "pending" /\ e.idle >= ClaimMinIdle

Claimable == {i \in DOMAIN requests : Abandoned(requests[i])}
Claimed ==
    requests' = [i \in DOMAIN requests |->
                    IF i \in Claimable THEN [requests[i] EXCEPT !.idle = 0] ELSE requests[i]]

\* XAUTOCLAIM
Claim(w) ==
    /\ Is(w, "claiming") /\ group
    /\ Claimed /\ Process(w, Claimable, "reading")
    /\ Calm

\* Its answer does not arrive: the entries count as this worker's from now on.
ClaimUnheard(w) ==
    /\ Is(w, "claiming") /\ group
    /\ Claimed /\ Go(w, At("claiming"))
    /\ Trouble /\ UNCHANGED <<group, client>>

Queued == {i \in DOMAIN requests : requests[i].place = "queued"}
Delivered(i) == requests' = [requests EXCEPT ![i].place = "pending", ![i].idle = 0]

\* XREADGROUP with COUNT 1, for five seconds.
Read(w) ==
    /\ Is(w, "reading") /\ group
    /\ \E i \in Queued : Lowest(i, Queued) /\ Delivered(i) /\ Process(w, {i}, "claiming")
    /\ Calm
NothingToRead(w) ==
    Is(w, "reading") /\ group /\ Queued = {} /\ Go(w, At("claiming")) /\ WorkerOnly /\ NoTrouble

\* The connection breaks on the way back: the group knows the entry as delivered.
ReadUnheard(w) ==
    /\ Is(w, "reading") /\ group
    /\ \E i \in Queued : Lowest(i, Queued) /\ Delivered(i)
    /\ Go(w, At("claiming"))
    /\ Calm

\* Any other error of the loop, NOGROUP among them: it goes round again.
LoopFails(w) == Is(w, "reading") /\ Go(w, At("claiming")) /\ WorkerOnly /\ Trouble

\* call_llm: the deadline is looked at before every attempt.
Attempt(w) ==
    /\ Is(w, "pausing")
    /\ LET i == worker[w].entry
       IN IF Expired(requests[i])
          THEN Go(w, OnWith(w, "acking")) /\ UNCHANGED requests
          ELSE /\ Go(w, [worker[w] EXCEPT !.phase = "calling", !.spent = 0, !.tries = @ + 1])
               /\ IF worker[w].tries > 0 THEN UNCHANGED requests
                  ELSE requests' = [requests EXCEPT ![i].served = @ + 1]
    /\ Calm

\* An answer, a 408, another 4xx; or a failure worth repeating, unless it was the
\* last attempt or the pause would outlast the deadline.
Called(w) ==
    /\ Is(w, "calling")
    /\ \/ \E reply \in Replies \ {"none"} :
             Go(w, [OnWith(w, "replying") EXCEPT !.reply = reply])
       \/ /\ worker[w].tries < MaxAttempts
          /\ Go(w, [OnWith(w, "pausing") EXCEPT !.tries = worker[w].tries])
    /\ WorkerOnly /\ NoTrouble

\* The client reads the first terminal entry of the response; a later one is not seen.
Written(i, reply) ==
    requests' = [requests EXCEPT ![i].reply =
                    IF @ = "none" /\ requests[i].place # "gone" THEN reply ELSE @]

Reply(w) ==
    /\ Is(w, "replying")
    /\ Written(worker[w].entry, worker[w].reply)
    /\ Go(w, OnWith(w, "acking"))
    /\ Calm

\* XADD or EXPIRE raises, the XADD done or not: an error of status 500 is tried once.
ReplyFails(w) ==
    /\ Is(w, "replying")
    /\ Written(worker[w].entry, worker[w].reply) \/ UNCHANGED requests
    /\ \/ Go(w, OnWith(w, "acking"))
       \/ worker[w].reply # "error" /\ Go(w, [worker[w] EXCEPT !.reply = "error"])
    /\ Calm

Acked(i) ==
    IF requests[i].place = "pending"
    THEN requests' = [requests EXCEPT ![i].place = "acked", ![i].idle = 0]
    ELSE UNCHANGED requests

\* The finally of process_entry: XACK, whatever came before.
Ack(w) ==
    /\ Is(w, "acking")
    /\ Acked(worker[w].entry)
    /\ Process(w, worker[w].batch, worker[w].then)
    /\ Calm

\* The XACK raises, carried out or not; the rest of the batch is left to the group.
AckFails(w) ==
    /\ Is(w, "acking")
    /\ Acked(worker[w].entry) \/ UNCHANGED requests
    /\ Go(w, At("claiming"))
    /\ Trouble /\ UNCHANGED <<group, client>>

\* Kernel -> Interrupt: the task is cancelled, and its finally still acknowledges
\* the entry in hand.
Interrupt(w) ==
    /\ Running(w) /\ Go(w, At("down"))
    /\ \/ worker[w].phase \in Working /\ Acked(worker[w].entry)
       \/ UNCHANGED requests
    /\ Trouble /\ UNCHANGED <<group, client>>

Crash(w) == Running(w) /\ Go(w, At("down")) /\ WorkerOnly /\ Trouble

-----------------------------------------------------------------------------
(* Redis and time.                                                          *)

\* Redis keeps nothing over a restart (redis-llm-bridge.md, 7).
RedisLost ==
    /\ group /\ group' = FALSE
    /\ requests' = [i \in DOMAIN requests |->
                       [requests[i] EXCEPT !.reply = "none", !.idle = 0,
                                           !.place = IF @ = "acked" THEN "acked" ELSE "gone"]]
    /\ Trouble
    /\ UNCHANGED <<client, worker>>

Least(a, b) == IF a < b THEN a ELSE b

\* The age of a request counts as long as somebody looks at it.
Watched(i) == requests[i].place \in {"queued", "pending"}
              \/ \E c \in Calls : In(c, "polling") /\ client[c].entry = i

\* Nobody outlasts his timeout.
Tick ==
    /\ \A c \in Calls : In(c, "polling") => Waiting(c)
    /\ \A w \in Workers : Is(w, "calling") => worker[w].spent < HttpTimeout
    /\ requests' = [i \in DOMAIN requests |->
                       [requests[i] EXCEPT
                           !.age = IF Watched(i) THEN Least(@ + 1, MaxAge) ELSE @,
                           !.idle = IF requests[i].place = "pending" THEN Least(@ + 1, ClaimMinIdle)
                                    ELSE @]]
    /\ worker' = [w \in Workers |-> [worker[w] EXCEPT !.spent = IF Is(w, "calling") THEN @ + 1 ELSE @]]
    /\ <<requests, worker>>' # <<requests, worker>>
    /\ Calm

ClientSteps(c) ==
    \/ CheckWorker(c) \/ NoWorkerSeen(c) \/ Post(c) \/ PostFails(c) \/ PostUnheard(c)
    \/ TakeAnswer(c) \/ TakeError(c) \/ PollFails(c) \/ GiveUp(c) \/ TryAgain(c)
WorkerSteps(w) ==
    \/ Start(w) \/ Claim(w) \/ ClaimUnheard(w) \/ Read(w) \/ NothingToRead(w) \/ ReadUnheard(w)
    \/ LoopFails(w)
    \/ Attempt(w) \/ Called(w) \/ Reply(w) \/ ReplyFails(w) \/ Ack(w) \/ AckFails(w)
    \/ Interrupt(w) \/ Crash(w)

\* What a worker does of its own accord.
Going(w) ==
    \/ Claim(w) \/ Read(w) \/ NothingToRead(w) \/ Attempt(w) \/ Called(w)
    \/ Reply(w) \/ ReplyFails(w) \/ Ack(w)

Next == (\E c \in Calls : ClientSteps(c)) \/ (\E w \in Workers : WorkerSteps(w)) \/ RedisLost \/ Tick

Spec == Init /\ [][Next]_vars

\* What runs runs on, and time passes.  Nothing is assumed of those who start,
\* stop and kill workers.
FairSpec ==
    /\ Spec
    /\ \A c \in Calls : WF_vars(ClientSteps(c))
    /\ \A w \in Workers : WF_vars(Going(w))
    /\ WF_vars(Tick)

-----------------------------------------------------------------------------
(* Properties                                                               *)

\* No request is answered, and paid for, twice: what XAUTOCLAIM takes over from
\* a dead or cut-off worker, or from the claimer itself, is past its deadline
\* (CLAIM_MIN_IDLE_MS: "клеймится только заведомо брошенное").
PaidOnce == \A i \in DOMAIN requests : requests[i].served <= 1

\* A request that a worker may still set out to answer.
Open(e) == e.place \in {"queued", "pending"} /\ e.reply = "none" /\ ~Expired(e)

\* A call that is still being tried has no other request open than the one it
\* waits for, except one whose XADD it was told had failed: every error that
\* is retried leaves nothing behind (_NEVER_RETRY_EXC of retry.py).
OneAtATime ==
    \A c \in Calls : client[c].phase \notin {"answered", "failed"} =>
        \A i \in DOMAIN requests :
            (requests[i].by = c /\ Open(requests[i]) /\ ~requests[i].unheard) =>
                In(c, "polling") /\ client[c].entry = i

\* With a worker that keeps running on a Redis that keeps its group, every request
\* is dealt with: taken off the group's list, or lost with Redis.
RequestsSettle ==
    (\E w \in Workers : <>[](Running(w) /\ group))
        => <>[](\A i \in DOMAIN requests : requests[i].place \in {"acked", "gone"})
=============================================================================
