------------------------- MODULE RedisBridge_proofs -------------------------
(***************************************************************************)
(* For any calls, workers, limits and troubles: no request is answered     *)
(* twice, and a call never has a second request open beside the one it     *)
(* waits for.  The argument: a request is handed out once from the queue,  *)
(* and as long as it is worth answering it is too young to be claimed, for *)
(* it has not been pending longer than it exists.                          *)
(***************************************************************************)
EXTENDS RedisBridge, SequenceTheorems, TLAPS

\* What the clients and the workers point at exists.
Known ==
    /\ \A c \in Calls : In(c, "polling") => client[c].entry \in DOMAIN requests
    /\ \A w \in Workers : /\ worker[w].phase \in Working => worker[w].entry \in DOMAIN requests
                          /\ worker[w].batch \subseteq DOMAIN requests

\* The retries are bounded, and an attempt of a worker is counted before it is made.
Counted ==
    /\ \A c \in Calls : In(c, "backoff") => client[c].attempt < MostTries
    /\ \A w \in Workers : Is(w, "calling") => worker[w].tries > 0

\* A request has not been pending longer than it exists.
IdleYoung == \A i \in DOMAIN requests : ~Expired(requests[i]) => requests[i].idle <= requests[i].age

\* What a worker has claimed is past its deadline.
ClaimedOld == \A w \in Workers : \A i \in worker[w].batch : Expired(requests[i])

QueuedUnserved == \A i \in DOMAIN requests : requests[i].place = "queued" => requests[i].served = 0

Holds(w, i) == worker[w].phase \in Working /\ worker[w].entry = i

\* A request worth answering is in the hands of one worker, who has it from the
\* queue, and has not been served before that worker sets out.
HeldOnce ==
    \A i \in DOMAIN requests : ~Expired(requests[i]) =>
        \A w \in Workers : Holds(w, i) =>
            /\ requests[i].place # "queued"
            /\ Is(w, "pausing") /\ worker[w].tries = 0 => requests[i].served = 0
            /\ \A v \in Workers : Holds(v, i) => v = w

IInv ==
    /\ TypeOK /\ Known /\ Counted
    /\ IdleYoung /\ ClaimedOld /\ QueuedUnserved /\ HeldOnce
    /\ PaidOnce /\ OneAtATime

-----------------------------------------------------------------------------
(* The requests.                                                            *)

\* What a step may make of a request that exists.
Follows(e, f) ==
    /\ f.by = e.by /\ f.unheard = e.unheard
    /\ f.age >= e.age
    /\ f.place = "queued" => e.place = "queued"
    /\ Open(f) => Open(e)
    /\ (Expired(e) \/ e.idle <= e.age) => (Expired(f) \/ f.idle <= f.age)

Evolved ==
    /\ requests' \in Seq(Entries) /\ DOMAIN requests' = DOMAIN requests
    /\ \A i \in DOMAIN requests : Follows(requests[i], requests'[i])

ServedKept == \A i \in DOMAIN requests : requests'[i].served = requests[i].served

\* The assumption on the constants, one fact each.
LEMMA Numbers ==
    /\ Deadline \in Nat /\ HttpTimeout \in Nat /\ ClaimMinIdle \in Nat /\ Skew \in Nat
    /\ MaxTroubles \in Nat /\ MaxAttempts \in Nat \ {0}
    /\ ConnectAttempts \in Nat \ {0} /\ TransientAttempts \in Nat \ {0}
    /\ Deadline + Skew < ClaimMinIdle
    /\ MaxAge \in Nat /\ MostTries \in Nat \ {0}
BY BridgeAssumption DEF MaxAge, MostTries

LEMMA NoIdle == 0 \in 0 .. ClaimMinIdle
BY Numbers

LEMMA EntryFields ==
    ASSUME NEW e \in Entries
    PROVE  /\ e.age \in 0 .. MaxAge /\ e.age \in Nat
           /\ e.idle \in 0 .. ClaimMinIdle /\ e.idle \in Nat
           /\ e.served \in Nat /\ e.reply \in Replies /\ e.by \in Calls
           /\ e.place \in {"queued", "pending", "acked", "gone"}
BY Numbers DEF Entries

\* A request of the same age follows another if it is no fresher in anything else.
LEMMA SameAge ==
    ASSUME NEW e \in Entries, NEW f \in Entries,
           f.by = e.by, f.unheard = e.unheard, f.age = e.age,
           f.idle = 0 \/ f.idle = e.idle,
           f.place = "queued" => e.place = "queued",
           f.place = "pending" => e.place \in {"queued", "pending"},
           f.reply = "none" => e.reply = "none" \/ f.place \in {"acked", "gone"}
    PROVE  Follows(e, f)
<1>1. e.age \in Nat /\ e.idle \in Nat /\ f.idle \in Nat
  BY EntryFields
<1>2. Expired(f) <=> Expired(e)
  BY DEF Expired
<1>3. Open(f) => Open(e)
  BY <1>2 DEF Open
<1>4. (Expired(e) \/ e.idle <= e.age) => (Expired(f) \/ f.idle <= f.age)
  BY <1>1, <1>2
<1>. QED
  BY <1>1, <1>3, <1>4 DEF Follows

\* A change entry by entry is a stream of the same length.
LEMMA Remapped ==
    ASSUME NEW s \in Seq(Entries), NEW t \in [DOMAIN s -> Entries]
    PROVE  t \in Seq(Entries) /\ DOMAIN t = DOMAIN s
<1>1. Len(s) \in Nat /\ DOMAIN s = 1 .. Len(s)
  BY LenProperties
<1>. QED
  BY <1>1

LEMMA EvolvedSame ==
    ASSUME requests \in Seq(Entries), UNCHANGED requests
    PROVE  Evolved /\ ServedKept
<1>1. \A i \in DOMAIN requests : requests[i] \in Entries
  BY LenProperties, ElementOfSeq
<1>2. \A i \in DOMAIN requests : requests[i].age \in Nat
  BY <1>1, NoIdle DEF Entries
<1>. QED
  BY <1>2 DEF Evolved, Follows, ServedKept

\* One entry is replaced by one that follows it.
LEMMA EvolvedOne ==
    ASSUME requests \in Seq(Entries), NEW i \in DOMAIN requests, NEW e \in Entries,
           requests' = [requests EXCEPT ![i] = e], Follows(requests[i], e)
    PROVE  /\ Evolved
           /\ e.served = requests[i].served => ServedKept
           /\ requests'[i] = e
<1>1. Len(requests) \in Nat /\ DOMAIN requests = 1 .. Len(requests)
      /\ \A j \in DOMAIN requests : requests[j] \in Entries
  BY LenProperties, ElementOfSeq
<1>2. requests' \in [DOMAIN requests -> Entries]
  BY <1>1
<1>3. \A j \in DOMAIN requests : requests'[j] = IF j = i THEN e ELSE requests[j]
  BY <1>1
<1>4. \A j \in DOMAIN requests : Follows(requests[j], requests[j])
  BY <1>1, SameAge
<1>. QED
  BY <1>1, <1>2, <1>3, <1>4, Remapped DEF Evolved, ServedKept

LEMMA EvolvedDelivered ==
    ASSUME requests \in Seq(Entries), NEW i \in Queued, Delivered(i)
    PROVE  Evolved /\ ServedKept /\ requests'[i].place = "pending"
           /\ requests'[i].age = requests[i].age
<1>. DEFINE e == [requests[i] EXCEPT !.place = "pending", !.idle = 0]
<1>1. i \in DOMAIN requests /\ requests[i] \in Entries /\ requests[i].place = "queued"
  BY LenProperties, ElementOfSeq DEF Queued
<1>2. e \in Entries /\ e.served = requests[i].served
  BY <1>1, NoIdle DEF Entries
<1>5. Follows(requests[i], e)
  BY <1>1, <1>2, SameAge DEF Entries
<1>3. requests' = [requests EXCEPT ![i] = e]
  BY DEF Delivered
<1>4. e.place = "pending" /\ e.age = requests[i].age
  BY <1>1 DEF Entries
<1>. QED
  BY <1>1, <1>2, <1>3, <1>4, <1>5, EvolvedOne

LEMMA EvolvedServed ==
    ASSUME requests \in Seq(Entries), NEW i \in DOMAIN requests,
           requests' = [requests EXCEPT ![i].served = @ + 1]
    PROVE  /\ Evolved
           /\ \A j \in DOMAIN requests : j # i => requests'[j] = requests[j]
           /\ requests'[i].served = requests[i].served + 1
           /\ requests'[i].place = requests[i].place /\ requests'[i].age = requests[i].age
<1>. DEFINE e == [requests[i] EXCEPT !.served = @ + 1]
<1>1. requests[i] \in Entries
  BY LenProperties, ElementOfSeq
<1>4. requests[i].served + 1 \in Nat
  BY <1>1, EntryFields
<1>2. e \in Entries /\ e.served = requests[i].served + 1
      /\ e.place = requests[i].place /\ e.age = requests[i].age
  BY <1>1, <1>4 DEF Entries
<1>5. Follows(requests[i], e)
  BY <1>1, <1>2, SameAge DEF Entries
<1>3. requests' = [requests EXCEPT ![i] = e]
  OBVIOUS
<1>. QED
  BY <1>1, <1>2, <1>3, <1>5, EvolvedOne

LEMMA EvolvedWritten ==
    ASSUME requests \in Seq(Entries), NEW i \in DOMAIN requests, NEW reply \in Replies, Written(i, reply)
    PROVE  Evolved /\ ServedKept
<1>. DEFINE e == [requests[i] EXCEPT !.reply = IF @ = "none" /\ requests[i].place # "gone" THEN reply ELSE @]
<1>1. requests[i] \in Entries
  BY LenProperties, ElementOfSeq
<1>2. e \in Entries /\ e.served = requests[i].served
  BY <1>1, NoIdle DEF Entries
<1>5. Follows(requests[i], e)
  BY <1>1, <1>2, SameAge DEF Entries
<1>3. requests' = [requests EXCEPT ![i] = e]
  BY DEF Written
<1>. QED
  BY <1>1, <1>2, <1>3, <1>5, EvolvedOne

LEMMA EvolvedAcked ==
    ASSUME requests \in Seq(Entries), NEW i \in DOMAIN requests, Acked(i)
    PROVE  Evolved /\ ServedKept
<1>. DEFINE e == [requests[i] EXCEPT !.place = "acked", !.idle = 0]
<1>1. requests[i] \in Entries
  BY LenProperties, ElementOfSeq
<1>2. CASE requests[i].place = "pending"
  <2>1. e \in Entries /\ e.served = requests[i].served
    BY <1>1, NoIdle DEF Entries
  <2>3. Follows(requests[i], e)
    BY <1>1, <1>2, <2>1, SameAge DEF Entries
  <2>2. requests' = [requests EXCEPT ![i] = e]
    BY <1>2 DEF Acked
  <2>. QED
    BY <1>1, <2>1, <2>2, <2>3, EvolvedOne
<1>3. CASE requests[i].place # "pending"
  BY <1>3, EvolvedSame DEF Acked
<1>. QED
  BY <1>2, <1>3

\* All entries are replaced by entries that follow them.
LEMMA EvolvedAll ==
    ASSUME requests \in Seq(Entries), NEW t, t = [i \in DOMAIN requests |-> t[i]], requests' = t,
           \A i \in DOMAIN requests : t[i] \in Entries /\ Follows(requests[i], t[i])
    PROVE  Evolved
<1>1. t \in [DOMAIN requests -> Entries]
  OBVIOUS
<1>. QED
  BY <1>1, Remapped DEF Evolved

LEMMA EvolvedStart ==
    ASSUME requests \in Seq(Entries), NEW w \in Workers, Start(w)
    PROVE  Evolved /\ ServedKept
<1>. DEFINE t == [i \in DOMAIN requests |->
                       IF ~group /\ requests[i].place = "queued"
                       THEN [requests[i] EXCEPT !.place = "gone"] ELSE requests[i]]
<1>1. \A i \in DOMAIN requests : requests[i] \in Entries
  BY LenProperties, ElementOfSeq
<1>2. ASSUME NEW i \in DOMAIN requests
      PROVE  t[i] \in Entries /\ Follows(requests[i], t[i]) /\ t[i].served = requests[i].served
  <2>1. requests[i] \in Entries
    BY <1>1
  <2>2. t[i] \in Entries /\ t[i].served = requests[i].served
    BY <2>1, NoIdle DEF Entries
  <2>3. Follows(requests[i], t[i])
    BY <2>1, <2>2, SameAge DEF Entries
  <2>. QED
    BY <2>2, <2>3
<1>3. requests' = t
  BY DEF Start
<1>4. t = [i \in DOMAIN requests |-> t[i]]
  OBVIOUS
<1>. HIDE DEF t
<1>. QED
  BY <1>2, <1>3, <1>4, EvolvedAll DEF ServedKept

LEMMA EvolvedClaim ==
    ASSUME requests \in Seq(Entries), Claimed
    PROVE  Evolved /\ ServedKept
<1>. DEFINE t == [i \in DOMAIN requests |->
                     IF i \in Claimable
                     THEN [requests[i] EXCEPT !.idle = 0] ELSE requests[i]]
<1>1. \A i \in DOMAIN requests : requests[i] \in Entries
  BY LenProperties, ElementOfSeq
<1>2. ASSUME NEW i \in DOMAIN requests
      PROVE  t[i] \in Entries /\ Follows(requests[i], t[i]) /\ t[i].served = requests[i].served
  <2>1. requests[i] \in Entries
    BY <1>1
  <2>2. t[i] \in Entries /\ t[i].served = requests[i].served
    BY <2>1, NoIdle DEF Entries
  <2>3. Follows(requests[i], t[i])
    BY <2>1, <2>2, SameAge DEF Entries
  <2>. QED
    BY <2>2, <2>3
<1>3. requests' = t
  BY DEF Claimed
<1>4. t = [i \in DOMAIN requests |-> t[i]]
  OBVIOUS
<1>. HIDE DEF t
<1>. QED
  BY <1>2, <1>3, <1>4, EvolvedAll DEF ServedKept

LEMMA EvolvedLost ==
    ASSUME requests \in Seq(Entries), RedisLost
    PROVE  Evolved /\ ServedKept
<1>. DEFINE t == [i \in DOMAIN requests |->
                       [requests[i] EXCEPT !.reply = "none", !.idle = 0,
                                           !.place = IF @ = "acked" THEN "acked" ELSE "gone"]]
<1>1. \A i \in DOMAIN requests : requests[i] \in Entries
  BY LenProperties, ElementOfSeq
<1>2. ASSUME NEW i \in DOMAIN requests
      PROVE  t[i] \in Entries /\ Follows(requests[i], t[i]) /\ t[i].served = requests[i].served
  <2>1. requests[i] \in Entries
    BY <1>1
  <2>2. t[i] \in Entries /\ t[i].served = requests[i].served
    BY <2>1, NoIdle DEF Entries, Replies
  <2>3. Follows(requests[i], t[i])
    BY <2>1, <2>2, SameAge DEF Entries
  <2>. QED
    BY <2>2, <2>3
<1>3. requests' = t
  BY DEF RedisLost
<1>4. t = [i \in DOMAIN requests |-> t[i]]
  OBVIOUS
<1>. HIDE DEF t
<1>. QED
  BY <1>2, <1>3, <1>4, EvolvedAll DEF ServedKept

\* Time adds no more to the idle time of a request than to its age.
LEMMA EvolvedTick ==
    ASSUME requests \in Seq(Entries), Tick
    PROVE  Evolved /\ ServedKept
<1>. DEFINE t == [i \in DOMAIN requests |->
                       [requests[i] EXCEPT
                           !.age = IF Watched(i) THEN Least(@ + 1, MaxAge) ELSE @,
                           !.idle = IF requests[i].place = "pending" THEN Least(@ + 1, ClaimMinIdle)
                                    ELSE @]]
<1>1. \A i \in DOMAIN requests : requests[i] \in Entries
  BY LenProperties, ElementOfSeq
<1>2. ASSUME NEW i \in DOMAIN requests
      PROVE  t[i] \in Entries /\ Follows(requests[i], t[i]) /\ t[i].served = requests[i].served
  <2>1. requests[i].place = "pending" => Watched(i)
    BY DEF Watched
  <2>. DEFINE e == requests[i]
  <2>2. t[i].age = IF Watched(i) THEN Least(e.age + 1, MaxAge) ELSE e.age
    BY <1>1 DEF Entries
  <2>3. t[i].idle = IF e.place = "pending" THEN Least(e.idle + 1, ClaimMinIdle) ELSE e.idle
    BY <1>1 DEF Entries
  <2>4. /\ t[i].by = e.by /\ t[i].unheard = e.unheard /\ t[i].place = e.place
        /\ t[i].reply = e.reply /\ t[i].served = e.served
    BY <1>1 DEF Entries
  <2>5. e.age \in 0 .. MaxAge /\ e.idle \in 0 .. ClaimMinIdle
    BY <1>1 DEF Entries
  <2>6. t[i].age \in 0 .. MaxAge /\ t[i].idle \in 0 .. ClaimMinIdle
    <3>. HIDE DEF t, e
    <3>. QED
      BY <2>2, <2>3, <2>5, Numbers DEF Least
  <2>7. t[i] \in Entries
    BY <1>1, <2>2, <2>3, <2>6 DEF Entries
  <2>8. Follows(e, t[i])
    <3>. HIDE DEF t
    <3>1. t[i].age >= e.age
      BY <2>2, <2>5, Numbers DEF Least
    <3>2. Open(t[i]) => Open(e)
      BY <2>4, <2>5, <2>6, <3>1, Numbers DEF Open, Expired
    <3>3. (Expired(e) \/ e.idle <= e.age) => (Expired(t[i]) \/ t[i].idle <= t[i].age)
      BY <2>1, <2>2, <2>3, <2>5, <3>1, Numbers DEF Least, Expired, MaxAge
    <3>. QED
      BY <2>4, <3>1, <3>2, <3>3 DEF Follows
  <2>. QED
    BY <2>4, <2>7, <2>8
<1>3. requests' = t
  BY DEF Tick
<1>4. t = [i \in DOMAIN requests |-> t[i]]
  OBVIOUS
<1>. HIDE DEF t
<1>. QED
  BY <1>2, <1>3, <1>4, EvolvedAll DEF ServedKept

LEMMA AddedLast ==
    ASSUME requests \in Seq(Entries), NEW c \in Calls, NEW unheard \in BOOLEAN, Added(c, unheard)
    PROVE  /\ requests' \in Seq(Entries)
           /\ DOMAIN requests' = DOMAIN requests \cup {Len(requests')}
           /\ Len(requests') \notin DOMAIN requests /\ Len(requests') \in Nat
           /\ \A i \in DOMAIN requests : requests'[i] = requests[i]
           /\ requests'[Len(requests')] = [by |-> c, age |-> 0, place |-> "queued", idle |-> 0,
                                          reply |-> "none", unheard |-> unheard, served |-> 0]
<1>. DEFINE e == [by |-> c, age |-> 0, place |-> "queued", idle |-> 0,
                  reply |-> "none", unheard |-> unheard, served |-> 0]
<1>1. e \in Entries
  BY Numbers DEF Entries, Replies
<1>2. requests' = Append(requests, e)
  BY DEF Added
<1>. HIDE DEF e
<1>3. Len(requests) \in Nat /\ DOMAIN requests = 1 .. Len(requests)
  BY LenProperties
<1>4. /\ requests' \in Seq(Entries) /\ Len(requests') = Len(requests) + 1
      /\ \A i \in 1 .. Len(requests) : requests'[i] = requests[i]
      /\ requests'[Len(requests) + 1] = e
  BY <1>1, <1>2, AppendProperties
<1>5. DOMAIN requests' = 1 .. Len(requests) + 1
  BY <1>4, LenProperties
<1>. QED
  BY <1>3, <1>4, <1>5 DEF e

-----------------------------------------------------------------------------
(* The clients.                                                             *)

Done == {"answered", "failed"}

\* What a client may become without a new request: it no longer polls, it has an
\* attempt left if it backs off, and if it goes on, the request it leaves is not open.
MovesOn(c, k) ==
    /\ k \in Clients /\ k.phase # "polling"
    /\ k.phase = "backoff" => k.attempt < MostTries
    /\ k.phase \in Done \/ ~In(c, "polling") \/ ~Open(Entry(c))
    /\ client[c].phase \in Done => k.phase \in Done

Quiet(c) ==
    \/ CheckWorker(c) \/ NoWorkerSeen(c) \/ PostFails(c) \/ TakeAnswer(c) \/ TakeError(c)
    \/ PollFails(c) \/ GiveUp(c) \/ TryAgain(c)

LEMMA RetryMovesOn ==
    ASSUME TypeOK, NEW c \in Calls, NEW limit \in {ConnectAttempts, TransientAttempts},
           Retry(c, limit), client[c].phase \notin Done, ~In(c, "polling") \/ ~Open(Entry(c))
    PROVE  \E k : client' = [client EXCEPT ![c] = k] /\ MovesOn(c, k)
<1>. DEFINE k == [client[c] EXCEPT !.phase = IF client[c].attempt >= limit THEN "failed" ELSE "backoff"]
<1>1. client[c] \in Clients
  BY DEF TypeOK
<1>2. client' = [client EXCEPT ![c] = k]
  BY DEF Retry, To
<1>3. k \in Clients /\ k.attempt = client[c].attempt
      /\ k.phase = IF client[c].attempt >= limit THEN "failed" ELSE "backoff"
  BY <1>1 DEF Clients
<1>4. client[c].attempt \in Nat
  BY <1>1, Numbers DEF Clients
<1>5. limit \in Nat /\ limit <= MostTries
  BY Numbers DEF MostTries
<1>. HIDE DEF k
<1>6. k.phase = "backoff" => k.attempt < MostTries
  BY <1>3, <1>4, <1>5, Numbers
<1>7. MovesOn(c, k)
  BY <1>3, <1>6 DEF MovesOn, Done
<1>. QED
  BY <1>2, <1>7

LEMMA QuietMovesOn ==
    ASSUME TypeOK, Known, Counted, NEW c \in Calls, Quiet(c)
    PROVE  /\ \E k : client' = [client EXCEPT ![c] = k] /\ MovesOn(c, k)
           /\ UNCHANGED <<requests, group, worker, troubles>>
<1>1. client[c] \in Clients
  BY DEF TypeOK
<1>2. ASSUME NEW phase \in {"checking", "posting", "answered", "failed"}, To(c, phase),
             client[c].phase \notin Done,
             phase \in Done \/ ~In(c, "polling")
      PROVE  \E k : client' = [client EXCEPT ![c] = k] /\ MovesOn(c, k)
  <2>. DEFINE k == [client[c] EXCEPT !.phase = phase]
  <2>1. k \in Clients /\ k.phase = phase
    BY <1>1 DEF Clients
  <2>2. client' = [client EXCEPT ![c] = k]
    BY <1>2 DEF To
  <2>. HIDE DEF k
  <2>3. MovesOn(c, k)
    BY <1>2, <2>1 DEF MovesOn, Done
  <2>. QED
    BY <2>2, <2>3
<1>3. CASE CheckWorker(c)
  BY <1>2, <1>3 DEF CheckWorker, ClientOnly, In, Done
<1>4. CASE NoWorkerSeen(c)
  BY <1>4, RetryMovesOn DEF NoWorkerSeen, ClientOnly, In, Done
<1>5. CASE PostFails(c)
  BY <1>5, RetryMovesOn DEF PostFails, ClientOnly, In, Done
<1>6. CASE TakeAnswer(c)
  BY <1>2, <1>6 DEF TakeAnswer, Waiting, ClientOnly, In, Done
<1>7. CASE TakeError(c)
  <2>1. client[c].phase \notin Done
    BY <1>7 DEF TakeError, Waiting, In, Done
  <2>2. CASE Entry(c).reply = "busy" /\ Retry(c, TransientAttempts)
    <3>1. ~Open(Entry(c))
      BY <2>2 DEF Open
    <3>. QED
      BY <1>7, <2>1, <2>2, <3>1, RetryMovesOn DEF TakeError, ClientOnly
  <2>3. CASE Entry(c).reply = "error" /\ To(c, "failed")
    BY <1>2, <1>7, <2>1, <2>3 DEF TakeError, ClientOnly, Done
  <2>. QED
    BY <1>7, <2>2, <2>3 DEF TakeError
<1>8. CASE PollFails(c)
  BY <1>2, <1>8 DEF PollFails, ClientOnly, In, Done
<1>9. CASE GiveUp(c)
  BY <1>2, <1>9 DEF GiveUp, ClientOnly, In, Done
<1>10. CASE TryAgain(c)
  <2>. DEFINE k == [client[c] EXCEPT !.phase = "checking", !.attempt = @ + 1]
  <2>1. client[c].attempt \in 1 .. MostTries /\ client[c].attempt < MostTries
    BY <1>1, <1>10 DEF TryAgain, Counted, Clients
  <2>2. client[c].attempt + 1 \in 1 .. MostTries
    BY <2>1, Numbers
  <2>3. k \in Clients /\ k.phase = "checking"
    BY <1>1, <2>2 DEF Clients
  <2>4. client' = [client EXCEPT ![c] = k] /\ UNCHANGED <<requests, group, worker, troubles>>
    BY <1>10 DEF TryAgain, ClientOnly
  <2>5. In(c, "backoff")
    BY <1>10 DEF TryAgain
  <2>. HIDE DEF k
  <2>6. MovesOn(c, k)
    BY <2>3, <2>5 DEF MovesOn, In, Done
  <2>. QED
    BY <2>4, <2>6
<1>. QED
  BY <1>3, <1>4, <1>5, <1>6, <1>7, <1>8, <1>9, <1>10 DEF Quiet

LEMMA QuietKeeps ==
    ASSUME IInv, NEW c \in Calls, Quiet(c)
    PROVE  IInv'
<1>1. PICK k : client' = [client EXCEPT ![c] = k] /\ MovesOn(c, k)
  BY QuietMovesOn DEF IInv
<1>2. UNCHANGED <<requests, group, worker, troubles>>
  BY QuietMovesOn DEF IInv
<1>3. \A d \in Calls : client'[d] = IF d = c THEN k ELSE client[d]
  BY <1>1 DEF IInv, TypeOK
<1>4. TypeOK'
  BY <1>1, <1>2 DEF IInv, TypeOK, MovesOn
<1>5. Known'
  BY <1>1, <1>2, <1>3 DEF IInv, Known, In, MovesOn
<1>6. Counted'
  BY <1>1, <1>2, <1>3 DEF IInv, Counted, In, Is, MovesOn
<1>7. IdleYoung' /\ ClaimedOld' /\ QueuedUnserved' /\ HeldOnce' /\ PaidOnce'
  BY <1>2 DEF IInv, IdleYoung, ClaimedOld, QueuedUnserved, HeldOnce, PaidOnce, Holds, Is
<1>8. OneAtATime'
  <2>. SUFFICES ASSUME NEW d \in Calls, client'[d].phase \notin Done, NEW i \in DOMAIN requests,
                       requests[i].by = d, Open(requests[i]), ~requests[i].unheard
                PROVE  client'[d].phase = "polling" /\ client'[d].entry = i
    BY <1>2 DEF OneAtATime, Done, In
  <2>1. client[d].phase \notin Done
    BY <1>1, <1>3 DEF MovesOn
  <2>2. client[d].phase = "polling" /\ client[d].entry = i
    BY <2>1 DEF IInv, OneAtATime, Done, In
  <2>3. d # c
    BY <1>1, <1>3, <2>2 DEF MovesOn, In, Entry
  <2>. QED
    BY <1>3, <2>2, <2>3
<1>. QED
  BY <1>4, <1>5, <1>6, <1>7, <1>8 DEF IInv

\* A new request is nobody's but its client's.
LEMMA PostKeeps ==
    ASSUME IInv, NEW c \in Calls, Post(c) \/ PostUnheard(c)
    PROVE  IInv'
<1>. DEFINE n == Len(requests')
<1>1. In(c, "posting") /\ client[c] \in Clients /\ UNCHANGED <<group, worker, troubles>>
  BY DEF Post, PostUnheard, IInv, TypeOK
<1>2. PICK u \in BOOLEAN : Added(c, u) /\ (~u => client' = [client EXCEPT ![c].phase = "polling",
                                                                       ![c].entry = Len(requests')])
                                     /\ (u => Retry(c, ConnectAttempts))
  BY DEF Post, PostUnheard
<1>3. /\ requests' \in Seq(Entries)
      /\ DOMAIN requests' = DOMAIN requests \cup {n}
      /\ n \notin DOMAIN requests /\ n \in Nat
      /\ \A i \in DOMAIN requests : requests'[i] = requests[i]
      /\ requests'[n] = [by |-> c, age |-> 0, place |-> "queued", idle |-> 0,
                        reply |-> "none", unheard |-> u, served |-> 0]
  BY <1>2, AddedLast DEF IInv, TypeOK
<1>. HIDE DEF n
<1>4. PICK k : /\ client' = [client EXCEPT ![c] = k] /\ k \in Clients
               /\ k.phase = "backoff" => k.attempt < MostTries
               /\ k.phase = "polling" => k.entry = n
               /\ ~u => k.phase = "polling"
  <2>1. CASE u
    <3>1. PICK k : client' = [client EXCEPT ![c] = k] /\ MovesOn(c, k)
      BY <1>1, <1>2, <2>1, RetryMovesOn DEF IInv, In, Done
    <3>. QED
      BY <2>1, <3>1 DEF MovesOn
  <2>2. CASE ~u
    <3>. DEFINE k == [client[c] EXCEPT !.phase = "polling", !.entry = n]
    <3>1. k \in Clients /\ k.phase = "polling" /\ k.entry = n
      BY <1>1, <1>3 DEF Clients
    <3>2. client' = [client EXCEPT ![c] = k]
      BY <1>2, <2>2 DEF n
    <3>. HIDE DEF k
    <3>. QED
      BY <2>2, <3>1, <3>2
  <2>. QED
    BY <2>1, <2>2
<1>5. \A d \in Calls : client'[d] = IF d = c THEN k ELSE client[d]
  BY <1>4 DEF IInv, TypeOK
<1>6. TypeOK'
  BY <1>1, <1>3, <1>4 DEF IInv, TypeOK
<1>7. Known'
  BY <1>1, <1>3, <1>4, <1>5 DEF IInv, Known, In
<1>8. Counted'
  BY <1>1, <1>4, <1>5 DEF IInv, Counted, In, Is
<1>9. IdleYoung'
  BY <1>3 DEF IInv, IdleYoung
<1>10. ClaimedOld'
  BY <1>1, <1>3 DEF IInv, ClaimedOld, Known
<1>11. QueuedUnserved' /\ PaidOnce'
  BY <1>3 DEF IInv, QueuedUnserved, PaidOnce
<1>12. HeldOnce'
  <2>1. \A w \in Workers : ~Holds(w, n)
    BY <1>3 DEF IInv, Known, Holds
  <2>2. \A w \in Workers : \A i : Holds(w, i)' <=> Holds(w, i)
    BY <1>1 DEF Holds
  <2>. QED
    BY <1>1, <1>3, <2>1, <2>2 DEF IInv, HeldOnce, Is
<1>13. OneAtATime'
  <2>. SUFFICES ASSUME NEW d \in Calls, client'[d].phase \notin Done, NEW i \in DOMAIN requests',
                       requests'[i].by = d, Open(requests'[i]), ~requests'[i].unheard
                PROVE  client'[d].phase = "polling" /\ client'[d].entry = i
    BY DEF OneAtATime, Done, In
  <2>1. CASE i = n
    BY <1>3, <1>4, <1>5, <2>1
  <2>2. CASE i # n
    <3>1. i \in DOMAIN requests /\ requests'[i] = requests[i]
      BY <1>3, <2>2
    <3>2. d # c
      BY <1>1, <3>1 DEF IInv, OneAtATime, In
    <3>. QED
      BY <1>5, <3>1, <3>2 DEF IInv, OneAtATime, In, Done
  <2>. QED
    BY <2>1, <2>2
<1>. QED
  BY <1>6, <1>7, <1>8, <1>9, <1>10, <1>11, <1>12, <1>13 DEF IInv

-----------------------------------------------------------------------------
(* The workers.                                                             *)

\* An attempt sets out to answer a request that nobody has set out to answer.
SetsOut(w, i) ==
    /\ Holds(w, i) /\ ~Expired(requests[i]) /\ Is(w, "pausing") /\ worker[w].tries = 0
    /\ \A j \in DOMAIN requests : j # i => requests'[j].served = requests[j].served
    /\ requests'[i].served = requests[i].served + 1

\* What a worker may become: it points at what exists, its batch is old, and a live
\* request in its hands is one it had, no longer about to be tried, or one it has
\* just taken from the queue.
Turns(w, k) ==
    /\ k \in WorkerStates
    /\ k.phase \in Working => k.entry \in DOMAIN requests
    /\ k.batch \subseteq DOMAIN requests
    /\ \A i \in k.batch : Expired(requests[i])
    /\ k.phase = "calling" => k.tries > 0
    /\ k.phase \in Working =>
          \/ Expired(requests[k.entry])
          \/ Holds(w, k.entry) /\ ~(k.phase = "pausing" /\ k.tries = 0)
          \/ requests[k.entry].place = "queued" /\ requests'[k.entry].place # "queued"

\* The invariant survives any step of one worker that evolves the requests so.
LEMMA TurnKeeps ==
    ASSUME IInv, NEW w \in Workers, NEW k, worker' = [worker EXCEPT ![w] = k], Turns(w, k),
           Evolved, ServedKept \/ \E i \in DOMAIN requests : SetsOut(w, i) /\ k.phase = "calling",
           group' \in BOOLEAN, troubles' \in 0 .. MaxTroubles, UNCHANGED client
    PROVE  IInv'
<1>1. \A v \in Workers : worker'[v] = IF v = w THEN k ELSE worker[v]
  BY DEF IInv, TypeOK
<1>2. /\ requests' \in Seq(Entries) /\ DOMAIN requests' = DOMAIN requests
      /\ \A i \in DOMAIN requests : Follows(requests[i], requests'[i])
  BY DEF Evolved
<1>3. \A i \in DOMAIN requests : requests[i] \in Entries /\ requests'[i] \in Entries
  BY <1>2, LenProperties, ElementOfSeq DEF IInv, TypeOK
<1>4. \A i \in DOMAIN requests : Expired(requests[i]) => Expired(requests'[i])
  BY <1>2, <1>3, EntryFields, Numbers DEF Follows, Expired
<1>5. \A i \in DOMAIN requests : requests'[i].place = "queued" => requests[i].place = "queued"
  BY <1>2 DEF Follows
<1>6. TypeOK'
  BY <1>2 DEF IInv, TypeOK, Turns
<1>7. Known'
  BY <1>1, <1>2 DEF IInv, Known, In, Turns
<1>8. Counted'
  BY <1>1 DEF IInv, Counted, In, Is, Turns
<1>9. IdleYoung'
  BY <1>2 DEF IInv, IdleYoung, Follows
<1>10. ClaimedOld'
  BY <1>1, <1>4 DEF IInv, ClaimedOld, Known, Turns
<1>11. \A i \in DOMAIN requests :
          \/ requests'[i].served = requests[i].served
          \/ SetsOut(w, i) /\ k.phase = "calling"
  BY DEF ServedKept, SetsOut
<1>12. \A i \in DOMAIN requests : SetsOut(w, i) => requests[i].served = 0 /\ requests[i].place # "queued"
  BY DEF IInv, HeldOnce, SetsOut
<1>13. QueuedUnserved'
  BY <1>2, <1>5, <1>11, <1>12 DEF IInv, QueuedUnserved
<1>14. PaidOnce'
  BY <1>2, <1>11, <1>12 DEF IInv, PaidOnce, SetsOut
<1>15. HeldOnce'
  <2>. SUFFICES ASSUME NEW i \in DOMAIN requests, ~Expired(requests'[i]),
                       NEW v \in Workers, Holds(v, i)'
                PROVE  /\ requests'[i].place # "queued"
                       /\ (Is(v, "pausing") /\ worker[v].tries = 0)' => requests'[i].served = 0
                       /\ \A u \in Workers : Holds(u, i)' => u = v
    BY <1>2 DEF HeldOnce
  <2>1. ~Expired(requests[i])
    BY <1>4
  <2>2. \A u \in Workers : u # w => (Holds(u, i)' <=> Holds(u, i))
    BY <1>1 DEF Holds
  <2>3. Holds(w, i)' => \/ Holds(w, i) /\ ~(k.phase = "pausing" /\ k.tries = 0)
                        \/ requests[i].place = "queued" /\ requests'[i].place # "queued"
    BY <1>1, <2>1 DEF Holds, Turns
  <2>4. \A u \in Workers : Holds(u, i) => /\ requests[i].place # "queued"
                                        /\ \A x \in Workers : Holds(x, i) => x = u
    BY <2>1 DEF IInv, HeldOnce
  <2>5. requests'[i].place # "queued"
    BY <1>5, <2>2, <2>3, <2>4
  <2>6. \A u \in Workers : Holds(u, i)' => u = v
    BY <2>2, <2>3, <2>4
  <2>7. (Is(v, "pausing") /\ worker[v].tries = 0)' => requests'[i].served = 0
    <3>1. CASE v = w
      <4>. SUFFICES ASSUME k.phase = "pausing", k.tries = 0
                    PROVE  requests'[i].served = 0
        BY <1>1, <3>1 DEF Is
      <4>1. requests[i].place = "queued"
        BY <2>3, <3>1
      <4>2. requests[i].served = 0
        BY <4>1 DEF IInv, QueuedUnserved
      <4>. QED
        BY <1>11, <4>2
    <3>2. CASE v # w
      <4>1. Holds(v, i) /\ ~SetsOut(w, i)
        BY <2>2, <2>4, <3>2 DEF SetsOut
      <4>2. Is(v, "pausing") /\ worker[v].tries = 0 => requests[i].served = 0
        BY <2>1, <4>1 DEF IInv, HeldOnce
      <4>. QED
        BY <1>1, <1>11, <3>2, <4>1, <4>2 DEF Is
    <3>. QED
      BY <3>1, <3>2
  <2>. QED
    BY <2>5, <2>6, <2>7
<1>16. OneAtATime'
  BY <1>2 DEF IInv, OneAtATime, Follows, In
<1>. QED
  BY <1>6, <1>7, <1>8, <1>9, <1>10, <1>13, <1>14, <1>15, <1>16 DEF IInv

\* What a worker does with nothing in its hands.
LEMMA TurnsIdle ==
    ASSUME NEW w \in Workers, NEW phase \in {"down", "claiming", "reading"}
    PROVE  Turns(w, At(phase)) /\ At(phase).phase = phase
<1>1. At(phase) \in WorkerStates
  BY Numbers DEF At, WorkerStates, Working, Looping, Replies, NoEntry
<1>2. At(phase).phase = phase /\ At(phase).batch = {}
  BY DEF At
<1>. QED
  BY <1>1, <1>2 DEF Turns, Working

\* It goes on with the request it has.
LEMMA TurnsOn ==
    ASSUME IInv, NEW w \in Workers, worker[w].phase \in Working,
           NEW k \in WorkerStates, k.phase \in Working, k.entry = worker[w].entry,
           k.batch = worker[w].batch, k.phase = "calling" => k.tries > 0,
           k.phase = "pausing" => k.tries # 0
    PROVE  Turns(w, k)
BY DEF IInv, Known, ClaimedOld, Turns, Holds

LEMMA OnWithState ==
    ASSUME TypeOK, NEW w \in Workers, NEW phase \in Working
    PROVE  /\ OnWith(w, phase) \in WorkerStates /\ OnWith(w, phase).phase = phase
           /\ OnWith(w, phase).entry = worker[w].entry /\ OnWith(w, phase).batch = worker[w].batch
<1>1. worker[w] \in WorkerStates
  BY DEF TypeOK
<1>2. At(phase) \in WorkerStates
  BY Numbers DEF At, WorkerStates, Working, Looping, Replies, NoEntry
<1>3. At(phase).phase = phase
  BY DEF At
<1>. QED
  BY <1>1, <1>2, <1>3 DEF OnWith, WorkerStates

\* It takes the first of a batch; what of the batch is worth answering has just come
\* from the queue, and is alone.
LEMMA ProcessTurns ==
    ASSUME IInv, NEW w \in Workers, NEW batch \in SUBSET DOMAIN requests,
           NEW then \in Looping, Process(w, batch, then),
           \/ \A i \in batch : Expired(requests[i])
           \/ \E i : batch = {i} /\ requests[i].place = "queued" /\ requests'[i].place # "queued"
    PROVE  \E k : worker' = [worker EXCEPT ![w] = k] /\ Turns(w, k) /\ k.phase # "calling"
<1>1. CASE batch = {} /\ Go(w, At(then))
  <2>1. worker' = [worker EXCEPT ![w] = At(then)]
    BY <1>1 DEF Go
  <2>2. Turns(w, At(then)) /\ At(then).phase = then
    BY TurnsIdle DEF Looping
  <2>. QED
    BY <2>1, <2>2 DEF Looping
<1>2. CASE batch # {} \/ ~Go(w, At(then))
  <2>. DEFINE Taken(i) == [At(IF Expired(requests[i]) THEN "acking" ELSE "pausing")
                              EXCEPT !.entry = i, !.batch = batch \ {i}, !.then = then]
  <2>1. PICK i \in batch : worker' = [worker EXCEPT ![w] = Taken(i)]
    BY <1>2 DEF Process, Go
  <2>. DEFINE phase == IF Expired(requests[i]) THEN "acking" ELSE "pausing"
  <2>2. i \in Nat /\ batch \ {i} \in SUBSET Nat
    BY LenProperties DEF IInv, TypeOK
  <2>3. At(phase) \in WorkerStates
    BY Numbers DEF At, WorkerStates, Working, Looping, Replies, NoEntry
  <2>4. At(phase).phase = phase
    BY DEF At
  <2>5. Taken(i) = [At(phase) EXCEPT !.entry = i, !.batch = batch \ {i}, !.then = then]
    OBVIOUS
  <2>. HIDE DEF Taken
  <2>6. /\ Taken(i) \in WorkerStates /\ Taken(i).phase = phase
        /\ Taken(i).entry = i /\ Taken(i).batch = batch \ {i}
    BY <2>2, <2>3, <2>4, <2>5 DEF WorkerStates
  <2>7. Turns(w, Taken(i)) /\ Taken(i).phase # "calling"
    BY <2>6 DEF Turns
  <2>. QED
    BY <2>1, <2>7
<1>. QED
  BY <1>1, <1>2

\* A request old enough to be claimed is past its deadline.
LEMMA AbandonedExpired ==
    ASSUME IInv, NEW i \in DOMAIN requests, Abandoned(requests[i])
    PROVE  Expired(requests[i])
<1>1. requests[i] \in Entries
  BY LenProperties, ElementOfSeq DEF IInv, TypeOK
<1>2. requests[i].age \in Nat /\ requests[i].idle \in Nat
  BY <1>1, EntryFields
<1>. QED
  BY <1>2, Numbers DEF IInv, IdleYoung, Abandoned, Expired

LEMMA TroublesBounded ==
    ASSUME TypeOK, Trouble \/ NoTrouble
    PROVE  troubles' \in 0 .. MaxTroubles
BY Numbers DEF TypeOK, Trouble, NoTrouble

LEMMA StartKeeps ==
    ASSUME IInv, NEW w \in Workers, Start(w)
    PROVE  IInv'
<1>1. worker' = [worker EXCEPT ![w] = At("claiming")] /\ Turns(w, At("claiming"))
  BY TurnsIdle DEF Start, Go
<1>2. Evolved /\ ServedKept
  BY EvolvedStart DEF IInv, TypeOK
<1>. QED
  BY <1>1, <1>2, TurnKeeps DEF Start, IInv, TypeOK

LEMMA ClaimKeeps ==
    ASSUME IInv, NEW w \in Workers, Claim(w)
    PROVE  IInv'
<1>1. Evolved /\ ServedKept
  BY EvolvedClaim DEF Claim, IInv, TypeOK
<1>2. Process(w, Claimable, "reading")
  BY DEF Claim
<1>3. \A i \in Claimable : Expired(requests[i])
  BY AbandonedExpired DEF Claimable
<1>4. Claimable \in SUBSET DOMAIN requests
  BY DEF Claimable
<1>5. \E k : worker' = [worker EXCEPT ![w] = k] /\ Turns(w, k) /\ k.phase # "calling"
  BY <1>2, <1>3, <1>4, ProcessTurns DEF Looping
<1>. QED
  BY <1>1, <1>5, TurnKeeps DEF Claim, Calm, IInv, TypeOK

LEMMA ClaimUnheardKeeps ==
    ASSUME IInv, NEW w \in Workers, ClaimUnheard(w)
    PROVE  IInv'
<1>1. Evolved /\ ServedKept
  BY EvolvedClaim DEF ClaimUnheard, IInv, TypeOK
<1>2. worker' = [worker EXCEPT ![w] = At("claiming")] /\ Turns(w, At("claiming"))
  BY TurnsIdle DEF ClaimUnheard, Go
<1>. QED
  BY <1>1, <1>2, TurnKeeps, TroublesBounded DEF ClaimUnheard, IInv, TypeOK

LEMMA ReadKeeps ==
    ASSUME IInv, NEW w \in Workers, Read(w)
    PROVE  IInv'
<1>1. PICK i \in Queued : Delivered(i) /\ Process(w, {i}, "claiming")
  BY DEF Read
<1>2. Evolved /\ ServedKept /\ requests'[i].place = "pending"
  BY <1>1, EvolvedDelivered DEF IInv, TypeOK
<1>3. i \in DOMAIN requests /\ requests[i].place = "queued"
  BY DEF Queued
<1>4. \E k : worker' = [worker EXCEPT ![w] = k] /\ Turns(w, k) /\ k.phase # "calling"
  BY <1>1, <1>2, <1>3, ProcessTurns DEF Looping
<1>. QED
  BY <1>2, <1>4, TurnKeeps DEF Read, Calm, IInv, TypeOK

LEMMA ReadUnheardKeeps ==
    ASSUME IInv, NEW w \in Workers, ReadUnheard(w)
    PROVE  IInv'
<1>1. PICK i \in Queued : Delivered(i)
  BY DEF ReadUnheard
<1>2. Evolved /\ ServedKept
  BY <1>1, EvolvedDelivered DEF IInv, TypeOK
<1>3. worker' = [worker EXCEPT ![w] = At("claiming")] /\ Turns(w, At("claiming"))
  BY TurnsIdle DEF ReadUnheard, Go
<1>. QED
  BY <1>2, <1>3, TurnKeeps DEF ReadUnheard, Calm, IInv, TypeOK

\* The steps that leave the requests alone and the worker with nothing in its hands.
LEMMA LetGoKeeps ==
    ASSUME IInv, NEW w \in Workers,
           NothingToRead(w) \/ LoopFails(w) \/ Crash(w)
    PROVE  IInv'
<1>1. PICK phase \in {"down", "claiming"} : worker' = [worker EXCEPT ![w] = At(phase)]
  BY DEF NothingToRead, LoopFails, Crash, Go
<1>2. Turns(w, At(phase))
  BY TurnsIdle
<1>3. UNCHANGED <<requests, group, client>> /\ (Trouble \/ NoTrouble)
  BY DEF NothingToRead, LoopFails, Crash, WorkerOnly
<1>4. Evolved /\ ServedKept
  BY <1>3, EvolvedSame DEF IInv, TypeOK
<1>. QED
  BY <1>1, <1>2, <1>3, <1>4, TurnKeeps, TroublesBounded DEF IInv, TypeOK

LEMMA AttemptKeeps ==
    ASSUME IInv, NEW w \in Workers, Attempt(w)
    PROVE  IInv'
<1>. DEFINE i == worker[w].entry
<1>1. /\ worker[w] \in WorkerStates /\ Is(w, "pausing") /\ worker[w].phase \in Working
      /\ i \in DOMAIN requests /\ requests \in Seq(Entries)
      /\ UNCHANGED <<group, client, troubles>>
  BY DEF Attempt, IInv, TypeOK, Known, Is, Working, Calm
<1>2. CASE Expired(requests[i])
  <2>1. worker' = [worker EXCEPT ![w] = OnWith(w, "acking")] /\ UNCHANGED requests
    BY <1>2 DEF Attempt, Go
  <2>2. Turns(w, OnWith(w, "acking"))
    BY <1>1, OnWithState, TurnsOn DEF IInv, Working
  <2>3. Evolved /\ ServedKept
    BY <1>1, <2>1, EvolvedSame
  <2>. QED
    BY <1>1, <2>1, <2>2, <2>3, TurnKeeps DEF IInv, TypeOK
<1>3. CASE ~Expired(requests[i])
  <2>. DEFINE k == [worker[w] EXCEPT !.phase = "calling", !.spent = 0, !.tries = @ + 1]
  <2>1. worker[w].tries \in Nat /\ worker[w].tries + 1 \in Nat /\ worker[w].tries + 1 > 0
    BY <1>1 DEF WorkerStates
  <2>2. 0 \in 0 .. HttpTimeout
    BY Numbers
  <2>3. /\ k \in WorkerStates /\ k.phase = "calling" /\ k.entry = i /\ k.batch = worker[w].batch
        /\ k.tries = worker[w].tries + 1
    BY <1>1, <2>1, <2>2 DEF WorkerStates, Working
  <2>4. worker' = [worker EXCEPT ![w] = k]
    BY <1>3 DEF Attempt, Go
  <2>. HIDE DEF k
  <2>5. Turns(w, k)
    BY <1>1, <2>1, <2>3, TurnsOn DEF Working
  <2>6. CASE worker[w].tries > 0
    <3>1. UNCHANGED requests
      BY <1>3, <2>6 DEF Attempt
    <3>2. Evolved /\ ServedKept
      BY <1>1, <3>1, EvolvedSame
    <3>. QED
      BY <1>1, <2>4, <2>5, <3>2, TurnKeeps DEF IInv, TypeOK
  <2>7. CASE ~(worker[w].tries > 0)
    <3>1. requests' = [requests EXCEPT ![i].served = @ + 1]
      BY <1>3, <2>7 DEF Attempt
    <3>2. /\ Evolved
          /\ \A j \in DOMAIN requests : j # i => requests'[j] = requests[j]
          /\ requests'[i].served = requests[i].served + 1
      BY <1>1, <3>1, EvolvedServed
    <3>3. worker[w].tries = 0
      BY <2>1, <2>7
    <3>4. SetsOut(w, i)
      BY <1>1, <1>3, <3>2, <3>3 DEF SetsOut, Holds
    <3>. QED
      BY <1>1, <2>3, <2>4, <2>5, <3>2, <3>4, TurnKeeps DEF IInv, TypeOK
  <2>. QED
    BY <2>6, <2>7
<1>. QED
  BY <1>2, <1>3

LEMMA CalledKeeps ==
    ASSUME IInv, NEW w \in Workers, Called(w)
    PROVE  IInv'
<1>1. /\ worker[w] \in WorkerStates /\ Is(w, "calling") /\ worker[w].phase \in Working
      /\ worker[w].tries \in Nat /\ worker[w].tries > 0
      /\ UNCHANGED <<requests, group, client, troubles>>
  BY DEF Called, IInv, TypeOK, Counted, Is, Working, WorkerOnly, NoTrouble, WorkerStates
<1>2. PICK k : worker' = [worker EXCEPT ![w] = k] /\ Turns(w, k)
  <2>1. CASE \E reply \in Replies \ {"none"} : Go(w, [OnWith(w, "replying") EXCEPT !.reply = reply])
    <3>1. PICK reply \in Replies \ {"none"} : Go(w, [OnWith(w, "replying") EXCEPT !.reply = reply])
      BY <2>1
    <3>. DEFINE o == OnWith(w, "replying")
                k == [o EXCEPT !.reply = reply]
    <3>2. o \in WorkerStates /\ o.phase = "replying" /\ o.entry = worker[w].entry /\ o.batch = worker[w].batch
      BY OnWithState DEF IInv, Working
    <3>. HIDE DEF o
    <3>3. k \in WorkerStates /\ k.phase = "replying" /\ k.entry = worker[w].entry /\ k.batch = worker[w].batch
      BY <3>2 DEF WorkerStates
    <3>4. worker' = [worker EXCEPT ![w] = k]
      BY <3>1 DEF Go, o
    <3>. HIDE DEF k
    <3>5. Turns(w, k)
      BY <1>1, <3>3, TurnsOn DEF Working
    <3>. QED
      BY <3>4, <3>5
  <2>2. CASE Go(w, [OnWith(w, "pausing") EXCEPT !.tries = worker[w].tries])
    <3>. DEFINE o == OnWith(w, "pausing")
                k == [o EXCEPT !.tries = worker[w].tries]
    <3>2. o \in WorkerStates /\ o.phase = "pausing" /\ o.entry = worker[w].entry /\ o.batch = worker[w].batch
      BY OnWithState DEF IInv, Working
    <3>. HIDE DEF o
    <3>3. /\ k \in WorkerStates /\ k.phase = "pausing" /\ k.entry = worker[w].entry
          /\ k.batch = worker[w].batch /\ k.tries = worker[w].tries
      BY <1>1, <3>2 DEF WorkerStates
    <3>4. worker' = [worker EXCEPT ![w] = k]
      BY <2>2 DEF Go, o
    <3>. HIDE DEF k
    <3>5. Turns(w, k)
      BY <1>1, <3>3, TurnsOn DEF Working
    <3>. QED
      BY <3>4, <3>5
  <2>. QED
    BY <2>1, <2>2 DEF Called
<1>3. Evolved /\ ServedKept
  BY <1>1, EvolvedSame DEF IInv, TypeOK
<1>. QED
  BY <1>1, <1>2, <1>3, TurnKeeps DEF IInv, TypeOK

LEMMA ReplyKeeps ==
    ASSUME IInv, NEW w \in Workers, Reply(w) \/ ReplyFails(w)
    PROVE  IInv'
<1>1. /\ worker[w] \in WorkerStates /\ Is(w, "replying") /\ worker[w].phase \in Working
      /\ worker[w].reply \in Replies /\ worker[w].entry \in DOMAIN requests
      /\ requests \in Seq(Entries) /\ UNCHANGED <<group, client, troubles>>
  BY DEF Reply, ReplyFails, IInv, TypeOK, Known, Is, Working, Calm, WorkerStates
<1>2. Evolved /\ ServedKept
  BY <1>1, EvolvedSame, EvolvedWritten DEF Reply, ReplyFails
<1>3. PICK k : worker' = [worker EXCEPT ![w] = k] /\ Turns(w, k)
  <2>1. CASE Go(w, OnWith(w, "acking"))
    <3>1. Turns(w, OnWith(w, "acking"))
      BY <1>1, OnWithState, TurnsOn DEF IInv, Working
    <3>. QED
      BY <2>1, <3>1 DEF Go
  <2>2. CASE Go(w, [worker[w] EXCEPT !.reply = "error"])
    <3>. DEFINE k == [worker[w] EXCEPT !.reply = "error"]
    <3>1. k \in WorkerStates /\ k.phase = "replying" /\ k.entry = worker[w].entry /\ k.batch = worker[w].batch
      BY <1>1 DEF WorkerStates, Replies, Is
    <3>2. worker' = [worker EXCEPT ![w] = k]
      BY <2>2 DEF Go
    <3>. HIDE DEF k
    <3>3. Turns(w, k)
      BY <1>1, <3>1, TurnsOn DEF Working
    <3>. QED
      BY <3>2, <3>3
  <2>. QED
    BY <2>1, <2>2 DEF Reply, ReplyFails
<1>. QED
  BY <1>1, <1>2, <1>3, TurnKeeps DEF IInv, TypeOK

LEMMA AckKeeps ==
    ASSUME IInv, NEW w \in Workers, Ack(w)
    PROVE  IInv'
<1>1. /\ worker[w] \in WorkerStates /\ worker[w].phase \in Working
      /\ worker[w].entry \in DOMAIN requests /\ requests \in Seq(Entries)
      /\ worker[w].batch \in SUBSET DOMAIN requests /\ worker[w].then \in Looping
      /\ UNCHANGED <<group, client, troubles>>
  BY DEF Ack, IInv, TypeOK, Known, Is, Working, Calm, WorkerStates
<1>2. Evolved /\ ServedKept
  BY <1>1, EvolvedAcked DEF Ack
<1>3. \A i \in worker[w].batch : Expired(requests[i])
  BY DEF IInv, ClaimedOld
<1>4. \E k : worker' = [worker EXCEPT ![w] = k] /\ Turns(w, k) /\ k.phase # "calling"
  BY <1>1, <1>3, ProcessTurns DEF Ack
<1>. QED
  BY <1>1, <1>2, <1>4, TurnKeeps DEF IInv, TypeOK

LEMMA AckFailsKeeps ==
    ASSUME IInv, NEW w \in Workers, AckFails(w)
    PROVE  IInv'
<1>1. worker[w].entry \in DOMAIN requests /\ requests \in Seq(Entries)
  BY DEF AckFails, IInv, TypeOK, Known, Is, Working
<1>2. Evolved /\ ServedKept
  BY <1>1, EvolvedAcked, EvolvedSame DEF AckFails
<1>3. worker' = [worker EXCEPT ![w] = At("claiming")] /\ Turns(w, At("claiming"))
  BY TurnsIdle DEF AckFails, Go
<1>. QED
  BY <1>2, <1>3, TurnKeeps, TroublesBounded DEF AckFails, IInv, TypeOK

LEMMA InterruptKeeps ==
    ASSUME IInv, NEW w \in Workers, Interrupt(w)
    PROVE  IInv'
<1>1. worker' = [worker EXCEPT ![w] = At("down")] /\ Turns(w, At("down"))
  BY TurnsIdle DEF Interrupt, Go
<1>2. Evolved /\ ServedKept
  BY EvolvedAcked, EvolvedSame DEF Interrupt, IInv, TypeOK, Known
<1>. QED
  BY <1>1, <1>2, TurnKeeps, TroublesBounded DEF Interrupt, IInv, TypeOK

-----------------------------------------------------------------------------
(* Redis and time.                                                          *)

\* A change of all workers that none of the invariants can see.
LEMMA TimeKeeps ==
    ASSUME IInv, Evolved, ServedKept, UNCHANGED client,
           group' \in BOOLEAN, troubles' \in 0 .. MaxTroubles,
           worker' \in [Workers -> WorkerStates],
           \A w \in Workers : /\ worker'[w].phase = worker[w].phase /\ worker'[w].entry = worker[w].entry
                              /\ worker'[w].tries = worker[w].tries /\ worker'[w].batch = worker[w].batch
    PROVE  IInv'
<1>1. /\ requests' \in Seq(Entries) /\ DOMAIN requests' = DOMAIN requests
      /\ \A i \in DOMAIN requests : Follows(requests[i], requests'[i])
  BY DEF Evolved
<1>2. \A i \in DOMAIN requests : requests[i] \in Entries /\ requests'[i] \in Entries
  BY <1>1, LenProperties, ElementOfSeq DEF IInv, TypeOK
<1>3. \A i \in DOMAIN requests : Expired(requests[i]) => Expired(requests'[i])
  BY <1>1, <1>2, EntryFields, Numbers DEF Follows, Expired
<1>4. TypeOK'
  BY <1>1 DEF IInv, TypeOK
<1>5. Known' /\ Counted'
  BY <1>1 DEF IInv, Known, Counted, In, Is
<1>6. IdleYoung'
  BY <1>1 DEF IInv, IdleYoung, Follows
<1>7. ClaimedOld'
  BY <1>3 DEF IInv, ClaimedOld, Known
<1>8. QueuedUnserved' /\ PaidOnce'
  BY <1>1 DEF IInv, QueuedUnserved, PaidOnce, ServedKept, Follows
<1>9. HeldOnce'
  <2>1. \A w \in Workers : \A i : Holds(w, i)' <=> Holds(w, i)
    BY DEF Holds
  <2>. QED
    BY <1>1, <1>3, <2>1 DEF IInv, HeldOnce, ServedKept, Follows, Is
<1>10. OneAtATime'
  BY <1>1 DEF IInv, OneAtATime, Follows, In
<1>. QED
  BY <1>4, <1>5, <1>6, <1>7, <1>8, <1>9, <1>10 DEF IInv

LEMMA RedisLostKeeps ==
    ASSUME IInv, RedisLost
    PROVE  IInv'
<1>1. Evolved /\ ServedKept
  BY EvolvedLost DEF IInv, TypeOK
<1>2. troubles' \in 0 .. MaxTroubles
  BY TroublesBounded DEF RedisLost, IInv
<1>. QED
  BY <1>1, <1>2, TimeKeeps DEF RedisLost, IInv, TypeOK

LEMMA TickKeeps ==
    ASSUME IInv, Tick
    PROVE  IInv'
<1>1. Evolved /\ ServedKept
  BY EvolvedTick DEF IInv, TypeOK
<1>2. UNCHANGED <<group, client, troubles>>
  BY DEF Tick, Calm
<1>3. \A w \in Workers : /\ worker'[w].phase = worker[w].phase /\ worker'[w].entry = worker[w].entry
                         /\ worker'[w].tries = worker[w].tries /\ worker'[w].batch = worker[w].batch
                         /\ worker'[w] \in WorkerStates
  <2>. SUFFICES ASSUME NEW w \in Workers
                PROVE  /\ worker'[w].phase = worker[w].phase /\ worker'[w].entry = worker[w].entry
                       /\ worker'[w].tries = worker[w].tries /\ worker'[w].batch = worker[w].batch
                       /\ worker'[w] \in WorkerStates
    OBVIOUS
  <2>. DEFINE spent == IF Is(w, "calling") THEN worker[w].spent + 1 ELSE worker[w].spent
  <2>1. worker[w] \in WorkerStates
    BY DEF IInv, TypeOK
  <2>2. worker[w].spent \in 0 .. HttpTimeout /\ (Is(w, "calling") => worker[w].spent < HttpTimeout)
    BY <2>1 DEF Tick, WorkerStates
  <2>3. spent \in 0 .. HttpTimeout
    BY <2>2, Numbers
  <2>4. worker'[w] = [worker[w] EXCEPT !.spent = spent]
    BY DEF Tick
  <2>. HIDE DEF spent
  <2>. QED
    BY <2>1, <2>3, <2>4 DEF WorkerStates
<1>4. worker' \in [Workers -> WorkerStates]
  BY <1>3 DEF Tick
<1>. QED
  BY <1>1, <1>2, <1>3, <1>4, TimeKeeps DEF IInv, TypeOK

-----------------------------------------------------------------------------
(* The theorems.                                                            *)

LEMMA InitHolds == Init => IInv
<1>. SUFFICES ASSUME Init
              PROVE  IInv
  OBVIOUS
<1>1. requests = <<>> /\ requests \in Seq(Entries) /\ DOMAIN requests = {}
  BY EmptySeq DEF Init
<1>2. \A w \in Workers : /\ worker[w] = At("down") /\ At("down") \in WorkerStates
                         /\ At("down").phase = "down" /\ At("down").batch = {}
  BY Numbers DEF Init, At, WorkerStates, Working, Looping, Replies, NoEntry
<1>3. client \in [Calls -> Clients] /\ \A c \in Calls : client[c].phase = "checking"
  <2>1. 1 \in 1 .. MostTries
    BY Numbers
  <2>. QED
    BY <2>1 DEF Init, Clients, NoEntry
<1>4. worker \in [Workers -> WorkerStates]
  BY <1>2 DEF Init
<1>5. TypeOK
  BY <1>1, <1>3, <1>4, Numbers DEF Init, TypeOK
<1>6. Known /\ Counted
  BY <1>1, <1>2, <1>3 DEF Known, Counted, In, Is, Working
<1>7. IdleYoung /\ ClaimedOld /\ QueuedUnserved /\ HeldOnce /\ PaidOnce /\ OneAtATime
  BY <1>1, <1>2 DEF IdleYoung, ClaimedOld, QueuedUnserved, HeldOnce, PaidOnce, OneAtATime
<1>. QED
  BY <1>5, <1>6, <1>7 DEF IInv

LEMMA NextKeeps == IInv /\ [Next]_vars => IInv'
<1>. SUFFICES ASSUME IInv, [Next]_vars
              PROVE  IInv'
  OBVIOUS
<1>1. ASSUME NEW c \in Calls, ClientSteps(c)
      PROVE  IInv'
  BY <1>1, QuietKeeps, PostKeeps DEF ClientSteps, Quiet
<1>2. ASSUME NEW w \in Workers, WorkerSteps(w)
      PROVE  IInv'
  BY <1>2, StartKeeps, ClaimKeeps, ClaimUnheardKeeps, ReadKeeps, ReadUnheardKeeps, LetGoKeeps,
     AttemptKeeps, CalledKeeps, ReplyKeeps, AckKeeps, AckFailsKeeps, InterruptKeeps DEF WorkerSteps
<1>3. CASE UNCHANGED vars
  <2>1. Evolved /\ ServedKept
    BY <1>3, EvolvedSame DEF vars, IInv, TypeOK
  <2>. QED
    BY <1>3, <2>1, TimeKeeps DEF vars, IInv, TypeOK
<1>. QED
  BY <1>1, <1>2, <1>3, RedisLostKeeps, TickKeeps DEF Next

\* The inductive invariant holds whatever the clients, the workers, Redis and their
\* operators do.
THEOREM Invariant == Spec => []IInv
<1>. QED
  BY InitHolds, NextKeeps, PTL DEF Spec

\* Every variable of the bridge keeps its type.
THEOREM TypeCorrect == Spec => []TypeOK
<1>1. IInv => TypeOK
  BY DEF IInv
<1>. QED
  BY <1>1, Invariant, PTL

\* No request is answered, and paid for, twice, if a request cannot be claimed as
\* long as it is worth answering (BridgeAssumption): XAUTOCLAIM in consumer_loop.
THEOREM AnsweredOnce == Spec => []PaidOnce
<1>1. IInv => PaidOnce
  BY DEF IInv
<1>. QED
  BY <1>1, Invariant, PTL

\* A call retried by retry_on_transient has left no open request behind that it knows of.
THEOREM RetriedClean == Spec => []OneAtATime
<1>1. IInv => OneAtATime
  BY DEF IInv
<1>. QED
  BY <1>1, Invariant, PTL
=============================================================================
