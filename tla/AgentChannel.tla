---------------------------- MODULE AgentChannel ----------------------------
(***************************************************************************)
(* Questions to the external agent.  A question is a row the application   *)
(* puts into the bus table, which belongs to the agent; the agent claims   *)
(* it, writes an answer row and grows it, and may give the question back.  *)
(* The draft of the answer is a chat message in status 'streaming'.  In    *)
(* each process one AgentChannelPoller visits the questions it is          *)
(* subscribed to, copies reasoning into the draft, and ends it with the    *)
(* answer, the agent's error, or a timeout counted from the last sign of   *)
(* life.  Each await of a visit (poll_once, mark_timeout) is a step;       *)
(* what runs between two awaits is one action.                             *)
(*                                                                         *)
(* Time is counted in units longer than a tick: it passes only while no    *)
(* poller is in the middle of a visit.                                     *)
(***************************************************************************)
EXTENDS Integers, FiniteSets

CONSTANTS
  Procs,           \* server processes; the code expects one
  Questions,       \* 1..n, in the order of created_at
  Faulty,          \* tables an operation on which may fail at any time
  Refused,         \* statuses the CHECK of the bus table's owner refuses
  MaxReversions,   \* _MAX_PENDING_REVERSIONS
  MaxErrors,       \* _MAX_CONSECUTIVE_ENTRY_ERRORS
  ClaimLimit, AnswerLimit,   \* claim_timeout_sec, answer_timeout_sec
  MaxRows,         \* bound on the answer rows of a question
  MaxLen,          \* bound on the length of a row's reasoning
  MaxStops,        \* bound on the number of process stops
  MaxOthers,       \* bound on the questions of others that wait in front
  Endless,         \* may the agent give up and begin anew without end?
  NoRow, NoEntry, NoVisit

ASSUME ChannelAssumption ==
  /\ Questions \subseteq Nat /\ IsFiniteSet(Questions)
  /\ Faulty \subseteq {"bus", "chat"}
  /\ Refused \subseteq {"completed", "failed"}
  /\ MaxReversions \in Nat /\ MaxErrors \in Nat \ {0}
  /\ ClaimLimit \in Nat \ {0} /\ AnswerLimit \in Nat \ {0}
  /\ MaxRows \in Nat \ {0} /\ MaxLen \in Nat /\ MaxStops \in Nat /\ MaxOthers \in Nat
  /\ Endless \in BOOLEAN

Horizon == IF ClaimLimit > AnswerLimit THEN ClaimLimit ELSE AnswerLimit

None == -1     \* last_queue_ahead, queue_ahead: None

\* What a process remembers of a question.  base compares the answer row as it
\* is now with last_answer_updated_at: no baseline, unchanged, changed since.
Entry == [phase : {"pending", "processing"}, age : 0..Horizon, len : 0..MaxLen,
          ahead : Nat \cup {None}, base : {"none", "same", "old"},
          errors : 0..(MaxErrors - 1), reversions : 0..MaxReversions]

NewEntry == [phase |-> "pending", age |-> 0, len |-> 0, ahead |-> None,
             base |-> "none", errors |-> 0, reversions |-> 0]

Row == [id : 1..MaxRows, status : {"processing", "completed", "failed"}, len : 0..MaxLen]

QuestionStatuses == {"none", "pending", "processing", "error", "completed", "failed", "deleted"}

\* A visit to one question: the next await, what has been read so far, whether
\* the row had changed since the baseline, whether it changes after the read.
Steps == {"answer", "count", "show", "judge", "finalize", "fail", "notify",
          "close", "timeout", "abandon", "closeAbandoned"}
Visit == [q : Questions, step : Steps, status : QuestionStatuses, row : Row \cup {NoRow},
          changed : BOOLEAN, since : BOOLEAN, ahead : Nat \cup {None},
          outcome : {"none", "completed", "failed"}]

ASSUME NoValueAssumption == NoEntry \notin Entry /\ NoVisit \notin Visit

VARIABLES
  \* the bus table
  question,  \* status of the question row
  answer,    \* the newest answer row
  rows,      \* answer rows written so far
  others,    \* pending questions of other authors, older than these
  \* chat_messages and notifications
  message,   \* status of the draft
  shown,     \* ids of the answer rows whose reasoning block the message holds
  notes,     \* notifications sent to the author
  \* processes
  up, stops,
  entry,     \* _subscriptions
  visit,     \* the visit under way
  round,     \* questions the tick has still to visit
  rested,    \* has the poller slept since its last tick?
  \* environment
  hush,      \* while an answer is written: time since its reasoning last grew
  verdicts   \* how the agent has ended the question

bus     == <<question, answer, rows, hush, verdicts, others>>
chat    == <<message, shown, notes>>
process == <<up, stops, entry, visit, round, rested>>
vars    == <<bus, chat, process>>

Init ==
  /\ question = [q \in Questions |-> "none"]
  /\ answer = [q \in Questions |-> NoRow]
  /\ rows = [q \in Questions |-> 0]
  /\ others \in 0..MaxOthers
  /\ message = [q \in Questions |-> "none"]
  /\ shown = [q \in Questions |-> {}]
  /\ notes = [q \in Questions |-> [info |-> 0, error |-> 0]]
  /\ up = [p \in Procs |-> TRUE]
  /\ stops = 0
  /\ entry = [p \in Procs |-> [q \in Questions |-> NoEntry]]
  /\ visit = [p \in Procs |-> NoVisit]
  /\ round = [p \in Procs |-> {}]
  /\ rested = [p \in Procs |-> TRUE]
  /\ hush = [q \in Questions |-> 0]
  /\ verdicts = [q \in Questions |-> {}]

-----------------------------------------------------------------------------
(* The agent and its table                                                  *)

\* The row of q was written or deleted: every baseline taken of it is out of
\* date, and so is what a visit has read of it.
Touch(q) ==
  /\ entry' = [p \in Procs |->
       IF entry[p][q] # NoEntry /\ entry[p][q].base = "same"
       THEN [entry[p] EXCEPT ![q].base = "old"] ELSE entry[p]]
  /\ visit' = [p \in Procs |->
       IF visit[p] # NoVisit /\ visit[p].q = q /\ visit[p].row # NoRow
       THEN [visit[p] EXCEPT !.since = TRUE] ELSE visit[p]]
  /\ UNCHANGED <<chat, up, stops, round, rested>>

Claim(q) ==
  /\ question[q] \in {"pending", "error"}
  /\ question' = [question EXCEPT ![q] = "processing"]
  /\ UNCHANGED <<answer, rows, hush, verdicts, chat, process, others>>

\* Bound: ids beyond MaxRows are one id.
Begin(q) ==
  /\ question[q] = "processing" /\ answer[q] = NoRow
  /\ rows[q] < MaxRows \/ Endless
  /\ rows' = [rows EXCEPT ![q] = IF @ < MaxRows THEN @ + 1 ELSE @]
  /\ answer' = [answer EXCEPT ![q] = [id |-> rows'[q], status |-> "processing", len |-> 0]]
  /\ Touch(q)
  /\ UNCHANGED <<question, hush, verdicts, others>>

Writing(q) == answer[q] # NoRow /\ answer[q].status = "processing"

Reason(q) ==
  /\ Writing(q) /\ answer[q].len < MaxLen
  /\ answer' = [answer EXCEPT ![q].len = @ + 1]
  /\ hush' = [hush EXCEPT ![q] = 0]
  /\ Touch(q)
  /\ UNCHANGED <<question, rows, verdicts, others>>

\* The agent may or may not close its question when it ends the answer.
Finish(q, s) ==
  /\ Writing(q)
  /\ answer' = [answer EXCEPT ![q].status = s]
  /\ question' \in {question, [question EXCEPT ![q] = s]}
  /\ verdicts' = [verdicts EXCEPT ![q] = @ \cup {s}]
  /\ hush' = [hush EXCEPT ![q] = 0]
  /\ Touch(q)
  /\ UNCHANGED <<rows, others>>

\* The question is closed without an answer row.
Refuse(q) ==
  /\ question[q] \in {"pending", "processing", "error"} /\ answer[q] = NoRow
  /\ question' = [question EXCEPT ![q] = "failed"]
  /\ verdicts' = [verdicts EXCEPT ![q] = @ \cup {"failed"}]
  /\ UNCHANGED <<answer, rows, hush, chat, process, others>>

\* The lease of the agent's worker ran out, or it hit an error it will retry:
\* the question returns to the pool and the unfinished row is deleted.
Reclaim(q, s) ==
  /\ question[q] = "processing"
  /\ answer[q] = NoRow \/ Writing(q)
  /\ question' = [question EXCEPT ![q] = s]
  /\ answer' = [answer EXCEPT ![q] = NoRow]
  /\ hush' = [hush EXCEPT ![q] = 0]
  /\ Touch(q)
  /\ UNCHANGED <<rows, verdicts, others>>

\* The owner of the table deletes the question and its answer.
Purge(q) ==
  /\ question[q] \notin {"none", "deleted"}
  /\ question' = [question EXCEPT ![q] = "deleted"]
  /\ answer' = [answer EXCEPT ![q] = NoRow]
  /\ hush' = [hush EXCEPT ![q] = 0]
  /\ Touch(q)
  /\ UNCHANGED <<rows, verdicts, others>>

\* The queue before these questions moves; back, when others are given back.
Advance ==
  /\ others' \in 0..MaxOthers \ {others}
  /\ others' < others \/ Endless
  /\ UNCHANGED <<question, answer, rows, hush, verdicts, chat, process>>

-----------------------------------------------------------------------------
(* Submitting, starting, stopping                                           *)

Subscribed(p) == {q \in Questions : entry[p][q] # NoEntry}

\* One transaction inserts the question and the draft; the subscription follows
\* in the same turn of the event loop.
Submit(p, q) ==
  /\ up[p] /\ question[q] = "none"
  /\ \A k \in Questions : k < q => question[k] # "none"
  /\ question' = [question EXCEPT ![q] = "pending"]
  /\ message' = [message EXCEPT ![q] = "streaming"]
  /\ entry' = [entry EXCEPT ![p][q] = NewEntry]
  /\ UNCHANGED <<answer, rows, hush, verdicts, shown, notes, up, stops, visit,
                 round, rested, others>>

\* The process stops or dies, possibly between two awaits of a visit; its
\* memory is lost.
Stop(p) ==
  /\ up[p] /\ stops < MaxStops
  /\ up' = [up EXCEPT ![p] = FALSE]
  /\ stops' = stops + 1
  /\ entry' = [entry EXCEPT ![p] = [q \in Questions |-> NoEntry]]
  /\ visit' = [visit EXCEPT ![p] = NoVisit]
  /\ round' = [round EXCEPT ![p] = {}]
  /\ UNCHANGED <<bus, chat, rested>>

\* Mutant: reconcile takes up only the questions the bus has still open.
OpenDrafts == {q \in Questions : message[q] = "streaming"
                                /\ question[q] \in {"pending", "processing", "error"}}

\* get_streaming_drafts.
Drafts == {q \in Questions : message[q] = "streaming"}

\* Startup: reconcile subscribes to every draft that is still streaming.
Start(p) ==
  /\ ~up[p]
  /\ up' = [up EXCEPT ![p] = TRUE]
  /\ entry' = [entry EXCEPT ![p] = [q \in Questions |-> IF q \in Drafts THEN NewEntry ELSE NoEntry]]
  /\ rested' = [rested EXCEPT ![p] = TRUE]
  /\ UNCHANGED <<bus, chat, stops, visit, round>>

-----------------------------------------------------------------------------
(* Time                                                                     *)

Capped(n) == IF n < Horizon THEN n + 1 ELSE n

\* No visit is under way, and every poller has ticked since time last passed.
Pass ==
  /\ \A p \in Procs : visit[p] = NoVisit /\ round[p] = {}
  /\ \A p \in Procs : up[p] /\ Subscribed(p) # {} => ~rested[p]
  /\ entry' = [p \in Procs |-> [q \in Questions |->
       IF entry[p][q] = NoEntry THEN NoEntry
       ELSE [entry[p][q] EXCEPT !.age = Capped(@)]]]
  /\ hush' = [q \in Questions |-> IF Writing(q) /\ answer[q].len > 0 THEN Capped(hush[q]) ELSE 0]
  /\ rested' = [p \in Procs |-> TRUE]
  /\ UNCHANGED <<question, answer, rows, verdicts, chat, up, stops, visit, round, others>>

-----------------------------------------------------------------------------
(* The tick: _tick and poll_once                                            *)

StartTick(p) ==
  /\ up[p] /\ rested[p] /\ visit[p] = NoVisit /\ round[p] = {}
  /\ Subscribed(p) # {}
  /\ round' = [round EXCEPT ![p] = Subscribed(p)]
  /\ rested' = [rested EXCEPT ![p] = FALSE]
  /\ UNCHANGED <<bus, chat, up, stops, entry, visit>>

\* A visit to q at step, nothing read yet.
NewVisit(q, step) == [q |-> q, step |-> step, status |-> "none", row |-> NoRow, changed |-> FALSE,
                 since |-> FALSE, ahead |-> None, outcome |-> "none"]

\* get_by_uid, the first await of a visit.
ReadQuestion(p, q) ==
  /\ q \in round[p] /\ visit[p] = NoVisit
  /\ visit' = [visit EXCEPT ![p] =
       [NewVisit(q, IF question[q] = "deleted" THEN "judge" ELSE "answer")
          EXCEPT !.status = question[q]]]
  /\ UNCHANGED <<bus, chat, up, stops, entry, round, rested>>

At(p, step) == visit[p] # NoVisit /\ visit[p].step = step

Onward(p, step) == visit' = [visit EXCEPT ![p].step = step]

\* The draft has ended; only the outcome matters from here on, and whether there
\* was an answer row.
Ending(v, step, outcome) == [NewVisit(v.q, step) EXCEPT !.row = v.row, !.outcome = outcome]

\* The visit ends; unless the question is done, its entry stays as e.
Leave(p, q, e) ==
  /\ visit' = [visit EXCEPT ![p] = NoVisit]
  /\ round' = [round EXCEPT ![p] = @ \ {q}]
  /\ entry' = [entry EXCEPT ![p][q] = e]

\* Mutant: it is the question, not the answer, that must be closed.
AfterQuestion(v, row, e) ==
  CASE v.status = "failed" -> "fail"
    [] row # NoRow /\ v.status = "completed" -> "finalize"
    [] OTHER -> "judge"

\* Where a visit goes on once it has read the answer row: any status of the row
\* but the known ones ends the draft.
AfterRead(v, row, e) ==
  IF row = NoRow
  THEN CASE v.status = "failed" -> "fail"
         [] v.status = "pending" /\ e.phase = "pending" -> "count"
         [] OTHER -> "judge"
  ELSE CASE row.status = "failed" -> "fail"
         [] row.status = "completed" -> "finalize"
         [] row.status = "processing" /\ row.len > e.len -> "show"
         [] OTHER -> "judge"

ReadAnswer(p) ==
  /\ At(p, "answer")
  /\ LET v == visit[p]
         e == entry[p][v.q]
         row == answer[v.q]
     IN visit' = [visit EXCEPT ![p] = [v EXCEPT !.row = row,
                                                !.changed = row # NoRow /\ e.base = "old",
                                                !.step = AfterRead(v, row, e)]]
  /\ UNCHANGED <<bus, chat, up, stops, entry, round, rested>>

\* count_pending_before.
CountAhead(p) ==
  /\ At(p, "count")
  /\ visit' = [visit EXCEPT ![p].step = "judge",
                            ![p].ahead = others + Cardinality({k \in Questions :
                                           k < visit[p].q /\ question[k] = "pending"})]
  /\ UNCHANGED <<bus, chat, up, stops, entry, round, rested>>

\* upsert_block: reasoning so far, as a block named after the answer row.
Show(p) ==
  /\ At(p, "show")
  /\ LET v == visit[p] IN
     shown' = IF message[v.q] = "streaming"
              THEN [shown EXCEPT ![v.q] = @ \cup {v.row.id}] ELSE shown
  /\ Onward(p, "judge")
  /\ UNCHANGED <<bus, message, notes, up, stops, entry, round, rested>>

\* Mutant: the status of the draft is not looked at.
EndsAlways(q) == TRUE

\* finalize and mark_failed write only a draft that is still streaming, and say
\* whether they did; the row lock makes the test and the write one step.
Ends(q) == message[q] = "streaming"

Finalize(p) ==
  LET v == visit[p]
      ends == Ends(v.q)
  IN
  /\ At(p, "finalize")
  /\ message' = IF ends THEN [message EXCEPT ![v.q] = "complete"] ELSE message
  /\ shown' = IF ends /\ v.row.len > 0
              THEN [shown EXCEPT ![v.q] = @ \cup {v.row.id}] ELSE shown
  /\ visit' = [visit EXCEPT ![p] = Ending(v, IF ends THEN "notify" ELSE "close", "completed")]
  /\ UNCHANGED <<bus, notes, up, stops, entry, round, rested>>

MarkFailed(q) == message' = IF Ends(q) THEN [message EXCEPT ![q] = "failed"] ELSE message

\* A question closed without an answer row is not closed again.
Fail(p) ==
  LET v == visit[p]
      ends == Ends(v.q)
  IN
  /\ At(p, "fail")
  /\ MarkFailed(v.q)
  /\ IF ~ends /\ v.row = NoRow
     THEN Leave(p, v.q, NoEntry)
     ELSE /\ visit' = [visit EXCEPT ![p] = Ending(v, IF ends THEN "notify" ELSE "close", "failed")]
          /\ UNCHANGED <<entry, round>>
  /\ UNCHANGED <<bus, shown, notes, up, stops, rested>>

\* push_notification swallows its failure.
Notify(p) ==
  LET v == visit[p]
      kind == IF v.outcome = "completed" THEN "info" ELSE "error"
  IN
  /\ At(p, "notify")
  /\ \/ notes' = [notes EXCEPT ![v.q][kind] = @ + 1]
     \/ "chat" \in Faulty /\ notes' = notes
  /\ IF v.row = NoRow
     THEN Leave(p, v.q, NoEntry)
     ELSE Onward(p, "close") /\ UNCHANGED <<entry, round>>
  /\ UNCHANGED <<bus, message, shown, up, stops, rested>>

\* _set_status_safe: a refusal of the owner's CHECK is swallowed, and a deleted
\* question has no row to update.
SetStatus(q, s) ==
  question' = IF s \in Refused \/ question[q] = "deleted" THEN question
              ELSE [question EXCEPT ![q] = s]

Close(p) ==
  /\ \E step \in {"close", "closeAbandoned"} : At(p, step)
  /\ SetStatus(visit[p].q, visit[p].outcome)
  /\ Leave(p, visit[p].q, NoEntry)
  /\ UNCHANGED <<answer, rows, hush, verdicts, chat, up, stops, rested, others>>

-----------------------------------------------------------------------------
(* The signs of life: the part of _tick between two awaits                  *)

Forward(v, e) ==
  e.phase = "pending" /\ (v.row # NoRow \/ v.status \notin {"deleted", "pending", "error"})

\* Mutant: the reversions are not counted.
UncappedReverts(v, e) ==
  e.phase = "processing" /\ v.row = NoRow /\ v.status \in {"pending", "error"}

Reverts(v, e) ==
  /\ e.phase = "processing" /\ v.row = NoRow /\ v.status \in {"pending", "error"}
  /\ e.reversions < MaxReversions

Grew(v, e) == v.row # NoRow /\ v.row.len > e.len

\* Mutant: a new answer row, shorter than the one before it, is no sign of life.
NeverRewritten(v) == FALSE

\* updated_at differs from the baseline.
Rewritten(v) == v.changed

\* queue_ahead has shrunk; it is known only in phase 'pending'.
Moved(v, e) == v.ahead # None /\ e.ahead # None /\ v.ahead < e.ahead

Alive(v, e) == Forward(v, e) \/ Reverts(v, e) \/ Grew(v, e) \/ Rewritten(v) \/ Moved(v, e)

\* The entry after the signs of life in v.
Judged(v, e) ==
  [phase |-> IF Forward(v, e) THEN "processing" ELSE IF Reverts(v, e) THEN "pending" ELSE e.phase,
   age |-> IF Alive(v, e) THEN 0 ELSE e.age,
   len |-> IF Reverts(v, e) THEN 0 ELSE IF Grew(v, e) THEN v.row.len ELSE e.len,
   ahead |-> IF v.ahead # None THEN v.ahead ELSE e.ahead,
   base |-> IF Reverts(v, e) THEN "none"
            ELSE IF v.row = NoRow THEN e.base
            ELSE IF v.since THEN "old" ELSE "same",
   errors |-> e.errors,
   reversions |-> IF Reverts(v, e) /\ e.reversions < MaxReversions
                  THEN e.reversions + 1 ELSE e.reversions]

Limit(phase) == IF phase = "pending" THEN ClaimLimit ELSE AnswerLimit

Judge(p) ==
  /\ At(p, "judge")
  /\ LET v == visit[p]
         e == Judged(v, entry[p][v.q])
     IN IF e.age >= Limit(e.phase)
        THEN /\ Onward(p, "timeout")
             /\ entry' = [entry EXCEPT ![p][v.q] = e]
             /\ UNCHANGED round
        ELSE Leave(p, v.q, [e EXCEPT !.errors = 0])
  /\ UNCHANGED <<bus, chat, up, stops, rested>>

\* mark_timeout, also as _abandon_subscription calls it; the status follows.
Timeout(p) ==
  /\ \E step \in {"timeout", "abandon"} :
       /\ At(p, step)
       /\ visit' = [visit EXCEPT ![p] =
                     Ending(@, IF step = "timeout" THEN "close" ELSE "closeAbandoned", "failed")]
  /\ MarkFailed(visit[p].q)
  /\ UNCHANGED <<bus, shown, notes, up, stops, entry, round, rested>>

\* The tables an await needs.
Needs(step) ==
  CASE step \in {"answer", "count", "close", "closeAbandoned"} -> {"bus"}
    [] step \in {"show", "fail", "timeout", "abandon"} -> {"chat"}
    [] step = "finalize" -> {"bus", "chat"}
    [] OTHER -> {}

\* An await of the visit to q fails.
Fails(p, q) ==
  \/ q \in round[p] /\ visit[p] = NoVisit /\ "bus" \in Faulty
  \/ visit[p] # NoVisit /\ visit[p].q = q /\ Needs(visit[p].step) \cap Faulty # {}

\* Mutant: one error too many is borne.
TooManyLate(e) == e.errors >= MaxErrors

TooMany(e) == e.errors + 1 >= MaxErrors

\* An entry that fails MaxErrors ticks in a row is dropped and its draft ended;
\* what fails then is swallowed.
Dropping(p) == visit[p] # NoVisit /\ visit[p].step \in {"abandon", "closeAbandoned"}

Err(p, q) ==
  /\ Fails(p, q)
  /\ IF Dropping(p) THEN Leave(p, q, NoEntry)
     ELSE IF ~TooMany(entry[p][q])
     THEN Leave(p, q, [entry[p][q] EXCEPT !.errors = @ + 1])
     ELSE /\ entry' = [entry EXCEPT ![p][q] = NoEntry]
          /\ visit' = [visit EXCEPT ![p] = NewVisit(q, "abandon")]
          /\ UNCHANGED round
  /\ UNCHANGED <<bus, chat, up, stops, rested>>

-----------------------------------------------------------------------------
(* The system                                                               *)

Agent(q) ==
  \/ Claim(q) \/ Begin(q) \/ Reason(q) \/ Refuse(q) \/ Purge(q)
  \/ \E s \in {"completed", "failed"} : Finish(q, s)
  \/ \E s \in {"pending", "error"} : Reclaim(q, s)

Poll(p) ==
  \/ StartTick(p)
  \/ \E q \in Questions : ReadQuestion(p, q) \/ Err(p, q)
  \/ ReadAnswer(p) \/ CountAhead(p) \/ Show(p)
  \/ Finalize(p) \/ Fail(p) \/ Notify(p) \/ Close(p)
  \/ Judge(p) \/ Timeout(p)

Next ==
  \/ \E q \in Questions : Agent(q)
  \/ \E p \in Procs : Poll(p) \/ Stop(p) \/ Start(p) \/ \E q \in Questions : Submit(p, q)
  \/ Advance
  \/ Pass

Spec == Init /\ [][Next]_vars

\* The event loop runs the poller, time passes, and a stopped server is started
\* again.  Nothing is asked of the agent.
Fairness == WF_vars(Pass) /\ \A p \in Procs : WF_vars(Poll(p)) /\ WF_vars(Start(p))

FairSpec == Spec /\ Fairness

-----------------------------------------------------------------------------
(* Properties                                                               *)

\* Every variable has its type.
TypeOK ==
  /\ question \in [Questions -> QuestionStatuses]
  /\ answer \in [Questions -> Row \cup {NoRow}]
  /\ rows \in [Questions -> 0..MaxRows] /\ others \in 0..MaxOthers
  /\ message \in [Questions -> {"none", "streaming", "complete", "failed"}]
  /\ shown \in [Questions -> SUBSET (1..MaxRows)]
  /\ notes \in [Questions -> [info : Nat, error : Nat]]
  /\ up \in [Procs -> BOOLEAN] /\ stops \in 0..MaxStops
  /\ entry \in [Procs -> [Questions -> Entry \cup {NoEntry}]]
  /\ visit \in [Procs -> Visit \cup {NoVisit}]
  /\ round \in [Procs -> SUBSET Questions]
  /\ rested \in [Procs -> BOOLEAN]
  /\ hush \in [Questions -> 0..Horizon]
  /\ verdicts \in [Questions -> SUBSET {"completed", "failed"}]

\* Whatever processes visit a question at the same time, and however often a
\* visit is repeated after an error, the author hears of it at most once, and
\* what he hears is how the draft has ended and what the agent has said
\* (_emit_answer_notification only where finalize or mark_failed was the one to
\* end the draft).
NotifiedTruthfully ==
  \A q \in Questions :
    /\ notes[q].info + notes[q].error <= 1
    /\ notes[q].info = 1 => message[q] = "complete" /\ "completed" \in verdicts[q]
    /\ notes[q].error = 1 => message[q] = "failed" /\ "failed" \in verdicts[q]

\* An agent that writes is not timed out: when a visit that has read an answer
\* row gives up on it, its reasoning has not grown for the whole answer limit,
\* or has grown only after the row was read, although the row may be that of
\* another attempt and shorter than what was seen before.
PatientTimeout ==
  \A p \in Procs :
    visit[p] # NoVisit =>
      LET v == visit[p] IN
      v.step = "timeout" /\ v.row # NoRow /\ v.row.len > 0
        => v.since \/ hush[v.q] >= AnswerLimit

\* An answer the agent has completed is not thrown away: a draft that fails while
\* it is there fails because the visit had read the answer before it was
\* complete, or because the visits to it had failed too often to read it.
AnswerNotThrownAway ==
  [][\A q \in Questions :
       /\ message[q] = "streaming" /\ message'[q] = "failed"
       /\ answer[q] # NoRow /\ answer[q].status = "completed"
       => \E p \in Procs :
            /\ visit[p] # NoVisit /\ visit[p].q = q
            /\ visit[p].step = "abandon" \/ visit[p].row = NoRow \/ visit[p].since]_vars

\* A draft in status 'streaming' is watched: a process is subscribed to it, or
\* is dropping it this moment, or is down and will reconcile.
StreamingIsWatched ==
  \A q \in Questions : message[q] = "streaming" =>
    \E p \in Procs :
      \/ ~up[p]
      \/ entry[p][q] # NoEntry
      \/ visit[p] # NoVisit /\ visit[p].q = q /\ visit[p].step = "abandon"

\* A draft does not stay in status 'streaming' for ever, whatever the agent
\* does or leaves undone.
EveryQuestionEnds ==
  \A q \in Questions : (message[q] = "streaming") ~> (message[q] # "streaming")
=============================================================================
