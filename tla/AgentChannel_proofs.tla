------------------------ MODULE AgentChannel_proofs ------------------------
(***************************************************************************)
(* Proofs about AgentChannel for any number of processes, questions,       *)
(* process stops and limits: type correctness; that what an author is told *)
(* is told once and is true; that a draft in status 'streaming' is never   *)
(* forgotten while chat_messages can be written; and that an agent which   *)
(* writes is not given up, nor its completed answer thrown away.           *)
(*                                                                         *)
(* A notification is written two awaits after the visit has read what it   *)
(* tells, so NotifiedTruthfully is not inductive: IInv adds what a visit   *)
(* carries from one await to the next (VisitSound), that at most one visit *)
(* has ended a draft and not told it yet (OneTeller), and what the tables  *)
(* and the subscriptions say of each other.                                *)
(*                                                                         *)
(* Giving up compares a clock of the process with the agent's writing, of  *)
(* which it sees what it reads: Informed says what a visit and a baseline  *)
(* know of the answer row, and that a good baseline is never older than    *)
(* the silence.                                                            *)
(***************************************************************************)
EXTENDS AgentChannel, FiniteSetTheorems, TLAPS

\* The draft of the answer is over.
Ended(q) == message[q] \in {"complete", "failed"}

\* p is in the middle of a visit to q.
Visiting(p, q) == visit[p] # NoVisit /\ visit[p].q = q

\* A visit is to a question of this tick, and has read the row it shows or
\* finalizes; a question of this tick has an entry, unless it is being dropped.
VisitsSound ==
  /\ \A p \in Procs : visit[p] # NoVisit =>
       /\ visit[p].q \in round[p]
       /\ visit[p].step \in {"show", "finalize"} => visit[p].row # NoRow
  /\ \A p \in Procs : \A q \in round[p] :
       entry[p][q] # NoEntry \/ (Visiting(p, q) /\ Dropping(p))

\* The question and its draft come into being together, and nothing is known of
\* a question before that.
SubmittedSound ==
  \A q \in Questions :
    /\ message[q] = "none" <=> question[q] = "none"
    /\ message[q] = "none" =>
         /\ answer[q] = NoRow
         /\ \A p \in Procs : entry[p][q] = NoEntry /\ q \notin round[p]

\* How an answer row has ended is what the agent has said; a question is closed as
\* failed by the agent, or by a process that has ended the draft.
BusSound ==
  \A q \in Questions :
    /\ answer[q] # NoRow /\ answer[q].status # "processing" => answer[q].status \in verdicts[q]
    /\ question[q] = "failed" => "failed" \in verdicts[q] \/ Ended(q)

\* What a visit has read was so, and it goes on only to what follows from it; the
\* one that will notify has ended the draft itself, and nobody has been told.
VisitSound(v) ==
  /\ v.row # NoRow /\ v.row.status # "processing" => v.row.status \in verdicts[v.q]
  /\ v.status = "failed" => "failed" \in verdicts[v.q] \/ Ended(v.q)
  /\ v.step = "finalize" => "completed" \in verdicts[v.q]
  /\ v.step = "fail" => "failed" \in verdicts[v.q] \/ Ended(v.q)
  /\ v.step \in {"notify", "close", "closeAbandoned"} => Ended(v.q) /\ v.outcome # "none"
  /\ v.step = "notify" =>
       /\ v.outcome \in verdicts[v.q]
       /\ message[v.q] = (IF v.outcome = "completed" THEN "complete" ELSE "failed")
       /\ notes[v.q].info = 0 /\ notes[v.q].error = 0

\* Every visit under way is sound.
OutcomesSound == \A p \in Procs : visit[p] # NoVisit => VisitSound(visit[p])

\* Of one question, one visit at a time is about to notify.
OneTeller ==
  \A x1, x2 \in Procs :
    /\ At(x1, "notify") /\ At(x2, "notify") /\ visit[x1].q = visit[x2].q => x1 = x2

\* The conjuncts that make NotifiedTruthfully inductive.
Sound == VisitsSound /\ SubmittedSound /\ BusSound /\ OutcomesSound /\ OneTeller /\ NotifiedTruthfully

\* The inductive invariant (with Quiet, below).
IInv == TypeOK /\ Sound

-----------------------------------------------------------------------------

\* A write to the row of q changes baselines and what visits know of later
\* changes, nothing else of an entry or of a visit (Touch).
LEMMA TouchKeeps ==
  ASSUME TypeOK, NEW q \in Questions, Touch(q)
  PROVE  /\ entry' \in [Procs -> [Questions -> Entry \cup {NoEntry}]]
         /\ visit' \in [Procs -> Visit \cup {NoVisit}]
         /\ \A p \in Procs, k \in Questions : entry'[p][k] = NoEntry <=> entry[p][k] = NoEntry
         /\ \A p \in Procs : visit'[p] = NoVisit <=> visit[p] = NoVisit
         /\ \A p \in Procs : visit[p] # NoVisit =>
              /\ visit'[p].q = visit[p].q /\ visit'[p].step = visit[p].step
              /\ visit'[p].row = visit[p].row /\ visit'[p].status = visit[p].status
              /\ visit'[p].outcome = visit[p].outcome
<1>1. \A e \in Entry : [e EXCEPT !.base = "old"] \in Entry
  BY DEF Entry
<1>2. \A v \in Visit : [v EXCEPT !.since = TRUE] \in Visit
  BY DEF Visit
<1>3. ASSUME NEW p \in Procs
      PROVE  /\ entry'[p] \in [Questions -> Entry \cup {NoEntry}]
             /\ \A k \in Questions : entry'[p][k] = NoEntry <=> entry[p][k] = NoEntry
  <2>1. CASE entry[p][q] # NoEntry /\ entry[p][q].base = "same"
    <3>1. entry'[p] = [entry[p] EXCEPT ![q] = [entry[p][q] EXCEPT !.base = "old"]]
      BY <2>1 DEF Touch
    <3>2. entry[p] \in [Questions -> Entry \cup {NoEntry}] /\ entry[p][q] \in Entry
      BY <2>1 DEF TypeOK
    <3>3. [entry[p][q] EXCEPT !.base = "old"] \in Entry
      BY <3>2, <1>1
    <3> QED BY <2>1, <3>1, <3>2, <3>3, NoValueAssumption
  <2>2. CASE ~(entry[p][q] # NoEntry /\ entry[p][q].base = "same")
    BY <2>2 DEF Touch, TypeOK
  <2> QED BY <2>1, <2>2
<1>4. ASSUME NEW p \in Procs
      PROVE  /\ visit'[p] \in Visit \cup {NoVisit}
             /\ visit'[p] = NoVisit <=> visit[p] = NoVisit
             /\ visit[p] # NoVisit =>
                  /\ visit'[p].q = visit[p].q /\ visit'[p].step = visit[p].step
                  /\ visit'[p].row = visit[p].row /\ visit'[p].status = visit[p].status
                  /\ visit'[p].outcome = visit[p].outcome
  <2>1. CASE visit[p] # NoVisit /\ visit[p].q = q /\ visit[p].row # NoRow
    <3>1. visit'[p] = [visit[p] EXCEPT !.since = TRUE] /\ visit[p] \in Visit
      BY <2>1 DEF Touch, TypeOK
    <3> QED BY <3>1, <1>2, <2>1, NoValueAssumption DEF Visit
  <2>2. CASE ~(visit[p] # NoVisit /\ visit[p].q = q /\ visit[p].row # NoRow)
    BY <2>2 DEF Touch, TypeOK
  <2> QED BY <2>1, <2>2
<1>5. /\ entry' = [p \in Procs |-> entry'[p]]
      /\ visit' = [p \in Procs |-> visit'[p]]
  BY DEF Touch
<1> QED BY <1>3, <1>4, <1>5

\* A visit that ends leaves entries, visits and rounds of their types (Leave).
LEMMA LeaveType ==
  ASSUME TypeOK, NEW p \in Procs, NEW q \in Questions, NEW e \in Entry \cup {NoEntry}, Leave(p, q, e)
  PROVE  /\ entry' \in [Procs -> [Questions -> Entry \cup {NoEntry}]]
         /\ visit' \in [Procs -> Visit \cup {NoVisit}]
         /\ round' \in [Procs -> SUBSET Questions]
BY DEF TypeOK, Leave

\* What an action of the agent leaves to show once the baselines and the visits
\* are touched.
LEMMA TouchSound ==
  ASSUME TypeOK, VisitsSound, OutcomesSound, OneTeller, NotifiedTruthfully,
         NEW q \in Questions, Touch(q),
         \A k \in Questions : verdicts[k] \subseteq verdicts'[k]
  PROVE  /\ VisitsSound' /\ OutcomesSound' /\ OneTeller' /\ NotifiedTruthfully'
<1> USE TouchKeeps
<1>0. UNCHANGED <<message, notes, round>>
  BY DEF Touch, chat
<1>1. \A p \in Procs : visit[p] # NoVisit => visit[p].q \in Questions
  BY DEF TypeOK, Visit
<1>2. VisitsSound'
  <2>1. ASSUME NEW p \in Procs, visit'[p] # NoVisit
        PROVE  /\ visit'[p].q \in round'[p]
               /\ visit'[p].step \in {"show", "finalize"} => visit'[p].row # NoRow
    BY <1>0, <2>1 DEF VisitsSound
  <2>2. ASSUME NEW p \in Procs, NEW k \in round'[p]
        PROVE  entry'[p][k] # NoEntry \/ (Visiting(p, k)' /\ Dropping(p)')
    <3>1. k \in Questions /\ k \in round[p]
      BY <1>0 DEF TypeOK
    <3> QED BY <3>1 DEF VisitsSound, Visiting, Dropping
  <2> QED BY <2>1, <2>2 DEF VisitsSound
<1>3. OutcomesSound'
  <2> SUFFICES ASSUME NEW p \in Procs, visit'[p] # NoVisit
               PROVE  VisitSound(visit[p])'
    BY DEF OutcomesSound
  <2>1. visit[p] # NoVisit /\ VisitSound(visit[p]) /\ visit[p].q \in Questions
    BY <1>1 DEF OutcomesSound
  <2>2. verdicts[visit[p].q] \subseteq verdicts'[visit[p].q]
    BY <2>1
  <2>3. /\ visit'[p].q = visit[p].q /\ visit'[p].step = visit[p].step
        /\ visit'[p].row = visit[p].row /\ visit'[p].status = visit[p].status
        /\ visit'[p].outcome = visit[p].outcome
    BY <2>1
  <2> QED BY <1>0, <2>1, <2>2, <2>3 DEF VisitSound, Ended
<1>4. OneTeller'
  BY DEF OneTeller, At
<1>5. NotifiedTruthfully'
  BY <1>0 DEF NotifiedTruthfully
<1> QED BY <1>2, <1>3, <1>4, <1>5

\* The agent writes its table: the questions, the answers and its verdicts stay of
\* a kind, and nothing of a question that was never put.
LEMMA AgentSound ==
  ASSUME ChannelAssumption, IInv, NEW q \in Questions, Agent(q)
  PROVE  IInv'
<1> USE DEF IInv, Sound
<1>q. q \in Questions /\ question[q] \in QuestionStatuses /\ answer[q] \in Row \cup {NoRow}
  BY DEF TypeOK
<1>1. CASE Claim(q)
  <2>1. UNCHANGED <<answer, rows, hush, verdicts, others, message, shown, notes, up, stops, entry, visit, round, rested>>
    BY <1>1 DEF Claim, chat, process
  <2>2. question' = [question EXCEPT ![q] = "processing"] /\ question[q] # "none"
    BY <1>1 DEF Claim
  <2>3. TypeOK'
    BY <2>1, <2>2 DEF TypeOK, QuestionStatuses
  <2>4. VisitsSound' /\ OutcomesSound' /\ OneTeller' /\ NotifiedTruthfully'
    BY <2>1 DEF VisitsSound, OutcomesSound, OneTeller, NotifiedTruthfully, Visiting, Dropping,
                VisitSound, Ended, At
  <2>5. SubmittedSound'
    BY <2>1, <2>2 DEF SubmittedSound, TypeOK
  <2>6. BusSound'
    BY <2>1, <2>2 DEF BusSound, TypeOK, Ended
  <2> QED BY <2>3, <2>4, <2>5, <2>6
<1>2. CASE Refuse(q)
  <2>1. UNCHANGED <<answer, rows, hush, others, message, shown, notes, up, stops, entry, visit, round, rested>>
    BY <1>2 DEF Refuse, chat, process
  <2>2. question' = [question EXCEPT ![q] = "failed"] /\ question[q] # "none"
    BY <1>2 DEF Refuse
  <2>3. verdicts' = [verdicts EXCEPT ![q] = @ \cup {"failed"}]
    BY <1>2 DEF Refuse
  <2>4. TypeOK'
    BY <2>1, <2>2, <2>3 DEF TypeOK, QuestionStatuses
  <2>5. VisitsSound' /\ OneTeller'
    BY <2>1 DEF VisitsSound, OneTeller, Visiting, Dropping, At
  <2>6. \A k \in Questions : verdicts[k] \subseteq verdicts'[k]
    BY <2>3 DEF TypeOK
  <2>7. OutcomesSound'
    <3> SUFFICES ASSUME NEW p \in Procs, visit[p] # NoVisit
                 PROVE  VisitSound(visit[p])'
      BY <2>1 DEF OutcomesSound
    <3>1. VisitSound(visit[p]) /\ visit[p].q \in Questions
      BY DEF OutcomesSound, TypeOK, Visit
    <3>2. verdicts[visit[p].q] \subseteq verdicts'[visit[p].q]
      BY <3>1, <2>6
    <3> QED BY <2>1, <3>1, <3>2 DEF VisitSound, Ended
  <2>8. NotifiedTruthfully'
    BY <2>1, <2>6 DEF NotifiedTruthfully
  <2>9. SubmittedSound'
    BY <2>1, <2>2 DEF SubmittedSound, TypeOK
  <2>10. BusSound'
    BY <2>1, <2>2, <2>3 DEF BusSound, TypeOK, Ended
  <2> QED BY <2>4, <2>5, <2>7, <2>8, <2>9, <2>10
<1>3. CASE Begin(q)
  <2>1. Touch(q) /\ question[q] = "processing"
        /\ UNCHANGED <<question, hush, verdicts, others, message, shown, notes, up, stops, round, rested>>
    BY <1>3 DEF Begin, Touch, chat
  <2>2. rows' = [rows EXCEPT ![q] = IF @ < MaxRows THEN @ + 1 ELSE @]
        /\ answer' = [answer EXCEPT ![q] = [id |-> rows'[q], status |-> "processing", len |-> 0]]
    BY <1>3 DEF Begin
  <2>3. rows' \in [Questions -> 0..MaxRows] /\ rows'[q] \in 1..MaxRows
    <3>1. rows[q] \in 0..MaxRows /\ MaxRows \in Nat \ {0}
      BY DEF TypeOK, ChannelAssumption
    <3>2. (IF rows[q] < MaxRows THEN rows[q] + 1 ELSE rows[q]) \in 1..MaxRows
      BY <3>1
    <3> QED BY <2>2, <3>2 DEF TypeOK
  <2>4. [id |-> rows'[q], status |-> "processing", len |-> 0] \in Row
    BY <2>3 DEF Row, ChannelAssumption
  <2>5. TypeOK'
    BY <2>1, <2>2, <2>3, <2>4, TouchKeeps DEF TypeOK
  <2>6. VisitsSound' /\ OutcomesSound' /\ OneTeller' /\ NotifiedTruthfully'
    BY <2>1, TouchSound
  <2>7. SubmittedSound'
    BY <2>1, <2>2, TouchKeeps DEF SubmittedSound, TypeOK
  <2>8. BusSound'
    BY <2>1, <2>2 DEF BusSound, TypeOK, Ended
  <2> QED BY <2>5, <2>6, <2>7, <2>8
<1>4. CASE Reason(q)
  <2>1. Touch(q) /\ answer[q] # NoRow /\ answer[q].len < MaxLen
        /\ UNCHANGED <<question, rows, verdicts, others, message, shown, notes, up, stops, round, rested>>
    BY <1>4 DEF Reason, Touch, chat, Writing
  <2>2. answer' = [answer EXCEPT ![q].len = @ + 1] /\ hush' = [hush EXCEPT ![q] = 0]
    BY <1>4 DEF Reason
  <2>3. [answer[q] EXCEPT !.len = @ + 1] \in Row
        /\ [answer[q] EXCEPT !.len = @ + 1].status = answer[q].status
    BY <1>q, <2>1 DEF Row, ChannelAssumption
  <2>4. answer' = [answer EXCEPT ![q] = [answer[q] EXCEPT !.len = @ + 1]]
    BY <2>2
  <2>5. TypeOK'
    <3>1. 0 \in 0..Horizon
      BY DEF Horizon, ChannelAssumption
    <3> QED BY <2>1, <2>2, <2>3, <2>4, <3>1, TouchKeeps DEF TypeOK
  <2>6. VisitsSound' /\ OutcomesSound' /\ OneTeller' /\ NotifiedTruthfully'
    BY <2>1, TouchSound
  <2>7. SubmittedSound'
    BY <2>1, <2>4, TouchKeeps DEF SubmittedSound, TypeOK
  <2>8. BusSound'
    BY <2>1, <2>3, <2>4 DEF BusSound, TypeOK, Ended
  <2> QED BY <2>5, <2>6, <2>7, <2>8
<1>5. ASSUME NEW s \in {"completed", "failed"}, Finish(q, s)
      PROVE  IInv'
  <2>1. Touch(q) /\ answer[q] # NoRow
        /\ UNCHANGED <<rows, others, message, shown, notes, up, stops, round, rested>>
    BY <1>5 DEF Finish, Touch, chat, Writing
  <2>2. answer' = [answer EXCEPT ![q].status = s] /\ hush' = [hush EXCEPT ![q] = 0]
        /\ verdicts' = [verdicts EXCEPT ![q] = @ \cup {s}]
        /\ question' \in {question, [question EXCEPT ![q] = s]}
    BY <1>5 DEF Finish
  <2>3. [answer[q] EXCEPT !.status = s] \in Row /\ [answer[q] EXCEPT !.status = s].status = s
    BY <1>q, <2>1 DEF Row
  <2>4. answer' = [answer EXCEPT ![q] = [answer[q] EXCEPT !.status = s]]
    BY <2>2
  <2>5. TypeOK'
    <3>1. 0 \in 0..Horizon
      BY DEF Horizon, ChannelAssumption
    <3>2. question' \in [Questions -> QuestionStatuses]
      BY <2>2 DEF TypeOK, QuestionStatuses
    <3>3. verdicts' \in [Questions -> SUBSET {"completed", "failed"}]
      <4>1. verdicts[q] \cup {s} \subseteq {"completed", "failed"}
        BY DEF TypeOK
      <4> QED BY <2>2, <4>1 DEF TypeOK
    <3>4. answer' \in [Questions -> Row \cup {NoRow}]
      BY <2>3, <2>4 DEF TypeOK
    <3>5. hush' \in [Questions -> 0..Horizon]
      BY <2>2, <3>1 DEF TypeOK
    <3> QED BY <2>1, <3>2, <3>3, <3>4, <3>5, TouchKeeps DEF TypeOK
  <2>6. \A k \in Questions : verdicts[k] \subseteq verdicts'[k]
    BY <2>2 DEF TypeOK
  <2>7. VisitsSound' /\ OutcomesSound' /\ OneTeller' /\ NotifiedTruthfully'
    BY <2>1, <2>6, TouchSound
  <2>8. SubmittedSound'
    BY <2>1, <2>2, <2>4, TouchKeeps DEF SubmittedSound, TypeOK
  <2>9. BusSound'
    BY <2>1, <2>2, <2>3, <2>4 DEF BusSound, TypeOK, Ended
  <2> QED BY <2>5, <2>7, <2>8, <2>9
<1>6. ASSUME NEW s \in {"pending", "error"}, Reclaim(q, s)
      PROVE  IInv'
  <2>1. Touch(q) /\ question[q] = "processing"
        /\ UNCHANGED <<rows, verdicts, others, message, shown, notes, up, stops, round, rested>>
    BY <1>6 DEF Reclaim, Touch, chat
  <2>2. answer' = [answer EXCEPT ![q] = NoRow] /\ hush' = [hush EXCEPT ![q] = 0]
        /\ question' = [question EXCEPT ![q] = s]
    BY <1>6 DEF Reclaim
  <2>3. TypeOK'
    <3>1. 0 \in 0..Horizon
      BY DEF Horizon, ChannelAssumption
    <3> QED BY <2>1, <2>2, <3>1, TouchKeeps DEF TypeOK, QuestionStatuses
  <2>4. VisitsSound' /\ OutcomesSound' /\ OneTeller' /\ NotifiedTruthfully'
    BY <2>1, TouchSound
  <2>5. SubmittedSound'
    BY <2>1, <2>2, TouchKeeps DEF SubmittedSound, TypeOK
  <2>6. BusSound'
    BY <2>1, <2>2 DEF BusSound, TypeOK, Ended
  <2> QED BY <2>3, <2>4, <2>5, <2>6
<1>7. CASE Purge(q)
  <2>1. Touch(q) /\ question[q] # "none"
        /\ UNCHANGED <<rows, verdicts, others, message, shown, notes, up, stops, round, rested>>
    BY <1>7 DEF Purge, Touch, chat
  <2>2. answer' = [answer EXCEPT ![q] = NoRow] /\ hush' = [hush EXCEPT ![q] = 0]
        /\ question' = [question EXCEPT ![q] = "deleted"]
    BY <1>7 DEF Purge
  <2>3. TypeOK'
    <3>1. 0 \in 0..Horizon
      BY DEF Horizon, ChannelAssumption
    <3> QED BY <2>1, <2>2, <3>1, TouchKeeps DEF TypeOK, QuestionStatuses
  <2>4. VisitsSound' /\ OutcomesSound' /\ OneTeller' /\ NotifiedTruthfully'
    BY <2>1, TouchSound
  <2>5. SubmittedSound'
    BY <2>1, <2>2, TouchKeeps DEF SubmittedSound, TypeOK
  <2>6. BusSound'
    BY <2>1, <2>2 DEF BusSound, TypeOK, Ended
  <2> QED BY <2>3, <2>4, <2>5, <2>6
<1> QED BY <1>1, <1>2, <1>3, <1>4, <1>5, <1>6, <1>7 DEF Agent

\* A visit that ends: the others, and the entries of the other questions, stay.
LEMMA LeaveSound ==
  ASSUME TypeOK, VisitsSound, OneTeller, NEW p \in Procs, NEW q \in Questions,
         NEW e \in Entry \cup {NoEntry}, Leave(p, q, e), visit[p] # NoVisit => visit[p].q = q
  PROVE  VisitsSound' /\ OneTeller'
<1>1. /\ visit' = [visit EXCEPT ![p] = NoVisit]
      /\ round' = [round EXCEPT ![p] = @ \ {q}]
      /\ entry' = [entry EXCEPT ![p][q] = e]
  BY DEF Leave
<1>2. ASSUME NEW r \in Procs, visit'[r] # NoVisit
      PROVE  /\ visit'[r].q \in round'[r]
             /\ visit'[r].step \in {"show", "finalize"} => visit'[r].row # NoRow
  BY <1>1, <1>2 DEF VisitsSound, TypeOK
<1>3. ASSUME NEW r \in Procs, NEW k \in round'[r]
      PROVE  entry'[r][k] # NoEntry \/ (Visiting(r, k)' /\ Dropping(r)')
  <2>1. CASE r = p
    <3>1. k \in round[p] /\ k # q /\ k \in Questions
      BY <1>1, <2>1 DEF TypeOK
    <3>2. entry'[p][k] = entry[p][k]
      BY <1>1, <3>1 DEF TypeOK
    <3>3. ~Visiting(p, k)
      BY <3>1 DEF Visiting
    <3> QED BY <2>1, <3>1, <3>2, <3>3 DEF VisitsSound
  <2>2. CASE r # p
    <3>1. k \in round[r] /\ entry'[r] = entry[r] /\ visit'[r] = visit[r]
      BY <1>1, <2>2 DEF TypeOK
    <3> QED BY <3>1 DEF VisitsSound, Visiting, Dropping
  <2> QED BY <2>1, <2>2
<1>4. OneTeller'
  BY <1>1 DEF OneTeller, At, TypeOK
<1> QED BY <1>2, <1>3, <1>4 DEF VisitsSound

\* A visit that goes on: w is what it knows and where it is.
LEMMA GoesOn ==
  ASSUME TypeOK, VisitsSound, NEW p \in Procs, NEW w \in Visit,
         visit' = [visit EXCEPT ![p] = w], UNCHANGED <<entry, round>>,
         visit[p] # NoVisit, w.q = visit[p].q,
         w.step \in {"show", "finalize"} => w.row # NoRow,
         Dropping(p) => w.step \in {"abandon", "closeAbandoned"}
  PROVE  /\ VisitsSound'
         /\ visit' \in [Procs -> Visit \cup {NoVisit}]
         /\ w.step # "notify" /\ OneTeller => OneTeller'
<1>1. w # NoVisit
  BY NoValueAssumption
<1>2. visit' \in [Procs -> Visit \cup {NoVisit}] /\ visit'[p] = w
      /\ \A r \in Procs \ {p} : visit'[r] = visit[r]
  BY DEF TypeOK
<1>3. ASSUME NEW r \in Procs, visit'[r] # NoVisit
      PROVE  /\ visit'[r].q \in round'[r]
             /\ visit'[r].step \in {"show", "finalize"} => visit'[r].row # NoRow
  BY <1>2, <1>3 DEF VisitsSound
<1>4. ASSUME NEW r \in Procs, NEW k \in round'[r]
      PROVE  entry'[r][k] # NoEntry \/ (Visiting(r, k)' /\ Dropping(r)')
  BY <1>1, <1>2 DEF VisitsSound, Visiting, Dropping
<1>5. w.step # "notify" /\ OneTeller => OneTeller'
  BY <1>2 DEF OneTeller, At
<1> QED BY <1>2, <1>3, <1>4, <1>5 DEF VisitsSound

\* A draft may end, once.
DraftsEnd ==
  \A k \in Questions :
    message'[k] = message[k] \/ (message[k] = "streaming" /\ message'[k] \in {"complete", "failed"})

\* What is known of a visit stays true while drafts end.
LEMMA VisitStays ==
  ASSUME TypeOK, OutcomesSound, NEW r \in Procs, visit[r] # NoVisit, visit'[r] = visit[r],
         UNCHANGED <<notes, verdicts>>, DraftsEnd
  PROVE  VisitSound(visit[r])'
<1>1. VisitSound(visit[r]) /\ visit[r].q \in Questions
  BY DEF OutcomesSound, TypeOK, Visit
<1>2. /\ message'[visit[r].q] = message[visit[r].q]
         \/ (message[visit[r].q] = "streaming" /\ message'[visit[r].q] \in {"complete", "failed"})
  BY <1>1 DEF DraftsEnd
<1> QED BY <1>1, <1>2 DEF VisitSound, Ended

\* No notification has been sent of a draft that streams.
LEMMA StreamingIsSilent ==
  ASSUME TypeOK, NotifiedTruthfully, NEW q \in Questions, message[q] \notin {"complete", "failed"}
  PROVE  notes[q].info = 0 /\ notes[q].error = 0
<1>1. notes[q].info \in Nat /\ notes[q].error \in Nat
  BY DEF TypeOK
<1>2. notes[q].info # 1 /\ notes[q].error # 1 /\ notes[q].info + notes[q].error <= 1
  BY DEF NotifiedTruthfully
<1> QED BY <1>1, <1>2

\* What the author has been told stays true while drafts end (finalize and
\* mark_failed write only a draft that is streaming).
LEMMA DraftsEndSound ==
  ASSUME TypeOK, NotifiedTruthfully, DraftsEnd, UNCHANGED <<notes, verdicts>>
  PROVE  NotifiedTruthfully'
<1> SUFFICES ASSUME NEW q \in Questions
             PROVE  /\ notes[q].info + notes[q].error <= 1
                    /\ notes[q].info = 1 => message'[q] = "complete" /\ "completed" \in verdicts[q]
                    /\ notes[q].error = 1 => message'[q] = "failed" /\ "failed" \in verdicts[q]
  BY DEF NotifiedTruthfully
<1>1. CASE message'[q] = message[q]
  BY <1>1 DEF NotifiedTruthfully
<1>2. CASE message[q] = "streaming"
  BY <1>2, StreamingIsSilent
<1> QED BY <1>1, <1>2 DEF DraftsEnd

\* Only the draft and the visits change: what the bus says stays sound.
LEMMA BusStays ==
  ASSUME TypeOK, SubmittedSound, BusSound, DraftsEnd, UNCHANGED <<question, answer, verdicts, entry, round>>
  PROVE  SubmittedSound' /\ BusSound'
<1>1. SubmittedSound'
  BY DEF SubmittedSound, DraftsEnd
<1>2. BusSound'
  BY DEF BusSound, DraftsEnd, Ended
<1> QED BY <1>1, <1>2

\* The visit under way, its question and its entry.
LEMMA UnderWay ==
  ASSUME IInv, NEW p \in Procs, visit[p] # NoVisit
  PROVE  /\ visit[p] \in Visit /\ visit[p].q \in Questions /\ visit[p].q \in round[p]
         /\ VisitSound(visit[p])
         /\ message[visit[p].q] # "none" /\ question[visit[p].q] # "none"
         /\ ~Dropping(p) => entry[p][visit[p].q] \in Entry
<1>1. visit[p] \in Visit /\ visit[p].q \in Questions
  BY DEF IInv, TypeOK, Visit
<1>2. visit[p].q \in round[p] /\ VisitSound(visit[p])
  BY DEF IInv, Sound, VisitsSound, OutcomesSound
<1>3. message[visit[p].q] # "none" /\ question[visit[p].q] # "none"
  BY <1>1, <1>2 DEF IInv, Sound, SubmittedSound
<1>4. ~Dropping(p) => entry[p][visit[p].q] \in Entry
  BY <1>1, <1>2 DEF IInv, Sound, VisitsSound, TypeOK
<1> QED BY <1>1, <1>2, <1>3, <1>4

\* A step of a visit that reads, or writes no more than blocks: nothing but the
\* visit itself has to be looked at.
LEMMA ReadSound ==
  ASSUME IInv, NEW p \in Procs, NEW w \in Visit,
         visit' = [visit EXCEPT ![p] = w], visit[p] # NoVisit, w.q = visit[p].q, ~Dropping(p),
         w.step \in {"show", "finalize"} => w.row # NoRow, w.step # "notify",
         VisitSound(w),
         UNCHANGED <<bus, message, notes, up, stops, entry, round, rested>>,
         shown' \in [Questions -> SUBSET (1..MaxRows)]
  PROVE  IInv'
<1> USE DEF IInv, Sound, bus
<1>1. VisitsSound' /\ visit' \in [Procs -> Visit \cup {NoVisit}] /\ OneTeller'
  BY GoesOn
<1>2. TypeOK'
  BY <1>1 DEF TypeOK
<1>3. OutcomesSound'
  <2> SUFFICES ASSUME NEW r \in Procs, visit'[r] # NoVisit
               PROVE  VisitSound(visit[r])'
    BY DEF OutcomesSound
  <2>1. CASE r = p
    <3>1. visit'[r] = w
      BY <2>1 DEF TypeOK
    <3> QED BY <3>1 DEF VisitSound, Ended
  <2>2. CASE r # p
    <3>1. visit'[r] = visit[r] /\ visit[r] # NoVisit
      BY <2>2 DEF TypeOK
    <3>2. VisitSound(visit[r])
      BY <3>1 DEF OutcomesSound
    <3> QED BY <3>1, <3>2 DEF VisitSound, Ended
  <2> QED BY <2>1, <2>2
<1>4. DraftsEnd
  BY DEF DraftsEnd
<1>5. SubmittedSound' /\ BusSound'
  BY <1>4, BusStays
<1>6. NotifiedTruthfully'
  BY <1>4, DraftsEndSound
<1> QED BY <1>1, <1>2, <1>3, <1>5, <1>6

\* A visit that ends without a word to anybody: its entry stays, or the draft has ended.
LEMMA LeaveKeeps ==
  ASSUME IInv, NEW p \in Procs, NEW q \in Questions, NEW e \in Entry \cup {NoEntry},
         Leave(p, q, e), visit[p] # NoVisit => visit[p].q = q, message[q] # "none",
         UNCHANGED <<bus, chat, up, stops, rested>>
  PROVE  IInv'
<1> USE DEF IInv, Sound, bus, chat
<1>1. /\ visit' = [visit EXCEPT ![p] = NoVisit]
      /\ round' = [round EXCEPT ![p] = @ \ {q}]
      /\ entry' = [entry EXCEPT ![p][q] = e]
  BY DEF Leave
<1>2. TypeOK'
  BY LeaveType DEF TypeOK
<1>3. VisitsSound' /\ OneTeller'
  BY LeaveSound
<1>4. OutcomesSound'
  BY <1>1 DEF OutcomesSound, VisitSound, Ended, TypeOK
<1>5. SubmittedSound'
  BY <1>1 DEF SubmittedSound, TypeOK
<1>6. BusSound' /\ NotifiedTruthfully'
  BY DEF BusSound, NotifiedTruthfully, Ended
<1> QED BY <1>2, <1>3, <1>4, <1>5, <1>6

\* The steps of a visit that read the bus, and the one that shows reasoning.
LEMMA ReadingSound ==
  ASSUME ChannelAssumption, IInv, NEW p \in Procs, ReadAnswer(p) \/ CountAhead(p) \/ Show(p)
  PROVE  IInv'
<1> DEFINE v == visit[p]
<1>0. v # NoVisit /\ ~Dropping(p)
  BY DEF ReadAnswer, CountAhead, Show, At, Dropping
<1>1. v \in Visit /\ v.q \in Questions /\ VisitSound(v)
  BY <1>0, UnderWay
<1>2. shown \in [Questions -> SUBSET (1..MaxRows)]
  BY DEF IInv, TypeOK
<1>3. CASE ReadAnswer(p)
  <2> DEFINE e == entry[p][v.q]
             row == answer[v.q]
             w == [v EXCEPT !.row = row, !.changed = row # NoRow /\ e.base = "old",
                            !.step = AfterRead(v, row, e)]
  <2>1. visit' = [visit EXCEPT ![p] = w] /\ UNCHANGED <<bus, chat, up, stops, entry, round, rested>>
    BY <1>3 DEF ReadAnswer
  <2>2. row \in Row \cup {NoRow}
    BY <1>1 DEF IInv, TypeOK
  <2>3. AfterRead(v, row, e) \in {"fail", "count", "judge", "finalize", "show"}
    BY DEF AfterRead
  <2>4. w \in Visit
    BY <1>1, <2>2, <2>3 DEF Visit, Steps
  <2>5. w.q = v.q /\ w.row = row /\ w.status = v.status /\ w.step = AfterRead(v, row, e)
    BY <1>1 DEF Visit
  <2>6. w.step \in {"show", "finalize"} => w.row # NoRow
    BY <2>5 DEF AfterRead
  <2>7. row # NoRow /\ row.status # "processing" => row.status \in verdicts[v.q]
    BY <1>1 DEF IInv, Sound, BusSound
  <2>8. VisitSound(w)
    <3>1. w.step = "finalize" => row # NoRow /\ row.status = "completed"
      BY <2>5 DEF AfterRead
    <3>2. w.step = "fail" => (row = NoRow /\ v.status = "failed") \/ (row # NoRow /\ row.status = "failed")
      BY <2>5 DEF AfterRead
    <3> HIDE DEF w, row, e
    <3> QED BY <1>1, <2>3, <2>5, <2>7, <3>1, <3>2 DEF VisitSound, Ended
  <2>9. w.step # "notify"
    BY <2>3, <2>5
  <2> HIDE DEF w
  <2> QED BY <1>0, <1>2, <2>1, <2>4, <2>5, <2>6, <2>8, <2>9, ReadSound DEF chat
<1>4. CASE CountAhead(p)
  <2> DEFINE n == others + Cardinality({k \in Questions : k < v.q /\ question[k] = "pending"})
             w == [v EXCEPT !.step = "judge", !.ahead = n]
  <2>1. visit' = [visit EXCEPT ![p] = w] /\ UNCHANGED <<bus, chat, up, stops, entry, round, rested>>
    BY <1>0, <1>4 DEF CountAhead, IInv, TypeOK
  <2>2. n \in Nat
    <3>1. IsFiniteSet({k \in Questions : k < v.q /\ question[k] = "pending"})
      BY FS_Subset DEF ChannelAssumption
    <3>2. Cardinality({k \in Questions : k < v.q /\ question[k] = "pending"}) \in Nat
      BY <3>1, FS_CardinalityType
    <3>3. others \in Nat
      BY DEF IInv, TypeOK, ChannelAssumption
    <3> QED BY <3>2, <3>3
  <2> HIDE DEF n
  <2>3. w \in Visit /\ w.q = v.q /\ w.row = v.row /\ w.status = v.status /\ w.step = "judge"
    BY <1>1, <2>2 DEF Visit, Steps
  <2>4. VisitSound(w)
    BY <1>1, <2>3 DEF VisitSound, Ended
  <2> HIDE DEF w
  <2> QED BY <1>0, <1>2, <2>1, <2>3, <2>4, ReadSound DEF chat
<1>5. CASE Show(p)
  <2> DEFINE w == [v EXCEPT !.step = "judge"]
  <2>1. visit' = [visit EXCEPT ![p] = w]
        /\ UNCHANGED <<bus, message, notes, up, stops, entry, round, rested>>
    BY <1>0, <1>5 DEF Show, Onward, IInv, TypeOK
  <2>2. v.row \in Row
    BY <1>0, <1>1, <1>5 DEF Show, At, IInv, Sound, VisitsSound, Visit
  <2>3. shown' \in [Questions -> SUBSET (1..MaxRows)]
    <3>1. v.row.id \in 1..MaxRows
      BY <2>2 DEF Row
    <3>2. shown' = shown \/ shown' = [shown EXCEPT ![v.q] = @ \cup {v.row.id}]
      BY <1>5 DEF Show
    <3> QED BY <1>1, <1>2, <3>1, <3>2
  <2>4. w \in Visit /\ w.q = v.q /\ w.row = v.row /\ w.status = v.status /\ w.step = "judge"
    BY <1>1 DEF Visit, Steps
  <2>5. VisitSound(w)
    BY <1>1, <2>4 DEF VisitSound, Ended
  <2> HIDE DEF w
  <2> QED BY <1>0, <2>1, <2>3, <2>4, <2>5, ReadSound
<1> QED BY <1>3, <1>4, <1>5

\* finalize, mark_failed and mark_timeout: the draft may end, and the visit goes on
\* knowing what the agent has said.
LEMMA EndingSound ==
  ASSUME IInv, NEW p \in Procs, NEW w \in Visit,
         visit' = [visit EXCEPT ![p] = w], visit[p] # NoVisit, w.q = visit[p].q,
         w.step \notin {"show", "finalize"},
         Dropping(p) => w.step \in {"abandon", "closeAbandoned"},
         DraftsEnd, VisitSound(visit[p])',
         w.step = "notify" => message[w.q] = "streaming",
         UNCHANGED <<bus, notes, up, stops, entry, round, rested>>,
         message' \in [Questions -> {"none", "streaming", "complete", "failed"}],
         shown' \in [Questions -> SUBSET (1..MaxRows)]
  PROVE  IInv'
<1> USE DEF IInv, Sound, bus
<1>1. VisitsSound' /\ visit' \in [Procs -> Visit \cup {NoVisit}]
      /\ (w.step # "notify" /\ OneTeller => OneTeller')
  BY GoesOn
<1>2. TypeOK'
  BY <1>1 DEF TypeOK
<1>3. OutcomesSound'
  <2> SUFFICES ASSUME NEW r \in Procs, visit'[r] # NoVisit
               PROVE  VisitSound(visit[r])'
    BY DEF OutcomesSound
  <2>1. CASE r = p
    BY <2>1
  <2>2. CASE r # p
    <3>1. visit'[r] = visit[r] /\ visit[r] # NoVisit
      BY <2>2 DEF TypeOK
    <3> QED BY <3>1, VisitStays
  <2> QED BY <2>1, <2>2
<1>4. OneTeller'
  <2>1. CASE w.step = "notify"
    <3>1. visit'[p] = w /\ \A r \in Procs \ {p} : visit'[r] = visit[r]
      BY DEF TypeOK
    <3>2. \A r \in Procs \ {p} : ~(At(r, "notify") /\ visit[r].q = w.q)
      BY <2>1 DEF OutcomesSound, VisitSound, At
    <3> QED BY <3>1, <3>2 DEF OneTeller, At
  <2> QED BY <1>1, <2>1
<1>5. SubmittedSound' /\ BusSound'
  BY BusStays
<1>6. NotifiedTruthfully'
  BY DraftsEndSound
<1> QED BY <1>1, <1>2, <1>3, <1>4, <1>5, <1>6

\* A visit whose draft has ended is a visit (Ending).
LEMMA EndingType ==
  ASSUME NEW v \in Visit, NEW step \in Steps, NEW o \in {"completed", "failed"}
  PROVE  /\ Ending(v, step, o) \in Visit
         /\ Ending(v, step, o).q = v.q /\ Ending(v, step, o).step = step
         /\ Ending(v, step, o).outcome = o /\ Ending(v, step, o).row = v.row
         /\ Ending(v, step, o).status = "none"
BY DEF Ending, NewVisit, Visit, QuestionStatuses

\* mark_failed: the draft is over, failed by this call if it was streaming.
LEMMA MarkedFailed ==
  ASSUME IInv, NEW q \in Questions, MarkFailed(q), message[q] # "none"
  PROVE  /\ DraftsEnd /\ message'[q] \in {"complete", "failed"}
         /\ Ends(q) => message'[q] = "failed"
         /\ message' \in [Questions -> {"none", "streaming", "complete", "failed"}]
BY DEF IInv, TypeOK, MarkFailed, Ends, DraftsEnd

\* finalize: whoever ends the draft has read a completed answer row.
LEMMA FinalizeSound ==
  ASSUME ChannelAssumption, IInv, NEW p \in Procs, Finalize(p)
  PROVE  IInv'
<1> DEFINE v == visit[p]
           step == IF Ends(v.q) THEN "notify" ELSE "close"
           w == Ending(v, step, "completed")
<1>1. v # NoVisit /\ v.step = "finalize"
  BY DEF Finalize, At
<1>2. v \in Visit /\ v.q \in Questions /\ VisitSound(v) /\ message[v.q] # "none" /\ ~Dropping(p)
  BY <1>1, UnderWay DEF Dropping
<1>3. visit' = [visit EXCEPT ![p] = w] /\ UNCHANGED <<bus, notes, up, stops, entry, round, rested>>
  BY DEF Finalize
<1>4. w \in Visit /\ w.q = v.q /\ w.step = step /\ w.outcome = "completed" /\ w.row = v.row
      /\ w.status = "none"
  BY <1>2, EndingType DEF Steps
<1>5. message' = IF Ends(v.q) THEN [message EXCEPT ![v.q] = "complete"] ELSE message
  BY DEF Finalize
<1>6. /\ DraftsEnd /\ message'[v.q] \in {"complete", "failed"}
      /\ Ends(v.q) => message'[v.q] = "complete"
      /\ message' \in [Questions -> {"none", "streaming", "complete", "failed"}]
  BY <1>2, <1>5 DEF IInv, TypeOK, Ends, DraftsEnd
<1>7. shown' \in [Questions -> SUBSET (1..MaxRows)]
  <2>1. v.row \in Row
    BY <1>1, <1>2 DEF IInv, Sound, VisitsSound, Visit
  <2>2. v.row.id \in 1..MaxRows
    BY <2>1 DEF Row
  <2>3. shown' = shown \/ shown' = [shown EXCEPT ![v.q] = @ \cup {v.row.id}]
    BY DEF Finalize
  <2> QED BY <1>2, <2>2, <2>3 DEF IInv, TypeOK
<1>8. VisitSound(visit[p])'
  <2>1. "completed" \in verdicts[v.q]
    BY <1>1, <1>2 DEF VisitSound
  <2>2. w.step = "notify" => notes[v.q].info = 0 /\ notes[v.q].error = 0
    BY <1>2, <1>4, StreamingIsSilent DEF Ends, IInv, Sound
  <2>3. verdicts' = verdicts /\ notes' = notes
    BY <1>3 DEF bus
  <2>4. v.row # NoRow /\ v.row.status # "processing" => v.row.status \in verdicts[v.q]
    BY <1>2 DEF VisitSound
  <2>5. w.step \in {"notify", "close"} /\ (w.step = "notify" => message'[v.q] = "complete")
    BY <1>4, <1>6
  <2>6. visit'[p] = w
    BY <1>3 DEF IInv, TypeOK
  <2> HIDE DEF w
  <2> QED BY <2>6, <1>4, <1>6, <2>1, <2>2, <2>3, <2>4, <2>5 DEF VisitSound, Ended
<1>9. w.step \notin {"show", "finalize"} /\ (w.step = "notify" => message[w.q] = "streaming")
  BY <1>4 DEF Ends
<1> HIDE DEF w
<1> QED BY <1>1, <1>2, <1>3, <1>4, <1>6, <1>7, <1>8, <1>9, EndingSound

\* mark_failed on the agent's error: whoever ends the draft has read the error.
LEMMA FailSound ==
  ASSUME ChannelAssumption, IInv, NEW p \in Procs, Fail(p)
  PROVE  IInv'
<1> DEFINE v == visit[p]
           step == IF Ends(v.q) THEN "notify" ELSE "close"
           w == Ending(v, step, "failed")
<1>1. v # NoVisit /\ v.step = "fail" /\ MarkFailed(v.q)
      /\ UNCHANGED <<bus, shown, notes, up, stops, rested>>
  BY DEF Fail, At
<1>2. v \in Visit /\ v.q \in Questions /\ VisitSound(v) /\ message[v.q] # "none" /\ ~Dropping(p)
  BY <1>1, UnderWay DEF Dropping
<1>3. CASE ~Ends(v.q) /\ v.row = NoRow
  <2>1. message' = message /\ Leave(p, v.q, NoEntry)
    BY <1>1, <1>3 DEF Fail, MarkFailed
  <2> QED BY <1>1, <1>2, <2>1, LeaveKeeps DEF chat
<1>4. CASE ~(~Ends(v.q) /\ v.row = NoRow)
  <2>1. visit' = [visit EXCEPT ![p] = w] /\ UNCHANGED <<entry, round>>
    BY <1>4 DEF Fail
  <2>2. w \in Visit /\ w.q = v.q /\ w.step = step /\ w.outcome = "failed" /\ w.row = v.row
        /\ w.status = "none"
    BY <1>2, EndingType DEF Steps
  <2>3. /\ DraftsEnd /\ message'[v.q] \in {"complete", "failed"}
        /\ Ends(v.q) => message'[v.q] = "failed"
        /\ message' \in [Questions -> {"none", "streaming", "complete", "failed"}]
    BY <1>1, <1>2, MarkedFailed
  <2>4. VisitSound(visit[p])'
    <3>1. Ends(v.q) => "failed" \in verdicts[v.q]
      BY <1>1, <1>2 DEF VisitSound, Ended, Ends
    <3>2. w.step = "notify" => notes[v.q].info = 0 /\ notes[v.q].error = 0
      BY <1>2, <2>2, StreamingIsSilent DEF Ends, IInv, Sound
    <3>3. verdicts' = verdicts /\ notes' = notes
      BY <1>1 DEF bus
    <3>4. v.row # NoRow /\ v.row.status # "processing" => v.row.status \in verdicts[v.q]
      BY <1>2 DEF VisitSound
    <3>5. w.step \in {"notify", "close"} /\ (w.step = "notify" => Ends(v.q) /\ message'[v.q] = "failed")
      BY <2>2, <2>3
    <3>6. visit'[p] = w
      BY <2>1 DEF IInv, TypeOK
    <3> HIDE DEF w
    <3> QED BY <3>6, <2>2, <2>3, <3>1, <3>2, <3>3, <3>4, <3>5 DEF VisitSound, Ended
  <2>5. w.step \notin {"show", "finalize"} /\ (w.step = "notify" => message[w.q] = "streaming")
    BY <2>2 DEF Ends
  <2>6. shown' \in [Questions -> SUBSET (1..MaxRows)]
    BY <1>1 DEF IInv, TypeOK
  <2> HIDE DEF w
  <2> QED BY <1>1, <1>2, <2>1, <2>2, <2>3, <2>4, <2>5, <2>6, EndingSound
<1> QED BY <1>3, <1>4

\* mark_timeout, of a silent question or of a dropped one: nobody is told.
LEMMA TimeoutSound ==
  ASSUME ChannelAssumption, IInv, NEW p \in Procs, Timeout(p)
  PROVE  IInv'
<1> DEFINE v == visit[p]
<1>1. PICK s \in {"timeout", "abandon"} :
        /\ At(p, s)
        /\ visit' = [visit EXCEPT ![p] =
                      Ending(@, IF s = "timeout" THEN "close" ELSE "closeAbandoned", "failed")]
  BY DEF Timeout
<1> DEFINE step == IF s = "timeout" THEN "close" ELSE "closeAbandoned"
           w == Ending(v, step, "failed")
<1>2. v # NoVisit /\ v.step = s /\ MarkFailed(v.q)
      /\ UNCHANGED <<bus, shown, notes, up, stops, entry, round, rested>>
  BY <1>1 DEF Timeout, At
<1>3. v \in Visit /\ v.q \in Questions /\ VisitSound(v) /\ message[v.q] # "none"
  BY <1>2, UnderWay
<1>4. visit' = [visit EXCEPT ![p] = w]
  BY <1>1 DEF IInv, TypeOK
<1>5. w \in Visit /\ w.q = v.q /\ w.step = step /\ w.outcome = "failed" /\ w.row = v.row
      /\ w.status = "none"
  BY <1>3, EndingType DEF Steps
<1>6. /\ DraftsEnd /\ message'[v.q] \in {"complete", "failed"}
      /\ message' \in [Questions -> {"none", "streaming", "complete", "failed"}]
  BY <1>2, <1>3, MarkedFailed
<1>7. VisitSound(visit[p])'
  <2>1. verdicts' = verdicts
    BY <1>2 DEF bus
  <2>2. v.row # NoRow /\ v.row.status # "processing" => v.row.status \in verdicts[v.q]
    BY <1>3 DEF VisitSound
  <2>3. w.step \in {"close", "closeAbandoned"}
    BY <1>5
  <2>4. visit'[p] = w
    BY <1>4 DEF IInv, TypeOK
  <2> HIDE DEF w
  <2> QED BY <2>4, <1>5, <1>6, <2>1, <2>2, <2>3 DEF VisitSound, Ended
<1>8. Dropping(p) => w.step \in {"abandon", "closeAbandoned"}
  BY <1>2, <1>5 DEF Dropping
<1>9. w.step \notin {"show", "finalize", "notify"}
  BY <1>5
<1>10. shown' \in [Questions -> SUBSET (1..MaxRows)]
  BY <1>2 DEF IInv, TypeOK
<1> HIDE DEF w
<1> QED BY <1>2, <1>3, <1>4, <1>5, <1>6, <1>7, <1>8, <1>9, <1>10, EndingSound

\* The author is told: nobody else is about to, and nobody has.
LEMMA NotifySound ==
  ASSUME ChannelAssumption, IInv, NEW p \in Procs, Notify(p)
  PROVE  IInv'
<1> DEFINE v == visit[p]
           q == v.q
           kind == IF v.outcome = "completed" THEN "info" ELSE "error"
<1>1. v # NoVisit /\ v.step = "notify" /\ At(p, "notify") /\ ~Dropping(p)
      /\ UNCHANGED <<bus, message, shown, up, stops, rested>>
  BY DEF Notify, At, Dropping
<1>2. v \in Visit /\ q \in Questions /\ VisitSound(v) /\ message[q] # "none"
      /\ q \in round[p] /\ entry[p][q] \in Entry
  BY <1>1, UnderWay
<1>3. /\ v.outcome \in {"completed", "failed"} /\ v.outcome \in verdicts[q] /\ Ended(q)
      /\ message[q] = (IF v.outcome = "completed" THEN "complete" ELSE "failed")
      /\ notes[q].info = 0 /\ notes[q].error = 0
  BY <1>1, <1>2 DEF VisitSound, Visit
<1>4. notes' = notes \/ notes' = [notes EXCEPT ![q][kind] = @ + 1]
  BY DEF Notify
<1>5. /\ notes' \in [Questions -> [info : Nat, error : Nat]]
      /\ \A k \in Questions \ {q} : notes'[k] = notes[k]
      /\ notes'[q].info \in {0, 1} /\ notes'[q].error \in {0, 1}
      /\ notes'[q].info = 1 => v.outcome = "completed"
      /\ notes'[q].error = 1 => v.outcome = "failed"
      /\ notes'[q].info + notes'[q].error <= 1
  <2>0. notes \in [Questions -> [info : Nat, error : Nat]]
    BY DEF IInv, TypeOK
  <2>1. CASE notes' = notes
    BY <1>2, <1>3, <2>0, <2>1
  <2>2. CASE notes' = [notes EXCEPT ![q][kind] = @ + 1] /\ v.outcome = "completed"
    <3>1. notes' = [notes EXCEPT ![q].info = @ + 1]
      BY <2>2
    <3>2. [notes[q] EXCEPT !.info = @ + 1] \in [info : Nat, error : Nat]
      BY <1>2, <2>0
    <3>3. notes' = [notes EXCEPT ![q] = [notes[q] EXCEPT !.info = @ + 1]]
      BY <3>1
    <3> QED BY <1>2, <1>3, <2>0, <2>2, <3>2, <3>3
  <2>3. CASE notes' = [notes EXCEPT ![q][kind] = @ + 1] /\ v.outcome = "failed"
    <3>1. notes' = [notes EXCEPT ![q].error = @ + 1]
      BY <2>3
    <3>2. [notes[q] EXCEPT !.error = @ + 1] \in [info : Nat, error : Nat]
      BY <1>2, <2>0
    <3>3. notes' = [notes EXCEPT ![q] = [notes[q] EXCEPT !.error = @ + 1]]
      BY <3>1
    <3> QED BY <1>2, <1>3, <2>0, <2>3, <3>2, <3>3
  <2> QED BY <1>3, <1>4, <2>1, <2>2, <2>3
<1>6. NotifiedTruthfully'
  BY <1>1, <1>3, <1>5 DEF NotifiedTruthfully, IInv, Sound, bus
<1>7. \A r \in Procs \ {p} : visit'[r] = visit[r]
                             /\ (visit[r] # NoVisit => VisitSound(visit[r])')
  <2> SUFFICES ASSUME NEW r \in Procs \ {p}
               PROVE  visit'[r] = visit[r] /\ (visit[r] # NoVisit => VisitSound(visit[r])')
    OBVIOUS
  <2>1. visit'[r] = visit[r]
    BY DEF Notify, Leave, Onward, IInv, TypeOK
  <2>2. ASSUME visit[r] # NoVisit PROVE VisitSound(visit[r])'
    <3>1. VisitSound(visit[r]) /\ visit[r].q \in Questions
      BY <2>2, UnderWay
    <3>2. visit[r].step = "notify" => visit[r].q # q
      BY <1>1, <2>2 DEF IInv, Sound, OneTeller, At
    <3> QED BY <1>1, <1>5, <2>1, <3>1, <3>2 DEF VisitSound, Ended, bus
  <2> QED BY <2>1, <2>2
<1>8. BusSound'
  BY <1>1 DEF IInv, Sound, BusSound, Ended, bus
<1>9. CASE v.row = NoRow
  <2>1. Leave(p, q, NoEntry)
    BY <1>9 DEF Notify
  <2>2. TypeOK'
    BY <1>1, <1>2, <1>5, <2>1, LeaveType DEF IInv, TypeOK, bus
  <2>3. VisitsSound' /\ OneTeller'
    BY <1>2, <2>1, LeaveSound DEF IInv, Sound
  <2>4. OutcomesSound'
    BY <1>7, <2>1 DEF Leave, OutcomesSound, IInv, TypeOK
  <2>5. SubmittedSound'
    BY <1>1, <1>2, <2>1 DEF Leave, SubmittedSound, IInv, Sound, TypeOK, bus
  <2> QED BY <1>6, <1>8, <2>2, <2>3, <2>4, <2>5 DEF IInv, Sound
<1>10. CASE v.row # NoRow
  <2> DEFINE w == [v EXCEPT !.step = "close"]
  <2>1. visit' = [visit EXCEPT ![p] = w] /\ UNCHANGED <<entry, round>>
    BY <1>1, <1>10 DEF Notify, Onward, IInv, TypeOK
  <2>2. w \in Visit /\ w.q = q /\ w.row = v.row /\ w.status = v.status /\ w.step = "close"
        /\ w.outcome = v.outcome
    BY <1>2 DEF Visit, Steps
  <2> HIDE DEF w
  <2>3. VisitsSound' /\ visit' \in [Procs -> Visit \cup {NoVisit}] /\ OneTeller'
    BY <1>1, <2>1, <2>2, GoesOn DEF IInv, Sound
  <2>4. TypeOK'
    BY <1>1, <1>5, <2>1, <2>3 DEF IInv, TypeOK, bus
  <2>5. VisitSound(visit[p])'
    <3>1. visit'[p] = w
      BY <2>1 DEF IInv, TypeOK
    <3> QED BY <1>1, <1>2, <1>3, <2>2, <3>1 DEF VisitSound, Ended, bus
  <2>6. OutcomesSound'
    BY <1>7, <2>5 DEF OutcomesSound
  <2>7. SubmittedSound'
    BY <1>1, <2>1 DEF SubmittedSound, IInv, Sound, bus
  <2> QED BY <1>6, <1>8, <2>3, <2>4, <2>6, <2>7 DEF IInv, Sound
<1> QED BY <1>9, <1>10

\* The status of the question follows the draft (_set_status_safe).
LEMMA CloseSound ==
  ASSUME ChannelAssumption, IInv, NEW p \in Procs, Close(p)
  PROVE  IInv'
<1> DEFINE v == visit[p]
           q == v.q
<1>1. v # NoVisit /\ v.step \in {"close", "closeAbandoned"} /\ Leave(p, q, NoEntry)
      /\ SetStatus(q, v.outcome)
      /\ UNCHANGED <<answer, rows, hush, verdicts, chat, up, stops, rested, others>>
  BY DEF Close, At
<1>2. v \in Visit /\ q \in Questions /\ VisitSound(v) /\ message[q] # "none" /\ question[q] # "none"
  BY <1>1, UnderWay
<1>3. v.outcome \in {"completed", "failed"} /\ Ended(q)
  BY <1>1, <1>2 DEF VisitSound, Visit
<1>4. /\ question' \in [Questions -> QuestionStatuses]
      /\ \A k \in Questions \ {q} : question'[k] = question[k]
      /\ question'[q] # "none"
  BY <1>1, <1>2, <1>3 DEF SetStatus, IInv, TypeOK, QuestionStatuses
<1>5. TypeOK'
  BY <1>1, <1>2, <1>4, LeaveType DEF IInv, TypeOK, chat
<1>6. VisitsSound' /\ OneTeller'
  BY <1>1, <1>2, LeaveSound DEF IInv, Sound
<1>7. OutcomesSound'
  BY <1>1 DEF Leave, OutcomesSound, VisitSound, Ended, IInv, Sound, TypeOK, chat
<1>8. SubmittedSound'
  BY <1>1, <1>2, <1>4 DEF Leave, SubmittedSound, IInv, Sound, TypeOK, chat
<1>9. BusSound'
  BY <1>1, <1>3, <1>4 DEF BusSound, Ended, IInv, Sound, chat
<1>10. NotifiedTruthfully'
  BY <1>1 DEF NotifiedTruthfully, IInv, Sound, chat
<1> QED BY <1>5, <1>6, <1>7, <1>8, <1>9, <1>10 DEF IInv, Sound

\* What a visit has seen makes an entry of an entry.
LEMMA JudgedType ==
  ASSUME ChannelAssumption, NEW v \in Visit, NEW e \in Entry
  PROVE  Judged(v, e) \in Entry /\ [Judged(v, e) EXCEPT !.errors = 0] \in Entry
<1> DEFINE d == Judged(v, e)
<1>1. /\ d.phase \in {"pending", "processing"} /\ d.age \in 0..Horizon
      /\ d.ahead \in Nat \cup {None} /\ d.base \in {"none", "same", "old"}
      /\ d.errors \in 0..(MaxErrors - 1)
  <2>1. 0 \in 0..Horizon
    BY DEF ChannelAssumption, Horizon
  <2>2. e.phase \in {"pending", "processing"} /\ e.age \in 0..Horizon
        /\ e.ahead \in Nat \cup {None} /\ e.base \in {"none", "same", "old"}
        /\ e.errors \in 0..(MaxErrors - 1) /\ v.ahead \in Nat \cup {None}
    BY DEF Entry, Visit
  <2> QED BY <2>1, <2>2 DEF Judged
<1>2. d.len \in 0..MaxLen
  <2>1. e.len \in 0..MaxLen /\ 0 \in 0..MaxLen
    BY DEF Entry, ChannelAssumption
  <2>2. Grew(v, e) => v.row.len \in 0..MaxLen
    BY DEF Grew, Visit, Row
  <2> QED BY <2>1, <2>2 DEF Judged
<1>3. d.reversions \in 0..MaxReversions
  <2>1. e.reversions \in 0..MaxReversions /\ MaxReversions \in Nat
    BY DEF Entry, ChannelAssumption
  <2> QED BY <2>1 DEF Judged
<1>4. d = [phase |-> d.phase, age |-> d.age, len |-> d.len, ahead |-> d.ahead, base |-> d.base,
           errors |-> d.errors, reversions |-> d.reversions]
  BY DEF Judged
<1>5. 0 \in 0..(MaxErrors - 1)
  BY DEF ChannelAssumption
<1> HIDE DEF d
<1>6. d \in Entry
  BY <1>1, <1>2, <1>3, <1>4 DEF Entry
<1> QED BY <1>5, <1>6 DEF Entry, d

\* The signs of life: the entry is renewed, or the question is timed out.
LEMMA JudgeSound ==
  ASSUME ChannelAssumption, IInv, NEW p \in Procs, Judge(p)
  PROVE  IInv'
<1> DEFINE v == visit[p]
           q == v.q
           e == Judged(v, entry[p][q])
           w == [v EXCEPT !.step = "timeout"]
<1>1. v # NoVisit /\ v.step = "judge" /\ ~Dropping(p)
      /\ UNCHANGED <<bus, chat, up, stops, rested>>
  BY DEF Judge, At, Dropping
<1>2. v \in Visit /\ q \in Questions /\ VisitSound(v) /\ message[q] # "none"
      /\ q \in round[p] /\ entry[p][q] \in Entry
  BY <1>1, UnderWay
<1>3. e \in Entry /\ [e EXCEPT !.errors = 0] \in Entry
  BY <1>2, JudgedType
<1> HIDE DEF e
<1>4. CASE Leave(p, q, [e EXCEPT !.errors = 0])
  BY <1>1, <1>2, <1>3, <1>4, LeaveKeeps
<1>5. CASE Onward(p, "timeout") /\ entry' = [entry EXCEPT ![p][q] = e] /\ UNCHANGED round
  <2>1. visit' = [visit EXCEPT ![p] = w] /\ visit'[p] = w
        /\ \A r \in Procs \ {p} : visit'[r] = visit[r]
    BY <1>5 DEF Onward, IInv, TypeOK
  <2>2. w \in Visit /\ w.q = q /\ w.row = v.row /\ w.status = v.status /\ w.step = "timeout"
    BY <1>2 DEF Visit, Steps
  <2> HIDE DEF w
  <2>3. w # NoVisit /\ e # NoEntry
    BY <1>3, <2>2, NoValueAssumption
  <2>4. TypeOK'
    BY <1>1, <1>2, <1>3, <1>5, <2>1, <2>2 DEF IInv, TypeOK, bus, chat
  <2>5. VisitsSound'
    <3>1. ASSUME NEW r \in Procs, visit'[r] # NoVisit
          PROVE  /\ visit'[r].q \in round'[r]
                 /\ visit'[r].step \in {"show", "finalize"} => visit'[r].row # NoRow
      BY <1>2, <1>5, <2>1, <2>2, <3>1 DEF IInv, Sound, VisitsSound
    <3>2. ASSUME NEW r \in Procs, NEW k \in round'[r]
          PROVE  entry'[r][k] # NoEntry \/ (Visiting(r, k)' /\ Dropping(r)')
      <4>1. k \in Questions /\ k \in round[r]
        BY <1>5 DEF IInv, TypeOK
      <4>2. CASE r = p /\ k = q
        BY <1>2, <1>5, <2>3, <4>2 DEF IInv, TypeOK
      <4>3. CASE r = p /\ k # q
        <5>1. entry'[r][k] = entry[r][k] /\ ~Visiting(r, k)
          BY <1>5, <4>1, <4>3 DEF IInv, TypeOK, Visiting
        <5> QED BY <4>1, <5>1 DEF IInv, Sound, VisitsSound
      <4>4. CASE r # p
        <5>1. entry'[r] = entry[r] /\ visit'[r] = visit[r]
          BY <1>5, <2>1, <4>4 DEF IInv, TypeOK
        <5> QED BY <4>1, <5>1 DEF IInv, Sound, VisitsSound, Visiting, Dropping
      <4> QED BY <4>2, <4>3, <4>4
    <3> QED BY <3>1, <3>2 DEF VisitsSound
  <2>6. OutcomesSound'
    BY <1>1, <1>2, <2>1, <2>2 DEF IInv, Sound, OutcomesSound, VisitSound, Ended, bus, chat
  <2>7. OneTeller'
    BY <2>1, <2>2 DEF IInv, Sound, OneTeller, At
  <2>8. SubmittedSound'
    BY <1>1, <1>2, <1>5 DEF IInv, Sound, SubmittedSound, TypeOK, bus, chat
  <2>9. BusSound' /\ NotifiedTruthfully'
    BY <1>1 DEF IInv, Sound, BusSound, NotifiedTruthfully, Ended, bus, chat
  <2> QED BY <2>4, <2>5, <2>6, <2>7, <2>8, <2>9 DEF IInv, Sound
<1>6. Leave(p, q, [e EXCEPT !.errors = 0])
      \/ (Onward(p, "timeout") /\ entry' = [entry EXCEPT ![p][q] = e] /\ UNCHANGED round)
  BY DEF Judge, e
<1> QED BY <1>4, <1>5, <1>6


\* A tick visits the questions the process is subscribed to.
LEMMA StartTickSound ==
  ASSUME IInv, NEW p \in Procs, StartTick(p)
  PROVE  IInv'
<1> USE DEF IInv, Sound, bus, chat
<1>1. /\ visit[p] = NoVisit /\ round' = [round EXCEPT ![p] = Subscribed(p)]
      /\ rested' = [rested EXCEPT ![p] = FALSE]
      /\ UNCHANGED <<bus, chat, up, stops, entry, visit>>
  BY DEF StartTick
<1>2. Subscribed(p) \subseteq Questions /\ \A q \in Subscribed(p) : entry[p][q] # NoEntry
  BY DEF Subscribed
<1>3. TypeOK'
  BY <1>1, <1>2 DEF TypeOK
<1>4. VisitsSound'
  <2>1. ASSUME NEW r \in Procs, visit'[r] # NoVisit
        PROVE  /\ visit'[r].q \in round'[r]
               /\ visit'[r].step \in {"show", "finalize"} => visit'[r].row # NoRow
    BY <1>1, <2>1 DEF VisitsSound, TypeOK
  <2>2. ASSUME NEW r \in Procs, NEW k \in round'[r]
        PROVE  entry'[r][k] # NoEntry \/ (Visiting(r, k)' /\ Dropping(r)')
    <3>1. CASE r = p
      BY <1>1, <1>2, <3>1 DEF TypeOK
    <3>2. CASE r # p
      <4>1. k \in round[r]
        BY <1>1, <3>2 DEF TypeOK
      <4> QED BY <1>1, <4>1 DEF VisitsSound, Visiting, Dropping
    <3> QED BY <3>1, <3>2
  <2> QED BY <2>1, <2>2 DEF VisitsSound
<1>5. SubmittedSound'
  BY <1>1, <1>2 DEF SubmittedSound, TypeOK
<1>6. OutcomesSound' /\ OneTeller' /\ BusSound' /\ NotifiedTruthfully'
  BY <1>1 DEF OutcomesSound, VisitSound, OneTeller, At, BusSound, NotifiedTruthfully, Ended
<1> QED BY <1>3, <1>4, <1>5, <1>6

\* A visit to q begins anew, or p is about to drop q: e is the entry it goes with.
LEMMA VisitBegins ==
  ASSUME IInv, NEW p \in Procs, NEW q \in round[p], NEW w \in Visit, NEW e \in Entry \cup {NoEntry},
         visit[p] = NoVisit \/ visit[p].q = q,
         visit' = [visit EXCEPT ![p] = w], entry' = [entry EXCEPT ![p][q] = e],
         w.q = q, w.step \in {"answer", "judge", "abandon"}, w.row = NoRow,
         w.status = "failed" => "failed" \in verdicts[q] \/ Ended(q),
         e = NoEntry => w.step = "abandon",
         UNCHANGED <<bus, chat, up, stops, round, rested>>
  PROVE  IInv'
<1> USE DEF IInv, Sound, bus, chat
<1>1. q \in Questions /\ w # NoVisit /\ visit'[p] = w
      /\ \A r \in Procs \ {p} : visit'[r] = visit[r]
  BY NoValueAssumption DEF TypeOK
<1>2. /\ entry'[p][q] = e
      /\ \A k \in Questions \ {q} : entry'[p][k] = entry[p][k]
      /\ \A r \in Procs \ {p} : entry'[r] = entry[r]
  BY <1>1 DEF TypeOK
<1>3. TypeOK'
  BY <1>1 DEF TypeOK
<1>4. VisitsSound'
  <2>1. ASSUME NEW r \in Procs, visit'[r] # NoVisit
        PROVE  /\ visit'[r].q \in round'[r]
               /\ visit'[r].step \in {"show", "finalize"} => visit'[r].row # NoRow
    BY <1>1, <2>1 DEF VisitsSound
  <2>2. ASSUME NEW r \in Procs, NEW k \in round'[r]
        PROVE  entry'[r][k] # NoEntry \/ (Visiting(r, k)' /\ Dropping(r)')
    <3>1. k \in Questions /\ k \in round[r]
      BY DEF TypeOK
    <3>2. CASE r = p /\ k = q
      BY <1>1, <1>2, <3>2 DEF Visiting, Dropping
    <3>3. CASE r = p /\ k # q
      <4>1. ~Visiting(p, k)
        BY <3>3 DEF Visiting
      <4> QED BY <1>2, <3>1, <3>3, <4>1 DEF VisitsSound
    <3>4. CASE r # p
      <4>1. entry'[r] = entry[r] /\ visit'[r] = visit[r]
        BY <1>1, <1>2, <3>4
      <4> QED BY <3>1, <4>1 DEF VisitsSound, Visiting, Dropping
    <3> QED BY <3>2, <3>3, <3>4
  <2> QED BY <2>1, <2>2 DEF VisitsSound
<1>5. OutcomesSound'
  <2> SUFFICES ASSUME NEW r \in Procs, visit'[r] # NoVisit
               PROVE  VisitSound(visit[r])'
    BY DEF OutcomesSound
  <2>1. CASE r = p
    BY <1>1, <2>1 DEF VisitSound, Ended
  <2>2. CASE r # p
    <3>1. visit'[r] = visit[r] /\ VisitSound(visit[r])
      BY <1>1, <2>2 DEF OutcomesSound
    <3> QED BY <3>1 DEF VisitSound, Ended
  <2> QED BY <2>1, <2>2
<1>6. OneTeller'
  BY <1>1 DEF OneTeller, At
<1>7. SubmittedSound'
  <2>1. message[q] # "none"
    BY <1>1 DEF SubmittedSound
  <2> QED BY <1>1, <1>2, <2>1 DEF SubmittedSound
<1>8. BusSound' /\ NotifiedTruthfully'
  BY DEF BusSound, NotifiedTruthfully, Ended
<1> QED BY <1>3, <1>4, <1>5, <1>6, <1>7, <1>8

\* A visit at its start is a visit (NewVisit).
LEMMA NewVisitType ==
  ASSUME NEW q \in Questions, NEW step \in Steps, NEW s \in QuestionStatuses
  PROVE  /\ [NewVisit(q, step) EXCEPT !.status = s] \in Visit
         /\ NewVisit(q, step) \in Visit
BY DEF NewVisit, Visit, QuestionStatuses

\* get_by_uid: the visit begins with the status of the question.
LEMMA ReadQuestionSound ==
  ASSUME IInv, NEW p \in Procs, NEW q \in Questions, ReadQuestion(p, q)
  PROVE  IInv'
<1> DEFINE step == IF question[q] = "deleted" THEN "judge" ELSE "answer"
           w == [NewVisit(q, step) EXCEPT !.status = question[q]]
<1>1. /\ q \in round[p] /\ visit[p] = NoVisit /\ visit' = [visit EXCEPT ![p] = w]
      /\ UNCHANGED <<bus, chat, up, stops, entry, round, rested>>
  BY DEF ReadQuestion
<1>2. question[q] \in QuestionStatuses /\ entry[p][q] \in Entry
  BY <1>1 DEF IInv, TypeOK, Sound, VisitsSound, Visiting
<1>3. w \in Visit
  BY <1>2, NewVisitType DEF Steps
<1>4. w.q = q /\ w.step \in {"answer", "judge"} /\ w.row = NoRow /\ w.status = question[q]
  BY DEF NewVisit
<1>5. entry' = [entry EXCEPT ![p][q] = entry[p][q]]
  BY <1>1 DEF IInv, TypeOK
<1>6. w.status = "failed" => "failed" \in verdicts[q] \/ Ended(q)
  BY <1>4 DEF IInv, Sound, BusSound
<1>7. entry[p][q] # NoEntry
  BY <1>2, NoValueAssumption
<1> HIDE DEF w
<1> QED BY <1>1, <1>2, <1>3, <1>4, <1>5, <1>6, <1>7, VisitBegins

\* An await that fails: the entry counts the error, or is dropped.
LEMMA ErrSound ==
  ASSUME ChannelAssumption, IInv, NEW p \in Procs, NEW q \in Questions, Err(p, q)
  PROVE  IInv'
<1>1. UNCHANGED <<bus, chat, up, stops, rested>>
  BY DEF Err
<1>2. q \in round[p] /\ (visit[p] # NoVisit => visit[p].q = q)
  <2>1. CASE visit[p] = NoVisit
    BY <2>1 DEF Err, Fails
  <2>2. CASE visit[p] # NoVisit
    BY <2>2, UnderWay DEF Err, Fails
  <2> QED BY <2>1, <2>2
<1>3. message[q] # "none"
  BY <1>2 DEF IInv, Sound, SubmittedSound
<1>4. ~Dropping(p) => entry[p][q] \in Entry
  BY <1>2 DEF IInv, Sound, VisitsSound, TypeOK, Visiting
<1>5. CASE Leave(p, q, NoEntry)
  BY <1>1, <1>2, <1>3, <1>5, LeaveKeeps
<1>6. CASE ~Dropping(p) /\ ~TooMany(entry[p][q])
           /\ Leave(p, q, [entry[p][q] EXCEPT !.errors = @ + 1])
  <2>1. entry[p][q].errors \in 0..(MaxErrors - 1) /\ entry[p][q].errors + 1 < MaxErrors
    BY <1>4, <1>6 DEF Entry, TooMany, ChannelAssumption
  <2>2. [entry[p][q] EXCEPT !.errors = @ + 1] \in Entry
    BY <1>4, <1>6, <2>1 DEF Entry, ChannelAssumption
  <2> QED BY <1>1, <1>2, <1>3, <1>6, <2>2, LeaveKeeps
<1>7. CASE entry' = [entry EXCEPT ![p][q] = NoEntry]
           /\ visit' = [visit EXCEPT ![p] = NewVisit(q, "abandon")] /\ UNCHANGED round
  <2> DEFINE w == NewVisit(q, "abandon")
  <2>1. w \in Visit
    BY NewVisitType DEF Steps, QuestionStatuses
  <2>2. w.q = q /\ w.step = "abandon" /\ w.row = NoRow /\ w.status = "none"
    BY DEF NewVisit
  <2> HIDE DEF w
  <2>3. visit' = [visit EXCEPT ![p] = w]
    BY <1>7 DEF w
  <2> QED BY <1>1, <1>2, <1>7, <2>1, <2>2, <2>3, VisitBegins
<1> QED BY <1>5, <1>6, <1>7 DEF Err

\* A process that is down visits nothing.
Quiet == \A p \in Procs : ~up[p] => round[p] = {}

\* A new subscription is an entry.
LEMMA NewEntryType ==
  ASSUME ChannelAssumption
  PROVE  NewEntry \in Entry
<1>1. 0 \in 0..Horizon /\ 0 \in 0..MaxLen /\ 0 \in 0..(MaxErrors - 1) /\ 0 \in 0..MaxReversions
  BY DEF ChannelAssumption, Horizon
<1> QED BY <1>1 DEF NewEntry, Entry, None

\* Submitting: nothing was known of the question, and nobody visits it.
LEMMA SubmitSound ==
  ASSUME ChannelAssumption, IInv, NEW p \in Procs, NEW q \in Questions, Submit(p, q)
  PROVE  IInv'
<1> USE DEF IInv, Sound
<1>1. /\ question[q] = "none" /\ question' = [question EXCEPT ![q] = "pending"]
      /\ message' = [message EXCEPT ![q] = "streaming"]
      /\ entry' = [entry EXCEPT ![p][q] = NewEntry]
      /\ UNCHANGED <<answer, rows, hush, verdicts, shown, notes, up, stops, visit,
                     round, rested, others>>
  BY DEF Submit
<1>2. message[q] = "none" /\ answer[q] = NoRow /\ \A r \in Procs : q \notin round[r]
  BY <1>1 DEF SubmittedSound
<1>3. /\ message'[q] = "streaming" /\ question'[q] = "pending"
      /\ \A k \in Questions \ {q} : message'[k] = message[k] /\ question'[k] = question[k]
  BY <1>1 DEF TypeOK
<1>4. \A r \in Procs : visit[r] # NoVisit => visit[r].q \in Questions \ {q}
  BY <1>2 DEF VisitsSound, TypeOK
<1>5. TypeOK'
  BY <1>1, NewEntryType DEF TypeOK, QuestionStatuses
<1>6. VisitsSound'
  <2>1. ASSUME NEW r \in Procs, NEW k \in round'[r]
        PROVE  entry'[r][k] # NoEntry \/ (Visiting(r, k)' /\ Dropping(r)')
    <3>1. k \in round[r] /\ k # q /\ k \in Questions
      BY <1>1, <1>2 DEF TypeOK
    <3>2. entry'[r][k] = entry[r][k]
      BY <1>1, <3>1 DEF TypeOK
    <3> QED BY <1>1, <3>1, <3>2 DEF VisitsSound, Visiting, Dropping
  <2> QED BY <1>1, <2>1 DEF VisitsSound
<1>7. OutcomesSound'
  <2> SUFFICES ASSUME NEW r \in Procs, visit[r] # NoVisit
               PROVE  VisitSound(visit[r])'
    BY <1>1 DEF OutcomesSound
  <2>1. VisitSound(visit[r]) /\ message'[visit[r].q] = message[visit[r].q]
    BY <1>3, <1>4 DEF OutcomesSound
  <2> QED BY <1>1, <2>1 DEF VisitSound, Ended
<1>8. OneTeller'
  BY <1>1 DEF OneTeller, At
<1>9. SubmittedSound'
  <2> SUFFICES ASSUME NEW k \in Questions
               PROVE  /\ message'[k] = "none" <=> question'[k] = "none"
                      /\ message'[k] = "none" =>
                           /\ answer'[k] = NoRow
                           /\ \A r \in Procs : entry'[r][k] = NoEntry /\ k \notin round'[r]
    BY DEF SubmittedSound
  <2>1. CASE k = q
    BY <1>3, <2>1
  <2>2. CASE k # q
    BY <1>1, <1>3, <2>2 DEF SubmittedSound, TypeOK
  <2> QED BY <2>1, <2>2
<1>10. BusSound'
  BY <1>1, <1>2, <1>3 DEF BusSound, Ended
<1>11. NotifiedTruthfully'
  <2>1. notes[q].info = 0 /\ notes[q].error = 0
    BY <1>2, StreamingIsSilent
  <2> QED BY <1>1, <1>3, <2>1 DEF NotifiedTruthfully
<1> QED BY <1>5, <1>6, <1>7, <1>8, <1>9, <1>10, <1>11

\* A process that stops forgets its entries and its visit.
LEMMA StopSound ==
  ASSUME ChannelAssumption, IInv, NEW p \in Procs, Stop(p)
  PROVE  IInv'
<1> USE DEF IInv, Sound, bus, chat
<1>1. /\ stops' = stops + 1 /\ stops < MaxStops /\ up' = [up EXCEPT ![p] = FALSE]
      /\ entry' = [entry EXCEPT ![p] = [q \in Questions |-> NoEntry]]
      /\ visit' = [visit EXCEPT ![p] = NoVisit] /\ round' = [round EXCEPT ![p] = {}]
      /\ UNCHANGED <<bus, chat, rested>>
  BY DEF Stop
<1>2. /\ visit'[p] = NoVisit /\ round'[p] = {} /\ \A k \in Questions : entry'[p][k] = NoEntry
      /\ \A r \in Procs \ {p} : visit'[r] = visit[r] /\ round'[r] = round[r] /\ entry'[r] = entry[r]
  BY <1>1 DEF TypeOK
<1>3. TypeOK'
  BY <1>1 DEF TypeOK, ChannelAssumption
<1>4. VisitsSound'
  <2>1. ASSUME NEW r \in Procs, visit'[r] # NoVisit
        PROVE  /\ visit'[r].q \in round'[r]
               /\ visit'[r].step \in {"show", "finalize"} => visit'[r].row # NoRow
    BY <1>2, <2>1 DEF VisitsSound
  <2>2. ASSUME NEW r \in Procs, NEW k \in round'[r]
        PROVE  entry'[r][k] # NoEntry \/ (Visiting(r, k)' /\ Dropping(r)')
    BY <1>2 DEF VisitsSound, Visiting, Dropping
  <2> QED BY <2>1, <2>2 DEF VisitsSound
<1>5. OutcomesSound' /\ OneTeller'
  BY <1>1, <1>2 DEF OutcomesSound, VisitSound, Ended, OneTeller, At
<1>6. SubmittedSound'
  BY <1>1, <1>2 DEF SubmittedSound
<1>7. BusSound' /\ NotifiedTruthfully'
  BY <1>1 DEF BusSound, NotifiedTruthfully, Ended
<1> QED BY <1>3, <1>4, <1>5, <1>6, <1>7

\* reconcile subscribes to what streams, and so to nothing that was never put.
LEMMA StartSound ==
  ASSUME ChannelAssumption, IInv, Quiet, NEW p \in Procs, Start(p)
  PROVE  IInv'
<1> USE DEF IInv, Sound, bus, chat
<1>1. /\ up' = [up EXCEPT ![p] = TRUE] /\ rested' = [rested EXCEPT ![p] = TRUE]
      /\ entry' = [entry EXCEPT ![p] = [q \in Questions |-> IF q \in Drafts THEN NewEntry ELSE NoEntry]]
      /\ UNCHANGED <<bus, chat, stops, visit, round>>
  BY DEF Start
<1>2. round[p] = {} /\ visit[p] = NoVisit
  BY DEF Start, Quiet, VisitsSound
<1>3. /\ \A k \in Questions : entry'[p][k] # NoEntry => message[k] = "streaming"
      /\ \A r \in Procs \ {p} : entry'[r] = entry[r]
  BY <1>1 DEF TypeOK, Drafts
<1>4. TypeOK'
  BY <1>1, NewEntryType DEF TypeOK
<1>5. VisitsSound'
  <2>1. ASSUME NEW r \in Procs, NEW k \in round'[r]
        PROVE  entry'[r][k] # NoEntry \/ (Visiting(r, k)' /\ Dropping(r)')
    <3>1. r # p /\ k \in round[r] /\ entry'[r] = entry[r]
      BY <1>1, <1>2, <1>3
    <3> QED BY <1>1, <3>1 DEF VisitsSound, Visiting, Dropping
  <2> QED BY <1>1, <2>1 DEF VisitsSound
<1>6. OutcomesSound' /\ OneTeller' /\ BusSound' /\ NotifiedTruthfully'
  BY <1>1 DEF OutcomesSound, VisitSound, OneTeller, At, BusSound, NotifiedTruthfully, Ended
<1>7. SubmittedSound'
  BY <1>1, <1>3 DEF SubmittedSound
<1> QED BY <1>4, <1>5, <1>6, <1>7

\* An age stays within the longer of the limits (Capped).
LEMMA CappedType ==
  ASSUME ChannelAssumption, NEW n \in 0..Horizon
  PROVE  Capped(n) \in 0..Horizon
BY DEF Capped, Horizon, ChannelAssumption

\* Time passes while no visit is under way.
LEMMA PassSound ==
  ASSUME ChannelAssumption, IInv, Pass
  PROVE  IInv'
<1> USE DEF IInv, Sound, chat
<1>1. /\ entry' = [p \in Procs |-> [q \in Questions |->
             IF entry[p][q] = NoEntry THEN NoEntry
             ELSE [entry[p][q] EXCEPT !.age = Capped(@)]]]
      /\ hush' = [q \in Questions |-> IF Writing(q) /\ answer[q].len > 0 THEN Capped(hush[q]) ELSE 0]
      /\ rested' = [p \in Procs |-> TRUE]
      /\ UNCHANGED <<question, answer, rows, verdicts, chat, up, stops, visit, round, others>>
  BY DEF Pass
<1>2. ASSUME NEW p \in Procs, NEW q \in Questions
      PROVE  /\ entry'[p][q] \in Entry \cup {NoEntry}
             /\ entry'[p][q] = NoEntry <=> entry[p][q] = NoEntry
  <2>1. CASE entry[p][q] = NoEntry
    BY <1>1, <2>1
  <2>2. CASE entry[p][q] # NoEntry
    <3>1. entry[p][q] \in Entry
      BY <2>2 DEF TypeOK
    <3>2. Capped(entry[p][q].age) \in 0..Horizon
      BY <3>1, CappedType DEF Entry
    <3>3. [entry[p][q] EXCEPT !.age = Capped(@)] \in Entry
      BY <3>1, <3>2 DEF Entry
    <3>4. entry'[p][q] = [entry[p][q] EXCEPT !.age = Capped(@)]
      BY <1>1, <2>2
    <3> QED BY <2>2, <3>3, <3>4, NoValueAssumption
  <2> QED BY <2>1, <2>2
<1>3. hush' \in [Questions -> 0..Horizon]
  <2>1. 0 \in 0..Horizon
    BY DEF ChannelAssumption, Horizon
  <2>2. \A q \in Questions : hush[q] \in 0..Horizon /\ Capped(hush[q]) \in 0..Horizon
    BY CappedType DEF TypeOK
  <2> QED BY <1>1, <2>1, <2>2
<1>4. TypeOK'
  <2>1. entry' \in [Procs -> [Questions -> Entry \cup {NoEntry}]]
    <3>1. entry' = [p \in Procs |-> entry'[p]] /\ \A p \in Procs : entry'[p] = [q \in Questions |-> entry'[p][q]]
      BY <1>1
    <3> QED BY <1>2, <3>1
  <2>2. rested' \in [Procs -> BOOLEAN]
    BY <1>1
  <2> QED BY <1>1, <1>3, <2>1, <2>2 DEF TypeOK
<1>5. VisitsSound'
  <2>1. ASSUME NEW r \in Procs, NEW k \in round'[r]
        PROVE  entry'[r][k] # NoEntry \/ (Visiting(r, k)' /\ Dropping(r)')
    <3>1. k \in Questions /\ k \in round[r]
      BY <1>1 DEF TypeOK
    <3> QED BY <1>1, <1>2, <3>1 DEF VisitsSound, Visiting, Dropping
  <2> QED BY <1>1, <2>1 DEF VisitsSound
<1>6. OutcomesSound' /\ OneTeller' /\ BusSound' /\ NotifiedTruthfully'
  BY <1>1 DEF OutcomesSound, VisitSound, OneTeller, At, BusSound, NotifiedTruthfully, Ended
<1>7. SubmittedSound'
  BY <1>1, <1>2 DEF SubmittedSound
<1> QED BY <1>4, <1>5, <1>6, <1>7

\* Steps that change at most the queue in front of these questions.
LEMMA StutterSound ==
  ASSUME IInv, UNCHANGED <<question, answer, rows, hush, verdicts, chat, process>>, others' \in 0..MaxOthers
  PROVE  IInv'
BY DEF IInv, Sound, TypeOK, VisitsSound, SubmittedSound, BusSound, OutcomesSound, VisitSound, OneTeller,
       NotifiedTruthfully, Visiting, Dropping, Ended, At, chat, process

\* The invariant holds at the start.
LEMMA InitSound ==
  ASSUME ChannelAssumption, Init
  PROVE  IInv /\ Quiet
<1>1. 0 \in 0..Horizon /\ 0 \in 0..MaxRows /\ 0 \in 0..MaxStops
  BY DEF ChannelAssumption, Horizon
<1>2. TypeOK
  BY <1>1 DEF Init, TypeOK, QuestionStatuses
<1>3. VisitsSound /\ SubmittedSound /\ BusSound /\ OutcomesSound /\ OneTeller
  BY DEF Init, VisitsSound, SubmittedSound, BusSound, OutcomesSound, OneTeller, At
<1>4. NotifiedTruthfully /\ Quiet
  BY DEF Init, NotifiedTruthfully, Quiet
<1> QED BY <1>2, <1>3, <1>4 DEF IInv, Sound

\* Every step of a poller keeps the invariant.
LEMMA PollSound ==
  ASSUME ChannelAssumption, IInv, NEW p \in Procs, Poll(p)
  PROVE  IInv'
BY StartTickSound, ReadQuestionSound, ErrSound, ReadingSound, FinalizeSound, FailSound,
   NotifySound, CloseSound, JudgeSound, TimeoutSound DEF Poll

\* A process that is down starts no tick, and stopping ends the one under way.
LEMMA QuietStays ==
  ASSUME TypeOK, Quiet, [Next]_vars
  PROVE  Quiet'
<1> USE DEF Quiet, TypeOK
<1>1. ASSUME NEW q \in Questions, Agent(q) PROVE Quiet'
  BY <1>1 DEF Agent, Claim, Begin, Reason, Refuse, Purge, Finish, Reclaim, Touch, process
<1>2. ASSUME NEW p \in Procs, StartTick(p) PROVE Quiet'
  BY <1>2 DEF StartTick
<1>3. ASSUME NEW p \in Procs, NEW q \in Questions, NEW e, Leave(p, q, e), UNCHANGED up PROVE Quiet'
  BY <1>3 DEF Leave
<1>4. ASSUME NEW p \in Procs, NEW q \in Questions, ReadQuestion(p, q) \/ Err(p, q) PROVE Quiet'
  BY <1>3, <1>4 DEF ReadQuestion, Err
<1>5. ASSUME NEW p \in Procs, ReadAnswer(p) \/ CountAhead(p) \/ Show(p) \/ Finalize(p) \/ Timeout(p)
      PROVE  Quiet'
  BY <1>5 DEF ReadAnswer, CountAhead, Show, Finalize, Timeout
<1>6. ASSUME NEW p \in Procs, Fail(p) \/ Notify(p) \/ Close(p) \/ Judge(p) PROVE Quiet'
  <2>1. visit[p].q \in Questions
    BY <1>6 DEF Fail, Notify, Close, Judge, At, Visit
  <2> QED BY <1>3, <1>6, <2>1 DEF Fail, Notify, Close, Judge
<1>7. ASSUME NEW p \in Procs, Poll(p) PROVE Quiet'
  BY <1>2, <1>4, <1>5, <1>6, <1>7 DEF Poll
<1>8. ASSUME NEW p \in Procs, Stop(p) \/ Start(p) \/ \E q \in Questions : Submit(p, q) PROVE Quiet'
  BY <1>8 DEF Stop, Start, Submit
<1>9. ASSUME Advance \/ Pass \/ UNCHANGED vars PROVE Quiet'
  BY <1>9 DEF Advance, Pass, vars, process
<1> QED BY <1>1, <1>7, <1>8, <1>9 DEF Next

\* Every step of the system keeps the invariant.
LEMMA NextSound ==
  ASSUME ChannelAssumption, IInv, Quiet, [Next]_vars
  PROVE  IInv' /\ Quiet'
<1>1. IInv'
  <2>1. CASE Advance
    BY <2>1, StutterSound DEF Advance
  <2>2. CASE UNCHANGED vars
    BY <2>2, StutterSound DEF vars, bus, IInv, TypeOK
  <2>3. CASE Next /\ ~Advance
    BY <2>3, AgentSound, PollSound, StopSound, StartSound, SubmitSound, PassSound DEF Next
  <2> QED BY <2>1, <2>2, <2>3
<1>2. Quiet'
  BY QuietStays DEF IInv
<1> QED BY <1>1, <1>2

\* The invariant holds in every reachable state.
THEOREM Invariance == Spec => [](IInv /\ Quiet)
<1>1. Init => IInv /\ Quiet
  BY InitSound, ChannelAssumption
<1>2. (IInv /\ Quiet) /\ [Next]_vars => (IInv /\ Quiet)'
  BY NextSound, ChannelAssumption
<1> QED BY <1>1, <1>2, PTL DEF Spec

\* Every variable keeps its type, for any processes, questions and limits.
THEOREM TypeCorrect == Spec => []TypeOK
<1>1. IInv /\ Quiet => TypeOK
  BY DEF IInv
<1> QED BY <1>1, Invariance, PTL

\* Whatever processes visit a question at the same time and however often a visit
\* is repeated, the author hears of it at most once, and what he hears is how the
\* draft has ended and what the agent has said (_emit_answer_notification).
THEOREM Notified == Spec => []NotifiedTruthfully
<1>1. IInv /\ Quiet => NotifiedTruthfully
  BY DEF IInv, Sound
<1> QED BY <1>1, Invariance, PTL

\* The process p minds the draft of q.
Minds(p, q) ==
  \/ ~up[p]
  \/ entry[p][q] # NoEntry
  \/ visit[p] # NoVisit /\ visit[p].q = q /\ visit[p].step = "abandon"

\* A visit that ends with the draft over takes nothing from the drafts that stream.
LEMMA LeaveMinds ==
  ASSUME IInv, NEW p \in Procs, NEW q \in Questions, NEW e \in Entry \cup {NoEntry}, Leave(p, q, e),
         UNCHANGED <<message, up>>, e # NoEntry \/ message[q] # "streaming",
         visit[p] # NoVisit => visit[p].q = q
  PROVE  \A r \in Procs, k \in Questions : message[k] = "streaming" /\ Minds(r, k) => Minds(r, k)'
<1>1. /\ visit' = [visit EXCEPT ![p] = NoVisit] /\ entry' = [entry EXCEPT ![p][q] = e]
  BY DEF Leave
<1> SUFFICES ASSUME NEW r \in Procs, NEW k \in Questions, message[k] = "streaming", Minds(r, k)
             PROVE  Minds(r, k)'
  OBVIOUS
<1>2. CASE r # p
  BY <1>1, <1>2 DEF Minds, IInv, TypeOK
<1>3. CASE r = p /\ k # q
  BY <1>1, <1>3 DEF Minds, IInv, TypeOK
<1>4. CASE r = p /\ k = q
  BY <1>1, <1>4 DEF Minds, IInv, TypeOK
<1> QED BY <1>2, <1>3, <1>4

\* No step of a poller leaves a draft it minds, unless chat_messages cannot be written.
LEMMA PollMinds ==
  ASSUME IInv, "chat" \notin Faulty, NEW p \in Procs, Poll(p)
  PROVE  \A r \in Procs, k \in Questions :
           /\ message'[k] = "streaming" => message[k] = "streaming"
           /\ message'[k] = "streaming" /\ Minds(r, k) => Minds(r, k)'
<1> DEFINE Goal == \A r \in Procs, k \in Questions :
                     /\ message'[k] = "streaming" => message[k] = "streaming"
                     /\ message'[k] = "streaming" /\ Minds(r, k) => Minds(r, k)'
           q == visit[p].q
<1>0. visit[p] # NoVisit => /\ q \in Questions /\ VisitSound(visit[p])
                            /\ ~Dropping(p) => entry[p][q] \in Entry
  BY UnderWay
<1>1. ASSUME StartTick(p) PROVE Goal
  BY <1>1 DEF StartTick, Minds, chat
<1>2. ASSUME NEW k \in Questions, ReadQuestion(p, k) PROVE Goal
  BY <1>2 DEF ReadQuestion, Minds, chat, IInv, TypeOK
<1>3. ASSUME ReadAnswer(p) \/ CountAhead(p) \/ Show(p) PROVE Goal
  BY <1>3 DEF ReadAnswer, CountAhead, Show, Onward, At, Minds, chat, IInv, TypeOK
<1>4. ASSUME Finalize(p) PROVE Goal
  BY <1>0, <1>4 DEF Finalize, At, Minds, IInv, TypeOK
<1>5. ASSUME Fail(p) PROVE Goal
  <2>1. visit[p] # NoVisit /\ visit[p].step = "fail" /\ up' = up
        /\ message' = IF Ends(q) THEN [message EXCEPT ![q] = "failed"] ELSE message
    BY <1>5 DEF Fail, At, MarkFailed
  <2>2. CASE ~Ends(q) /\ visit[p].row = NoRow
    <3>1. Leave(p, q, NoEntry) /\ message' = message /\ message[q] # "streaming"
      BY <1>5, <2>1, <2>2 DEF Fail, Ends
    <3> QED BY <1>0, <2>1, <3>1, LeaveMinds
  <2>3. CASE ~(~Ends(q) /\ visit[p].row = NoRow)
    BY <1>0, <1>5, <2>1, <2>3 DEF Fail, At, Minds, IInv, TypeOK
  <2> QED BY <2>2, <2>3
<1>6. ASSUME Notify(p) PROVE Goal
  <2>1. visit[p] # NoVisit /\ visit[p].step = "notify" /\ message' = message /\ up' = up
        /\ message[q] # "streaming"
    BY <1>0, <1>6 DEF Notify, At, VisitSound, Ended
  <2>2. CASE Leave(p, q, NoEntry)
    BY <1>0, <2>1, <2>2, LeaveMinds
  <2>3. CASE Onward(p, "close") /\ UNCHANGED <<entry, round>>
    BY <2>1, <2>3 DEF Onward, Minds, IInv, TypeOK
  <2> QED BY <1>6, <2>2, <2>3 DEF Notify
<1>7. ASSUME Close(p) PROVE Goal
  <2>1. visit[p] # NoVisit /\ message' = message /\ up' = up /\ message[q] # "streaming"
        /\ Leave(p, q, NoEntry)
    BY <1>0, <1>7 DEF Close, At, VisitSound, Ended, chat
  <2> QED BY <1>0, <2>1, LeaveMinds
<1>8. ASSUME Judge(p) PROVE Goal
  <2>1. visit[p] # NoVisit /\ visit[p].step = "judge" /\ message' = message /\ up' = up
        /\ entry[p][q] \in Entry
    BY <1>0, <1>8 DEF Judge, At, chat, Dropping
  <2> DEFINE e == Judged(visit[p], entry[p][q])
  <2>2. e \in Entry /\ [e EXCEPT !.errors = 0] \in Entry
    BY <1>0, <2>1, JudgedType, ChannelAssumption DEF IInv, TypeOK
  <2>3. e # NoEntry /\ [e EXCEPT !.errors = 0] # NoEntry
    BY <2>2, NoValueAssumption
  <2> HIDE DEF e
  <2>4. CASE Leave(p, q, [e EXCEPT !.errors = 0])
    BY <1>0, <2>1, <2>2, <2>3, <2>4, LeaveMinds
  <2>5. CASE Onward(p, "timeout") /\ entry' = [entry EXCEPT ![p][q] = e]
    BY <1>0, <2>1, <2>3, <2>5 DEF Onward, Minds, IInv, TypeOK
  <2> QED BY <1>8, <2>4, <2>5 DEF Judge, e
<1>9. ASSUME Timeout(p) PROVE Goal
  <2>1. visit[p] # NoVisit /\ up' = up /\ entry' = entry /\ message'[q] # "streaming"
        /\ \A k \in Questions \ {q} : message'[k] = message[k]
        /\ \A r \in Procs \ {p} : visit'[r] = visit[r]
    BY <1>0, <1>9 DEF Timeout, At, MarkFailed, Ends, IInv, TypeOK
  <2> QED BY <1>0, <2>1 DEF Minds
<1>10. ASSUME NEW k \in Questions, Err(p, k) PROVE Goal
  <2>1. message' = message /\ up' = up /\ k \in round[p] /\ (visit[p] # NoVisit => q = k)
    <3>1. CASE visit[p] = NoVisit
      BY <1>10, <3>1 DEF Err, Fails, chat
    <3>2. CASE visit[p] # NoVisit
      BY <1>10, <3>2, UnderWay DEF Err, Fails, chat
    <3> QED BY <3>1, <3>2
  <2>2. CASE Dropping(p)
    <3>1. visit[p] # NoVisit /\ q = k /\ Needs(visit[p].step) \cap Faulty # {}
      BY <1>10, <2>2, <2>1 DEF Err, Fails, Dropping
    <3>2. visit[p].step = "closeAbandoned"
      BY <2>2, <3>1 DEF Dropping, Needs
    <3>3. message[k] # "streaming" /\ Leave(p, k, NoEntry)
      BY <1>0, <1>10, <2>2, <3>1, <3>2 DEF VisitSound, Ended, Err
    <3> QED BY <2>1, <3>3, LeaveMinds
  <2>3. CASE ~Dropping(p) /\ ~TooMany(entry[p][k])
    <3> DEFINE e == [entry[p][k] EXCEPT !.errors = @ + 1]
    <3>1. Leave(p, k, e)
      BY <1>10, <2>3 DEF Err
    <3>2. entry[p][k] \in Entry
      BY <2>1, <2>3 DEF IInv, Sound, VisitsSound, TypeOK, Visiting
    <3>3. e \in Entry
      BY <2>3, <3>2, ChannelAssumption DEF Entry, TooMany, ChannelAssumption
    <3>4. e # NoEntry
      BY <3>3, NoValueAssumption
    <3> HIDE DEF e
    <3> QED BY <2>1, <3>1, <3>3, <3>4, LeaveMinds
  <2>4. CASE ~Dropping(p) /\ TooMany(entry[p][k])
    <3>1. /\ entry' = [entry EXCEPT ![p][k] = NoEntry]
          /\ visit' = [visit EXCEPT ![p] = NewVisit(k, "abandon")]
      BY <1>10, <2>4 DEF Err
    <3> DEFINE w == NewVisit(k, "abandon")
    <3>2. w \in Visit /\ w.q = k /\ w.step = "abandon"
      BY NewVisitType DEF Steps, QuestionStatuses, NewVisit
    <3> HIDE DEF w
    <3>3. w # NoVisit /\ visit'[p] = w /\ \A r \in Procs \ {p} : visit'[r] = visit[r] /\ entry'[r] = entry[r]
      BY <3>1, <3>2, NoValueAssumption DEF w, IInv, TypeOK
    <3>4. \A j \in Questions \ {k} : entry'[p][j] = entry[p][j]
      BY <3>1 DEF IInv, TypeOK
    <3>5. \A j \in Questions \ {k} : ~(visit[p] # NoVisit /\ q = j)
      BY <2>1
    <3> QED BY <2>1, <3>2, <3>3, <3>4, <3>5 DEF Minds
  <2> QED BY <2>2, <2>3, <2>4
<1> QED BY <1>1, <1>2, <1>3, <1>4, <1>5, <1>6, <1>7, <1>8, <1>9, <1>10 DEF Poll

\* While chat_messages can be written, a draft in status 'streaming' has a process
\* that is subscribed to it, is ending it, or will reconcile when it starts.
THEOREM Watched ==
  ASSUME "chat" \notin Faulty
  PROVE  Spec => []StreamingIsWatched
<1>1. Init => StreamingIsWatched
  BY DEF Init, StreamingIsWatched
<1>2. ASSUME IInv, StreamingIsWatched, [Next]_vars
      PROVE  StreamingIsWatched'
  <2>0. \A k \in Questions : message[k] = "streaming" => \E r \in Procs : Minds(r, k)
    BY <1>2 DEF StreamingIsWatched, Minds
  <2>1. SUFFICES ASSUME NEW k \in Questions, message'[k] = "streaming"
                 PROVE  \E r \in Procs : Minds(r, k)'
    BY DEF StreamingIsWatched, Minds
  <2>2. ASSUME message[k] = "streaming",
               \A r \in Procs : Minds(r, k) => Minds(r, k)'
        PROVE  \E r \in Procs : Minds(r, k)'
    BY <2>0, <2>2
  <2>3. ASSUME NEW q \in Questions, Agent(q) PROVE \E r \in Procs : Minds(r, k)'
    <3>1. message' = message /\ up' = up
      BY <2>3 DEF Agent, Claim, Begin, Reason, Refuse, Purge, Finish, Reclaim, Touch, process, chat
    <3>2. UNCHANGED <<entry, visit>> \/ Touch(q)
      BY <2>3 DEF Agent, Claim, Begin, Reason, Refuse, Purge, Finish, Reclaim, process
    <3>3. CASE UNCHANGED <<entry, visit>>
      BY <2>1, <2>2, <3>1, <3>3 DEF Minds
    <3>4. CASE Touch(q)
      BY <1>2, <2>1, <2>2, <3>1, <3>4, TouchKeeps DEF Minds, IInv
    <3> QED BY <3>2, <3>3, <3>4
  <2>4. ASSUME NEW p \in Procs, Poll(p) PROVE \E r \in Procs : Minds(r, k)'
    BY <1>2, <2>1, <2>2, <2>4, PollMinds
  <2>5. ASSUME NEW p \in Procs, Stop(p) PROVE \E r \in Procs : Minds(r, k)'
    BY <1>2, <2>5 DEF Stop, Minds, IInv, TypeOK
  <2>6. ASSUME NEW p \in Procs, Start(p) PROVE \E r \in Procs : Minds(r, k)'
    <3>1. entry'[p][k] = NewEntry
      BY <1>2, <2>1, <2>6 DEF Start, Drafts, chat, IInv, TypeOK
    <3> QED BY <3>1, NewEntryType, ChannelAssumption, NoValueAssumption DEF Minds
  <2>7. ASSUME NEW p \in Procs, NEW q \in Questions, Submit(p, q) PROVE \E r \in Procs : Minds(r, k)'
    <3>1. NewEntry # NoEntry
      BY NewEntryType, ChannelAssumption, NoValueAssumption
    <3>2. CASE k = q
      BY <1>2, <2>7, <3>1, <3>2 DEF Submit, Minds, IInv, TypeOK
    <3>3. CASE k # q
      BY <1>2, <2>1, <2>2, <2>7, <3>1, <3>3 DEF Submit, Minds, IInv, TypeOK
    <3> QED BY <3>2, <3>3
  <2>8. ASSUME Pass PROVE \E r \in Procs : Minds(r, k)'
    <3>1. message' = message /\ up' = up /\ visit' = visit
      BY <2>8 DEF Pass, chat
    <3>2. ASSUME NEW r \in Procs, entry[r][k] # NoEntry PROVE entry'[r][k] # NoEntry
      <4>1. entry[r][k] \in Entry /\ entry'[r][k] = [entry[r][k] EXCEPT !.age = Capped(@)]
        BY <1>2, <2>8, <3>2 DEF Pass, IInv, TypeOK
      <4>2. entry'[r][k] \in Entry
        BY <4>1, CappedType, ChannelAssumption DEF Entry
      <4> QED BY <4>2, NoValueAssumption
    <3> QED BY <2>1, <2>2, <3>1, <3>2 DEF Minds
  <2>9. ASSUME Advance \/ UNCHANGED vars PROVE \E r \in Procs : Minds(r, k)'
    BY <2>1, <2>2, <2>9 DEF Advance, vars, chat, process, Minds
  <2> QED BY <1>2, <2>3, <2>4, <2>5, <2>6, <2>7, <2>8, <2>9 DEF Next
<1>3. IInv /\ Quiet => IInv
  OBVIOUS
<1>4. IInv /\ StreamingIsWatched /\ [Next]_vars => StreamingIsWatched'
  BY <1>2
<1> QED BY <1>1, <1>3, <1>4, Invariance, PTL DEF Spec

-----------------------------------------------------------------------------
(* Giving up, and what a visit knows of the answer row.                     *)

\* What a visit holds of an answer row: the awaits after the read keep to the status
\* it had; nothing has touched the row since unless the visit is told so (since); it
\* has changed since the baseline only if the read found it so; and the visit that
\* gives up has seen the reasoning stand still for the whole limit.
RowSound(v, e) ==
  v.row # NoRow =>
    /\ v.step \notin {"answer", "count"}
    /\ v.step = "fail" => v.row.status = "failed"
    /\ v.step \in {"show", "judge", "timeout"} => v.row.status = "processing"
    /\ v.step \in {"show", "judge", "finalize", "fail", "timeout"} /\ ~v.since => answer[v.q] = v.row
    /\ v.step \in {"show", "judge"} /\ ~v.since /\ ~v.changed => e.base # "old"
    /\ v.step = "timeout" /\ ~v.since /\ v.row.len > 0 => hush[v.q] >= AnswerLimit

\* An entry without a baseline remembers no length; one whose baseline is good has
\* waited no longer than the reasoning has stood still.
BaselineSound(e, q) ==
  /\ e.base = "none" => e.len = 0
  /\ e.base = "same" /\ Writing(q) /\ answer[q].len > 0 => e.age <= hush[q]

RowsSound == \A p \in Procs : visit[p] # NoVisit => RowSound(visit[p], entry[p][visit[p].q])
BaselinesSound == \A p \in Procs, q \in Questions : entry[p][q] # NoEntry => BaselineSound(entry[p][q], q)

\* The conjuncts that make PatientTimeout inductive.
Informed == RowsSound /\ BaselinesSound

\* A visit that holds no row, or needs the one it holds no more.
LEMMA NothingHeld ==
  ASSUME NEW v, NEW e, v.row = NoRow \/ v.step \in {"notify", "close", "closeAbandoned", "abandon"}
  PROVE  RowSound(v, e)
BY DEF RowSound

\* Steps that write no answer row and move no clock, visit or entry.
LEMMA InformedStays ==
  ASSUME IInv, Informed, UNCHANGED <<answer, hush, entry, visit>>
  PROVE  Informed'
BY DEF Informed, RowsSound, BaselinesSound, RowSound, BaselineSound, Writing

\* A step of one process, on its visit and its entry of one question.
LEMMA VisitInforms ==
  ASSUME IInv, Informed, NEW p \in Procs, NEW q \in Questions, UNCHANGED <<answer, hush>>,
         \A r \in Procs \ {p} : visit'[r] = visit[r] /\ entry'[r] = entry[r],
         \A k \in Questions \ {q} : entry'[p][k] = entry[p][k],
         visit'[p] # NoVisit => RowSound(visit'[p], entry'[p][visit'[p].q]),
         entry'[p][q] # NoEntry => BaselineSound(entry'[p][q], q)
  PROVE  Informed'
<1>1. RowsSound'
  <2> SUFFICES ASSUME NEW r \in Procs, visit'[r] # NoVisit
               PROVE  RowSound(visit[r], entry[r][visit[r].q])'
    BY DEF RowsSound
  <2>1. RowSound(visit'[r], entry'[r][visit'[r].q])
    <3>1. CASE r = p
      BY <3>1
    <3>2. CASE r # p
      BY <3>2 DEF Informed, RowsSound
    <3> QED BY <3>1, <3>2
  <2> QED BY <2>1 DEF RowSound
<1>2. BaselinesSound'
  <2> SUFFICES ASSUME NEW r \in Procs, NEW k \in Questions, entry'[r][k] # NoEntry
               PROVE  BaselineSound(entry[r][k], k)'
    BY DEF BaselinesSound
  <2>1. BaselineSound(entry'[r][k], k)
    <3>1. CASE r = p /\ k = q
      BY <3>1
    <3>2. CASE ~(r = p /\ k = q)
      <4>1. entry'[r][k] = entry[r][k]
        BY <3>2
      <4> QED BY <4>1 DEF Informed, BaselinesSound
    <3> QED BY <3>1, <3>2
  <2> QED BY <2>1 DEF BaselineSound, Writing
<1> QED BY <1>1, <1>2 DEF Informed

\* A visit that ends leaves an entry that was so, but for its errors.
LEMMA LeaveInforms ==
  ASSUME IInv, Informed, NEW p \in Procs, NEW q \in Questions, NEW e, Leave(p, q, e),
         UNCHANGED <<answer, hush>>, e # NoEntry => BaselineSound(e, q)
  PROVE  Informed'
<1>1. visit'[p] = NoVisit /\ entry'[p][q] = e
  BY DEF Leave, IInv, TypeOK
<1>2. /\ \A r \in Procs \ {p} : visit'[r] = visit[r] /\ entry'[r] = entry[r]
      /\ \A k \in Questions \ {q} : entry'[p][k] = entry[p][k]
  BY DEF Leave, IInv, TypeOK
<1> QED BY <1>1, <1>2, VisitInforms

\* A write to the row of q: every good baseline of it is old, and every visit that
\* holds it is told (Touch).
LEMMA TouchInforms ==
  ASSUME IInv, Informed, NEW q \in Questions, Touch(q),
         \A k \in Questions \ {q} : answer'[k] = answer[k] /\ hush'[k] = hush[k]
  PROVE  Informed'
<1>1. RowsSound'
  <2> SUFFICES ASSUME NEW p \in Procs, visit'[p] # NoVisit
               PROVE  RowSound(visit[p], entry[p][visit[p].q])'
    BY DEF RowsSound
  <2>1. /\ visit[p] # NoVisit /\ visit[p] \in Visit /\ visit[p].q \in Questions
        /\ visit'[p].q = visit[p].q /\ visit'[p].step = visit[p].step /\ visit'[p].row = visit[p].row
    BY TouchKeeps DEF IInv, TypeOK, Visit
  <2>2. CASE visit[p].q = q /\ visit[p].row # NoRow
    <3>1. visit'[p] = [visit[p] EXCEPT !.since = TRUE]
      BY <2>1, <2>2 DEF Touch
    <3>2. visit'[p].since
      BY <2>1, <3>1 DEF Visit
    <3>3. RowSound(visit[p], entry[p][visit[p].q])
      BY <2>1 DEF Informed, RowsSound
    <3> QED BY <2>1, <3>2, <3>3 DEF RowSound
  <2>3. CASE visit[p].row = NoRow
    BY <2>1, <2>3 DEF RowSound
  <2>4. CASE visit[p].q # q
    <3>1. visit'[p] = visit[p]
      BY <2>4 DEF Touch
    <3>2. entry'[p][visit[p].q] = entry[p][visit[p].q]
      BY <2>1, <2>4 DEF Touch, IInv, TypeOK
    <3>3. RowSound(visit[p], entry[p][visit[p].q])
      BY <2>1 DEF Informed, RowsSound
    <3>4. answer'[visit[p].q] = answer[visit[p].q] /\ hush'[visit[p].q] = hush[visit[p].q]
      BY <2>1, <2>4
    <3> QED BY <3>1, <3>2, <3>3, <3>4 DEF RowSound
  <2> QED BY <2>2, <2>3, <2>4
<1>2. BaselinesSound'
  <2> SUFFICES ASSUME NEW p \in Procs, NEW k \in Questions, entry'[p][k] # NoEntry
               PROVE  BaselineSound(entry[p][k], k)'
    BY DEF BaselinesSound
  <2>1. entry[p][k] # NoEntry /\ entry[p][k] \in Entry /\ BaselineSound(entry[p][k], k)
    BY TouchKeeps DEF IInv, TypeOK, Informed, BaselinesSound
  <2>2. CASE k # q
    <3>1. entry'[p][k] = entry[p][k]
      BY <2>2 DEF Touch, IInv, TypeOK
    <3> QED BY <2>1, <2>2, <3>1 DEF BaselineSound, Writing
  <2>3. CASE k = q /\ entry[p][q].base = "same"
    <3>1. entry'[p][q] = [entry[p][q] EXCEPT !.base = "old"]
      BY <2>1, <2>3 DEF Touch, IInv, TypeOK
    <3>2. entry'[p][q].base = "old"
      BY <2>1, <2>3, <3>1 DEF Entry
    <3> QED BY <2>3, <3>2 DEF BaselineSound
  <2>4. CASE k = q /\ entry[p][q].base # "same"
    <3>1. entry'[p][q] = entry[p][q]
      BY <2>4 DEF Touch, IInv, TypeOK
    <3> QED BY <2>1, <2>4, <3>1 DEF BaselineSound
  <2> QED BY <2>2, <2>3, <2>4
<1> QED BY <1>1, <1>2 DEF Informed

\* The agent tells every visit what it does to a row.
LEMMA AgentInforms ==
  ASSUME IInv, Informed, NEW q \in Questions, Agent(q)
  PROVE  Informed'
<1>1. CASE Claim(q) \/ Refuse(q)
  BY <1>1, InformedStays DEF Claim, Refuse, process
<1>2. CASE Begin(q)
  BY <1>2, TouchInforms DEF Begin, IInv, TypeOK
<1>3. CASE Reason(q)
  BY <1>3, TouchInforms DEF Reason, IInv, TypeOK
<1>4. CASE Purge(q)
  BY <1>4, TouchInforms DEF Purge, IInv, TypeOK
<1>5. ASSUME NEW s, Finish(q, s) PROVE Informed'
  BY <1>5, TouchInforms DEF Finish, IInv, TypeOK
<1>6. ASSUME NEW s, Reclaim(q, s) PROVE Informed'
  BY <1>6, TouchInforms DEF Reclaim, IInv, TypeOK
<1> QED BY <1>1, <1>2, <1>3, <1>4, <1>5, <1>6 DEF Agent

\* Time passes for the entries and for the reasoning alike.
LEMMA PassInforms ==
  ASSUME ChannelAssumption, IInv, Informed, Pass
  PROVE  Informed'
<1>1. RowsSound'
  BY DEF Pass, RowsSound
<1>2. ASSUME NEW p \in Procs, NEW q \in Questions, entry'[p][q] # NoEntry
      PROVE  BaselineSound(entry[p][q], q)'
  <2>1. entry[p][q] # NoEntry /\ entry[p][q] \in Entry /\ BaselineSound(entry[p][q], q)
    BY <1>2 DEF Pass, IInv, TypeOK, Informed, BaselinesSound
  <2>2. entry'[p][q] = [entry[p][q] EXCEPT !.age = Capped(@)]
    BY <2>1 DEF Pass
  <2>3. /\ entry'[p][q].base = entry[p][q].base /\ entry'[p][q].len = entry[p][q].len
        /\ entry'[p][q].age = Capped(entry[p][q].age)
    BY <2>1, <2>2 DEF Entry
  <2>4. answer' = answer
    BY DEF Pass
  <2>5. CASE Writing(q) /\ answer[q].len > 0
    <3>1. hush'[q] = Capped(hush[q])
      BY <2>5 DEF Pass
    <3>2. entry[p][q].age \in 0..Horizon /\ hush[q] \in 0..Horizon /\ Horizon \in Nat
      BY <2>1 DEF Entry, IInv, TypeOK, Horizon, ChannelAssumption
    <3>3. entry[p][q].age <= hush[q] => Capped(entry[p][q].age) <= Capped(hush[q])
      BY <3>2 DEF Capped
    <3> QED BY <2>1, <2>3, <2>5, <3>1, <3>3 DEF BaselineSound
  <2>6. CASE ~(Writing(q) /\ answer[q].len > 0)
    BY <2>1, <2>3, <2>4, <2>6 DEF BaselineSound, Writing
  <2> QED BY <2>5, <2>6
<1> QED BY <1>1, <1>2 DEF Informed, BaselinesSound

\* reconcile and submit begin without a baseline.
LEMMA NewEntryInforms ==
  ASSUME NEW q \in Questions
  PROVE  BaselineSound(NewEntry, q)
BY DEF NewEntry, BaselineSound

\* A visit that goes on, its entry as it was.
LEMMA OnwardInforms ==
  ASSUME IInv, Informed, NEW p \in Procs, NEW w, visit' = [visit EXCEPT ![p] = w],
         UNCHANGED <<answer, hush, entry>>,
         w # NoVisit => w.q \in Questions /\ RowSound(w, entry[p][w.q])
  PROVE  Informed'
<1>1. visit'[p] = w /\ \A r \in Procs \ {p} : visit'[r] = visit[r]
  BY DEF IInv, TypeOK
<1>2. ASSUME NEW r \in Procs, visit'[r] # NoVisit
      PROVE  RowSound(visit'[r], entry'[r][visit'[r].q])
  <2>1. CASE r = p
    BY <1>1, <1>2, <2>1
  <2>2. CASE r # p
    BY <1>1, <1>2, <2>2 DEF Informed, RowsSound
  <2> QED BY <2>1, <2>2
<1>3. RowsSound'
  BY <1>2 DEF RowsSound, RowSound
<1>4. BaselinesSound'
  BY DEF Informed, BaselinesSound, BaselineSound, Writing
<1> QED BY <1>3, <1>4 DEF Informed

\* The answer is read: the visit knows the row as it is, and whether it differs
\* from the baseline.
LEMMA ReadAnswerInforms ==
  ASSUME IInv, Informed, NEW p \in Procs, ReadAnswer(p)
  PROVE  Informed'
<1> DEFINE v == visit[p]
           e == entry[p][v.q]
           row == answer[v.q]
           w == [v EXCEPT !.row = row, !.changed = row # NoRow /\ e.base = "old",
                          !.step = AfterRead(v, row, e)]
<1>1. visit' = [visit EXCEPT ![p] = w] /\ UNCHANGED <<answer, hush, entry>>
  BY DEF ReadAnswer, bus
<1>2. v \in Visit /\ v.q \in Questions
  BY UnderWay DEF ReadAnswer, At
<1>3. /\ w.q = v.q /\ w.row = row /\ w.step = AfterRead(v, row, e) /\ w.since = v.since
      /\ w.changed = (row # NoRow /\ e.base = "old")
  BY <1>2 DEF Visit
<1> HIDE DEF w
<1>4. RowSound(w, e)
  <2> SUFFICES ASSUME row # NoRow PROVE RowSound(w, e)
    BY <1>3 DEF RowSound
  <2>1. row \in Row
    BY <1>2 DEF IInv, TypeOK
  <2>2. row.status \in {"processing", "completed", "failed"}
    BY <2>1 DEF Row
  <2>3. /\ row.status = "failed" => AfterRead(v, row, e) = "fail"
        /\ row.status = "completed" => AfterRead(v, row, e) = "finalize"
        /\ row.status = "processing" => AfterRead(v, row, e) \in {"show", "judge"}
    BY DEF AfterRead
  <2>4. AfterRead(v, row, e) = "timeout" => FALSE
    BY <2>2, <2>3
  <2> QED BY <1>3, <2>2, <2>3, <2>4 DEF RowSound
<1> QED BY <1>1, <1>2, <1>3, <1>4, OnwardInforms

\* The steps of a visit between the read of the row and its end.
LEMMA BetweenInforms ==
  ASSUME IInv, Informed, NEW p \in Procs, CountAhead(p) \/ Show(p)
  PROVE  Informed'
<1> DEFINE v == visit[p]
<1>1. v # NoVisit /\ v.step \in {"count", "show"} /\ UNCHANGED <<answer, hush, entry>>
  BY DEF CountAhead, Show, At, bus
<1>2. v \in Visit /\ v.q \in Questions /\ RowSound(v, entry[p][v.q])
  BY <1>1, UnderWay DEF Informed, RowsSound
<1>3. PICK w : /\ visit' = [visit EXCEPT ![p] = w]
               /\ w.q = v.q /\ w.row = v.row /\ w.step = "judge"
               /\ w.since = v.since /\ w.changed = v.changed
  <2>1. CASE Show(p)
    <3> DEFINE w == [v EXCEPT !.step = "judge"]
    <3>1. visit' = [visit EXCEPT ![p] = w]
      BY <2>1 DEF Show, Onward
    <3>2. w.q = v.q /\ w.row = v.row /\ w.step = "judge" /\ w.since = v.since /\ w.changed = v.changed
      BY <1>2 DEF Visit
    <3> HIDE DEF w
    <3> QED BY <3>1, <3>2
  <2>2. CASE CountAhead(p)
    <3> DEFINE n == others + Cardinality({k \in Questions : k < v.q /\ question[k] = "pending"})
               w == [v EXCEPT !.step = "judge", !.ahead = n]
    <3>1. visit' = [visit EXCEPT ![p] = w]
      BY <1>2, <2>2 DEF CountAhead, IInv, TypeOK
    <3>2. w.q = v.q /\ w.row = v.row /\ w.step = "judge" /\ w.since = v.since /\ w.changed = v.changed
      BY <1>2 DEF Visit
    <3> HIDE DEF w
    <3> QED BY <3>1, <3>2
  <2> QED BY <2>1, <2>2
<1>4. RowSound(w, entry[p][w.q])
  BY <1>1, <1>2, <1>3 DEF RowSound
<1> QED BY <1>1, <1>2, <1>3, <1>4, OnwardInforms

\* A draft that ends: nothing more is asked of the row.
LEMMA EndInforms ==
  ASSUME IInv, Informed, NEW p \in Procs, Finalize(p) \/ Fail(p) \/ Timeout(p) \/ Notify(p) \/ Close(p)
  PROVE  Informed'
<1> DEFINE v == visit[p]
<1>1. v # NoVisit /\ UNCHANGED <<answer, hush>>
  BY DEF Finalize, Fail, Timeout, Notify, Close, At, bus
<1>2. v \in Visit /\ v.q \in Questions
  BY <1>1, UnderWay
<1>3. CASE Leave(p, v.q, NoEntry)
  BY <1>1, <1>2, <1>3, LeaveInforms
<1>4. ASSUME NEW step \in {"notify", "close", "closeAbandoned"}, NEW o,
             visit' = [visit EXCEPT ![p] = Ending(v, step, o)], entry' = entry
      PROVE  Informed'
  <2> DEFINE w == Ending(v, step, o)
  <2>1. w.q = v.q /\ w.step = step
    BY DEF Ending, NewVisit
  <2> HIDE DEF w
  <2>2. RowSound(w, entry[p][w.q])
    BY <2>1, NothingHeld
  <2>3. visit' = [visit EXCEPT ![p] = w]
    BY <1>4 DEF w
  <2> QED BY <1>1, <1>2, <1>4, <2>1, <2>2, <2>3, OnwardInforms
<1>5. CASE Onward(p, "close") /\ entry' = entry
  <2> DEFINE w == [v EXCEPT !.step = "close"]
  <2>1. w.q = v.q /\ w.step = "close"
    BY <1>2 DEF Visit
  <2>2. visit' = [visit EXCEPT ![p] = w]
    BY <1>5 DEF Onward
  <2> HIDE DEF w
  <2>3. RowSound(w, entry[p][w.q])
    BY <2>1, NothingHeld
  <2> QED BY <1>1, <1>2, <1>5, <2>1, <2>2, <2>3, OnwardInforms
<1>6. CASE Finalize(p)
  <2>1. visit' = [visit EXCEPT ![p] = Ending(v, IF Ends(v.q) THEN "notify" ELSE "close", "completed")]
        /\ entry' = entry
    BY <1>6 DEF Finalize
  <2> QED BY <1>4, <2>1
<1>7. CASE Fail(p)
  <2>1. \/ Leave(p, v.q, NoEntry)
        \/ /\ visit' = [visit EXCEPT ![p] = Ending(v, IF Ends(v.q) THEN "notify" ELSE "close", "failed")]
           /\ entry' = entry
    BY <1>7 DEF Fail
  <2> QED BY <1>3, <1>4, <2>1
<1>8. CASE Timeout(p)
  <2>1. PICK step \in {"timeout", "abandon"} :
          visit' = [visit EXCEPT ![p] =
                     Ending(v, IF step = "timeout" THEN "close" ELSE "closeAbandoned", "failed")]
    BY <1>8 DEF Timeout, IInv, TypeOK
  <2>2. entry' = entry
    BY <1>8 DEF Timeout
  <2> QED BY <1>4, <2>1, <2>2
<1>9. CASE Notify(p)
  BY <1>3, <1>5, <1>9 DEF Notify
<1>10. CASE Close(p)
  BY <1>3, <1>10 DEF Close
<1> QED BY <1>6, <1>7, <1>8, <1>9, <1>10

\* A judged entry: without a baseline it remembers no length, and one whose baseline
\* is good has waited no longer than the row of the visit has stood still.
LEMMA JudgedInforms ==
  ASSUME ChannelAssumption, IInv, Informed, NEW p \in Procs, At(p, "judge")
  PROVE  LET v == visit[p]
             d == Judged(v, entry[p][v.q])
         IN /\ BaselineSound(d, v.q)
            /\ d.age >= Limit(d.phase) /\ v.row # NoRow /\ ~v.since /\ v.row.len > 0
                 => hush[v.q] >= AnswerLimit
<1> DEFINE v == visit[p]
           q == v.q
           e == entry[p][q]
           d == Judged(v, e)
<1>1. v # NoVisit /\ v.step = "judge" /\ ~Dropping(p)
  BY DEF At, Dropping
<1>2. v \in Visit /\ q \in Questions /\ e \in Entry
  BY <1>1, UnderWay
<1>3. RowSound(v, e) /\ BaselineSound(e, q)
  BY <1>1, <1>2, NoValueAssumption DEF Informed, RowsSound, BaselinesSound
<1>4. /\ d.base = IF Reverts(v, e) THEN "none"
                  ELSE IF v.row = NoRow THEN e.base
                  ELSE IF v.since THEN "old" ELSE "same"
      /\ d.len = IF Reverts(v, e) THEN 0 ELSE IF Grew(v, e) THEN v.row.len ELSE e.len
      /\ d.age = IF Alive(v, e) THEN 0 ELSE e.age
      /\ d.phase = IF Forward(v, e) THEN "processing" ELSE IF Reverts(v, e) THEN "pending" ELSE e.phase
  BY DEF Judged
<1> HIDE DEF d
<1>5. hush[q] \in Nat /\ e.age \in Nat /\ ClaimLimit > 0 /\ AnswerLimit > 0
      /\ e.len \in Nat /\ e.base \in {"none", "same", "old"} /\ e.phase \in {"pending", "processing"}
  <2>1. Horizon \in Nat /\ ClaimLimit > 0 /\ AnswerLimit > 0 /\ MaxLen \in Nat
    BY DEF Horizon, ChannelAssumption
  <2>2. hush[q] \in 0..Horizon
    BY <1>2 DEF IInv, TypeOK
  <2>3. /\ e.age \in 0..Horizon /\ e.len \in 0..MaxLen
        /\ e.base \in {"none", "same", "old"} /\ e.phase \in {"pending", "processing"}
    BY <1>2 DEF Entry
  <2> QED BY <2>1, <2>2, <2>3
<1>6. ASSUME v.row # NoRow, ~v.since, ~Alive(v, e), v.row.len > 0
      PROVE  e.age <= hush[q] /\ e.phase = "processing"
  <2>1. answer[q] = v.row /\ v.row.status = "processing" /\ (~v.changed => e.base # "old")
    BY <1>1, <1>3, <1>6 DEF RowSound
  <2>2. ~Grew(v, e) /\ ~v.changed /\ ~Forward(v, e)
    BY <1>6 DEF Alive, Rewritten
  <2>3. v.row \in Row /\ v.row.len \in Nat
    BY <1>2, <1>6 DEF Visit, Row
  <2>4. v.row.len <= e.len
    BY <1>5, <1>6, <2>2, <2>3 DEF Grew
  <2>5. e.base = "same"
    BY <1>3, <1>5, <1>6, <2>1, <2>2, <2>3, <2>4 DEF BaselineSound
  <2>6. Writing(q) /\ answer[q].len > 0
    BY <1>6, <2>1 DEF Writing
  <2> QED BY <1>3, <1>5, <1>6, <2>2, <2>5, <2>6 DEF BaselineSound, Forward
<1>7. BaselineSound(d, q)
  <2>1. ASSUME d.base = "none" PROVE d.len = 0
    <3>1. CASE Reverts(v, e)
      BY <1>4, <3>1
    <3>2. CASE ~Reverts(v, e)
      <4>1. v.row = NoRow /\ e.base = "none"
        BY <1>4, <2>1, <3>2
      <4> QED BY <1>3, <1>4, <3>2, <4>1 DEF BaselineSound, Grew
    <3> QED BY <3>1, <3>2
  <2>2. ASSUME d.base = "same", Writing(q), answer[q].len > 0 PROVE d.age <= hush[q]
    <3>1. CASE Alive(v, e)
      BY <1>4, <1>5, <3>1
    <3>2. CASE ~Alive(v, e) /\ v.row = NoRow
      BY <1>3, <1>4, <2>2, <3>2 DEF BaselineSound
    <3>3. CASE ~Alive(v, e) /\ v.row # NoRow
      <4>1. ~v.since
        BY <1>4, <2>2, <3>3
      <4>2. answer[q] = v.row
        BY <1>1, <1>3, <3>3, <4>1 DEF RowSound
      <4> QED BY <1>4, <1>6, <2>2, <3>3, <4>1, <4>2
    <3> QED BY <3>1, <3>2, <3>3
  <2> QED BY <2>1, <2>2 DEF BaselineSound
<1>8. ASSUME d.age >= Limit(d.phase), v.row # NoRow, ~v.since, v.row.len > 0
      PROVE  hush[q] >= AnswerLimit
  <2>1. ~Alive(v, e)
    BY <1>4, <1>5, <1>8 DEF Limit
  <2>2. d.age = e.age /\ d.phase = e.phase
    BY <1>4, <2>1 DEF Alive
  <2>3. e.age <= hush[q] /\ e.phase = "processing"
    BY <1>6, <1>8, <2>1
  <2> QED BY <1>5, <1>8, <2>2, <2>3 DEF Limit
<1> QED BY <1>7, <1>8 DEF d

\* The visit judges what it has read: the entry is brought up to date, or given up on.
LEMMA JudgeInforms ==
  ASSUME ChannelAssumption, IInv, Informed, NEW p \in Procs, Judge(p)
  PROVE  Informed'
<1> DEFINE v == visit[p]
           q == v.q
           d == Judged(v, entry[p][q])
<1>1. At(p, "judge") /\ v # NoVisit /\ v.step = "judge" /\ ~Dropping(p) /\ UNCHANGED <<answer, hush>>
  BY DEF Judge, At, Dropping, bus
<1>2. v \in Visit /\ q \in Questions /\ entry[p][q] \in Entry /\ RowSound(v, entry[p][q])
  BY <1>1, UnderWay DEF Informed, RowsSound
<1>3. /\ BaselineSound(d, q)
      /\ d.age >= Limit(d.phase) /\ v.row # NoRow /\ ~v.since /\ v.row.len > 0 => hush[q] >= AnswerLimit
  BY <1>1, JudgedInforms
<1>4. d \in Entry
  BY <1>2, JudgedType
<1>5. \/ d.age >= Limit(d.phase) /\ Onward(p, "timeout") /\ entry' = [entry EXCEPT ![p][q] = d]
      \/ Leave(p, q, [d EXCEPT !.errors = 0])
  BY DEF Judge
<1> HIDE DEF d
<1>6. CASE Leave(p, q, [d EXCEPT !.errors = 0])
  <2> DEFINE c == [d EXCEPT !.errors = 0]
  <2>1. c.base = d.base /\ c.len = d.len /\ c.age = d.age
    BY <1>4 DEF Entry
  <2> HIDE DEF c
  <2>2. BaselineSound(c, q)
    BY <1>3, <2>1 DEF BaselineSound
  <2>3. Leave(p, q, c)
    BY <1>6 DEF c
  <2> QED BY <1>1, <1>2, <2>2, <2>3, LeaveInforms
<1>7. CASE d.age >= Limit(d.phase) /\ Onward(p, "timeout") /\ entry' = [entry EXCEPT ![p][q] = d]
  <2> DEFINE w == [v EXCEPT !.step = "timeout"]
  <2>1. w.q = q /\ w.row = v.row /\ w.step = "timeout" /\ w.since = v.since
    BY <1>2 DEF Visit
  <2>2. visit' = [visit EXCEPT ![p] = w]
    BY <1>7 DEF Onward
  <2> HIDE DEF w
  <2>3. RowSound(w, d)
    BY <1>1, <1>2, <1>3, <1>7, <2>1 DEF RowSound
  <2>4. /\ visit'[p] = w /\ entry'[p][q] = d
        /\ \A r \in Procs \ {p} : visit'[r] = visit[r] /\ entry'[r] = entry[r]
        /\ \A k \in Questions \ {q} : entry'[p][k] = entry[p][k]
    BY <1>2, <1>7, <2>2 DEF IInv, TypeOK
  <2> QED BY <1>1, <1>2, <1>3, <2>1, <2>3, <2>4, VisitInforms
<1> QED BY <1>5, <1>6, <1>7

\* An await that fails: the entry counts it, or is dropped.
LEMMA ErrInforms ==
  ASSUME IInv, Informed, NEW p \in Procs, NEW q \in Questions, Err(p, q)
  PROVE  Informed'
<1>1. UNCHANGED <<answer, hush>>
  BY DEF Err, bus
<1>2. CASE Leave(p, q, NoEntry)
  BY <1>1, <1>2, LeaveInforms
<1>3. CASE ~Dropping(p) /\ Leave(p, q, [entry[p][q] EXCEPT !.errors = @ + 1])
  <2> DEFINE e == [entry[p][q] EXCEPT !.errors = @ + 1]
  <2>1. q \in round[p]
    <3>1. CASE visit[p] = NoVisit
      BY <3>1 DEF Err, Fails
    <3>2. CASE visit[p] # NoVisit
      BY <3>2, UnderWay DEF Err, Fails
    <3> QED BY <3>1, <3>2
  <2>2. entry[p][q] \in Entry /\ entry[p][q] # NoEntry
    BY <1>3, <2>1, NoValueAssumption DEF IInv, Sound, VisitsSound, TypeOK, Visiting
  <2>3. BaselineSound(entry[p][q], q)
    BY <2>2 DEF Informed, BaselinesSound
  <2>4. e.base = entry[p][q].base /\ e.len = entry[p][q].len /\ e.age = entry[p][q].age
    BY <2>2 DEF Entry
  <2> HIDE DEF e
  <2>5. BaselineSound(e, q)
    BY <2>3, <2>4 DEF BaselineSound
  <2>6. Leave(p, q, e)
    BY <1>3 DEF e
  <2> QED BY <1>1, <2>5, <2>6, LeaveInforms
<1>4. CASE entry' = [entry EXCEPT ![p][q] = NoEntry] /\ visit' = [visit EXCEPT ![p] = NewVisit(q, "abandon")]
  <2> DEFINE w == NewVisit(q, "abandon")
  <2>1. w.step = "abandon" /\ visit' = [visit EXCEPT ![p] = w]
    BY <1>4 DEF NewVisit
  <2> HIDE DEF w
  <2>2. /\ visit'[p] = w /\ entry'[p][q] = NoEntry
        /\ \A r \in Procs \ {p} : visit'[r] = visit[r] /\ entry'[r] = entry[r]
        /\ \A k \in Questions \ {q} : entry'[p][k] = entry[p][k]
    BY <1>4, <2>1 DEF IInv, TypeOK
  <2>3. RowSound(w, entry'[p][w.q])
    BY <2>1, NothingHeld
  <2> QED BY <1>1, <2>2, <2>3, VisitInforms
<1> QED BY <1>2, <1>3, <1>4 DEF Err

\* A visit begins with nothing read.
LEMMA ReadQuestionInforms ==
  ASSUME IInv, Informed, NEW p \in Procs, NEW q \in Questions, ReadQuestion(p, q)
  PROVE  Informed'
<1> DEFINE w == [NewVisit(q, IF question[q] = "deleted" THEN "judge" ELSE "answer") EXCEPT !.status = question[q]]
<1>1. visit' = [visit EXCEPT ![p] = w] /\ UNCHANGED <<answer, hush, entry>>
  BY DEF ReadQuestion, bus
<1>2. w.q = q /\ w.row = NoRow
  BY DEF NewVisit
<1> HIDE DEF w
<1> QED BY <1>1, <1>2, NothingHeld, OnwardInforms

\* Every step of a poller keeps its visits informed.
LEMMA PollInforms ==
  ASSUME ChannelAssumption, IInv, Informed, NEW p \in Procs, Poll(p)
  PROVE  Informed'
<1>1. StartTick(p) => Informed'
  BY InformedStays DEF StartTick, bus
<1> QED BY <1>1, ReadQuestionInforms, ErrInforms, ReadAnswerInforms, BetweenInforms, EndInforms,
           JudgeInforms DEF Poll

\* A question is submitted before anybody visits it.
LEMMA SubmitInforms ==
  ASSUME IInv, Informed, NEW p \in Procs, NEW q \in Questions, Submit(p, q)
  PROVE  Informed'
<1>1. /\ question[q] = "none" /\ UNCHANGED <<answer, hush, visit>>
      /\ entry'[p][q] = NewEntry
      /\ \A r \in Procs \ {p} : visit'[r] = visit[r] /\ entry'[r] = entry[r]
      /\ \A k \in Questions \ {q} : entry'[p][k] = entry[p][k]
  BY DEF Submit, IInv, TypeOK
<1>2. ASSUME visit[p] # NoVisit
      PROVE  RowSound(visit[p], entry'[p][visit[p].q])
  <2>1. visit[p].q \in Questions \ {q}
    BY <1>1, <1>2, UnderWay
  <2> QED BY <1>1, <1>2, <2>1 DEF Informed, RowsSound
<1> QED BY <1>1, <1>2, NewEntryInforms, VisitInforms

\* A process that stops or starts knows of no row.
LEMMA RestartInforms ==
  ASSUME IInv, Quiet, Informed, NEW p \in Procs, Stop(p) \/ Start(p)
  PROVE  Informed'
<1>1. /\ UNCHANGED <<answer, hush>>
      /\ visit'[p] = NoVisit
      /\ \A k \in Questions : entry'[p][k] \in {NewEntry, NoEntry}
      /\ \A r \in Procs \ {p} : visit'[r] = visit[r] /\ entry'[r] = entry[r]
  <2>1. CASE Stop(p)
    BY <2>1 DEF Stop, bus, IInv, TypeOK
  <2>2. CASE Start(p)
    <3>1. visit[p] = NoVisit
      BY <2>2, UnderWay DEF Start, Quiet
    <3> QED BY <2>2, <3>1 DEF Start, bus, IInv, TypeOK
  <2> QED BY <2>1, <2>2
<1>2. RowsSound'
  <2> SUFFICES ASSUME NEW r \in Procs, visit'[r] # NoVisit
               PROVE  RowSound(visit[r], entry[r][visit[r].q])'
    BY DEF RowsSound
  <2>1. visit'[r] = visit[r] /\ entry'[r] = entry[r]
    BY <1>1
  <2>2. RowSound(visit[r], entry[r][visit[r].q])
    BY <2>1 DEF Informed, RowsSound
  <2> QED BY <1>1, <2>1, <2>2 DEF RowSound
<1>3. BaselinesSound'
  <2> SUFFICES ASSUME NEW r \in Procs, NEW k \in Questions, entry'[r][k] # NoEntry
               PROVE  BaselineSound(entry[r][k], k)'
    BY DEF BaselinesSound
  <2>1. BaselineSound(entry'[r][k], k)
    BY <1>1, NewEntryInforms DEF Informed, BaselinesSound
  <2> QED BY <1>1, <2>1 DEF BaselineSound, Writing
<1> QED BY <1>2, <1>3 DEF Informed

\* Visits and baselines are informed in every reachable state.
LEMMA NextInforms ==
  ASSUME IInv, Quiet, Informed, [Next]_vars
  PROVE  Informed'
<1>1. CASE Advance \/ UNCHANGED vars
  BY <1>1, InformedStays DEF Advance, vars, bus, process
<1> QED BY <1>1, ChannelAssumption, AgentInforms, PollInforms, RestartInforms, SubmitInforms, PassInforms DEF Next

THEOREM VisitsInformed == Spec => [](IInv /\ Quiet /\ Informed)
<1>1. Init => Informed
  BY DEF Init, Informed, RowsSound, BaselinesSound
<1>2. IInv /\ Quiet /\ Informed /\ [Next]_vars => Informed'
  BY NextInforms
<1> QED BY <1>1, <1>2, Invariance, PTL DEF Spec

\* An agent that writes is not timed out, in any number of processes and for any limits:
\* a visit that has read reasoning and gives up has seen it stand still for the whole
\* answer limit, unless the row changed after it was read (_tick).
THEOREM Patient == Spec => []PatientTimeout
<1>1. IInv /\ Quiet /\ Informed => PatientTimeout
  BY DEF Informed, RowsSound, RowSound, PatientTimeout
<1> QED BY <1>1, VisitsInformed, PTL

\* A completed answer is thrown away by no visit that could have read it: a draft fails
\* beside one only for a visit that read too early, or whose reads failed too often.
THEOREM AnswersKept == Spec => AnswerNotThrownAway
<1>1. ASSUME IInv, Informed, [Next]_vars, NEW q \in Questions,
             message[q] = "streaming", message'[q] = "failed",
             answer[q] # NoRow, answer[q].status = "completed"
      PROVE  \E p \in Procs :
               /\ visit[p] # NoVisit /\ visit[p].q = q
               /\ visit[p].step = "abandon" \/ visit[p].row = NoRow \/ visit[p].since
  <2>1. \E p \in Procs : Fail(p) \/ Timeout(p)
    <3>1. ASSUME NEW p \in Procs, NEW k \in Questions, Submit(p, k) PROVE FALSE
      BY <1>1, <3>1 DEF Submit, IInv, TypeOK
    <3>2. ASSUME NEW p \in Procs, Finalize(p) PROVE FALSE
      BY <1>1, <3>2 DEF Finalize, IInv, TypeOK
    <3>3. ASSUME NEW k \in Questions, Agent(k) PROVE FALSE
      BY <1>1, <3>3 DEF Agent, Claim, Begin, Reason, Refuse, Purge, Finish, Reclaim, Touch, chat
    <3>4. ASSUME NEW p \in Procs, NEW k \in Questions, ReadQuestion(p, k) \/ Err(p, k) PROVE FALSE
      BY <1>1, <3>4 DEF ReadQuestion, Err, chat
    <3>5. ASSUME NEW p \in Procs, StartTick(p) \/ ReadAnswer(p) \/ CountAhead(p) \/ Show(p) PROVE FALSE
      BY <1>1, <3>5 DEF StartTick, ReadAnswer, CountAhead, Show, chat
    <3>6. ASSUME NEW p \in Procs, Notify(p) \/ Close(p) \/ Judge(p) PROVE FALSE
      BY <1>1, <3>6 DEF Notify, Close, Judge, chat
    <3>7. ASSUME NEW p \in Procs, Stop(p) \/ Start(p) PROVE FALSE
      BY <1>1, <3>7 DEF Stop, Start, chat
    <3>8. CASE Advance \/ Pass \/ UNCHANGED vars
      BY <1>1, <3>8 DEF Advance, Pass, vars, chat
    <3> QED BY <1>1, <3>1, <3>2, <3>3, <3>4, <3>5, <3>6, <3>7, <3>8 DEF Next, Poll
  <2>2. PICK p \in Procs : Fail(p) \/ Timeout(p)
    BY <2>1
  <2>3. visit[p] # NoVisit /\ visit[p].step \in {"fail", "timeout", "abandon"} /\ MarkFailed(visit[p].q)
    BY <2>2 DEF Fail, Timeout, At
  <2>4. visit[p].q = q
    <3>1. visit[p].q \in Questions
      BY <1>1, <2>3, UnderWay
    <3> QED BY <1>1, <2>3, <3>1 DEF MarkFailed, IInv, TypeOK
  <2>5. RowSound(visit[p], entry[p][q])
    BY <1>1, <2>3, <2>4 DEF Informed, RowsSound
  <2>6. visit[p].step = "abandon" \/ visit[p].row = NoRow \/ visit[p].since
    BY <1>1, <2>3, <2>4, <2>5 DEF RowSound
  <2> QED BY <2>3, <2>4, <2>6
<1>2. IInv /\ Quiet /\ Informed /\ [Next]_vars => [\A q \in Questions :
       /\ message[q] = "streaming" /\ message'[q] = "failed"
       /\ answer[q] # NoRow /\ answer[q].status = "completed"
       => \E p \in Procs :
            /\ visit[p] # NoVisit /\ visit[p].q = q
            /\ visit[p].step = "abandon" \/ visit[p].row = NoRow \/ visit[p].since]_vars
  BY <1>1
<1> QED BY <1>2, VisitsInformed, PTL DEF Spec, AnswerNotThrownAway
=============================================================================
