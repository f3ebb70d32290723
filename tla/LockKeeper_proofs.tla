-------------------------- MODULE LockKeeper_proofs --------------------------
(***************************************************************************)
(* For any acts, users, settings, numbers of sessions and of calls in      *)
(* flight: a session is always watched, and a page that is gone has left   *)
(* nothing locked; with settings that add up, the lease outlasts every     *)
(* session whose callbacks and answers are in time.                        *)
(*                                                                         *)
(* The argument goes in stages.  Base: timers are one per session, a       *)
(* session begins once at a time.  Watched sessions follow by themselves.  *)
(* Handover: an act that is the user's is always somebody's to give back,  *)
(* the page's own or that of a call on its way.  Leased: the page's own    *)
(* counters bound the time since the server last renewed the lease.        *)
(***************************************************************************)
EXTENDS LockKeeper, TLAPS

Runs(flag) == IF flag THEN 1 ELSE 0

\* init is waiting for its lock.
Locking == Open /\ \E c \in calls : c.kind = "lock"

\* Every running interval was begun by a session of its own.
TimersSound ==
    /\ strays + Runs(timer) + Runs(Locking) <= session
    /\ extendDue <= strays + Runs(timer)

\* Before the first session there is nothing.
Blank ==
    session = 0 =>
        /\ phase = "none" /\ actId = NoAct /\ target = NoAct /\ current = NoAct
        /\ calls = {} /\ dialogs = {} /\ shown = NoDialog
        /\ ~listening /\ ~idleCheck /\ ~idleDue

\* One session at a time is being begun, and the list page unlocks one at a time.
BeginsOnce ==
    Open =>
    /\ \A c1, c2 \in calls : {c1.kind, c2.kind} \subseteq {"lock", "switch"} => c1 = c2
    /\ \A c \in calls :
        /\ c.kind = "switch" => /\ page = "constructor" /\ target # NoAct
                                /\ session < MaxSessions /\ phase \in {"live", "closed"}
        /\ c.kind = "lock" => phase = "locking" \/ (phase = "closed" /\ target # NoAct)
        /\ c.kind = "manual" /\ page = "list" => phase = "live" /\ manual
        /\ c.kind = "lock" /\ page = "constructor" /\ target = NoAct =>
              \A m \in calls : m.kind # "manual"
    /\ target # NoAct => page = "constructor"
    /\ session > 0 => phase # "none"
    /\ page = "list" => \A c1, c2 \in calls : c1.kind = "manual" /\ c2.kind = "manual" => c1 = c2

\* TypeOK in two parts.
Flags ==
    {exiting, manual, unload, timer, idleCheck, idleDue, listening, leaving, away, stayed, again,
     disturbed, unclean} \subseteq BOOLEAN

Values ==
    /\ page \in Pages \cup {"gone"}
    /\ phase \in {"none", "locking", "live", "refused", "closed"}
    /\ session \in 0 .. MaxSessions
    /\ {current, target, actId} \subseteq Acts \cup {NoAct}
    /\ failures \in Nat
    /\ strays \in 0 .. MaxSessions /\ extendDue \in 0 .. MaxSessions + 1
    /\ dialogs \subseteq Dialog /\ shown \in 0 .. MaxSessions
    /\ idle \in 0 .. IdleLimit /\ sinceExtension \in 0 .. MinExtension
    /\ calls \subseteq Call
    /\ lease \in [Acts -> Rivals \cup {Me, NoUser}] /\ ttl \in [Acts -> 0 .. LockDuration]

LEMMA TypeParts == TypeOK <=> Flags /\ Values
BY DEF TypeOK, Flags, Values

LEMMA TypePartsNext == TypeOK' <=> Flags' /\ Values'
BY DEF TypeOK, Flags, Values

Base == TypeOK /\ TimersSound /\ Blank /\ BeginsOnce

-----------------------------------------------------------------------------
(* Calls and dialogs. *)

LEMMA NewCallType ==
    ASSUME NEW kind \in Kinds, NEW a \in Acts \cup {NoAct}, session \in Sessions
    PROVE  /\ NewCall(kind, a) \in Call
           /\ NewCall(kind, a).kind = kind /\ NewCall(kind, a).act = a
           /\ NewCall(kind, a).session = session /\ NewCall(kind, a).n = 1
           /\ NewCall(kind, a).locked = NoAct /\ NewCall(kind, a).answer = "none"
<1>1. 1 \in 1 .. MaxExtends
  BY KeeperAssumption
<1>. QED
  BY <1>1 DEF NewCall, Call, Answers

LEMMA ExitCallType ==
    ASSUME TypeOK, session \in Sessions
    PROVE  /\ ExitCall \in Call
           /\ ExitCall.kind = (IF current = NoAct THEN "exit" ELSE "save")
           /\ ExitCall.act = (IF current = NoAct THEN actId ELSE current)
           /\ ExitCall.session = session
           /\ ExitCall.locked = actId /\ ExitCall.answer = "none"
<1>. DEFINE kind == IF current = NoAct THEN "exit" ELSE "save"
            a == IF current = NoAct THEN actId ELSE current
<1>1. kind \in Kinds /\ a \in Acts \cup {NoAct} /\ actId \in Acts \cup {NoAct}
  BY DEF TypeOK, Kinds, Unlocks
<1>2. NewCall(kind, a) \in Call
  BY <1>1, NewCallType
<1>3. ExitCall = [NewCall(kind, a) EXCEPT !.locked = actId]
  BY DEF ExitCall
<1>. HIDE DEF kind, a
<1>4. /\ ExitCall \in Call
      /\ ExitCall.kind = kind /\ ExitCall.act = a /\ ExitCall.session = session
      /\ ExitCall.locked = actId /\ ExitCall.answer = "none"
  <2>1. /\ NewCall(kind, a).kind = kind /\ NewCall(kind, a).act = a
        /\ NewCall(kind, a).session = session /\ NewCall(kind, a).answer = "none"
    BY <1>1, NewCallType
  <2>. QED
    BY <1>1, <1>2, <1>3, <2>1 DEF Call
<1>. QED
  BY <1>4 DEF kind, a

LEMMA LockCallType ==
    ASSUME NEW a \in Acts \cup {NoAct}, session \in Nat, session + 1 \in Sessions
    PROVE  /\ LockCall(a) \in Call
           /\ LockCall(a).kind = "lock" /\ LockCall(a).act = a
           /\ LockCall(a).session = session + 1
           /\ LockCall(a).locked = NoAct /\ LockCall(a).answer = "none"
<1>1. 1 \in 1 .. MaxExtends
  BY KeeperAssumption
<1>. QED
  BY <1>1 DEF LockCall, NewCall, Call, Answers, Kinds

LEMMA ExtendCallType ==
    ASSUME TypeOK, session \in Sessions, NEW n \in 1 .. MaxExtends
    PROVE  /\ ExtendCall(n) \in Call
           /\ ExtendCall(n).kind = "extend" /\ ExtendCall(n).act = actId
           /\ ExtendCall(n).session = session
           /\ ExtendCall(n).locked = NoAct /\ ExtendCall(n).answer = "none"
BY DEF TypeOK, ExtendCall, NewCall, Call, Answers, Kinds

LEMMA ExitAfterType ==
    ASSUME NEW c \in Call
    PROVE  /\ ExitAfter(c) \in Call
           /\ ExitAfter(c).kind = "exit" /\ ExitAfter(c).act = c.locked
           /\ ExitAfter(c).session = c.session /\ ExitAfter(c).answer = "none"
BY DEF ExitAfter, Call, Kinds, Unlocks, Answers

LEMMA ReplyType ==
    ASSUME TypeOK, NEW c \in calls, NEW answer \in Answers
    PROVE  /\ Reply(c, answer) \subseteq Call
           /\ [c EXCEPT !.answer = answer].kind = c.kind
           /\ [c EXCEPT !.answer = answer].act = c.act
           /\ [c EXCEPT !.answer = answer].session = c.session
           /\ [c EXCEPT !.answer = answer].locked = c.locked
           /\ [c EXCEPT !.answer = answer].answer = answer
           /\ calls = {} => Reply(c, answer) = {}
BY DEF TypeOK, Reply, Call

LEMMA BeaconType ==
    ASSUME TypeOK, Blank
    PROVE  /\ Beacon \subseteq Call
           /\ session = 0 => Beacon = {}
           /\ \A c \in Beacon : c.kind = "beacon" /\ c.act = actId /\ c.session = session
                                /\ c.answer = "none"
<1>1. CASE session = 0
  BY <1>1 DEF Blank, Beacon
<1>2. CASE session # 0
  <2>1. session \in Sessions /\ actId \in Acts \cup {NoAct} /\ "beacon" \in Kinds
    BY <1>2, KeeperAssumption DEF TypeOK, Sessions, Kinds, Unlocks
  <2>. QED
    BY <1>2, <2>1, NewCallType DEF Beacon
<1>. QED
  BY <1>1, <1>2

\* What clearing or closing dialogs leaves.
LEMMA DialogsCleared ==
    ASSUME NEW ds \in SUBSET Dialog, NEW s
    PROVE  /\ Silenced(ds, s) \in SUBSET Dialog
           /\ _closeInactivityDialog(ds) \in SUBSET Dialog
           /\ ds = {} => Silenced(ds, s) = {}
<1>1. Stopped \in Stopped .. DialogTime
  BY KeeperAssumption DEF Stopped
<1>2. \A e \in Dialog : [e EXCEPT !.left = Stopped] \in Dialog
  BY <1>1 DEF Dialog
<1>. QED
  BY <1>2 DEF Silenced, _closeInactivityDialog

LEMMA DialogClosed ==
    ASSUME NEW ds \in SUBSET Dialog, NEW d \in Dialog
    PROVE  /\ Closed(ds, d) \in SUBSET Dialog
           /\ [d EXCEPT !.left = Stopped] \in Dialog
<1>1. Stopped \in Stopped .. DialogTime
  BY KeeperAssumption DEF Stopped
<1>2. [d EXCEPT !.left = Stopped] \in Dialog /\ [d EXCEPT !.open = FALSE] \in Dialog
  BY <1>1 DEF Dialog
<1>. QED
  BY <1>2 DEF Closed

-----------------------------------------------------------------------------
(* Base. *)

LEMMA BaseInit == Init => Base
<1>. SUFFICES ASSUME Init PROVE Base
  OBVIOUS
<1>. USE KeeperAssumption DEF Init, NoDialog
<1>1. Flags
  BY DEF Flags
<1>2. Values
  BY DEF Values
<1>3. TimersSound /\ Blank /\ BeginsOnce
  BY DEF TimersSound, Blank, BeginsOnce, Runs, Locking, Open
<1>. QED
  BY <1>1, <1>2, <1>3, TypeParts DEF Base

\* The end of a session, whoever asks for it.
LEMMA BaseEnding ==
    ASSUME Base, Open, session > 0, NEW read \in SUBSET calls, NEW ds \in SUBSET Dialog,
           _initiateExit(read, ds), failures' \in Nat, idle' \in 0 .. IdleLimit,
           UNCHANGED <<sinceExtension, actId, server, page_, away, stayed, disturbed>>
    PROVE  Base'
<1>. USE KeeperAssumption DEF Base, clock, server, page_
<1>1. session \in Sessions
  BY DEF TypeOK, Sessions
<1>2. CASE exiting
  <2>. USE <1>2 DEF _initiateExit, timers
  <2>1. TypeOK'
    BY DEF TypeOK
  <2>2. TimersSound'
    BY DEF TimersSound, TypeOK, Runs, Locking, Open
  <2>3. Blank' /\ BeginsOnce'
    BY DEF Blank, BeginsOnce, Open
  <2>. QED
    BY <2>1, <2>2, <2>3
<1>3. CASE ~exiting
  <2>. USE <1>3 DEF _initiateExit, StopTimers
  <2>1. ExitCall \in Call /\ ExitCall.kind \in {"exit", "save"}
    BY <1>1, ExitCallType
  <2>2. dialogs' \subseteq Dialog
    BY DEF _closeInactivityDialog
  <2>3. calls' \subseteq Call
    BY <2>1 DEF TypeOK
  <2>4. TypeOK'
    <3>1. again' \in BOOLEAN /\ unclean' \in BOOLEAN
      OBVIOUS
    <3>2. Flags'
      BY <3>1, TypeParts DEF Flags
    <3>3. Values'
      BY <2>2, <2>3, TypeParts DEF Values, NoDialog
    <3>. QED
      BY <3>2, <3>3, TypePartsNext
  <2>5. TimersSound'
    BY <2>1 DEF TimersSound, TypeOK, Runs, Locking, Open
  <2>6. Blank' /\ BeginsOnce'
    BY <2>1 DEF Blank, BeginsOnce, Open
  <2>. QED
    BY <2>4, <2>5, <2>6
<1>. QED
  BY <1>2, <1>3

LEMMA BaseGone ==
    ASSUME Base, NEW beacon \in SUBSET Call, PageGone(beacon), unclean' \in BOOLEAN,
           session = 0 => beacon = {}
    PROVE  Base'
<1>. USE KeeperAssumption DEF Base, PageGone, server
<1>1. TypeOK'
  <2>1. Flags'
    BY TypeParts DEF Flags
  <2>2. calls' \subseteq Call
    BY TypeParts DEF Values
  <2>3. Values'
    BY <2>2, TypeParts DEF Values, NoDialog
  <2>. QED
    BY <2>1, <2>3, TypePartsNext
<1>2. TimersSound'
  BY DEF TimersSound, TypeOK, Runs, Locking, Open
<1>3. Blank' /\ BeginsOnce'
  BY DEF Blank, BeginsOnce, Open
<1>. QED
  BY <1>1, <1>2, <1>3

\* A session begins: no other is being begun.
LEMMA BaseBegins ==
    ASSUME Base, Open, NEW a \in Acts \cup {NoAct}, NEW read \in SUBSET calls, init(a, read),
           session < MaxSessions, \A c \in calls \ read : c.kind \notin {"lock", "switch"},
           page = "list" => phase # "live",
           {current', target'} \subseteq Acts \cup {NoAct}, target' # NoAct <=> (page = "constructor" /\ session > 0),
           {timer', listening', idleCheck', idleDue'} \subseteq BOOLEAN,
           strays' = strays, timer' => timer,
           extendDue' \in Nat, extendDue' <= strays + Runs(timer'), extendDue' <= extendDue,
           dialogs' \in SUBSET Dialog, shown' \in 0 .. MaxSessions,
           UNCHANGED <<idle, unload, server, page, leaving, away, stayed, again, disturbed>>
    PROVE  Base'
<1>. USE KeeperAssumption DEF Base, init, server
<1>1. session \in Nat /\ session + 1 \in Sessions
  BY DEF TypeOK, Sessions
<1>2. LockCall(a) \in Call /\ LockCall(a).kind = "lock"
  BY <1>1, LockCallType
<1>3. calls' = (calls \ read) \cup {LockCall(a)}
  OBVIOUS
<1>4. calls' \subseteq Call
  BY <1>2, <1>3 DEF TypeOK
<1>5. TypeOK'
  <2>0. unclean' \in BOOLEAN /\ exiting' \in BOOLEAN /\ manual' \in BOOLEAN
    OBVIOUS
  <2>1. Flags'
    BY <2>0, TypeParts DEF Flags
  <2>2. Values'
    BY <1>1, <1>4, TypeParts DEF Values, Sessions
  <2>. QED
    BY <2>1, <2>2, TypePartsNext
<1>6. TimersSound'
  BY DEF TimersSound, TypeOK, Runs, Locking, Open
<1>7. Blank'
  BY <1>1 DEF Blank
<1>8. BeginsOnce'
  <2>1. page = "constructor" /\ target' = NoAct => calls = {}
    BY DEF Blank, TypeOK
  <2>. QED
    BY <1>1, <1>2, <1>3, <2>1 DEF BeginsOnce, Open
<1>. QED
  BY <1>5, <1>6, <1>7, <1>8

LEMMA BaseStep == Base /\ [Next]_vars => Base'
<1>. SUFFICES ASSUME Base, [Next]_vars PROVE Base'
  OBVIOUS
<1>. USE KeeperAssumption DEF Base, timers, clock, keeper, popups, server, page_, told
<1>LockGranted. ASSUME NEW c \in calls, LockGranted(c) PROVE Base'
  <2>. USE <1>LockGranted DEF LockGranted, Answered
  <2>0. Locking /\ ~Locking' /\ session \in Nat
    BY DEF Locking, BeginsOnce, Open, TypeOK
  <2>0a. strays' \in 0 .. session /\ strays' + Runs(timer') <= session /\ session # 0
    BY <2>0 DEF TimersSound, Runs, TypeOK
  <2>1. Flags'
    BY <2>0, <2>0a, TypeParts DEF Flags
  <2>2. Values'
    BY <2>0, <2>0a, TypeParts DEF Values, NoDialog
  <2>3. TimersSound'
    BY <2>0, <2>0a DEF TimersSound, TypeOK, Runs, Locking, Open
  <2>4. Blank'
    BY <2>0, <2>0a DEF Blank, TypeOK, NoDialog
  <2>5. BeginsOnce'
    BY <2>0, <2>0a DEF BeginsOnce, TypeOK, Open, Call
  <2>. QED
    BY <2>1, <2>2, <2>3, <2>4, <2>5, TypePartsNext
<1>LockDenied. ASSUME NEW c \in calls, LockDenied(c) PROVE Base'
  <2>. USE <1>LockDenied DEF LockDenied, Answered
  <2>1. Flags'
    BY TypeParts DEF Flags
  <2>2. Values'
    BY TypeParts DEF Values, NoDialog
  <2>3. TimersSound'
    BY DEF TimersSound, TypeOK, Runs, Locking, Open
  <2>4. Blank'
    BY DEF Blank, TypeOK, NoDialog
  <2>5. BeginsOnce'
    BY DEF BeginsOnce, TypeOK, Open, Call
  <2>. QED
    BY <2>1, <2>2, <2>3, <2>4, <2>5, TypePartsNext
<1>RefusalRead. ASSUME NEW stays \in BOOLEAN, RefusalRead(stays) PROVE Base'
  <2>. USE <1>RefusalRead DEF RefusalRead
  <2>1. Flags'
    BY TypeParts DEF Flags
  <2>2. Values'
    BY TypeParts DEF Values, NoDialog
  <2>3. TimersSound'
    BY DEF TimersSound, TypeOK, Runs, Locking, Open
  <2>4. Blank'
    BY DEF Blank, TypeOK, NoDialog
  <2>5. BeginsOnce'
    BY DEF BeginsOnce, TypeOK, Open, Call
  <2>. QED
    BY <2>1, <2>2, <2>3, <2>4, <2>5, TypePartsNext
<1>Extended. ASSUME NEW c \in calls, Extended(c) PROVE Base'
  <2>. USE <1>Extended DEF Extended
  <2>1. Flags'
    BY TypeParts DEF Flags
  <2>2. Values'
    BY TypeParts DEF Values, NoDialog
  <2>3. TimersSound'
    BY DEF TimersSound, TypeOK, Runs, Locking, Open
  <2>4. Blank'
    BY DEF Blank, TypeOK, NoDialog
  <2>5. BeginsOnce'
    BY DEF BeginsOnce, TypeOK, Open, Call
  <2>. QED
    BY <2>1, <2>2, <2>3, <2>4, <2>5, TypePartsNext
<1>ExtensionFails. ASSUME NEW c \in calls, ExtensionFails(c) PROVE Base'
  <2>. USE <1>ExtensionFails DEF ExtensionFails, Answered
  <2>1. Flags'
    BY TypeParts DEF Flags
  <2>2. Values'
    BY TypeParts DEF Values, NoDialog
  <2>3. TimersSound'
    BY DEF TimersSound, TypeOK, Runs, Locking, Open
  <2>4. Blank'
    BY DEF Blank, TypeOK, NoDialog
  <2>5. BeginsOnce'
    BY DEF BeginsOnce, TypeOK, Open, Call
  <2>. QED
    BY <2>1, <2>2, <2>3, <2>4, <2>5, TypePartsNext
<1>IdleFires. ASSUME IdleFires PROVE Base'
  <2>. USE <1>IdleFires DEF IdleFires
  <2>0. session # 0
    BY DEF Blank
  <2>0a. idle >= IdleLimit => [act |-> actId, session |-> session, left |-> DialogTime, open |-> TRUE] \in Dialog
    BY <2>0, KeeperAssumption DEF TypeOK, Dialog, Sessions, Stopped
  <2>1. Flags'
    BY <2>0, <2>0a, TypeParts DEF Flags
  <2>2. Values'
    BY <2>0, <2>0a, TypeParts DEF Values, NoDialog
  <2>3. TimersSound'
    BY <2>0, <2>0a DEF TimersSound, TypeOK, Runs, Locking, Open
  <2>4. Blank'
    BY <2>0, <2>0a DEF Blank, TypeOK, NoDialog
  <2>5. BeginsOnce'
    BY <2>0, <2>0a DEF BeginsOnce, TypeOK, Open, Call
  <2>. QED
    BY <2>1, <2>2, <2>3, <2>4, <2>5, TypePartsNext
<1>StayGranted. ASSUME NEW c \in calls, StayGranted(c) PROVE Base'
  <2>. USE <1>StayGranted DEF StayGranted, Answered
  <2>1. Flags'
    BY TypeParts DEF Flags
  <2>2. Values'
    BY TypeParts DEF Values, NoDialog
  <2>3. TimersSound'
    BY DEF TimersSound, TypeOK, Runs, Locking, Open
  <2>4. Blank'
    BY DEF Blank, TypeOK, NoDialog
  <2>5. BeginsOnce'
    BY DEF BeginsOnce, TypeOK, Open, Call
  <2>. QED
    BY <2>1, <2>2, <2>3, <2>4, <2>5, TypePartsNext
<1>ExitAnswered. ASSUME NEW c \in calls, ExitAnswered(c) PROVE Base'
  <2>. USE <1>ExitAnswered DEF ExitAnswered, Answered, ExitDone
  <2>1. Flags'
    BY TypeParts DEF Flags
  <2>2. Values'
    BY TypeParts DEF Values, NoDialog
  <2>3. TimersSound'
    BY DEF TimersSound, TypeOK, Runs, Locking, Open
  <2>4. Blank'
    BY DEF Blank, TypeOK, NoDialog
  <2>5. BeginsOnce'
    BY DEF BeginsOnce, TypeOK, Open, Call
  <2>. QED
    BY <2>1, <2>2, <2>3, <2>4, <2>5, TypePartsNext
<1>ManualAnswered. ASSUME NEW c \in calls, NEW stays \in BOOLEAN, ManualAnswered(c, stays) PROVE Base'
  <2>. USE <1>ManualAnswered DEF ManualAnswered, Answered
  <2>0. page = "list" => phase = "live" /\ target = NoAct
    BY DEF BeginsOnce, Open
  <2>0a. page = "list" => \A e \in calls : e.kind \notin {"lock", "switch"}
    BY <2>0 DEF BeginsOnce, Open
  <2>0b. page = "constructor" => \A e \in calls : e.kind = "lock" => target # NoAct
    BY DEF BeginsOnce, Open
  <2>1. Flags'
    BY <2>0, <2>0a, <2>0b, TypeParts DEF Flags
  <2>2. Values'
    BY <2>0, <2>0a, <2>0b, TypeParts DEF Values, NoDialog
  <2>3. TimersSound'
    BY <2>0, <2>0a, <2>0b DEF TimersSound, TypeOK, Runs, Locking, Open
  <2>4. Blank'
    BY <2>0, <2>0a, <2>0b DEF Blank, TypeOK, NoDialog
  <2>5. BeginsOnce'
    BY <2>0, <2>0a, <2>0b DEF BeginsOnce, TypeOK, Open, Call
  <2>. QED
    BY <2>1, <2>2, <2>3, <2>4, <2>5, TypePartsNext
<1>Activity. ASSUME Activity PROVE Base'
  <2>. USE <1>Activity DEF Activity
  <2>1. Flags'
    BY TypeParts DEF Flags
  <2>2. Values'
    BY TypeParts DEF Values, NoDialog
  <2>3. TimersSound'
    BY DEF TimersSound, TypeOK, Runs, Locking, Open
  <2>4. Blank'
    BY DEF Blank, TypeOK, NoDialog
  <2>5. BeginsOnce'
    BY DEF BeginsOnce, TypeOK, Open, Call
  <2>. QED
    BY <2>1, <2>2, <2>3, <2>4, <2>5, TypePartsNext
<1>RivalMoves. ASSUME NEW a \in Acts, NEW u \in Rivals, RivalMoves(a, u) PROVE Base'
  <2>. USE <1>RivalMoves DEF RivalMoves
  <2>1. Flags'
    BY TypeParts DEF Flags
  <2>2. Values'
    BY TypeParts DEF Values, NoDialog
  <2>3. TimersSound'
    BY DEF TimersSound, TypeOK, Runs, Locking, Open
  <2>4. Blank'
    BY DEF Blank, TypeOK, NoDialog
  <2>5. BeginsOnce'
    BY DEF BeginsOnce, TypeOK, Open, Call
  <2>. QED
    BY <2>1, <2>2, <2>3, <2>4, <2>5, TypePartsNext
<1>Tick. ASSUME Tick PROVE Base'
  <2>. USE <1>Tick DEF Tick, Capped, Behind
  <2>0. dialogs' \subseteq Dialog
    BY DEF TypeOK, Dialog, Stopped
  <2>0a. ttl' \in [Acts -> 0 .. LockDuration]
    BY DEF TypeOK
  <2>1. Flags'
    BY <2>0, <2>0a, TypeParts DEF Flags
  <2>2. Values'
    BY <2>0, <2>0a, TypeParts DEF Values, NoDialog
  <2>3. TimersSound'
    BY <2>0, <2>0a DEF TimersSound, TypeOK, Runs, Locking, Open
  <2>4. Blank'
    BY <2>0, <2>0a DEF Blank, TypeOK, NoDialog
  <2>5. BeginsOnce'
    BY <2>0, <2>0a DEF BeginsOnce, TypeOK, Open, Call
  <2>. QED
    BY <2>1, <2>2, <2>3, <2>4, <2>5, TypePartsNext
<1>SwitchAct. ASSUME NEW b \in Acts, SwitchAct(b) PROVE Base'
  <2>. USE <1>SwitchAct DEF SwitchAct
  <2>0. session # 0
    BY DEF Blank
  <2>0a. NewCall("switch", current) \in Call /\ NewCall("switch", current).kind = "switch"
    BY <2>0, NewCallType, KeeperAssumption DEF TypeOK, Sessions, Kinds, Unlocks
  <2>1. Flags'
    BY <2>0, <2>0a, TypeParts DEF Flags
  <2>2. Values'
    BY <2>0, <2>0a, TypeParts DEF Values, NoDialog
  <2>3. TimersSound'
    BY <2>0, <2>0a DEF TimersSound, TypeOK, Runs, Locking, Open
  <2>4. Blank'
    BY <2>0, <2>0a DEF Blank, TypeOK, NoDialog
  <2>5. BeginsOnce'
    BY <2>0, <2>0a DEF BeginsOnce, TypeOK, Open, Call
  <2>. QED
    BY <2>1, <2>2, <2>3, <2>4, <2>5, TypePartsNext
<1>manualUnlock. ASSUME manualUnlock PROVE Base'
  <2>. USE <1>manualUnlock DEF manualUnlock, destroy, StopTimers
  <2>0. session # 0
    BY DEF Blank
  <2>0a. NewCall("manual", actId) \in Call /\ NewCall("manual", actId).kind = "manual"
    BY <2>0, NewCallType, KeeperAssumption DEF TypeOK, Sessions, Kinds, Unlocks
  <2>0b. dialogs' \subseteq Dialog /\ (dialogs = {} => dialogs' = {})
    BY DialogsCleared DEF TypeOK
  <2>1. Flags'
    BY <2>0, <2>0a, <2>0b, TypeParts DEF Flags
  <2>2. Values'
    BY <2>0, <2>0a, <2>0b, TypeParts DEF Values, NoDialog
  <2>3. TimersSound'
    BY <2>0, <2>0a, <2>0b DEF TimersSound, TypeOK, Runs, Locking, Open
  <2>4. Blank'
    BY <2>0, <2>0a, <2>0b DEF Blank, TypeOK, NoDialog
  <2>5. BeginsOnce'
    BY <2>0, <2>0a, <2>0b DEF BeginsOnce, TypeOK, Open, Call
  <2>. QED
    BY <2>1, <2>2, <2>3, <2>4, <2>5, TypePartsNext
<1>CloseCancelled. ASSUME CloseCancelled PROVE Base'
  <2>. USE <1>CloseCancelled DEF CloseCancelled, destroy, StopTimers
  <2>0. session # 0
    BY DEF Blank
  <2>0a. Beacon \subseteq Call /\ \A c \in Beacon : c.kind = "beacon"
    BY BeaconType
  <2>0b. dialogs' \subseteq Dialog
    BY DialogsCleared DEF TypeOK
  <2>1. Flags'
    BY <2>0, <2>0a, <2>0b, TypeParts DEF Flags
  <2>2. Values'
    BY <2>0, <2>0a, <2>0b, TypeParts DEF Values, NoDialog
  <2>3. TimersSound'
    BY <2>0, <2>0a, <2>0b DEF TimersSound, TypeOK, Runs, Locking, Open
  <2>4. Blank'
    BY <2>0, <2>0a, <2>0b DEF Blank, TypeOK, NoDialog
  <2>5. BeginsOnce'
    BY <2>0, <2>0a, <2>0b DEF BeginsOnce, TypeOK, Open, Call
  <2>. QED
    BY <2>1, <2>2, <2>3, <2>4, <2>5, TypePartsNext
<1>Start. ASSUME NEW a \in Acts, Start(a) PROVE Base'
  <2>. USE <1>Start DEF Start
  <2>1. \A c \in calls : c.kind \notin {"lock", "switch"}
    BY DEF BeginsOnce, Blank, Open, TypeOK
  <2>2. page = "list" => target = NoAct
    BY DEF BeginsOnce, Open
  <2>3. page = "constructor" => session = 0 /\ target = NoAct
    BY DEF BeginsOnce, Blank, Open, TypeOK
  <2>4. init(a, {}) /\ current' \in Acts \cup {NoAct} /\ target' = target
    OBVIOUS
  <2>5. /\ {timer', listening', idleCheck', idleDue'} \subseteq BOOLEAN
        /\ extendDue' \in Nat /\ extendDue' <= strays + Runs(timer')
        /\ dialogs' \in SUBSET Dialog /\ shown' \in 0 .. MaxSessions
    BY DEF TypeOK, TimersSound
  <2>6. page \in {"constructor", "list"} /\ target \in Acts \cup {NoAct} /\ extendDue \in Nat
    BY DEF TypeOK, Open
  <2>. QED
    BY <2>1, <2>2, <2>3, <2>4, <2>5, <2>6, BaseBegins
<1>SwitchAnswered. ASSUME NEW c \in calls, SwitchAnswered(c) PROVE Base'
  <2>. USE <1>SwitchAnswered DEF SwitchAnswered, Answered
  <2>1. /\ \A e \in calls \ {c} : e.kind \notin {"lock", "switch"}
        /\ page = "constructor" /\ target # NoAct /\ session < MaxSessions /\ session # 0
    BY DEF BeginsOnce, Blank, Open
  <2>2. \/ destroy
        \/ UNCHANGED <<timers, popups>>
    OBVIOUS
  <2>3. dialogs' \in SUBSET Dialog
    BY <2>2, DialogsCleared DEF TypeOK, destroy
  <2>4a. {timer', listening', idleCheck', idleDue'} \subseteq BOOLEAN
    BY <2>2 DEF destroy, StopTimers, TypeOK
  <2>4. /\ strays' = strays /\ (timer' => timer)
        /\ extendDue' \in Nat /\ extendDue' <= strays + Runs(timer') /\ extendDue' <= extendDue
        /\ shown' \in 0 .. MaxSessions
    BY <2>2 DEF destroy, StopTimers, TypeOK, TimersSound, Runs, NoDialog
  <2>5. /\ init(target, {c}) /\ target \in Acts \cup {NoAct}
        /\ {current', target'} \subseteq Acts \cup {NoAct} /\ target' = target
    BY DEF TypeOK
  <2>6. session > 0
    BY <2>1 DEF TypeOK
  <2>. QED
    BY <2>1, <2>3, <2>4, <2>4a, <2>5, <2>6, BaseBegins DEF Open
<1>SaveAnswered. ASSUME NEW c \in calls, SaveAnswered(c) PROVE Base'
  <2>. USE <1>SaveAnswered DEF SaveAnswered, Answered
  <2>1. /\ ExitAfter(c) \in Call /\ ExitAfter(c).kind = "exit"
    BY ExitAfterType DEF TypeOK
  <2>2. /\ calls' \subseteq Call
        /\ \A e \in calls' : e \in calls \/ e.kind = "exit"
        /\ \A e \in calls : e.kind = "lock" => e \in calls'
        /\ calls # {}
    BY <2>1 DEF TypeOK
  <2>3. actId' \in Acts \cup {NoAct} /\ leaving' \in BOOLEAN
    BY DEF TypeOK, ExitDone
  <2>4. Flags'
    BY <2>3, TypeParts DEF Flags
  <2>5. Values'
    BY <2>2, <2>3, TypeParts DEF Values
  <2>6. TimersSound'
    BY <2>2 DEF TimersSound, TypeOK, Runs, Locking, Open
  <2>7. Blank'
    BY <2>2 DEF Blank
  <2>8. BeginsOnce'
    BY <2>2 DEF BeginsOnce, Open
  <2>. QED
    BY <2>4, <2>5, <2>6, <2>7, <2>8, TypePartsNext
<1>ExtendFires. ASSUME ExtendFires PROVE Base'
  <2>. USE <1>ExtendFires DEF ExtendFires
  <2>1. session > 0 /\ session \in Sessions
    BY DEF TimersSound, TypeOK, Runs, Sessions
  <2>2. CASE _initiateExit({}, dialogs)
    BY <2>1, <2>2, BaseEnding DEF TypeOK
  <2>3. CASE ~(MayExtend /\ actId = NoAct)
    <3>1. extendDue' = extendDue - 1 /\ extendDue' \in 0 .. extendDue
      BY <2>3 DEF TypeOK
    <3>2. /\ calls' \subseteq Call /\ calls \subseteq calls'
          /\ \A e \in calls' : e \in calls \/ e.kind = "extend"
      <4>. DEFINE free == {n \in 1 .. MaxExtends : \A c \in calls : c.kind = "extend" => c.n # n}
      <4>1. \/ calls' = calls
            \/ free # {} /\ calls' = calls \cup {ExtendCall(CHOOSE n \in free : TRUE)}
        BY <2>3
      <4>2. free # {} => (CHOOSE n \in free : TRUE) \in 1 .. MaxExtends
        OBVIOUS
      <4>. HIDE DEF free
      <4>3. free # {} => /\ ExtendCall(CHOOSE n \in free : TRUE) \in Call
                         /\ ExtendCall(CHOOSE n \in free : TRUE).kind = "extend"
        BY <2>1, <4>2, ExtendCallType
      <4>. QED
        BY <4>1, <4>3 DEF TypeOK
    <3>3. Flags'
      BY <2>3, TypeParts DEF Flags
    <3>4. Values'
      BY <2>3, <3>1, <3>2, TypeParts DEF Values
    <3>5. TimersSound'
      BY <2>3, <3>1, <3>2 DEF TimersSound, TypeOK, Runs, Locking, Open
    <3>6. Blank' /\ BeginsOnce'
      BY <2>1, <2>3, <3>2 DEF Blank, BeginsOnce, Open
    <3>. QED
      BY <3>3, <3>4, <3>5, <3>6, TypePartsNext
  <2>. QED
    BY <2>2, <2>3
<1>Ended. ASSUME NEW c \in calls, ExtensionEnds(c) \/ StayDenied(c) PROVE Base'
  <2>1. Open /\ session > 0 /\ failures' \in Nat
    BY <1>Ended DEF ExtensionEnds, StayDenied, Answered, Blank, TypeOK
  <2>2. _initiateExit({c}, dialogs) /\ UNCHANGED <<clock, actId, server, page_, away, stayed, disturbed>>
    BY <1>Ended DEF ExtensionEnds, StayDenied
  <2>. QED
    BY <2>1, <2>2, BaseEnding DEF TypeOK
<1>Asked. ASSUME _handleVisibilityChange \/ ExitAsked PROVE Base'
  <2>1. Open /\ session > 0 /\ failures' \in Nat
    BY <1>Asked DEF _handleVisibilityChange, ExitAsked, Blank, TypeOK
  <2>2. _initiateExit({}, dialogs) /\ UNCHANGED <<clock, actId, server, page_, away, stayed, disturbed>>
    BY <1>Asked DEF _handleVisibilityChange, ExitAsked
  <2>. QED
    BY <2>1, <2>2, BaseEnding DEF TypeOK
<1>CountdownFires. ASSUME NEW d \in dialogs, CountdownFires(d) PROVE Base'
  <2>. USE <1>CountdownFires DEF CountdownFires
  <2>1. Open /\ session > 0 /\ failures' \in Nat /\ idle' \in 0 .. IdleLimit
    BY DEF Blank, TypeOK
  <2>2. _closeInactivityDialog(dialogs) \in SUBSET Dialog
    BY DialogsCleared DEF TypeOK
  <2>. QED
    BY <2>1, <2>2, BaseEnding
<1>DialogAnswered. ASSUME NEW d \in dialogs, NEW stay \in BOOLEAN, DialogAnswered(d, stay) PROVE Base'
  <2>. USE <1>DialogAnswered DEF DialogAnswered
  <2>1. d \in Dialog /\ dialogs \in SUBSET Dialog /\ session > 0 /\ session \in Sessions
    BY DEF Blank, TypeOK, Sessions
  <2>2. idle' \in 0 .. IdleLimit /\ failures' \in Nat
    BY DEF TypeOK
  <2>. DEFINE rest == Closed(Silenced(dialogs, shown), IF d.session = shown
                               THEN [d EXCEPT !.left = Stopped] ELSE d)
  <2>3. rest \in SUBSET Dialog
    BY <2>1, DialogsCleared, DialogClosed
  <2>4. CASE /\ dialogs' = Closed(dialogs, d)
             /\ UNCHANGED <<timers, shown, exiting, manual, unload, again, unclean, calls>>
    <3>1. dialogs' \subseteq Dialog
      BY <2>1, <2>4, DialogClosed
    <3>2. Flags' /\ Values'
      BY <2>2, <2>4, <3>1, TypeParts DEF Flags, Values
    <3>3. TimersSound' /\ Blank' /\ BeginsOnce'
      BY <2>1, <2>4 DEF TimersSound, Blank, BeginsOnce, Runs, Locking, Open
    <3>. QED
      BY <3>2, <3>3, TypePartsNext
  <2>5. CASE /\ dialogs' = rest /\ shown' = NoDialog
             /\ calls' = calls \cup {NewCall("stay", actId)}
             /\ UNCHANGED <<timers, exiting, manual, unload, again, unclean>>
    <3>1. NewCall("stay", actId) \in Call /\ NewCall("stay", actId).kind = "stay"
      BY <2>1, NewCallType DEF TypeOK, Kinds
    <3>. HIDE DEF rest
    <3>2. Flags'
      BY <2>5, TypeParts DEF Flags
    <3>3. Values'
      BY <2>2, <2>3, <2>5, <3>1, TypeParts DEF Values, NoDialog
    <3>4. TimersSound'
      BY <2>5, <3>1 DEF TimersSound, TypeOK, Runs, Locking, Open
    <3>5. Blank' /\ BeginsOnce'
      BY <2>1, <2>5, <3>1 DEF Blank, BeginsOnce, Open
    <3>. QED
      BY <3>2, <3>3, <3>4, <3>5, TypePartsNext
  <2>6. CASE _initiateExit({}, rest)
    <3>. HIDE DEF rest
    <3>. QED
      BY <2>1, <2>2, <2>3, <2>6, BaseEnding
  <2>. QED
    BY <2>4, <2>5, <2>6
<1>Gone. ASSUME Redirected \/ Close \/ Crash PROVE Base'
  <2>1. PICK beacon \in {Beacon, {}} : PageGone(beacon)
    BY <1>Gone DEF Redirected, Close, Crash
  <2>2. unclean' \in BOOLEAN
    BY <1>Gone DEF Redirected, Close, Crash
  <2>3. beacon \in SUBSET Call /\ (session = 0 => beacon = {})
    BY <2>1, BeaconType
  <2>. QED
    BY <2>1, <2>2, <2>3, BaseGone
<1>Settled. ASSUME NEW c \in calls, Settle(c) PROVE Base'
  <2>1. PICK answer \in Answers : calls' = Reply(c, answer)
    BY <1>Settled DEF Settle, Serve, Lose, Answers
  <2>2. Effect(c) \/ UNCHANGED server
    BY <1>Settled DEF Settle, Serve, Lose
  <2>3. UNCHANGED <<timers, clock, keeper, popups, page_, away, stayed, again>>
    BY <1>Settled DEF Settle, Serve, Lose
  <2>4. disturbed' \in BOOLEAN /\ unclean' \in BOOLEAN
    <3>1. CASE UNCHANGED told
      BY <3>1 DEF TypeOK
    <3>2. CASE disturbed' = Open /\ unclean' = TRUE
      BY <3>2 DEF Open
    <3>. QED
      BY <1>Settled, <3>1, <3>2 DEF Settle, Serve, Lose
  <2>5. /\ lease' \in [Acts -> Rivals \cup {Me, NoUser}] /\ ttl' \in [Acts -> 0 .. LockDuration]
    BY <2>2 DEF Effect, Given, AfterRelease, TypeOK
  <2>5a. Reply(c, answer) \subseteq Call /\ [c EXCEPT !.answer = answer].kind = c.kind
    BY ReplyType
  <2>6. /\ Reply(c, answer) \subseteq Call
        /\ \A e \in Reply(c, answer) : e \in calls \ {c} \/ e.kind = c.kind
        /\ (c.kind \in {"lock", "switch"} /\ Open) => [c EXCEPT !.answer = answer] \in Reply(c, answer)
    BY <2>5a DEF Reply
  <2>7. Flags'
    BY <2>3, <2>4, TypeParts DEF Flags
  <2>8. Values'
    BY <2>1, <2>3, <2>5, <2>6, TypeParts DEF Values
  <2>9. TimersSound'
    BY <2>1, <2>3, <2>6 DEF TimersSound, TypeOK, Runs, Locking, Open
  <2>10. Blank' /\ BeginsOnce'
    BY <2>1, <2>3, <2>6 DEF Blank, BeginsOnce, Open, Reply
  <2>. QED
    BY <2>7, <2>8, <2>9, <2>10, TypePartsNext
<1>Stutter. ASSUME UNCHANGED vars PROVE Base'
  <2>1. Flags' /\ Values'
    BY <1>Stutter, TypeParts DEF Flags, Values, vars
  <2>2. TimersSound' /\ Blank' /\ BeginsOnce'
    BY <1>Stutter DEF TimersSound, Blank, BeginsOnce, Runs, Locking, Open, vars
  <2>. QED
    BY <2>1, <2>2, TypePartsNext
<1>. QED
  BY <1>LockGranted, <1>LockDenied, <1>RefusalRead, <1>Extended, <1>ExtensionFails, <1>IdleFires,
     <1>StayGranted, <1>ExitAnswered, <1>ManualAnswered, <1>Activity, <1>RivalMoves, <1>Tick,
     <1>SwitchAct, <1>manualUnlock, <1>CloseCancelled, <1>Start, <1>SwitchAnswered, <1>SaveAnswered,
     <1>ExtendFires, <1>Ended, <1>Asked, <1>CountdownFires, <1>DialogAnswered, <1>Gone, <1>Settled,
     <1>Stutter
     DEF Next, CountdownEnds, Read, UserActs

-----------------------------------------------------------------------------
(* Watched sessions. *)

LEMMA WatchStep == Base /\ SomeoneWatches /\ [Next]_vars => SomeoneWatches'
<1>. SUFFICES ASSUME Base, SomeoneWatches, [Next]_vars PROVE SomeoneWatches'
  OBVIOUS
<1>. USE KeeperAssumption DEF SomeoneWatches, Watched, CountingDown, Base, timers, clock, keeper,
    popups, server, page_, told
<1>LockGranted. ASSUME NEW c \in calls, LockGranted(c) PROVE SomeoneWatches'
  BY <1>LockGranted DEF LockGranted, Answered, TypeOK, Open, Call, Dialog, Sessions, Stopped
<1>LockDenied. ASSUME NEW c \in calls, LockDenied(c) PROVE SomeoneWatches'
  BY <1>LockDenied DEF LockDenied, Answered, TypeOK, Open, Call, Dialog, Sessions, Stopped
<1>RefusalRead. ASSUME NEW stays \in BOOLEAN, RefusalRead(stays) PROVE SomeoneWatches'
  BY <1>RefusalRead DEF RefusalRead, TypeOK, Open, Call, Dialog, Sessions, Stopped
<1>Extended. ASSUME NEW c \in calls, Extended(c) PROVE SomeoneWatches'
  BY <1>Extended DEF Extended, TypeOK, Open, Call, Dialog, Sessions, Stopped
<1>ExtensionFails. ASSUME NEW c \in calls, ExtensionFails(c) PROVE SomeoneWatches'
  BY <1>ExtensionFails DEF ExtensionFails, Answered, TypeOK, Open, Call, Dialog, Sessions, Stopped
<1>IdleFires. ASSUME IdleFires PROVE SomeoneWatches'
  <2>. USE <1>IdleFires DEF IdleFires
  <2>1. CASE idle >= IdleLimit
    <3>. DEFINE d == [act |-> actId, session |-> session, left |-> DialogTime, open |-> TRUE]
    <3>1. d \in dialogs' /\ d.session = shown' /\ d.left # Stopped
      BY <2>1 DEF Stopped
    <3>2. Watched' => Watched /\ timer' /\ listening' /\ unload'
      BY DEF Open
    <3>. QED
      BY <3>1, <3>2
  <2>2. CASE ~(idle >= IdleLimit)
    BY <2>2 DEF Open
  <2>. QED
    BY <2>1, <2>2
<1>StayGranted. ASSUME NEW c \in calls, StayGranted(c) PROVE SomeoneWatches'
  BY <1>StayGranted DEF StayGranted, Answered, TypeOK, Open, Call, Dialog, Sessions, Stopped
<1>ExitAnswered. ASSUME NEW c \in calls, ExitAnswered(c) PROVE SomeoneWatches'
  BY <1>ExitAnswered DEF ExitAnswered, Answered, ExitDone, TypeOK, Open, Call, Dialog, Sessions,
      Stopped
<1>SaveAnswered. ASSUME NEW c \in calls, SaveAnswered(c) PROVE SomeoneWatches'
  BY <1>SaveAnswered DEF SaveAnswered, Answered, ExitDone, TypeOK, Open, Call, Dialog, Sessions,
      Stopped
<1>ManualAnswered. ASSUME NEW c \in calls, NEW stays \in BOOLEAN, ManualAnswered(c, stays) PROVE SomeoneWatches'
  BY <1>ManualAnswered DEF ManualAnswered, Answered, TypeOK, Open, Call, Dialog, Sessions, Stopped
<1>Activity. ASSUME Activity PROVE SomeoneWatches'
  BY <1>Activity DEF Activity, TypeOK, Open, Call, Dialog, Sessions, Stopped
<1>RivalMoves. ASSUME NEW a \in Acts, NEW u \in Rivals, RivalMoves(a, u) PROVE SomeoneWatches'
  BY <1>RivalMoves DEF RivalMoves, TypeOK, Open, Call, Dialog, Sessions, Stopped
<1>Tick. ASSUME Tick PROVE SomeoneWatches'
  <2>. USE <1>Tick DEF Tick, Open
  <2>1. ASSUME NEW d \in dialogs, d.session = shown, d.left # Stopped
        PROVE  CountingDown'
    <3>. DEFINE e == [d EXCEPT !.left = IF @ > 0 THEN @ - 1 ELSE @]
    <3>1. d.left \in 0 .. DialogTime
      BY <2>1 DEF TypeOK, Dialog, Stopped
    <3>2. e \in dialogs' /\ e.session = shown' /\ e.left # Stopped
      BY <2>1, <3>1 DEF TypeOK, Dialog, Stopped
    <3>. QED
      BY <3>2
  <2>. QED
    BY <2>1
<1>SwitchAct. ASSUME NEW b \in Acts, SwitchAct(b) PROVE SomeoneWatches'
  BY <1>SwitchAct DEF SwitchAct, TypeOK, Open, Call, Dialog, Sessions, Stopped
<1>manualUnlock. ASSUME manualUnlock PROVE SomeoneWatches'
  BY <1>manualUnlock DEF manualUnlock, TypeOK, Open, Call, Dialog, Sessions, Stopped
<1>CloseCancelled. ASSUME CloseCancelled PROVE SomeoneWatches'
  BY <1>CloseCancelled DEF CloseCancelled, TypeOK, Open, Call, Dialog, Sessions, Stopped
<1>Start. ASSUME NEW a \in Acts, Start(a) PROVE SomeoneWatches'
  BY <1>Start DEF Start, init, TypeOK, Open, Call, Dialog, Sessions, Stopped
<1>SwitchAnswered. ASSUME NEW c \in calls, SwitchAnswered(c) PROVE SomeoneWatches'
  BY <1>SwitchAnswered DEF SwitchAnswered, init, TypeOK, Open, Call, Dialog, Sessions, Stopped
<1>ExtendFires. ASSUME ExtendFires PROVE SomeoneWatches'
  BY <1>ExtendFires DEF ExtendFires, _initiateExit, TypeOK, Open, Call, Dialog, Sessions, Stopped
<1>Ended. ASSUME NEW c \in calls, ExtensionEnds(c) \/ StayDenied(c) PROVE SomeoneWatches'
  BY <1>Ended DEF ExtensionEnds, StayDenied, _initiateExit, TypeOK, Open, Call, Dialog, Sessions,
      Stopped
<1>Asked. ASSUME _handleVisibilityChange \/ ExitAsked PROVE SomeoneWatches'
  BY <1>Asked DEF _handleVisibilityChange, ExitAsked, _initiateExit, TypeOK, Open, Call, Dialog,
      Sessions, Stopped
<1>CountdownFires. ASSUME NEW d \in dialogs, CountdownFires(d) PROVE SomeoneWatches'
  BY <1>CountdownFires DEF CountdownFires, _initiateExit, TypeOK, Open, Call, Dialog, Sessions,
      Stopped
<1>DialogAnswered. ASSUME NEW d \in dialogs, NEW stay \in BOOLEAN, DialogAnswered(d, stay) PROVE SomeoneWatches'
  <2>. USE <1>DialogAnswered DEF DialogAnswered, Open
  <2>1. CASE /\ dialogs' = Closed(dialogs, d)
             /\ UNCHANGED <<timers, shown, exiting, manual, unload, again, unclean, calls>>
    <3>1. ASSUME NEW e \in dialogs, e.session = shown, e.left # Stopped
          PROVE  CountingDown'
      <4>1. CASE e = d
        <5>1. [d EXCEPT !.open = FALSE] \in dialogs'
          BY <2>1, <3>1, <4>1 DEF Closed
        <5>. QED
          BY <2>1, <3>1, <4>1, <5>1 DEF TypeOK, Dialog
      <4>2. CASE e # d
        BY <2>1, <3>1, <4>2 DEF Closed
      <4>. QED
        BY <4>1, <4>2
    <3>. QED
      BY <2>1, <3>1
  <2>2. CASE /\ calls' = calls \cup {NewCall("stay", actId)}
             /\ UNCHANGED <<timers, exiting, manual, unload, again, unclean>>
    <3>1. NewCall("stay", actId).kind = "stay"
      BY DEF NewCall
    <3>. QED
      BY <2>2, <3>1
  <2>3. CASE ~exiting /\ \E ds \in SUBSET Dialog : _initiateExit({}, ds)
    BY <2>3 DEF _initiateExit
  <2>. DEFINE rest == Closed(Silenced(dialogs, shown), IF d.session = shown
                               THEN [d EXCEPT !.left = Stopped] ELSE d)
  <2>4. rest \in SUBSET Dialog
    BY DialogsCleared, DialogClosed DEF TypeOK
  <2>. HIDE DEF rest
  <2>. QED
    BY <2>1, <2>2, <2>3, <2>4 DEF rest
<1>Gone. ASSUME Redirected \/ Close \/ Crash PROVE SomeoneWatches'
  BY <1>Gone DEF Redirected, Close, Crash, PageGone, TypeOK, Open, Call, Dialog, Sessions, Stopped
<1>Settled. ASSUME NEW c \in calls, Settle(c) PROVE SomeoneWatches'
  <2>1. PICK answer \in Answers : calls' = Reply(c, answer)
    BY <1>Settled DEF Settle, Serve, Lose, Answers
  <2>2. UNCHANGED <<timers, clock, keeper, popups, page_, away, stayed, again>>
    BY <1>Settled DEF Settle, Serve, Lose
  <2>3. [c EXCEPT !.answer = answer].kind = c.kind
    BY ReplyType
  <2>4. Watched' /\ (\E e \in calls : e.kind = "stay") => \E e \in calls' : e.kind = "stay"
    BY <2>1, <2>2, <2>3 DEF Reply, Open
  <2>. QED
    BY <2>2, <2>4 DEF Open
<1>Stutter. ASSUME UNCHANGED vars PROVE SomeoneWatches'
  BY <1>Stutter DEF vars, TypeOK, Open, Call, Dialog, Sessions, Stopped
<1>. QED
  BY <1>LockGranted, <1>LockDenied, <1>RefusalRead, <1>Extended, <1>ExtensionFails, <1>IdleFires,
      <1>StayGranted, <1>ExitAnswered, <1>SaveAnswered, <1>ManualAnswered, <1>Activity,
      <1>RivalMoves, <1>Tick, <1>SwitchAct, <1>manualUnlock, <1>CloseCancelled, <1>Start,
      <1>SwitchAnswered, <1>ExtendFires, <1>Ended, <1>Asked, <1>CountdownFires, <1>DialogAnswered,
      <1>Gone, <1>Settled, <1>Stutter
     DEF Next, CountdownEnds, Read, UserActs

-----------------------------------------------------------------------------
(* Handover. *)

Mine(a) == a \in Acts /\ lease[a] = Me

\* Who will give act a back: a call on its way; an exit that is saving; the session
\* being begun, which will hold a; the beacon of the page.
GivesBack(a) ==
    \/ \E c \in calls : c.kind \in Unlocks /\ c.act = a /\ c.answer = "none"
    \/ Open /\ \E c \in calls : c.kind = "save" /\ c.locked = a
    \/ Locking /\ actId = a
    \/ Open /\ actId = a /\ unload /\ ~exiting /\ ~manual

Responsible == ~unclean => \A a \in Acts : Mine(a) => GivesBack(a)

\* What the calls of a page that has lost none say of its state.
CallsSound ==
    ~unclean /\ Open =>
        /\ Locking => ~exiting /\ ~manual
        /\ target # NoAct => ~exiting
        /\ \A c \in calls :
            /\ c.answer # "failed"
            /\ c.kind \in {"lock", "switch"} => c.act = actId
            /\ c.kind \in {"save", "exit"} => exiting
            /\ c.kind = "lock" /\ c.answer = "refused" => ~Mine(c.act)
            /\ c.kind = "switch" /\ c.answer # "none" => ~Mine(c.act)
        /\ phase = "refused" => ~Mine(actId)
        /\ page = "list" /\ phase = "closed" => manual \/ ~Mine(actId)
        /\ page = "list" /\ phase = "locking" => Locking
        /\ page = "constructor" /\ phase = "live" /\ ~exiting /\ target = NoAct => current = actId
        /\ Locking /\ page = "constructor" => actId = IF target = NoAct THEN current ELSE target

\* A page that goes leaves no call that takes an act, nor an exit half-way.
GoneSound == ~unclean /\ ~Open => \A c \in calls : c.kind \notin {"lock", "save"}

Handover == CallsSound /\ GoneSound /\ Responsible

LEMMA HandoverEnding ==
    ASSUME Base, Handover, Open, session > 0, NEW read \in SUBSET calls, NEW ds,
           \A c \in read : c.kind \in {"extend", "stay"}, _initiateExit(read, ds),
           UNCHANGED <<actId, server, page_>>
    PROVE  Handover'
<1>. USE DEF Handover, _initiateExit, page_, server
<1>1. CASE exiting
  <2>. USE <1>1
  <2>1. CallsSound'
    BY DEF CallsSound, Locking, Mine, Open
  <2>2. GoneSound' /\ Responsible'
    BY DEF GoneSound, Responsible, GivesBack, Locking, Mine, Open, Unlocks
  <2>. QED
    BY <2>1, <2>2
<1>2. CASE ~exiting
  <2>. USE <1>2
  <2>1. session \in Sessions
    BY DEF Base, TypeOK, Sessions
  <2>2. /\ ExitCall.kind = (IF current = NoAct THEN "exit" ELSE "save")
        /\ ExitCall.act = (IF current = NoAct THEN actId ELSE current)
        /\ ExitCall.locked = actId /\ ExitCall.answer = "none"
    BY <2>1, ExitCallType DEF Base
  <2>3. ~unclean' => ~unclean /\ target = NoAct /\ ~Locking
    BY DEF Base, BeginsOnce, Locking
  <2>4. CallsSound'
    BY <2>2, <2>3 DEF CallsSound, Locking, Mine, Open
  <2>5. GoneSound'
    BY DEF GoneSound, Open
  <2>6. ASSUME NEW a \in Acts, GivesBack(a), ~unclean'
        PROVE  GivesBack(a)'
    BY <2>2, <2>3, <2>6 DEF GivesBack, Open, Unlocks
  <2>7. Responsible'
    BY <2>6 DEF Responsible, Mine
  <2>. QED
    BY <2>4, <2>5, <2>7
<1>. QED
  BY <1>1, <1>2

LEMMA HandoverGone ==
    ASSUME Base, Handover, Open, PageGone(Beacon), unclean' = (unclean \/ Interrupted)
    PROVE  Handover'
<1>. USE DEF Handover, PageGone, server
<1>1. ~unclean' => ~unclean /\ ~Interrupted /\ ~Locking
  BY DEF Interrupted, Base, BeginsOnce, Locking
<1>2. \A c \in Beacon : c.kind = "beacon" /\ c.act = actId /\ c.answer = "none"
  BY BeaconType DEF Base
<1>3. CallsSound'
  BY DEF CallsSound, Open
<1>4. GoneSound'
  BY <1>1, <1>2 DEF GoneSound, Interrupted, Locking
<1>5. ASSUME NEW a \in Acts, GivesBack(a), ~unclean'
      PROVE  GivesBack(a)'
  <2>1. CASE \E c \in calls : c.kind \in Unlocks /\ c.act = a /\ c.answer = "none"
    BY <2>1 DEF GivesBack
  <2>2. CASE actId = a /\ unload /\ ~exiting /\ ~manual
    <3>1. Beacon # {}
      BY <2>2, <1>5, KeeperAssumption DEF Beacon
    <3>. QED
      BY <2>2, <3>1, <1>2 DEF GivesBack, Unlocks
  <2>. QED
    BY <1>1, <1>5, <2>1, <2>2 DEF GivesBack, Interrupted
<1>6. Responsible'
  BY <1>1, <1>5 DEF Responsible, Mine
<1>. QED
  BY <1>3, <1>4, <1>6

\* A session begins: what the one before held is being given back or has been.
LEMMA HandoverBegins ==
    ASSUME Base, Handover, Open, session < MaxSessions, NEW a \in Acts \cup {NoAct}, NEW read \in SUBSET calls,
           init(a, read), \A c \in calls \ read : c.kind \notin {"lock", "switch"},
           \A c \in read : c.kind = "switch" /\ c.answer # "none",
           ~unclean => manual \/ ~Mine(actId) \/ exiting,
           page = "constructor" => a = IF target' = NoAct THEN current' ELSE target',
           UNCHANGED <<unload, server, page>>
    PROVE  Handover'
<1>. USE DEF Handover, init, server
<1>1. session \in Nat /\ session + 1 \in Sessions
  BY KeeperAssumption DEF Base, TypeOK, Sessions
<1>2. /\ LockCall(a).kind = "lock" /\ LockCall(a).act = a /\ LockCall(a).answer = "none"
  BY <1>1, LockCallType
<1>3. ~unclean' => ~unclean /\ ~exiting
  OBVIOUS
<1>4. CallsSound'
  BY <1>2, <1>3 DEF CallsSound, Locking, Mine, Open
<1>5. GoneSound'
  BY DEF GoneSound, Open
<1>6. ~Locking
  BY DEF Locking
<1>7. ASSUME NEW b \in Acts, Mine(b), GivesBack(b), ~unclean'
      PROVE  GivesBack(b)'
  <2>1. PICK c \in calls : c.kind \in Unlocks /\ c.act = b /\ c.answer = "none"
    BY <1>3, <1>6, <1>7 DEF GivesBack, CallsSound
  <2>. QED
    BY <2>1 DEF GivesBack
<1>8. Responsible'
  BY <1>3, <1>7 DEF Responsible, Mine
<1>. QED
  BY <1>4, <1>5, <1>8

LEMMA HandoverStep == Base /\ Base' /\ Handover /\ [Next]_vars => Handover'
<1>. SUFFICES ASSUME Base, Base', Handover, [Next]_vars PROVE Handover'
  OBVIOUS
<1>. USE KeeperAssumption DEF Handover, timers, clock, keeper, popups, server, page_, told
<1>LockGranted. ASSUME NEW c \in calls, LockGranted(c) PROVE Handover'
  <2>. USE <1>LockGranted DEF LockGranted, Answered
  <2>1. Locking /\ \A e \in calls \ {c} : e.kind \notin {"lock", "switch"}
    BY DEF Locking, Base, BeginsOnce, Open
  <2>2. ~unclean => ~exiting /\ ~manual
    BY <2>1 DEF CallsSound, Locking
  <2>3. ~unclean /\ page = "constructor" => actId = current'
    BY <2>1 DEF CallsSound, Locking
  <2>4. page' = page /\ lease' = lease /\ actId' = actId /\ exiting' = exiting /\ unclean' = unclean
    OBVIOUS
  <2>5. ~Locking'
    BY <2>1 DEF Locking
  <2>6. CallsSound'
    BY <2>1, <2>2, <2>3, <2>4, <2>5 DEF CallsSound, Mine, Open
  <2>7. GoneSound'
    BY DEF GoneSound, Open
  <2>8. Responsible'
    BY <2>2, <2>5 DEF Responsible, GivesBack, Mine, Open
  <2>. QED
    BY <2>6, <2>7, <2>8
<1>LockDenied. ASSUME NEW c \in calls, LockDenied(c) PROVE Handover'
  <2>. USE <1>LockDenied DEF LockDenied, Answered
  <2>1. Locking /\ \A e \in calls \ {c} : e.kind \notin {"lock", "switch"}
    BY DEF Locking, Base, BeginsOnce, Open
  <2>2. ~unclean => ~Mine(actId)
    <3>1. ~unclean => c.answer = "refused" /\ c.act = actId /\ ~Mine(c.act)
      BY DEF CallsSound, Base, TypeOK, Call, Answers
    <3>. QED
      BY <3>1
  <2>3. ~Locking'
    BY <2>1 DEF Locking
  <2>4. page' = page /\ lease' = lease /\ actId' = actId /\ exiting' = exiting /\ unclean' = unclean
    OBVIOUS
  <2>5. CallsSound'
    BY <2>1, <2>2, <2>3, <2>4 DEF CallsSound, Mine, Open
  <2>6. GoneSound'
    BY DEF GoneSound, Open
  <2>7. Responsible'
    BY <2>2, <2>3 DEF Responsible, GivesBack, Mine, Open
  <2>. QED
    BY <2>5, <2>6, <2>7
<1>RefusalRead. ASSUME NEW stays \in BOOLEAN, RefusalRead(stays) PROVE Handover'
  <2>. USE <1>RefusalRead DEF RefusalRead, Open, Locking, Mine
  <2>1. CallsSound'
    BY DEF CallsSound, GivesBack, Base, BeginsOnce
  <2>2. GoneSound'
    BY DEF GoneSound, CallsSound, GivesBack, Base, BeginsOnce
  <2>3. Responsible'
    BY DEF Responsible, CallsSound, GivesBack, Base, BeginsOnce
  <2>. QED
    BY <2>1, <2>2, <2>3
<1>Extended. ASSUME NEW c \in calls, Extended(c) PROVE Handover'
  <2>. USE <1>Extended DEF Extended, Open, Locking, Mine
  <2>1. CallsSound'
    BY DEF CallsSound, GivesBack, Base, BeginsOnce
  <2>2. GoneSound'
    BY DEF GoneSound, CallsSound, GivesBack, Base, BeginsOnce
  <2>3. Responsible'
    BY DEF Responsible, CallsSound, GivesBack, Base, BeginsOnce
  <2>. QED
    BY <2>1, <2>2, <2>3
<1>ExtensionFails. ASSUME NEW c \in calls, ExtensionFails(c) PROVE Handover'
  <2>. USE <1>ExtensionFails DEF ExtensionFails, Answered, Open, Locking, Mine
  <2>1. CallsSound'
    BY DEF CallsSound, GivesBack, Base, BeginsOnce
  <2>2. GoneSound'
    BY DEF GoneSound, CallsSound, GivesBack, Base, BeginsOnce
  <2>3. Responsible'
    BY DEF Responsible, CallsSound, GivesBack, Base, BeginsOnce
  <2>. QED
    BY <2>1, <2>2, <2>3
<1>IdleFires. ASSUME IdleFires PROVE Handover'
  <2>. USE <1>IdleFires DEF IdleFires, Stopped, Open, Locking, Mine
  <2>1. CallsSound'
    BY DEF CallsSound, GivesBack, Base, BeginsOnce
  <2>2. GoneSound'
    BY DEF GoneSound, CallsSound, GivesBack, Base, BeginsOnce
  <2>3. Responsible'
    BY DEF Responsible, CallsSound, GivesBack, Base, BeginsOnce
  <2>. QED
    BY <2>1, <2>2, <2>3
<1>StayGranted. ASSUME NEW c \in calls, StayGranted(c) PROVE Handover'
  <2>. USE <1>StayGranted DEF StayGranted, Answered, Open, Locking, Mine
  <2>1. CallsSound'
    BY DEF CallsSound, GivesBack, Base, BeginsOnce
  <2>2. GoneSound'
    BY DEF GoneSound, CallsSound, GivesBack, Base, BeginsOnce
  <2>3. Responsible'
    BY DEF Responsible, CallsSound, GivesBack, Base, BeginsOnce
  <2>. QED
    BY <2>1, <2>2, <2>3
<1>ExitAnswered. ASSUME NEW c \in calls, ExitAnswered(c) PROVE Handover'
  <2>. USE <1>ExitAnswered DEF ExitAnswered, Answered, ExitDone
  <2>2. ~unclean => exiting /\ ~Locking /\ target = NoAct
    BY DEF CallsSound
  <2>2a. ~unclean => \A e \in calls : e.kind \notin {"lock", "switch"}
    BY <2>2 DEF Base, BeginsOnce, Locking, Open
  <2>3. CallsSound'
    BY <2>2, <2>2a, KeeperAssumption DEF CallsSound, Mine, Locking, Open
  <2>4. GoneSound'
    BY DEF GoneSound, Open
  <2>5. Responsible'
    BY <2>2 DEF Responsible, GivesBack, Mine, Open
  <2>. QED
    BY <2>3, <2>4, <2>5
<1>SaveAnswered. ASSUME NEW c \in calls, SaveAnswered(c) PROVE Handover'
  <2>. USE <1>SaveAnswered DEF SaveAnswered, Answered
  <2>1. /\ ExitAfter(c).kind = "exit" /\ ExitAfter(c).act = c.locked
        /\ ExitAfter(c).answer = "none"
    BY ExitAfterType DEF Base, TypeOK
  <2>2. ~unclean => exiting /\ ~Locking /\ target = NoAct
    BY DEF CallsSound
  <2>2a. ~unclean => \A e \in calls : e.kind \notin {"lock", "switch"}
    BY <2>2 DEF Base, BeginsOnce, Locking, Open
  <2>3. CASE c.locked = NoAct
    <3>1. CallsSound'
      BY <2>2, <2>2a, <2>3, KeeperAssumption DEF CallsSound, ExitDone, Mine, Locking, Open
    <3>2. GoneSound'
      BY DEF GoneSound, Open
    <3>3. Responsible'
      BY <2>2, <2>3, KeeperAssumption DEF Responsible, GivesBack, Mine, Open, Unlocks
    <3>. QED
      BY <3>1, <3>2, <3>3
  <2>4. CASE c.locked # NoAct
    <3>1. CallsSound'
      BY <2>1, <2>2, <2>4 DEF CallsSound, Mine, Locking, Open
    <3>2. GoneSound'
      BY DEF GoneSound, Open
    <3>3. Responsible'
      BY <2>1, <2>2, <2>4 DEF Responsible, GivesBack, Mine, Open, Unlocks
    <3>. QED
      BY <3>1, <3>2, <3>3
  <2>. QED
    BY <2>3, <2>4
<1>ManualAnswered. ASSUME NEW c \in calls, NEW stays \in BOOLEAN, ManualAnswered(c, stays) PROVE Handover'
  <2>. USE <1>ManualAnswered DEF ManualAnswered, Answered, Open, Locking, Mine
  <2>1. CallsSound'
    BY DEF CallsSound, GivesBack, Base, BeginsOnce
  <2>2. GoneSound'
    BY DEF GoneSound, CallsSound, GivesBack, Base, BeginsOnce
  <2>3. Responsible'
    BY DEF Responsible, CallsSound, GivesBack, Base, BeginsOnce
  <2>. QED
    BY <2>1, <2>2, <2>3
<1>Activity. ASSUME Activity PROVE Handover'
  <2>. USE <1>Activity DEF Activity, Open, Locking, Mine
  <2>1. CallsSound'
    BY DEF CallsSound, GivesBack, Base, BeginsOnce
  <2>2. GoneSound'
    BY DEF GoneSound, CallsSound, GivesBack, Base, BeginsOnce
  <2>3. Responsible'
    BY DEF Responsible, CallsSound, GivesBack, Base, BeginsOnce
  <2>. QED
    BY <2>1, <2>2, <2>3
<1>RivalMoves. ASSUME NEW a \in Acts, NEW u \in Rivals, RivalMoves(a, u) PROVE Handover'
  <2>. USE <1>RivalMoves DEF RivalMoves
  <2>1. \A b : Mine(b)' => Mine(b)
    BY KeeperAssumption DEF Mine, Base, TypeOK
  <2>2. CallsSound'
    BY <2>1 DEF CallsSound, Locking, Open
  <2>3. GoneSound'
    BY DEF GoneSound, Open
  <2>4. Responsible'
    BY <2>1 DEF Responsible, GivesBack, Locking, Open
  <2>. QED
    BY <2>2, <2>3, <2>4
<1>Tick. ASSUME Tick PROVE Handover'
  <2>. USE <1>Tick DEF Tick
  <2>1. \A a : Mine(a)' => Mine(a)
    BY KeeperAssumption DEF Mine
  <2>2. CallsSound'
    BY <2>1 DEF CallsSound, Locking, Open
  <2>3. GoneSound'
    BY DEF GoneSound, Open
  <2>4. Responsible'
    BY <2>1 DEF Responsible, GivesBack, Locking, Open
  <2>. QED
    BY <2>2, <2>3, <2>4
<1>SwitchAct. ASSUME NEW b \in Acts, SwitchAct(b) PROVE Handover'
  <2>. USE <1>SwitchAct DEF SwitchAct
  <2>1. /\ NewCall("switch", current).kind = "switch" /\ NewCall("switch", current).act = current
        /\ NewCall("switch", current).answer = "none"
    BY DEF NewCall
  <2>2. ~Locking
    BY DEF Locking, Base, BeginsOnce, Open
  <2>3. CallsSound'
    BY <2>1, <2>2 DEF CallsSound, Mine, Locking, Open
  <2>4. GoneSound'
    BY DEF GoneSound, Open
  <2>5. Responsible'
    BY <2>1, <2>2 DEF Responsible, GivesBack, Mine, Open, Unlocks
  <2>. QED
    BY <2>3, <2>4, <2>5
<1>manualUnlock. ASSUME manualUnlock PROVE Handover'
  <2>. USE <1>manualUnlock DEF manualUnlock
  <2>1. /\ NewCall("manual", actId).kind = "manual" /\ NewCall("manual", actId).act = actId
        /\ NewCall("manual", actId).answer = "none"
    BY DEF NewCall
  <2>2. ~Locking
    BY DEF Locking, Base, BeginsOnce, Open
  <2>3. CallsSound'
    BY <2>1, <2>2 DEF CallsSound, Mine, Locking, Open
  <2>4. GoneSound'
    BY DEF GoneSound, Open
  <2>5. Responsible'
    BY <2>1, <2>2 DEF Responsible, GivesBack, Mine, Open, Unlocks
  <2>. QED
    BY <2>3, <2>4, <2>5
<1>CloseCancelled. ASSUME CloseCancelled PROVE Handover'
  <2>. USE <1>CloseCancelled DEF CloseCancelled
  <2>1. \A c \in Beacon : c.kind = "beacon" /\ c.answer = "none"
    BY BeaconType DEF Base
  <2>2. CallsSound'
    BY <2>1 DEF CallsSound, Mine, Locking, Open
  <2>3. GoneSound'
    BY DEF GoneSound, Open
  <2>4. Responsible'
    BY <2>1 DEF Responsible, GivesBack, Mine, Locking, Open
  <2>. QED
    BY <2>2, <2>3, <2>4
<1>Start. ASSUME NEW a \in Acts, Start(a) PROVE Handover'
  <2>. USE <1>Start DEF Start
  <2>1. /\ \A c \in calls : c.kind \notin {"lock", "switch"}
        /\ page = "list" => target = NoAct
        /\ page = "constructor" => session = 0 /\ target = NoAct /\ actId = NoAct
        /\ page = "list" /\ phase = "none" => actId = NoAct
    BY DEF Base, BeginsOnce, Blank, Open, TypeOK
  <2>2. ~unclean => manual \/ ~Mine(actId)
    BY <2>1, KeeperAssumption DEF CallsSound, Mine, Base, TypeOK, Open
  <2>3. init(a, {}) /\ UNCHANGED <<unload, server, page>>
    OBVIOUS
  <2>4. page = "constructor" => a = IF target' = NoAct THEN current' ELSE target'
    BY <2>1
  <2>. QED
    BY <2>1, <2>2, <2>3, <2>4, HandoverBegins DEF Open
<1>SwitchAnswered. ASSUME NEW c \in calls, SwitchAnswered(c) PROVE Handover'
  <2>. USE <1>SwitchAnswered DEF SwitchAnswered, Answered
  <2>1. /\ \A e \in calls \ {c} : e.kind \notin {"lock", "switch"}
        /\ target # NoAct /\ session < MaxSessions /\ target \in Acts \cup {NoAct}
    BY DEF Base, BeginsOnce, Open, TypeOK
  <2>2. ~unclean => ~Mine(actId)
    BY DEF CallsSound
  <2>3. init(target, {c}) /\ UNCHANGED <<unload, server, page, target>>
    OBVIOUS
  <2>. QED
    BY <2>1, <2>2, <2>3, HandoverBegins
<1>ExtendFires. ASSUME ExtendFires PROVE Handover'
  <2>. USE <1>ExtendFires DEF ExtendFires
  <2>1. session > 0 /\ session \in Sessions
    BY DEF Base, TimersSound, TypeOK, Runs, Sessions
  <2>2. CASE _initiateExit({}, dialogs)
    BY <2>1, <2>2, HandoverEnding
  <2>3. CASE ~(MayExtend /\ actId = NoAct)
    <3>1. /\ calls \subseteq calls'
          /\ \A e \in calls' : e \in calls \/ (e.kind = "extend" /\ e.answer = "none")
      <4>. DEFINE free == {n \in 1 .. MaxExtends : \A c \in calls : c.kind = "extend" => c.n # n}
      <4>1. \/ calls' = calls
            \/ free # {} /\ calls' = calls \cup {ExtendCall(CHOOSE n \in free : TRUE)}
        BY <2>3
      <4>2. free # {} => (CHOOSE n \in free : TRUE) \in 1 .. MaxExtends
        OBVIOUS
      <4>. HIDE DEF free
      <4>3. free # {} => /\ ExtendCall(CHOOSE n \in free : TRUE).kind = "extend"
                         /\ ExtendCall(CHOOSE n \in free : TRUE).answer = "none"
        BY <2>1, <4>2, ExtendCallType DEF Base
      <4>. QED
        BY <4>1, <4>3
    <3>2. CallsSound'
      BY <2>3, <3>1 DEF CallsSound, Locking, Mine, Open
    <3>3. GoneSound'
      BY DEF GoneSound, Open
    <3>4. Responsible'
      BY <2>3, <3>1 DEF Responsible, GivesBack, Mine, Locking, Open
    <3>. QED
      BY <3>2, <3>3, <3>4
  <2>. QED
    BY <2>2, <2>3
<1>Ended. ASSUME NEW c \in calls, ExtensionEnds(c) \/ StayDenied(c) PROVE Handover'
  <2>1. Open /\ session > 0 /\ c.kind \in {"extend", "stay"}
    BY <1>Ended DEF ExtensionEnds, StayDenied, Answered, Base, Blank, TypeOK
  <2>2. _initiateExit({c}, dialogs) /\ UNCHANGED <<actId, server, page_>>
    BY <1>Ended DEF ExtensionEnds, StayDenied
  <2>. QED
    BY <2>1, <2>2, HandoverEnding
<1>Asked. ASSUME _handleVisibilityChange \/ ExitAsked PROVE Handover'
  <2>1. Open /\ session > 0
    BY <1>Asked DEF _handleVisibilityChange, ExitAsked, Base, Blank, TypeOK
  <2>2. _initiateExit({}, dialogs) /\ UNCHANGED <<actId, server, page_>>
    BY <1>Asked DEF _handleVisibilityChange, ExitAsked
  <2>. QED
    BY <2>1, <2>2, HandoverEnding
<1>CountdownFires. ASSUME NEW d \in dialogs, CountdownFires(d) PROVE Handover'
  <2>1. Open /\ session > 0
    BY <1>CountdownFires DEF CountdownFires, Base, Blank, TypeOK
  <2>2. /\ _initiateExit({}, _closeInactivityDialog(dialogs))
        /\ UNCHANGED <<actId, server, page_>>
    BY <1>CountdownFires DEF CountdownFires
  <2>. QED
    BY <2>1, <2>2, HandoverEnding
<1>DialogAnswered. ASSUME NEW d \in dialogs, NEW stay \in BOOLEAN, DialogAnswered(d, stay) PROVE Handover'
  <2>. USE <1>DialogAnswered DEF DialogAnswered
  <2>1. session > 0 /\ session \in Sessions
    BY DEF Base, Blank, TypeOK, Sessions
  <2>. DEFINE rest == Closed(Silenced(dialogs, shown), IF d.session = shown
                               THEN [d EXCEPT !.left = Stopped] ELSE d)
  <2>2. CASE UNCHANGED <<exiting, manual, unload, unclean, calls>>
    <3>1. CallsSound'
      BY <2>2 DEF CallsSound, Locking, Mine, Open
    <3>2. GoneSound' /\ Responsible'
      BY <2>2 DEF GoneSound, Responsible, GivesBack, Locking, Mine, Open
    <3>. QED
      BY <3>1, <3>2
  <2>3. CASE /\ calls' = calls \cup {NewCall("stay", actId)}
             /\ UNCHANGED <<exiting, manual, unload, unclean>>
    <3>1. /\ NewCall("stay", actId).kind = "stay" /\ NewCall("stay", actId).answer = "none"
      BY DEF NewCall
    <3>2. CallsSound'
      BY <2>3, <3>1 DEF CallsSound, Locking, Mine, Open
    <3>3. GoneSound'
      BY DEF GoneSound, Open
    <3>4. Responsible'
      BY <2>3, <3>1 DEF Responsible, GivesBack, Mine, Locking, Open
    <3>. QED
      BY <3>2, <3>3, <3>4
  <2>4. CASE _initiateExit({}, rest)
    <3>. HIDE DEF rest
    <3>. QED
      BY <2>1, <2>4, HandoverEnding
  <2>. QED
    BY <2>2, <2>3, <2>4
<1>Gone. ASSUME Redirected \/ Close \/ Crash PROVE Handover'
  <2>1. CASE Crash
    BY <2>1 DEF Crash, CallsSound, GoneSound, Responsible
  <2>2. CASE Redirected \/ Close
    BY <2>2, HandoverGone DEF Redirected, Close
  <2>. QED
    BY <1>Gone, <2>1, <2>2
<1>Settled. ASSUME NEW c \in calls, Settle(c) PROVE Handover'
  <2>1. CASE \E done \in BOOLEAN : Lose(c, done)
    BY <2>1 DEF Lose, CallsSound, GoneSound, Responsible
  <2>2. CASE Serve(c) /\ unclean
    BY <2>2 DEF Serve, CallsSound, GoneSound, Responsible
  <2>3. CASE Serve(c) /\ ~unclean
    <3>. USE <2>3 DEF Serve
    <3>. DEFINE answer == IF Given(c) THEN "ok" ELSE "refused"
                r == [c EXCEPT !.answer = answer]
    <3>1. answer \in Answers /\ answer \notin {"none", "failed"} /\ calls' = Reply(c, answer)
      BY DEF Answers
    <3>2. /\ r.kind = c.kind /\ r.act = c.act /\ r.locked = c.locked /\ r.answer = answer
      BY <3>1, ReplyType DEF Base
    <3>3. /\ \A e \in calls' : e \in calls \ {c} \/ (e = r /\ Open /\ c.kind # "beacon")
          /\ \A e \in calls \ {c} : e \in calls'
          /\ Open /\ c.kind # "beacon" => r \in calls'
      BY <3>1 DEF Reply
    <3>. HIDE DEF r
    <3>4. UNCHANGED <<page, phase, target, current, actId, exiting, manual, unload, unclean>>
      OBVIOUS
    <3>5. /\ \A b : Mine(b)' => Mine(b) \/ (b = c.act /\ c.kind = "lock" /\ answer = "ok")
          /\ c.kind = "lock" /\ answer = "refused" => ~Mine(c.act)
          /\ c.kind \in Unlocks => ~Mine(c.act)'
      <4>1. lease \in [Acts -> Rivals \cup {Me, NoUser}] /\ Me # NoUser
        BY KeeperAssumption DEF Base, TypeOK
      <4>2. CASE Given(c)
        <5>1. c.act \in Acts
          BY <4>2, <4>1, KeeperAssumption DEF Given, Base, TypeOK, Call
        <5>2. lease'[c.act] = CASE c.kind = "lock" -> Me
                                [] c.kind \in Unlocks -> AfterRelease(lease[c.act], Me)
                                [] OTHER -> lease[c.act]
          BY <4>1, <4>2, <5>1 DEF Effect
        <5>3. \A b \in Acts \ {c.act} : lease'[b] = lease[b]
          BY <4>1, <4>2, <5>1 DEF Effect
        <5>. QED
          BY <4>1, <4>2, <5>1, <5>2, <5>3 DEF Mine, AfterRelease, Holds, Unlocks
      <4>3. CASE ~Given(c)
        BY <4>1, <4>3, KeeperAssumption DEF Mine, Effect, Given, CanAcquire, Holds, Unlocks
      <4>. QED
        BY <4>2, <4>3
    <3>. HIDE DEF answer
    <3>6. Locking' <=> Locking
      BY <3>2, <3>3, <3>4 DEF Locking, Open
    <3>7. c.kind = "lock" => /\ Open /\ c.act = actId /\ Locking
                             /\ \A e \in calls \ {c} : e.kind \notin {"lock", "switch"}
                             /\ phase = "locking" \/ (phase = "closed" /\ page = "constructor")
      BY DEF CallsSound, GoneSound, Locking, Base, BeginsOnce
    <3>8. CallsSound'
      <4>. SUFFICES ASSUME Open PROVE CallsSound'
        BY <3>4 DEF CallsSound, Open
      <4>1. ASSUME NEW e \in calls'
            PROVE  /\ e.answer # "failed"
                   /\ e.kind \in {"lock", "switch"} => e.act = actId
                   /\ e.kind \in {"save", "exit"} => exiting
                   /\ e.kind = "lock" /\ e.answer = "refused" => ~Mine(e.act)'
                   /\ e.kind = "switch" /\ e.answer # "none" => ~Mine(e.act)'
        <5>1. CASE e \in calls \ {c}
          BY <5>1, <3>5, <3>7 DEF CallsSound
        <5>2. CASE e = r
          BY <5>2, <3>1, <3>2, <3>5 DEF CallsSound, Unlocks
        <5>. QED
          BY <5>1, <5>2, <3>3
      <4>2. phase = "refused" => ~Mine(actId)'
        BY <3>5, <3>7 DEF CallsSound
      <4>3. page = "list" /\ phase = "closed" => manual \/ ~Mine(actId)'
        BY <3>5, <3>7 DEF CallsSound
      <4>. QED
        BY <4>1, <4>2, <4>3, <3>4, <3>6 DEF CallsSound, Open
    <3>9. GoneSound'
      BY <3>2, <3>3, <3>4 DEF GoneSound, Open
    <3>10. ASSUME NEW b \in Acts, Mine(b)' PROVE GivesBack(b)'
      <4>1. CASE ~Mine(b)
        BY <4>1, <3>10, <3>4, <3>5, <3>6, <3>7 DEF GivesBack
      <4>2. CASE Mine(b)
        <5>1. CASE \E e \in calls : e.kind \in Unlocks /\ e.act = b /\ e.answer = "none"
          BY <5>1, <3>3, <3>5, <3>10 DEF GivesBack
        <5>2. CASE Open /\ \E e \in calls : e.kind = "save" /\ e.locked = b
          BY <5>2, <3>2, <3>3, <3>4 DEF GivesBack, Open
        <5>3. CASE Open /\ actId = b /\ (Locking \/ (unload /\ ~exiting /\ ~manual))
          BY <5>3, <3>4, <3>6 DEF GivesBack, Open, Locking
        <5>. QED
          BY <4>2, <5>1, <5>2, <5>3 DEF Responsible, GivesBack, Locking
      <4>. QED
        BY <4>1, <4>2
    <3>. QED
      BY <3>8, <3>9, <3>10, <3>4 DEF Responsible
  <2>. QED
    BY <1>Settled, <2>1, <2>2, <2>3 DEF Settle
<1>Stutter. ASSUME UNCHANGED vars PROVE Handover'
  <2>. USE <1>Stutter DEF vars, Open, Locking, Mine
  <2>1. CallsSound'
    BY DEF CallsSound, GivesBack, Base, BeginsOnce
  <2>2. GoneSound'
    BY DEF GoneSound, CallsSound, GivesBack, Base, BeginsOnce
  <2>3. Responsible'
    BY DEF Responsible, CallsSound, GivesBack, Base, BeginsOnce
  <2>. QED
    BY <2>1, <2>2, <2>3
<1>. QED
  BY <1>LockGranted, <1>LockDenied, <1>RefusalRead, <1>Extended, <1>ExtensionFails, <1>IdleFires,
      <1>StayGranted, <1>ExitAnswered, <1>SaveAnswered, <1>ManualAnswered, <1>Activity,
      <1>RivalMoves, <1>Tick, <1>SwitchAct, <1>manualUnlock, <1>CloseCancelled, <1>Start,
      <1>SwitchAnswered, <1>ExtendFires, <1>Ended, <1>Asked, <1>CountdownFires, <1>DialogAnswered,
      <1>Gone, <1>Settled, <1>Stutter
     DEF Next, CountdownEnds, Read, UserActs

-----------------------------------------------------------------------------
(* The lease.  A clock argument: while a session is watched, the time since *)
(* the server last renewed its lease is bounded by what the page's own      *)
(* counters say, whoever is watching.                                       *)

\* Nothing outside this code has gone wrong.
Clean == Open /\ ~disturbed /\ ~stayed /\ ~again /\ ~unclean

\* A watched session which no switch is about to end.
Settled == Watched /\ target = NoAct

\* The time the lease of act a has run.
Run(a) == LockDuration - ttl[a]

Extending == \E c \in calls : c.kind = "extend"

\* What the idle check and the calls are, in any state.
ChecksSound ==
    /\ idleDue => idleCheck
    /\ idleCheck /\ idle >= IdleLimit => idleDue
    /\ page = "list" => current = NoAct
    /\ Open /\ ~stayed => \A c \in calls : c.kind # "beacon"
    /\ \A c \in calls : c.session <= session /\ (c.kind = "save" => c.act # NoAct)
    /\ phase = "live" => Open

\* The calls that end a session do not overlap, and a save still has its lease.
EndsOnce ==
    Clean =>
        /\ \A c \in calls : c.kind = "manual" => manual /\ target = NoAct
        /\ \A c1, c2 \in calls :
              c1.kind = "save" /\ c2.kind \in Unlocks \cup {"save"} => c1 = c2
        /\ phase = "live" =>
              \A c \in calls : c.kind = "save" /\ c.answer = "none" => lease[c.act] = Me

\* The calls that renew the lease of a session begun or being begun.
RenewalsSound ==
    Clean /\ (Locking \/ Settled) =>
        /\ actId \in Acts
        /\ \A c \in calls :
            /\ c.session # session => sinceExtension = 0
            /\ c.session = session /\ c.kind \in {"extend", "stay"} => c.act = actId
            /\ c.session = session /\ c.kind \in {"extend", "stay"} /\ c.answer = "ok" =>
                  ttl[actId] = LockDuration

LockSound ==
    Clean /\ Locking =>
        /\ sinceExtension = 0
        /\ \A c \in calls : c.kind = "lock" /\ c.answer = "ok" =>
              lease[actId] = Me /\ ttl[actId] = LockDuration

\* While the idle check runs, the lease has run no longer than the page counts, or
\* for one check more when an extension is due that the user's return had delayed.
ChecksInTime ==
    idleCheck =>
        /\ sinceExtension < MinExtension => Run(actId) <= sinceExtension
        /\ sinceExtension = MinExtension =>
              \/ Run(actId) <= MinExtension
              \/ /\ Run(actId) <= MinExtension + 1 /\ idle <= 1
                 /\ extendDue > 0 \/ Extending
        /\ sinceExtension = MinExtension /\ extendDue = 0 /\ ~Extending =>
              idle = 0 \/ (idle >= IdleLimit /\ idleDue)

\* A dialog that counts down ends before the lease does.
DialogsInTime ==
    \A d \in dialogs : d.left # Stopped => Run(actId) + d.left <= MinExtension + DialogTime

LeaseSound ==
    Clean /\ Settled =>
        /\ lease[actId] = Me
        /\ (\E c \in calls : c.session # session) => ttl[actId] = LockDuration
        /\ ChecksInTime
        /\ DialogsInTime

Leased == ChecksSound /\ EndsOnce /\ RenewalsSound /\ LockSound /\ LeaseSound

LEMMA NoEndings ==
    ASSUME Base, Handover, Leased, Clean, Locking \/ Settled
    PROVE  \A c \in calls : c.kind \notin Unlocks \cup {"save"}
<1>1. Locking => ~exiting /\ ~manual
  BY DEF Handover, CallsSound, Clean
<1>2. ~exiting /\ ~manual
  BY <1>1 DEF Settled, Watched
<1>3. \A c \in calls : c.kind \notin {"save", "exit"}
  BY <1>2 DEF Handover, CallsSound, Clean
<1>4. \A c \in calls : c.kind # "manual"
  BY <1>2 DEF Leased, EndsOnce
<1>5. \A c \in calls : c.kind # "switch"
  BY DEF Base, BeginsOnce, Clean, Locking, Settled
<1>6. \A c \in calls : c.kind # "beacon"
  BY DEF Leased, ChecksSound, Clean
<1>. QED
  BY <1>3, <1>4, <1>5, <1>6 DEF Unlocks

LEMMA LeaseEnding ==
    ASSUME Base, Handover, Leased, Open, session > 0, NEW read \in SUBSET calls, NEW ds,
           \A c \in read : c.kind \in {"extend", "stay"}, _initiateExit(read, ds),
           idle' \in {0, idle},
           UNCHANGED <<sinceExtension, actId, server, page_, away, stayed, disturbed>>
    PROVE  Leased'
<1>. USE KeeperAssumption DEF Leased, _initiateExit, page_, server, timers
<1>0. idle \in 0 .. IdleLimit /\ IdleLimit \in Nat \ {0} /\ session \in Sessions
  BY DEF Base, TypeOK, Sessions
<1>1. CASE exiting
  <2>. USE <1>1
  <2>1. ChecksSound'
    BY <1>0 DEF ChecksSound, Open
  <2>2. EndsOnce'
    BY DEF EndsOnce, Clean, Open
  <2>3. ~(Clean' /\ (Locking' \/ Settled'))
    BY DEF Clean, Settled, Watched, Locking, Open, Handover, CallsSound
  <2>4. RenewalsSound' /\ LockSound' /\ LeaseSound'
    BY <2>3 DEF RenewalsSound, LockSound, LeaseSound
  <2>. QED
    BY <2>1, <2>2, <2>4
<1>2. CASE ~exiting
  <2>. USE <1>2
  <2>1. /\ ExitCall.kind = (IF current = NoAct THEN "exit" ELSE "save")
        /\ ExitCall.act = (IF current = NoAct THEN actId ELSE current)
        /\ ExitCall.session = session /\ ExitCall.answer = "none"
    BY <1>0, ExitCallType DEF Base
  <2>2. Clean' => Clean /\ target = NoAct /\ ~Locking /\ ~manual
    BY DEF Clean, Open, Base, BeginsOnce, Locking
  <2>3. ChecksSound'
    <3>1. session <= session
      BY <1>0 DEF Sessions
    <3>. QED
      BY <2>1, <3>1 DEF ChecksSound, Open, StopTimers
  <2>4. ~(Clean' /\ (Locking' \/ Settled'))
    BY <2>1, <2>2 DEF Clean, Settled, Watched, Locking, Open
  <2>5. RenewalsSound' /\ LockSound' /\ LeaseSound'
    BY <2>4 DEF RenewalsSound, LockSound, LeaseSound
  <2>6. ASSUME Clean' PROVE \A c \in calls : c.kind \notin Unlocks \cup {"save"}
    <3>1. \A c \in calls : c.kind \notin {"save", "exit", "manual"}
      BY <2>2, <2>6 DEF Handover, CallsSound, Clean, EndsOnce
    <3>2. \A c \in calls : c.kind \notin {"switch", "beacon"}
      BY <2>2, <2>6 DEF Base, BeginsOnce, Clean, ChecksSound
    <3>. QED
      BY <3>1, <3>2 DEF Unlocks
  <2>7. ASSUME Clean', phase = "live", current # NoAct PROVE lease[current] = Me
    <3>1. Settled /\ page = "constructor" /\ current = actId
      BY <2>2, <2>7 DEF Settled, Watched, Clean, ChecksSound, Handover, CallsSound, Base, TypeOK,
          Open
    <3>. QED
      BY <2>2, <2>7, <3>1 DEF LeaseSound
  <2>8. EndsOnce'
    BY <2>1, <2>2, <2>6, <2>7 DEF EndsOnce
  <2>. QED
    BY <2>3, <2>5, <2>8
<1>. QED
  BY <1>1, <1>2

LEMMA LeaseGone ==
    ASSUME NEW beacon, PageGone(beacon),
           \A c \in calls \cup beacon : c.session <= session /\ (c.kind = "save" => c.act # NoAct)
    PROVE  Leased'
<1>1. ~Open' /\ ~Clean'
  BY DEF PageGone, Open, Clean
<1>2. ChecksSound'
  BY <1>1 DEF PageGone, ChecksSound
<1>. QED
  BY <1>1, <1>2 DEF Leased, EndsOnce, RenewalsSound, LockSound, LeaseSound

LEMMA LeaseBegins ==
    ASSUME Base, Handover, Leased, Open, session < MaxSessions, NEW a \in Acts,
           NEW read \in SUBSET calls, init(a, read),
           \A c \in calls \ read : c.kind \notin {"lock", "switch"},
           Clean => \A c \in calls : c.kind # "manual",
           idleDue' => idleCheck', idleCheck' /\ idle >= IdleLimit => idleDue',
           page = "list" => current' = NoAct,
           UNCHANGED <<idle, server, page, stayed, again, disturbed>>
    PROVE  Leased'
<1>. USE KeeperAssumption DEF Leased, init, server
<1>1. session \in Nat /\ session + 1 \in Sessions
  BY DEF Base, TypeOK, Sessions
<1>2. /\ LockCall(a).kind = "lock" /\ LockCall(a).act = a /\ LockCall(a).answer = "none"
      /\ LockCall(a).session = session + 1
  BY <1>1, LockCallType
<1>3. Clean' => Clean /\ ~exiting
  BY DEF Clean, Open
<1>4. \A c \in calls : /\ c.session <= session /\ c.session <= session + 1
                     /\ c.session # session + 1
  BY <1>1 DEF ChecksSound, Base, TypeOK, Call, Sessions
<1>5. ChecksSound'
  <2>1. session + 1 <= session + 1
    BY <1>1
  <2>2. \A c \in calls' : c.session <= session' /\ (c.kind = "save" => c.act # NoAct)
    BY <1>2, <1>4, <2>1 DEF ChecksSound
  <2>. QED
    BY <1>2, <2>2 DEF ChecksSound, Open
<1>6. EndsOnce'
  BY <1>2, <1>3 DEF EndsOnce, Handover, CallsSound, Clean, Unlocks
<1>7. RenewalsSound'
  BY <1>2, <1>4 DEF RenewalsSound
<1>8. LockSound'
  BY <1>2 DEF LockSound
<1>9. LeaseSound'
  BY DEF LeaseSound, Settled, Watched
<1>. QED
  BY <1>5, <1>6, <1>7, <1>8, <1>9

LEMMA LeaseStep ==
    ASSUME IdleLimit > 1, MinExtension + DialogTime < LockDuration,
           Base, Base', SomeoneWatches, Handover, Handover', Leased, [Next]_vars
    PROVE  Leased'
<1>. USE KeeperAssumption DEF Leased, timers, clock, keeper, popups, server, page_, told
<1>LockGranted. ASSUME NEW c \in calls, LockGranted(c) PROVE Leased'
  <2>. USE <1>LockGranted DEF LockGranted, Answered
  <2>0. Locking /\ told' = told /\ page' = page /\ Open
    BY DEF Locking
  <2>1. page = "list" => target = NoAct
    BY DEF Base, BeginsOnce, Open
  <2>2. ChecksSound'
    BY <2>1 DEF ChecksSound, Open
  <2>3. Clean' => Clean
    BY DEF Clean, Open
  <2>4. Clean => \A e \in calls : e.kind \notin Unlocks \cup {"save"}
    BY <2>0, NoEndings DEF Leased
  <2>5. EndsOnce'
    BY <2>3, <2>4 DEF EndsOnce, Unlocks
  <2>6. RenewalsSound'
    BY <2>0, <2>3 DEF RenewalsSound
  <2>7. ~Locking'
    BY DEF Locking, Base, BeginsOnce, Open
  <2>8. LockSound'
    BY <2>7 DEF LockSound
  <2>9. LeaseSound'
    <3>. SUFFICES ASSUME Clean' PROVE LeaseSound'
      BY DEF LeaseSound
    <3>1. sinceExtension = 0 /\ lease[actId] = Me /\ ttl[actId] = LockDuration
      BY <2>0, <2>3 DEF LockSound
    <3>2. ChecksInTime' /\ DialogsInTime'
      BY <3>1 DEF ChecksInTime, DialogsInTime, Run, Base, TypeOK, Dialog, Stopped
    <3>. QED
      BY <3>1, <3>2 DEF LeaseSound
  <2>. QED
    BY <2>2, <2>5, <2>6, <2>8, <2>9
<1>LockDenied. ASSUME NEW c \in calls, LockDenied(c) PROVE Leased'
  <2>. USE <1>LockDenied DEF LockDenied, Answered, Clean, Settled, Watched, Locking, Open, Mine
  <2>1. ChecksSound'
    BY DEF ChecksSound, TypeOK, Base
  <2>2. EndsOnce'
    BY DEF EndsOnce, Unlocks, Base, BeginsOnce
  <2>3. RenewalsSound'
    BY DEF RenewalsSound
  <2>4. LockSound'
    BY DEF LockSound, CallsSound, Handover
  <2>5. LeaseSound'
    BY DEF LeaseSound, ChecksInTime, DialogsInTime, Run, Extending, Base, BeginsOnce
  <2>. QED
    BY <2>1, <2>2, <2>3, <2>4, <2>5
<1>RefusalRead. ASSUME NEW stays \in BOOLEAN, RefusalRead(stays) PROVE Leased'
  <2>. USE <1>RefusalRead DEF RefusalRead, Clean, Settled, Watched, Locking, Open, Mine
  <2>1. ChecksSound'
    BY DEF ChecksSound, TypeOK, Base
  <2>2. EndsOnce'
    BY DEF EndsOnce, Unlocks, Base, BeginsOnce
  <2>3. RenewalsSound'
    BY DEF RenewalsSound
  <2>4. LockSound'
    BY DEF LockSound, CallsSound, Handover
  <2>5. LeaseSound'
    BY DEF LeaseSound, ChecksInTime, DialogsInTime, Run, Extending, Base, BeginsOnce
  <2>. QED
    BY <2>1, <2>2, <2>3, <2>4, <2>5
<1>Extended. ASSUME NEW c \in calls, Extended(c) PROVE Leased'
  <2>. USE <1>Extended DEF Extended
  <2>0. Open /\ c.kind \in {"extend", "stay"} /\ c.answer = "ok" /\ sinceExtension' = 0
    OBVIOUS
  <2>1. ChecksSound'
    BY DEF ChecksSound, Open, Base, TypeOK
  <2>2. Clean' => Clean
    BY DEF Clean, Open
  <2>3. Locking' = Locking /\ Settled' = Settled
    BY DEF Locking, Settled, Watched, Open
  <2>4. EndsOnce'
    BY <2>2 DEF EndsOnce
  <2>5. RenewalsSound' /\ LockSound'
    BY <2>2, <2>3 DEF RenewalsSound, LockSound
  <2>6. LeaseSound'
    <3>. SUFFICES ASSUME Clean', Settled' PROVE LeaseSound'
      BY DEF LeaseSound
    <3>1. lease[actId] = Me /\ ttl[actId] = LockDuration
      BY <2>2, <2>3 DEF LeaseSound, RenewalsSound
    <3>2. ChecksInTime' /\ DialogsInTime'
      BY <3>1 DEF ChecksInTime, DialogsInTime, Run, Base, TypeOK, Dialog, Stopped
    <3>. QED
      BY <3>1, <3>2 DEF LeaseSound
  <2>. QED
    BY <2>1, <2>4, <2>5, <2>6
<1>ExtensionFails. ASSUME NEW c \in calls, ExtensionFails(c) PROVE Leased'
  <2>. USE <1>ExtensionFails DEF ExtensionFails, Answered
  <2>1. ~Clean'
    BY DEF Clean, Handover, CallsSound, Open
  <2>2. ChecksSound'
    BY DEF ChecksSound, Open
  <2>. QED
    BY <2>1, <2>2 DEF EndsOnce, RenewalsSound, LockSound, LeaseSound
<1>IdleFires. ASSUME IdleFires PROVE Leased'
  <2>. USE <1>IdleFires DEF IdleFires
  <2>1. ChecksSound'
    BY DEF ChecksSound, Open
  <2>2. Clean' = Clean /\ Locking' = Locking /\ Settled' = Settled
    BY DEF Clean, Locking, Settled, Watched, Open
  <2>3. EndsOnce' /\ RenewalsSound' /\ LockSound'
    BY <2>2 DEF EndsOnce, RenewalsSound, LockSound
  <2>4. LeaseSound'
    <3>. SUFFICES ASSUME Clean, Settled PROVE LeaseSound'
      BY <2>2 DEF LeaseSound
    <3>0. /\ idle \in 0 .. IdleLimit /\ sinceExtension \in 0 .. MinExtension
          /\ MinExtension \in Nat /\ DialogTime \in Nat \ {0} /\ IdleLimit \in Nat
      BY DEF Base, TypeOK
    <3>1. actId \in Acts /\ Run(actId) \in Int
      BY DEF RenewalsSound, Run, Base, TypeOK
    <3>2. ChecksInTime /\ DialogsInTime /\ idleCheck
      BY DEF LeaseSound, ChecksSound
    <3>3. CASE idle >= IdleLimit
      <4>1. Run(actId) <= MinExtension
        BY <3>0, <3>1, <3>2, <3>3 DEF ChecksInTime
      <4>2. \A d \in dialogs' : \/ d \in dialogs
                                \/ d.left = DialogTime
        BY <3>3
      <4>3. ChecksInTime'
        BY <3>3 DEF ChecksInTime
      <4>4. DialogsInTime'
        BY <3>0, <3>1, <3>2, <4>1, <4>2 DEF DialogsInTime, Run
      <4>. QED
        BY <4>3, <4>4 DEF LeaseSound
    <3>4. CASE ~(idle >= IdleLimit)
      <4>1. ChecksInTime' /\ DialogsInTime'
        BY <3>0, <3>2, <3>4 DEF ChecksInTime, DialogsInTime, Run, Extending
      <4>. QED
        BY <4>1 DEF LeaseSound
    <3>. QED
      BY <3>3, <3>4
  <2>. QED
    BY <2>1, <2>3, <2>4
<1>StayGranted. ASSUME NEW c \in calls, StayGranted(c) PROVE Leased'
  <2>. USE <1>StayGranted DEF StayGranted, Answered
  <2>0. Open /\ c.kind \in {"extend", "stay"} /\ c.answer = "ok" /\ sinceExtension' = 0
    OBVIOUS
  <2>1. ChecksSound'
    BY DEF ChecksSound, Open, Base, TypeOK
  <2>2. Clean' => Clean
    BY DEF Clean, Open
  <2>3. Locking' = Locking /\ Settled' = Settled
    BY DEF Locking, Settled, Watched, Open
  <2>4. EndsOnce'
    BY <2>2 DEF EndsOnce
  <2>5. RenewalsSound' /\ LockSound'
    BY <2>2, <2>3 DEF RenewalsSound, LockSound
  <2>6. LeaseSound'
    <3>. SUFFICES ASSUME Clean', Settled' PROVE LeaseSound'
      BY DEF LeaseSound
    <3>1. lease[actId] = Me /\ ttl[actId] = LockDuration
      BY <2>2, <2>3 DEF LeaseSound, RenewalsSound
    <3>2. ChecksInTime' /\ DialogsInTime'
      BY <3>1 DEF ChecksInTime, DialogsInTime, Run, Base, TypeOK, Dialog, Stopped
    <3>. QED
      BY <3>1, <3>2 DEF LeaseSound
  <2>. QED
    BY <2>1, <2>4, <2>5, <2>6
<1>ExitAnswered. ASSUME NEW c \in calls, ExitAnswered(c) PROVE Leased'
  <2>. USE <1>ExitAnswered DEF ExitAnswered, Answered, ExitDone
  <2>1. Clean' => Clean /\ exiting /\ exiting'
    BY DEF Clean, Open, Handover, CallsSound
  <2>2. ~(Clean' /\ (Locking' \/ Settled'))
    BY <2>1 DEF Settled, Watched, Handover, CallsSound, Clean
  <2>3. RenewalsSound' /\ LockSound' /\ LeaseSound'
    BY <2>2 DEF RenewalsSound, LockSound, LeaseSound
  <2>4. ChecksSound' /\ EndsOnce'
    BY <2>1 DEF ChecksSound, EndsOnce, Open
  <2>. QED
    BY <2>3, <2>4
<1>SaveAnswered. ASSUME NEW c \in calls, SaveAnswered(c) PROVE Leased'
  <2>. USE <1>SaveAnswered DEF SaveAnswered, Answered, ExitDone
  <2>1. Clean' => Clean /\ exiting /\ exiting'
    BY DEF Clean, Open, Handover, CallsSound
  <2>2. ~(Clean' /\ (Locking' \/ Settled'))
    BY <2>1 DEF Settled, Watched, Handover, CallsSound, Clean
  <2>3. RenewalsSound' /\ LockSound' /\ LeaseSound'
    BY <2>2 DEF RenewalsSound, LockSound, LeaseSound
  <2>4. /\ ExitAfter(c).kind = "exit" /\ ExitAfter(c).session = c.session
    BY ExitAfterType DEF Base, TypeOK
  <2>5. \A e \in calls' : e \in calls \ {c} \/ e = ExitAfter(c)
    OBVIOUS
  <2>6. ChecksSound'
    BY <2>4, <2>5 DEF ChecksSound, Open
  <2>7. EndsOnce'
    BY <2>1, <2>4, <2>5 DEF EndsOnce
  <2>. QED
    BY <2>3, <2>6, <2>7
<1>ManualAnswered. ASSUME NEW c \in calls, NEW stays \in BOOLEAN, ManualAnswered(c, stays) PROVE Leased'
  <2>. USE <1>ManualAnswered DEF ManualAnswered, Answered, Clean, Settled, Watched, Locking, Open,
      Mine
  <2>1. ChecksSound'
    BY DEF ChecksSound, TypeOK, Base
  <2>2. EndsOnce'
    BY DEF EndsOnce, Unlocks, Base, BeginsOnce
  <2>3. RenewalsSound'
    BY DEF RenewalsSound
  <2>4. LockSound'
    BY DEF LockSound, CallsSound, Handover
  <2>5. LeaseSound'
    BY DEF LeaseSound, ChecksInTime, DialogsInTime, Run, Extending, Base, BeginsOnce
  <2>. QED
    BY <2>1, <2>2, <2>3, <2>4, <2>5
<1>Activity. ASSUME Activity PROVE Leased'
  <2>. USE <1>Activity DEF Activity, Clean, Settled, Watched, Locking, Open, Mine
  <2>1. ChecksSound'
    BY DEF ChecksSound, TypeOK, Base
  <2>2. EndsOnce'
    BY DEF EndsOnce, Unlocks, Base, BeginsOnce
  <2>3. RenewalsSound'
    BY DEF RenewalsSound
  <2>4. LockSound'
    BY DEF LockSound, CallsSound, Handover
  <2>5. LeaseSound'
    BY DEF LeaseSound, ChecksInTime, DialogsInTime, Run, Extending, Base, BeginsOnce
  <2>. QED
    BY <2>1, <2>2, <2>3, <2>4, <2>5
<1>RivalMoves. ASSUME NEW a \in Acts, NEW u \in Rivals, RivalMoves(a, u) PROVE Leased'
  <2>. USE <1>RivalMoves DEF RivalMoves, Clean, Settled, Watched, Locking, Open, Mine
  <2>1. ChecksSound'
    BY DEF ChecksSound, TypeOK, Base
  <2>2. EndsOnce'
    BY DEF EndsOnce, Unlocks, Base, BeginsOnce
  <2>3. RenewalsSound'
    BY DEF RenewalsSound
  <2>4. LockSound'
    BY DEF LockSound, CallsSound, Handover
  <2>5. LeaseSound'
    BY DEF LeaseSound, ChecksInTime, DialogsInTime, Run, Extending, Base, BeginsOnce
  <2>. QED
    BY <2>1, <2>2, <2>3, <2>4, <2>5
<1>Tick. ASSUME Tick PROVE Leased'
  <2>. USE <1>Tick DEF Tick
  <2>1. ChecksSound'
    BY DEF ChecksSound, Open, Capped, Base, TypeOK
  <2>2. Clean' => Clean /\ ~Behind
    BY DEF Clean, Open
  <2>3. ~Behind /\ Open => /\ calls = {} /\ extendDue = 0 /\ ~idleDue
                          /\ \A d \in dialogs : d.left # 0
    BY DEF Behind, Base, TypeOK
  <2>4. Clean' => Clean /\ calls' = {}
    BY <2>2, <2>3 DEF Clean
  <2>5. EndsOnce' /\ LockSound' /\ ~(Clean' /\ Locking')
    BY <2>4 DEF EndsOnce, LockSound, Locking
  <2>6. Settled' = Settled
    BY DEF Settled, Watched, Open
  <2>7. RenewalsSound'
    BY <2>4, <2>5, <2>6 DEF RenewalsSound
  <2>8. LeaseSound'
    <3>. SUFFICES ASSUME Clean', Settled' PROVE LeaseSound'
      BY DEF LeaseSound
    <3>1. /\ Clean /\ Settled /\ Open /\ calls = {} /\ extendDue = 0 /\ ~idleDue
          /\ \A d \in dialogs : d.left # 0
      BY <2>2, <2>3, <2>6 DEF Clean
    <3>2. /\ lease[actId] = Me /\ ChecksInTime /\ DialogsInTime /\ actId \in Acts
      BY <3>1 DEF LeaseSound, RenewalsSound
    <3>3. /\ idle \in 0 .. IdleLimit /\ sinceExtension \in 0 .. MinExtension
          /\ {MinExtension, LockDuration, IdleLimit, DialogTime} \subseteq Nat \ {0}
          /\ ttl[actId] \in 0 .. LockDuration
          /\ idle' = Capped(idle, IdleLimit) /\ sinceExtension' = Capped(sinceExtension, MinExtension)
          /\ strays \in Nat
      BY <3>1, <3>2 DEF Base, TypeOK
    <3>4. timer /\ extendDue' > 0
      BY <3>1, <3>3 DEF SomeoneWatches, Settled
    <3>5. \A d \in dialogs : d.left # Stopped => d.left \in 1 .. DialogTime
      BY <3>1, <3>3 DEF Base, TypeOK, Dialog, Stopped
    <3>6. Run(actId) \in Int
      BY <3>3 DEF Run
    <3>7. Run(actId) < LockDuration - 1
      <4>1. CASE idleCheck
        <5>1. Run(actId) <= MinExtension
          BY <3>1, <3>2, <3>3, <3>6, <4>1 DEF ChecksInTime, Extending
        <5>. QED
          BY <3>3, <3>6, <5>1
      <4>2. CASE \E d \in dialogs : d.left # Stopped
        BY <3>2, <3>3, <3>5, <3>6, <4>2 DEF DialogsInTime
      <4>. QED
        BY <3>1, <4>1, <4>2 DEF SomeoneWatches, CountingDown, Settled
    <3>8. ttl[actId] > 1
      BY <3>3, <3>7 DEF Run
    <3>9. ttl'[actId] = ttl[actId] - 1 /\ lease'[actId] = Me /\ actId' = actId
      BY <3>2, <3>3, <3>8
    <3>10. Run(actId)' = Run(actId) + 1
      BY <3>3, <3>9 DEF Run
    <3>11. ChecksInTime'
      <4>. SUFFICES ASSUME idleCheck PROVE ChecksInTime'
        BY DEF ChecksInTime
      <4>1. CASE sinceExtension < MinExtension
        BY <3>2, <3>3, <3>4, <3>6, <3>10, <4>1 DEF ChecksInTime, Capped
      <4>2. CASE sinceExtension = MinExtension
        <5>1. Run(actId) <= MinExtension /\ idle = 0
          BY <3>1, <3>2, <3>3, <3>6, <4>2 DEF ChecksInTime, Extending
        <5>. QED
          BY <3>3, <3>4, <3>6, <3>10, <4>2, <5>1 DEF ChecksInTime, Capped
      <4>. QED
        BY <3>3, <4>1, <4>2
    <3>12. DialogsInTime'
      <4>1. \A e \in dialogs' : e.left # Stopped =>
                \E d \in dialogs : d.left # Stopped /\ e.left = d.left - 1
        BY <3>5 DEF Base, TypeOK, Dialog, Stopped
      <4>. QED
        BY <3>2, <3>3, <3>5, <3>6, <3>10, <4>1 DEF DialogsInTime
    <3>. QED
      BY <2>4, <3>9, <3>11, <3>12 DEF LeaseSound
  <2>. QED
    BY <2>1, <2>5, <2>7, <2>8
<1>SwitchAct. ASSUME NEW b \in Acts, SwitchAct(b) PROVE Leased'
  <2>. USE <1>SwitchAct DEF SwitchAct
  <2>1. /\ NewCall("switch", current).kind = "switch"
        /\ NewCall("switch", current).session = session
    BY DEF NewCall
  <2>2. session \in Nat /\ b # NoAct
    BY DEF Base, TypeOK
  <2>3. ChecksSound'
    BY <2>1, <2>2 DEF ChecksSound, Open
  <2>4. Clean' = Clean /\ ~Settled'
    BY <2>2 DEF Clean, Settled, Open
  <2>5. ~Locking'
    BY <2>1 DEF Locking, Base, BeginsOnce, Open
  <2>6. EndsOnce'
    BY <2>1, <2>4 DEF EndsOnce, Handover, CallsSound, Clean, Unlocks
  <2>. QED
    BY <2>3, <2>4, <2>5, <2>6 DEF RenewalsSound, LockSound, LeaseSound
<1>manualUnlock. ASSUME manualUnlock PROVE Leased'
  <2>. USE <1>manualUnlock DEF manualUnlock, destroy, StopTimers
  <2>1. /\ NewCall("manual", actId).kind = "manual"
        /\ NewCall("manual", actId).session = session
    BY DEF NewCall
  <2>2. session \in Nat
    BY DEF Base, TypeOK
  <2>3. ChecksSound'
    BY <2>1, <2>2 DEF ChecksSound, Open
  <2>4. (Clean' => Clean /\ target = NoAct) /\ ~Settled'
    BY DEF Clean, Settled, Watched, Open
  <2>5. ~Locking'
    BY <2>1 DEF Locking, Base, BeginsOnce, Open
  <2>6. EndsOnce'
    BY <2>1, <2>4 DEF EndsOnce, Handover, CallsSound, Clean, Unlocks
  <2>. QED
    BY <2>3, <2>4, <2>5, <2>6 DEF RenewalsSound, LockSound, LeaseSound
<1>CloseCancelled. ASSUME CloseCancelled PROVE Leased'
  <2>. USE <1>CloseCancelled DEF CloseCancelled, destroy, StopTimers
  <2>1. ~Clean'
    BY DEF Clean
  <2>2. session \in Nat /\ \A c \in Beacon : c.session = session /\ c.kind = "beacon"
    BY BeaconType DEF Base, TypeOK
  <2>3. ChecksSound'
    BY <2>2 DEF ChecksSound, Open
  <2>. QED
    BY <2>1, <2>3 DEF EndsOnce, RenewalsSound, LockSound, LeaseSound
<1>Start. ASSUME NEW a \in Acts, Start(a) PROVE Leased'
  <2>. USE <1>Start DEF Start
  <2>1. \A c \in calls : c.kind \notin {"lock", "switch"}
    BY DEF Base, BeginsOnce, Blank, Open, TypeOK
  <2>2. \A c \in calls : c.kind # "manual"
    BY DEF Base, BeginsOnce, Blank, Open, TypeOK
  <2>3. /\ idleDue' => idleCheck'
        /\ idleCheck' /\ idle >= IdleLimit => idleDue'
        /\ page = "list" => current' = NoAct
    BY DEF ChecksSound
  <2>4. init(a, {}) /\ UNCHANGED <<idle, server, page, stayed, again, disturbed>>
    OBVIOUS
  <2>. QED
    BY <2>1, <2>2, <2>3, <2>4, LeaseBegins DEF Leased
<1>SwitchAnswered. ASSUME NEW c \in calls, SwitchAnswered(c) PROVE Leased'
  <2>. USE <1>SwitchAnswered DEF SwitchAnswered, Answered
  <2>1. /\ \A e \in calls \ {c} : e.kind \notin {"lock", "switch"}
        /\ page = "constructor" /\ session < MaxSessions /\ target \in Acts
    BY DEF Base, BeginsOnce, Open, TypeOK
  <2>2. Clean => \A e \in calls : e.kind # "manual"
    BY <2>1 DEF EndsOnce
  <2>3. /\ idleDue' => idleCheck'
        /\ idleCheck' /\ idle >= IdleLimit => idleDue'
    BY DEF ChecksSound, destroy, StopTimers
  <2>4. init(target, {c}) /\ UNCHANGED <<idle, server, page, stayed, again, disturbed>>
    OBVIOUS
  <2>. QED
    BY <2>1, <2>2, <2>3, <2>4, LeaseBegins DEF Leased
<1>ExtendFires. ASSUME ExtendFires PROVE Leased'
  <2>. USE <1>ExtendFires DEF ExtendFires
  <2>1. session > 0 /\ session \in Sessions
    BY DEF Base, TimersSound, TypeOK, Runs, Sessions
  <2>2. CASE _initiateExit({}, dialogs)
    BY <2>1, <2>2, LeaseEnding
  <2>3. CASE ~(MayExtend /\ actId = NoAct)
    <3>. DEFINE free == {n \in 1 .. MaxExtends : \A c \in calls : c.kind = "extend" => c.n # n}
                e == ExtendCall(CHOOSE n \in free : TRUE)
                sends == MayExtend /\ actId # NoAct /\ free # {}
    <3>1. calls' = IF sends THEN calls \cup {e} ELSE calls
      BY <2>3
    <3>2. sends => /\ e.kind = "extend" /\ e.act = actId /\ e.session = session
                   /\ e.answer = "none"
      <4>1. free # {} => (CHOOSE n \in free : TRUE) \in 1 .. MaxExtends
        OBVIOUS
      <4>. HIDE DEF free
      <4>. QED
        BY <2>1, <4>1, ExtendCallType DEF Base
    <3>3. MayExtend /\ ~sends => Extending
      <4>1. 1 \in 1 .. MaxExtends
        OBVIOUS
      <4>. QED
        BY <2>3, <4>1 DEF Extending
    <3>. HIDE DEF e, sends
    <3>4. ChecksSound'
      BY <2>1, <2>3, <3>1, <3>2 DEF ChecksSound, Open, Sessions
    <3>5. Clean' = Clean /\ Locking' = Locking /\ Settled' = Settled
      BY <2>3, <3>1, <3>2 DEF Clean, Locking, Settled, Watched, Open
    <3>6. EndsOnce'
      BY <2>3, <3>1, <3>2, <3>5 DEF EndsOnce, Unlocks
    <3>7. RenewalsSound'
      BY <2>3, <3>1, <3>2, <3>5 DEF RenewalsSound
    <3>8. LockSound'
      BY <2>3, <3>1, <3>2, <3>5 DEF LockSound
    <3>9. LeaseSound'
      <4>. SUFFICES ASSUME Clean, Settled PROVE LeaseSound'
        BY <3>5 DEF LeaseSound
      <4>1. ChecksInTime /\ DialogsInTime
        BY DEF LeaseSound
      <4>2. (MayExtend => Extending') /\ (Extending => Extending')
        BY <3>1, <3>2, <3>3 DEF Extending, sends
      <4>3. /\ idle \in 0 .. IdleLimit /\ sinceExtension \in 0 .. MinExtension
            /\ extendDue \in Nat /\ extendDue' = extendDue - 1
        BY <2>3 DEF Base, TypeOK
      <4>4. MayExtend <=> idle < IdleLimit /\ sinceExtension = MinExtension
        BY <4>3 DEF MayExtend
      <4>5. UNCHANGED <<idleCheck, idleDue, idle, sinceExtension, ttl, actId, dialogs, lease>>
        BY <2>3
      <4>6. idleCheck /\ idle >= IdleLimit => idleDue
        BY DEF ChecksSound
      <4>7. ChecksInTime'
        BY <4>1, <4>2, <4>3, <4>4, <4>5, <4>6 DEF ChecksInTime, Run
      <4>8. DialogsInTime'
        BY <4>1, <4>5 DEF DialogsInTime, Run
      <4>. QED
        BY <2>3, <3>1, <3>2, <4>5, <4>7, <4>8 DEF LeaseSound
    <3>. QED
      BY <3>4, <3>6, <3>7, <3>8, <3>9
  <2>. QED
    BY <2>2, <2>3
<1>Ended. ASSUME NEW c \in calls, ExtensionEnds(c) \/ StayDenied(c) PROVE Leased'
  <2>1. Open /\ session > 0 /\ c.kind \in {"extend", "stay"}
    BY <1>Ended DEF ExtensionEnds, StayDenied, Answered, Base, Blank, TypeOK
  <2>2. _initiateExit({c}, dialogs) /\ UNCHANGED <<clock, actId, server, page_, away, stayed, disturbed>>
    BY <1>Ended DEF ExtensionEnds, StayDenied
  <2>. QED
    BY <2>1, <2>2, LeaseEnding DEF Leased
<1>Asked. ASSUME _handleVisibilityChange \/ ExitAsked PROVE Leased'
  <2>1. Open /\ session > 0
    BY <1>Asked DEF _handleVisibilityChange, ExitAsked, Base, Blank, TypeOK
  <2>2. _initiateExit({}, dialogs) /\ UNCHANGED <<clock, actId, server, page_, away, stayed, disturbed>>
    BY <1>Asked DEF _handleVisibilityChange, ExitAsked
  <2>. QED
    BY <2>1, <2>2, LeaseEnding DEF Leased
<1>CountdownFires. ASSUME NEW d \in dialogs, CountdownFires(d) PROVE Leased'
  <2>1. Open /\ session > 0
    BY <1>CountdownFires DEF CountdownFires, Base, Blank, TypeOK
  <2>2. /\ _initiateExit({}, _closeInactivityDialog(dialogs))
        /\ UNCHANGED <<clock, actId, server, page_, away, stayed, disturbed>>
    BY <1>CountdownFires DEF CountdownFires
  <2>. QED
    BY <2>1, <2>2, LeaseEnding DEF Leased
<1>DialogAnswered. ASSUME NEW d \in dialogs, NEW stay \in BOOLEAN, DialogAnswered(d, stay) PROVE Leased'
  <2>. USE <1>DialogAnswered DEF DialogAnswered
  <2>1. session > 0 /\ session \in Sessions
    BY DEF Base, Blank, TypeOK, Sessions
  <2>2. idle \in 0 .. IdleLimit /\ idle' \in {0, idle}
    BY DEF Base, TypeOK
  <2>. DEFINE rest == Closed(Silenced(dialogs, shown), IF d.session = shown
                               THEN [d EXCEPT !.left = Stopped] ELSE d)
              stays == NewCall("stay", actId)
  <2>3. CASE _initiateExit({}, rest)
    <3>. HIDE DEF rest
    <3>. QED
      BY <2>1, <2>2, <2>3, LeaseEnding DEF Leased
  <2>4. CASE /\ dialogs' \in {Closed(dialogs, d), rest}
             /\ calls' = calls \/ (calls' = calls \cup {stays} /\ actId # NoAct)
             /\ UNCHANGED <<timers, exiting, manual, unload, again, unclean>>
    <3>1. /\ stays.kind = "stay" /\ stays.act = actId /\ stays.session = session
          /\ stays.answer = "none"
      BY DEF NewCall
    <3>. HIDE DEF stays
    <3>2. \A e \in dialogs' : e.left # Stopped => \E f \in dialogs : f.left = e.left
      BY <2>4 DEF Closed, Silenced, Base, TypeOK, Dialog, Stopped
    <3>. HIDE DEF rest
    <3>3. ChecksSound'
      BY <2>1, <2>2, <2>4, <3>1 DEF ChecksSound, Open, Sessions
    <3>4. Clean' = Clean /\ Locking' = Locking /\ Settled' = Settled
      BY <2>4, <3>1 DEF Clean, Locking, Settled, Watched, Open
    <3>5. EndsOnce'
      BY <2>4, <3>1, <3>4 DEF EndsOnce, Unlocks
    <3>6. RenewalsSound'
      BY <2>4, <3>1, <3>4 DEF RenewalsSound
    <3>7. LockSound'
      BY <2>4, <3>1, <3>4 DEF LockSound
    <3>8. LeaseSound'
      <4>. SUFFICES ASSUME Clean, Settled PROVE LeaseSound'
        BY <3>4 DEF LeaseSound
      <4>1. ChecksInTime /\ DialogsInTime /\ Extending' = Extending
        BY <2>4, <3>1 DEF LeaseSound, Extending
      <4>2. ChecksInTime'
        BY <2>2, <2>4, <4>1 DEF ChecksInTime, Run
      <4>3. DialogsInTime'
        BY <2>4, <3>2, <4>1 DEF DialogsInTime, Run
      <4>. QED
        BY <2>4, <3>1, <4>2, <4>3 DEF LeaseSound
    <3>. QED
      BY <3>3, <3>5, <3>6, <3>7, <3>8
  <2>. QED
    BY <2>3, <2>4
<1>Gone. ASSUME Redirected \/ Close \/ Crash PROVE Leased'
  <2>1. PICK beacon \in {Beacon, {}} : PageGone(beacon)
    BY <1>Gone DEF Redirected, Close, Crash
  <2>2. session \in Nat /\ \A c \in Beacon : c.session = session /\ c.kind = "beacon"
    BY BeaconType DEF Base, TypeOK
  <2>3. \A c \in calls \cup beacon : c.session <= session /\ (c.kind = "save" => c.act # NoAct)
    BY <2>1, <2>2 DEF ChecksSound
  <2>. QED
    BY <2>1, <2>3, LeaseGone DEF Leased
<1>Settled. ASSUME NEW c \in calls, Settle(c) PROVE Leased'
  <2>1. PICK answer \in Answers :
            /\ calls' = Reply(c, answer)
            /\ \/ Serve(c) /\ answer = IF Given(c) THEN "ok" ELSE "refused"
               \/ \E done \in BOOLEAN : Lose(c, done)
    BY <1>Settled DEF Settle, Serve, Lose, Answers
  <2>2. UNCHANGED <<timers, clock, keeper, popups, page_, away, stayed, again>>
    BY <1>Settled DEF Settle, Serve, Lose
  <2>. DEFINE r == [c EXCEPT !.answer = answer]
  <2>3. /\ r.kind = c.kind /\ r.act = c.act /\ r.session = c.session /\ r.answer = answer
    BY ReplyType DEF Base
  <2>4. \A e \in calls' : e \in calls \ {c} \/ (e = r /\ c.kind # "beacon")
    BY <2>1 DEF Reply
  <2>4a. Open /\ c.kind # "beacon" => r \in calls' /\ \A e \in calls \ {c} : e \in calls'
    BY <2>1 DEF Reply
  <2>. HIDE DEF r
  <2>5. ChecksSound'
    BY <2>2, <2>3, <2>4 DEF ChecksSound, Open
  <2>6. CASE ~Clean'
    BY <2>5, <2>6 DEF EndsOnce, RenewalsSound, LockSound, LeaseSound
  <2>7. CASE Clean'
    <3>1. /\ Clean /\ Open /\ Serve(c) /\ c.kind # "beacon"
          /\ c.answer = "none" /\ answer = IF Given(c) THEN "ok" ELSE "refused"
      <4>1. Serve(c) /\ answer = IF Given(c) THEN "ok" ELSE "refused"
        BY <2>1, <2>7 DEF Lose, Clean
      <4>2. Clean
        BY <2>2, <2>7, <4>1 DEF Serve, Clean, Open
      <4>. QED
        BY <4>1, <4>2 DEF ChecksSound, Clean, Serve
    <3>2. Locking' = Locking /\ Settled' = Settled
      BY <2>2, <2>3, <2>4, <2>4a, <3>1 DEF Locking, Settled, Watched, Open
    <3>3. lease \in [Acts -> Rivals \cup {Me, NoUser}] /\ ttl \in [Acts -> 0 .. LockDuration]
      BY DEF Base, TypeOK
    <3>4. c.kind \notin Unlocks =>
            /\ \A b \in Acts : lease[b] = Me => lease'[b] = Me
            /\ \A b \in Acts : ttl[b] = LockDuration => ttl'[b] = LockDuration
            /\ \A b \in Acts : ttl'[b] = ttl[b] \/ ttl'[b] = LockDuration
            /\ answer = "ok" => c.act \in Acts
            /\ answer = "ok" /\ c.kind # "save" => ttl'[c.act] = LockDuration
            /\ answer = "ok" /\ c.kind = "lock" => lease'[c.act] = Me
      <4>. SUFFICES ASSUME c.kind \notin Unlocks
                    PROVE  /\ \A b \in Acts : lease[b] = Me => lease'[b] = Me
                           /\ \A b \in Acts : ttl[b] = LockDuration => ttl'[b] = LockDuration
                           /\ \A b \in Acts : ttl'[b] = ttl[b] \/ ttl'[b] = LockDuration
                           /\ answer = "ok" => c.act \in Acts
                           /\ answer = "ok" /\ c.kind # "save" => ttl'[c.act] = LockDuration
                           /\ answer = "ok" /\ c.kind = "lock" => lease'[c.act] = Me
        OBVIOUS
      <4>1. CASE ~Given(c)
        BY <3>1, <3>3, <4>1 DEF Serve, Effect
      <4>2. CASE Given(c)
        <5>1. c.act \in Acts
          BY <4>2 DEF Given, Base, TypeOK, Call
        <5>2. /\ lease' = [lease EXCEPT ![c.act] = IF c.kind = "lock" THEN Me ELSE @]
              /\ ttl' = [ttl EXCEPT ![c.act] = IF c.kind = "save" THEN @ ELSE LockDuration]
          BY <3>1, <4>2 DEF Serve, Effect, Unlocks
        <5>. QED
          BY <3>3, <5>1, <5>2
      <4>. QED
        BY <4>1, <4>2
    <3>5. EndsOnce'
      <4>1. \A e \in calls' : e.kind = "manual" => manual' /\ target' = NoAct
        BY <2>2, <2>3, <2>4, <3>1 DEF EndsOnce
      <4>2. \A c1, c2 \in calls' :
              c1.kind = "save" /\ c2.kind \in Unlocks \cup {"save"} => c1 = c2
        BY <2>3, <2>4, <3>1 DEF EndsOnce
      <4>3. ASSUME phase' = "live", NEW e \in calls', e.kind = "save", e.answer = "none"
            PROVE  lease'[e.act] = Me
        <5>1. e \in calls \ {c}
          BY <2>3, <2>4, <3>1, <4>3
        <5>2. c.kind \notin Unlocks /\ lease[e.act] = Me
          BY <2>2, <3>1, <4>3, <5>1 DEF EndsOnce
        <5>3. e.act \in Acts
          BY <5>1, <4>3 DEF Base, TypeOK, Call, ChecksSound
        <5>. QED
          BY <3>4, <5>2, <5>3
      <4>. QED
        BY <4>1, <4>2, <4>3 DEF EndsOnce
    <3>6. ASSUME Locking \/ Settled
          PROVE  c.kind \notin Unlocks \cup {"save"} /\ actId \in Acts
      BY <3>1, <3>6, NoEndings DEF Leased, RenewalsSound
    <3>7. RenewalsSound'
      BY <2>2, <2>3, <2>4, <3>1, <3>2, <3>4, <3>6 DEF RenewalsSound
    <3>8. LockSound'
      <4>1. Locking => \A e \in calls : e.kind = "lock" => e.act = actId
        BY <3>1 DEF Handover, CallsSound, Clean
      <4>. QED
        BY <2>2, <2>3, <2>4, <3>1, <3>2, <3>4, <3>6, <4>1 DEF LockSound
    <3>9. LeaseSound'
      <4>. SUFFICES ASSUME Settled PROVE LeaseSound'
        BY <3>2 DEF LeaseSound
      <4>1. /\ lease[actId] = Me /\ ChecksInTime /\ DialogsInTime /\ actId \in Acts
            /\ (\E e \in calls : e.session # session) => ttl[actId] = LockDuration
        BY <3>1, <3>6 DEF LeaseSound
      <4>2. /\ lease'[actId] = Me
            /\ ttl[actId] = LockDuration => ttl'[actId] = LockDuration
            /\ ttl'[actId] = ttl[actId] \/ ttl'[actId] = LockDuration
        BY <3>4, <3>6, <4>1
      <4>3. Run(actId)' = Run(actId) \/ Run(actId)' = 0
        BY <2>2, <4>2 DEF Run
      <4>4. Extending' = Extending
        BY <2>3, <2>4, <2>4a, <3>1 DEF Extending
      <4>5. sinceExtension \in 0 .. MinExtension
        BY DEF Base, TypeOK
      <4>6. ChecksInTime'
        BY <2>2, <4>1, <4>3, <4>4, <4>5 DEF ChecksInTime
      <4>7. DialogsInTime'
        BY <2>2, <4>1, <4>3 DEF DialogsInTime, Base, TypeOK, Dialog, Stopped
      <4>. QED
        BY <2>2, <2>3, <2>4, <4>1, <4>2, <4>6, <4>7 DEF LeaseSound
    <3>. QED
      BY <2>5, <3>5, <3>7, <3>8, <3>9
  <2>. QED
    BY <2>6, <2>7
<1>Stutter. ASSUME UNCHANGED vars PROVE Leased'
  <2>. USE <1>Stutter DEF vars, Clean, Settled, Watched, Locking, Open, Mine
  <2>1. ChecksSound'
    BY DEF ChecksSound, TypeOK, Base
  <2>2. EndsOnce'
    BY DEF EndsOnce, Unlocks, Base, BeginsOnce
  <2>3. RenewalsSound'
    BY DEF RenewalsSound
  <2>4. LockSound'
    BY DEF LockSound, CallsSound, Handover
  <2>5. LeaseSound'
    BY DEF LeaseSound, ChecksInTime, DialogsInTime, Run, Extending, Base, BeginsOnce
  <2>. QED
    BY <2>1, <2>2, <2>3, <2>4, <2>5
<1>. QED
  BY <1>LockGranted, <1>LockDenied, <1>RefusalRead, <1>Extended, <1>ExtensionFails, <1>IdleFires,
      <1>StayGranted, <1>ExitAnswered, <1>SaveAnswered, <1>ManualAnswered, <1>Activity,
      <1>RivalMoves, <1>Tick, <1>SwitchAct, <1>manualUnlock, <1>CloseCancelled, <1>Start,
      <1>SwitchAnswered, <1>ExtendFires, <1>Ended, <1>Asked, <1>CountdownFires, <1>DialogAnswered,
      <1>Gone, <1>Settled, <1>Stutter
     DEF Next, CountdownEnds, Read, UserActs

-----------------------------------------------------------------------------
(* Theorems. *)

\* Every variable keeps its type: no session is begun twice, no interval is lost.
THEOREM TypeCorrect == Spec => []TypeOK
<1>1. Base /\ [Next]_vars => Base'
  BY BaseStep
<1>2. Base => TypeOK
  BY DEF Base
<1>. QED
  BY <1>1, <1>2, BaseInit, PTL DEF Spec

LEMMA AlwaysBase == Spec => []Base
BY BaseInit, BaseStep, PTL DEF Spec

\* A session nobody has begun to end always has its timer, its listeners, its beforeunload
\* handler and somebody who will notice an idle user, whatever callbacks and answers of
\* other sessions do meanwhile.
THEOREM AlwaysWatched == Spec => []SomeoneWatches
<1>1. Init => SomeoneWatches
  BY DEF Init, SomeoneWatches, Watched
<1>. QED
  BY <1>1, AlwaysBase, WatchStep, PTL DEF Spec

\* Every way out of the page gives back what the page holds.
THEOREM NothingIsLeft == Spec => []NothingLeft
<1>1. Init => Handover
  BY KeeperAssumption
     DEF Init, Handover, CallsSound, GoneSound, Responsible, Mine, Open, Locking
<1>2. Handover => NothingLeft
  BY DEF Handover, Responsible, GivesBack, Mine, NothingLeft, Open, Locking
<1>. QED
  BY <1>1, <1>2, AlwaysBase, HandoverStep, PTL DEF Spec

\* With settings that add up, and callbacks and answers in time, a session's lease never
\* ends before the session, whatever its user does, its dialog and its last save included.
THEOREM LeaseOutlasts ==
    ASSUME IdleLimit > 1, MinExtension + DialogTime < LockDuration
    PROVE  Spec => []LeaseCovers
<1>1. Init => Handover /\ Leased /\ SomeoneWatches
  <2>. SUFFICES ASSUME Init PROVE Handover /\ Leased /\ SomeoneWatches
    OBVIOUS
  <2>1. Handover /\ SomeoneWatches
    BY KeeperAssumption
       DEF Init, Handover, CallsSound, GoneSound, Responsible, Mine, Open, Locking,
           SomeoneWatches, Watched
  <2>2. Leased
    BY KeeperAssumption
       DEF Init, Leased, ChecksSound, EndsOnce, RenewalsSound, LockSound, LeaseSound, Locking,
           Settled, Watched
  <2>. QED
    BY <2>1, <2>2
<1>2. Base /\ Base' /\ SomeoneWatches /\ Handover /\ Leased /\ [Next]_vars
          => SomeoneWatches' /\ Handover' /\ Leased'
  BY HandoverStep, WatchStep, LeaseStep
<1>3. Leased => LeaseCovers
  BY DEF Leased, LeaseSound, EndsOnce, ChecksSound, Clean, Settled, LeaseCovers, Holds, Watched,
      Open
<1>. QED
  BY <1>1, <1>2, <1>3, AlwaysBase, PTL DEF Spec
=============================================================================
