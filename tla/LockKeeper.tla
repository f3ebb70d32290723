----------------------------- MODULE LockKeeper -----------------------------
(***************************************************************************)
(* The browser's keeper of the edit lock: lock-manager.js with its         *)
(* inactivity-watchdog.js, on one page, against the leases of the server.  *)
(*                                                                         *)
(* The page is a constructor, which saves and leaves when the session      *)
(* ends and may switch to another act, or the list of acts, whose dialogs  *)
(* begin and end sessions while the page stays.  A session is one run of   *)
(* init.  Time is a number of idle checks: one Tick makes every interval   *)
(* due once; a callback may run late (a hidden tab is throttled), and      *)
(* disturbed remembers that one did, or that an answer came late or never. *)
(***************************************************************************)
EXTENDS Integers, FiniteSets

CONSTANTS
    Acts, NoAct,
    Me,            \* the user of the page
    Rivals,        \* other users who may take an act
    NoUser,
    Pages,         \* the kinds of page: "constructor", "list"
    IdleLimit,     \* inactivityTimeoutMinutes, in idle checks
    DialogTime,    \* inactivityDialogTimeoutSeconds, likewise
    MinExtension,  \* minExtensionIntervalMinutes, likewise
    LockDuration,  \* duration_minutes, the TTL of a lease, likewise
    MaxFailures,   \* _MAX_EXTEND_FAILURES
    MaxSessions,   \* bound on the sessions of the page
    MaxExtends,    \* bound on the extensions in flight at once
    Lossy,         \* may a call fail or lose its answer?
    Late           \* may time pass before a due callback has run or an answer is read?

ASSUME KeeperAssumption ==
    /\ NoAct \notin Acts
    /\ Me \notin Rivals /\ NoUser \notin Rivals \cup {Me}
    /\ Pages \subseteq {"constructor", "list"}
    /\ {IdleLimit, DialogTime, MinExtension, LockDuration, MaxFailures,
        MaxSessions, MaxExtends} \subseteq Nat \ {0}
    /\ {Lossy, Late} \subseteq BOOLEAN

INSTANCE LeaseLock

Sessions == 1 .. MaxSessions
NoDialog == 0
Stopped == -1      \* a dialog whose countdown was cleared

Unlocks == {"manual", "switch", "exit", "beacon"}
Kinds == {"lock", "extend", "stay", "save"} \cup Unlocks
Answers == {"none", "ok", "refused", "failed"}

\* locked is the lock an exit will give back once its save is answered.
\* An exit with nothing to give back is a call about NoAct.
Call == [kind : Kinds, act : Acts \cup {NoAct}, session : Sessions, n : 1 .. MaxExtends,
         locked : Acts \cup {NoAct}, answer : Answers]

\* An inactivity dialog with what its countdown has left; open while on the screen.
Dialog == [act : Acts \cup {NoAct}, session : Sessions, left : Stopped .. DialogTime,
           open : BOOLEAN]

VARIABLES
    page,       \* which page it is, or "gone"
    phase,      \* of the session: "none", "locking", "live", "refused", "closed"
    session,    \* runs of init so far
    current,    \* window.currentActId
    target,     \* the act a switch is taking the page to
    actId, exiting, manual, failures, unload,
    timer,      \* is _extensionInterval running?
    strays,     \* intervals still running whose handle was overwritten
    extendDue,  \* extension callbacks due
    idleCheck, idleDue,
    listening,  \* are the activity and visibility listeners attached?
    dialogs,    \* inactivity dialogs on the screen
    shown,      \* the dialog whose countdown and close handle are kept
    idle, sinceExtension,
    leaving,    \* a redirect is scheduled
    away,       \* the user has left the keyboard for good
    stayed,     \* the user kept the page after its beacon was sent
    calls,      \* requests in flight and answers not yet read
    lease, ttl, \* server: who holds each act, and how long yet
    again,       \* an exit ran in a session already unlocked by manualUnlock
    disturbed, unclean   \* what went wrong outside this code, for the properties

timers == <<timer, strays, extendDue, idleCheck, idleDue, listening>>
clock  == <<idle, sinceExtension>>
keeper == <<actId, exiting, manual, failures, unload>>
popups == <<dialogs, shown>>
server == <<lease, ttl>>
page_  == <<page, phase, session, current, target, leaving>>
told   == <<away, stayed, again, disturbed, unclean>>
vars   == <<timers, clock, keeper, popups, server, page_, told, calls>>

Init ==
    /\ page \in Pages
    /\ phase = "none" /\ session = 0 /\ current = NoAct /\ target = NoAct /\ leaving = FALSE
    /\ actId = NoAct /\ exiting = FALSE /\ manual = FALSE /\ failures = 0 /\ unload = FALSE
    /\ timer = FALSE /\ strays = 0 /\ extendDue = 0
    /\ idleCheck = FALSE /\ idleDue = FALSE /\ listening = FALSE
    /\ dialogs = {} /\ shown = NoDialog
    /\ idle = 0 /\ sinceExtension = 0
    /\ away = FALSE /\ stayed = FALSE /\ again = FALSE /\ disturbed = FALSE /\ unclean = FALSE
    /\ calls = {}
    /\ lease = [a \in Acts |-> NoUser] /\ ttl = [a \in Acts |-> 0]

-----------------------------------------------------------------------------
(* Helpers *)

NewCall(kind, a) == [kind |-> kind, act |-> a, session |-> session, n |-> 1,
                     locked |-> NoAct, answer |-> "none"]

Open == page # "gone"

\* An answer the page reads.
Answered(c, kind) == Open /\ c.kind = kind /\ c.answer # "none"

\* Dialogs ds with the interval of dialog d cleared.
Silenced(ds, d) == {IF e.session = d THEN [e EXCEPT !.left = Stopped] ELSE e : e \in ds}

\* A dialog closed on the screen; an interval nobody cleared goes on.
Closed(ds, d) == (ds \ {d}) \cup (IF d.left = Stopped THEN {} ELSE {[d EXCEPT !.open = FALSE]})

\* clearInterval of the kept handles and watchdog.stop()
StopTimers ==
    /\ timer' = FALSE
    /\ extendDue' = IF extendDue > strays THEN strays ELSE extendDue
    /\ idleCheck' = FALSE /\ idleDue' = FALSE /\ listening' = FALSE
    /\ UNCHANGED strays

destroy ==
    /\ StopTimers
    /\ dialogs' = Silenced(dialogs, shown) /\ shown' = NoDialog

\* _closeInactivityDialog: the dialog whose handle is kept goes, countdown and all.
_closeInactivityDialog(ds) == {e \in ds : e.session # shown}

\* Mutant: the act is forgotten before the save, and with it what to give back.
ExitCallForgets ==
    NewCall(IF current = NoAct THEN "exit" ELSE "save", IF current = NoAct THEN actId ELSE current)

\* The page saves what it shows, then gives back what it locked.
ExitCall ==
    [NewCall(IF current = NoAct THEN "exit" ELSE "save", IF current = NoAct THEN actId ELSE current)
        EXCEPT !.locked = actId]

\* _initiateExit, once the answers read and the dialogs ds are what is left.
_initiateExit(read, ds) ==
    IF exiting
    THEN /\ calls' = calls \ read
         /\ dialogs' = ds
         /\ UNCHANGED <<timers, shown, exiting, manual, unload, again, unclean>>
    ELSE /\ exiting' = TRUE /\ manual' = TRUE /\ unload' = FALSE
         /\ StopTimers
         /\ dialogs' = _closeInactivityDialog(ds) /\ shown' = NoDialog
         /\ calls' = (calls \ read) \cup {ExitCall}
         /\ again' = (again \/ manual)
         /\ unclean' = (unclean \/ target # NoAct \/ phase = "locking")

LockCall(a) == [NewCall("lock", a) EXCEPT !.session = session + 1]

\* The synchronous part of init, up to the lock request.
init(a, read) ==
    /\ actId' = a /\ exiting' = FALSE /\ manual' = FALSE /\ failures' = 0
    /\ session' = session + 1
    /\ phase' = "locking"
    /\ sinceExtension' = 0
    /\ unclean' = (unclean \/ exiting)
    /\ calls' = (calls \ read) \cup {LockCall(a)}

-----------------------------------------------------------------------------
(* Beginning a session *)

Start(a) ==
    /\ Open /\ ~away /\ ~leaving /\ session < MaxSessions
    /\ phase = "none" \/ (page = "list" /\ phase = "closed")
    /\ init(a, {})
    /\ current' = IF page = "constructor" THEN a ELSE NoAct
    /\ UNCHANGED <<timers, unload, popups, idle, server, page, target, leaving, away, stayed, again,
                   disturbed>>

\* A new watchdog replaces the old one, which is stopped; the interval of the
\* old session is not: its handle is overwritten.
LockGranted(c) ==
    /\ Answered(c, "lock") /\ c.answer = "ok"
    /\ phase' = "live"
    /\ timer' = TRUE
    /\ strays' = IF timer THEN strays + 1 ELSE strays
    /\ idleCheck' = TRUE /\ idleDue' = FALSE /\ listening' = TRUE /\ unload' = TRUE
    /\ idle' = 0
    /\ current' = IF target = NoAct THEN current ELSE target
    /\ target' = NoAct
    /\ calls' = calls \ {c}
    /\ UNCHANGED <<extendDue, sinceExtension, actId, exiting, manual, failures, popups, server,
                   page, session, leaving, told>>

\* The page offers to go back to the list.
LockDenied(c) ==
    /\ Answered(c, "lock") /\ c.answer # "ok"
    /\ phase' = "refused"
    /\ target' = NoAct
    /\ calls' = calls \ {c}
    /\ UNCHANGED <<timers, clock, keeper, popups, server, page, session, current, leaving, told>>

\* confirmNavigation: a page with unsaved changes may stay.
RefusalRead(stays) ==
    /\ Open /\ ~away /\ phase = "refused"
    /\ stays => page = "constructor" /\ session > 1
    /\ phase' = "closed"
    /\ leaving' = ~stays
    /\ UNCHANGED <<timers, clock, keeper, popups, server, page, session, current, target, told, calls>>

-----------------------------------------------------------------------------
(* Extending *)

\* Mutant: strictly later than the shortest pause, which the timer never is.
MayExtendLater == idle < IdleLimit /\ sinceExtension > MinExtension

MayExtend == idle < IdleLimit /\ sinceExtension >= MinExtension

ExtendCall(n) == [NewCall("extend", actId) EXCEPT !.n = n]

\* One of the intervals of _startAutoExtension, its own or a stray one.
ExtendFires ==
    /\ Open /\ extendDue > 0
    /\ LET free == {n \in 1 .. MaxExtends : \A c \in calls : c.kind = "extend" => c.n # n}
           sends == MayExtend /\ actId # NoAct /\ free # {}
       IN IF MayExtend /\ actId = NoAct
          THEN /\ _initiateExit({}, dialogs)
          ELSE /\ calls' = IF sends
                           THEN calls \cup {ExtendCall(CHOOSE n \in free : TRUE)}
                           ELSE calls
               /\ extendDue' = extendDue - 1
               /\ UNCHANGED <<timer, strays, idleCheck, idleDue, listening, popups,
                              exiting, manual, unload, again, unclean>>
    /\ UNCHANGED <<clock, actId, failures, server, page_, away, stayed, disturbed>>

Extended(c) ==
    /\ Open /\ c.kind = "extend" /\ c.answer = "ok"
    /\ sinceExtension' = 0 /\ failures' = 0
    /\ calls' = calls \ {c}
    /\ UNCHANGED <<timers, idle, actId, exiting, manual, unload, popups, server, page_, told>>

\* The lock is gone (4xx), or this failure is one too many.
ExtensionEnds(c) ==
    /\ Answered(c, "extend")
    /\ c.answer = "refused" \/ (c.answer = "failed" /\ failures + 1 >= MaxFailures)
    /\ failures' = IF c.answer = "failed" THEN failures + 1 ELSE failures
    /\ _initiateExit({c}, dialogs)
    /\ UNCHANGED <<clock, actId, server, page_, away, stayed, disturbed>>

ExtensionFails(c) ==
    /\ Answered(c, "extend")
    /\ c.answer = "failed" /\ failures + 1 < MaxFailures
    /\ failures' = failures + 1
    /\ calls' = calls \ {c}
    /\ UNCHANGED <<timers, clock, actId, exiting, manual, unload, popups, server, page_, told>>

-----------------------------------------------------------------------------
(* Inactivity *)

\* _checkIdle and the first half of _handleInactivity
IdleFires ==
    /\ Open /\ idleDue
    /\ idleDue' = FALSE
    /\ IF idle >= IdleLimit
       THEN /\ idleCheck' = FALSE
            /\ dialogs' = dialogs \cup {[act |-> actId, session |-> session,
                                         left |-> DialogTime, open |-> TRUE]}
            /\ shown' = session
       ELSE UNCHANGED <<idleCheck, popups>>
    /\ UNCHANGED <<timer, strays, extendDue, listening, clock, keeper, server, page_, told, calls>>

CountdownFires(d) ==
    /\ Open /\ d.left = 0
    /\ _initiateExit({}, _closeInactivityDialog(dialogs))
    /\ UNCHANGED <<clock, actId, failures, server, page_, away, stayed, disturbed>>

\* The user answers a dialog: the second half of _handleInactivity.  An orphan
\* is one whose act is no longer the keeper's, or that an exit overtook.
DialogAnswered(d, stay) ==
    /\ Open /\ ~away /\ d.open
    /\ idle' = IF listening THEN 0 ELSE idle
    /\ IF actId # d.act \/ exiting
       THEN /\ dialogs' = Closed(dialogs, d)
            /\ UNCHANGED <<timers, shown, exiting, manual, unload, again, unclean, calls>>
       ELSE LET rest == Closed(Silenced(dialogs, shown), IF d.session = shown
                               THEN [d EXCEPT !.left = Stopped] ELSE d)
            IN IF stay /\ actId # NoAct
               THEN /\ dialogs' = rest /\ shown' = NoDialog
                    /\ calls' = calls \cup {NewCall("stay", actId)}
                    /\ UNCHANGED <<timers, exiting, manual, unload, again, unclean>>
               ELSE _initiateExit({}, rest)
    /\ UNCHANGED <<sinceExtension, actId, failures, server, page_, away, stayed, disturbed>>

\* Mutant: the idle check is not begun again.
StayGrantedOnly(c) ==
    /\ Answered(c, "stay") /\ c.answer = "ok"
    /\ sinceExtension' = 0 /\ failures' = 0
    /\ idle' = 0
    /\ calls' = calls \ {c}
    /\ UNCHANGED <<timers, actId, exiting, manual, unload, popups, server, page_, told>>

\* The answer to the extension the user asked for: the idle check begins again.
StayGranted(c) ==
    /\ Answered(c, "stay") /\ c.answer = "ok"
    /\ sinceExtension' = 0 /\ failures' = 0
    /\ idle' = 0
    /\ idleCheck' = TRUE /\ idleDue' = FALSE
    /\ calls' = calls \ {c}
    /\ UNCHANGED <<timer, strays, extendDue, listening, actId, exiting, manual, unload, popups,
                   server, page_, told>>

StayDenied(c) ==
    /\ Answered(c, "stay") /\ c.answer # "ok"
    /\ failures' = IF c.answer = "failed" THEN failures + 1 ELSE failures
    /\ _initiateExit({c}, dialogs)
    /\ UNCHANGED <<clock, actId, server, page_, away, stayed, disturbed>>

\* The tab comes to the front: a dialog past its time, or a threshold passed
\* without a dialog, ends the session at once.
_handleVisibilityChange ==
    /\ Open /\ listening /\ ~exiting /\ actId # NoAct
    /\ IF shown = NoDialog THEN idle >= IdleLimit
       ELSE \E d \in dialogs : d.session = shown /\ d.left = 0
    /\ _initiateExit({}, dialogs)
    /\ UNCHANGED <<clock, actId, failures, server, page_, away, stayed, disturbed>>

-----------------------------------------------------------------------------
(* Ending a session *)

\* The header's "exit with saving"
ExitAsked ==
    /\ Open /\ ~away /\ page = "constructor" /\ phase \in {"live", "closed"}
    /\ ~exiting /\ ~leaving
    /\ _initiateExit({}, dialogs)
    /\ UNCHANGED <<clock, actId, failures, server, page_, away, stayed, disturbed>>

\* The end of the exit: finally.
ExitDone == actId' = NoAct /\ leaving' = TRUE

ExitAfter(save) == [save EXCEPT !.kind = "exit", !.act = save.locked, !.answer = "none"]

\* Whatever became of the save, the lock is given back.
SaveAnswered(c) ==
    /\ Answered(c, "save")
    /\ IF c.locked = NoAct
       THEN /\ calls' = calls \ {c} /\ ExitDone
       ELSE /\ calls' = (calls \ {c}) \cup {ExitAfter(c)}
            /\ UNCHANGED <<actId, leaving>>
    /\ UNCHANGED <<timers, clock, exiting, manual, failures, unload, popups, server,
                   page, phase, session, current, target, told>>

\* Mutant: no finally; an unlock that failed ends the exit half-way.
ExitAnsweredWell(c) ==
    /\ Answered(c, "exit") /\ c.answer = "ok"
    /\ calls' = calls \ {c}
    /\ ExitDone
    /\ UNCHANGED <<timers, clock, exiting, manual, failures, unload, popups, server,
                   page, phase, session, current, target, told>>

ExitAnswered(c) ==
    /\ Answered(c, "exit")
    /\ calls' = calls \ {c}
    /\ ExitDone
    /\ UNCHANGED <<timers, clock, exiting, manual, failures, unload, popups, server,
                   page, phase, session, current, target, told>>

\* A dialog of the list is closed, or the header's "exit without saving".
manualUnlock ==
    /\ Open /\ ~away /\ phase = "live" /\ actId # NoAct /\ ~exiting /\ ~manual
    /\ manual' = TRUE /\ unload' = FALSE
    /\ destroy
    /\ calls' = calls \cup {NewCall("manual", actId)}
    /\ again' = (again \/ target # NoAct)
    /\ UNCHANGED <<clock, actId, exiting, failures, server, page_, away, stayed, disturbed, unclean>>

\* The constructor then navigates; with unsaved changes the user may stay.
ManualAnswered(c, stays) ==
    /\ Answered(c, "manual")
    /\ stays => page = "constructor" /\ ~away
    /\ calls' = calls \ {c}
    /\ IF page = "list" \/ stays THEN phase' = "closed" /\ UNCHANGED leaving
       ELSE leaving' = TRUE /\ UNCHANGED phase
    /\ UNCHANGED <<timers, clock, keeper, popups, server, page, session, current, target, told>>

\* Another act in the same page: its lock is taken once the old one is given
\* back, or once that failed, and then without destroy.
SwitchAct(b) ==
    /\ Open /\ ~away /\ page = "constructor" /\ phase = "live" /\ target = NoAct
    /\ ~exiting /\ ~manual /\ b # current /\ session < MaxSessions
    /\ target' = b
    /\ calls' = calls \cup {NewCall("switch", current)}
    /\ UNCHANGED <<timers, clock, keeper, popups, server, page, phase, session, current, leaving, told>>

SwitchAnswered(c) ==
    /\ Answered(c, "switch")
    /\ IF c.answer = "ok" THEN destroy ELSE UNCHANGED <<timers, popups>>
    /\ init(target, {c})
    /\ UNCHANGED <<idle, unload, server, page, current, target, leaving, away, stayed, again, disturbed>>

\* The page goes.  Its beforeunload handler gives the lock back unless an exit
\* or an unlock has begun.
Beacon == IF unload /\ ~exiting /\ ~manual /\ actId # NoAct THEN {NewCall("beacon", actId)} ELSE {}

\* Nothing of the page is left but the calls the server has yet to see.
PageGone(beacon) ==
    /\ page' = "gone"
    /\ calls' = {c \in calls : c.answer = "none"} \cup beacon
    /\ timer' = FALSE /\ strays' = 0 /\ extendDue' = 0
    /\ idleCheck' = FALSE /\ idleDue' = FALSE /\ listening' = FALSE
    /\ dialogs' = {} /\ shown' = NoDialog /\ leaving' = FALSE
    /\ actId' = NoAct /\ current' = NoAct /\ target' = NoAct
    /\ exiting' = FALSE /\ manual' = FALSE /\ failures' = 0 /\ unload' = FALSE
    /\ phase' = "none"
    /\ idle' = 0 /\ sinceExtension' = 0
    /\ stayed' = FALSE /\ again' = FALSE /\ disturbed' = FALSE
    /\ UNCHANGED <<server, session, away>>

\* The page goes in the middle of taking a lock or of giving one back.
Interrupted == phase = "locking" \/ target # NoAct \/ \E c \in calls : c.kind = "save"

Redirected ==
    /\ Open /\ leaving
    /\ PageGone(Beacon)
    /\ unclean' = (unclean \/ Interrupted)

Close ==
    /\ Open /\ ~away
    /\ PageGone(Beacon)
    /\ unclean' = (unclean \/ Interrupted)

Crash == Open /\ Lossy /\ PageGone({}) /\ unclean' = TRUE

\* The browser asks whether to leave the page, which has unsaved changes, after
\* every beforeunload handler has run; the user stays.
CloseCancelled ==
    /\ Open /\ ~away /\ page = "constructor" /\ phase = "live" /\ unload
    /\ calls' = calls \cup Beacon
    /\ destroy
    /\ stayed' = TRUE
    /\ UNCHANGED <<clock, keeper, server, page_, away, again, disturbed, unclean>>

-----------------------------------------------------------------------------
(* The server, the user and the clock *)

Given(c) ==
    /\ c.act # NoAct
    /\ IF c.kind = "lock" THEN CanAcquire(lease[c.act], Me) ELSE Holds(lease[c.act], Me)

\* Mutant: an extension adds to what is left of the lock.
EffectAdds(c) ==
    /\ lease' = IF Given(c) THEN [lease EXCEPT ![c.act] = CASE c.kind = "lock" -> Me
                                                [] c.kind \in Unlocks -> AfterRelease(@, Me)
                                                [] OTHER -> @]
                ELSE lease
    /\ ttl' = IF Given(c) THEN [ttl EXCEPT ![c.act] = CASE c.kind \in Unlocks -> 0
                                            [] c.kind = "save" -> @
                                            [] OTHER -> @ + LockDuration]
              ELSE ttl

\* What a call does: the lock and the two extensions begin the lease anew.
Effect(c) ==
    /\ lease' = IF Given(c) THEN [lease EXCEPT ![c.act] = CASE c.kind = "lock" -> Me
                                                [] c.kind \in Unlocks -> AfterRelease(@, Me)
                                                [] OTHER -> @]
                ELSE lease
    /\ ttl' = IF Given(c) THEN [ttl EXCEPT ![c.act] = CASE c.kind \in Unlocks -> 0
                                            [] c.kind = "save" -> @
                                            [] OTHER -> LockDuration]
              ELSE ttl

\* A call whose page is gone, and a beacon, have nobody to answer.
Reply(c, answer) ==
    (calls \ {c}) \cup (IF Open /\ c.kind # "beacon" THEN {[c EXCEPT !.answer = answer]} ELSE {})

Serve(c) ==
    /\ c.answer = "none"
    /\ Effect(c)
    /\ calls' = Reply(c, IF Given(c) THEN "ok" ELSE "refused")
    /\ UNCHANGED <<timers, clock, keeper, popups, page_, told>>

\* The call is lost, or done and its answer is.
Lose(c, done) ==
    /\ Lossy /\ c.answer = "none"
    /\ IF done THEN Effect(c) ELSE UNCHANGED server
    /\ calls' = Reply(c, "failed")
    /\ disturbed' = Open /\ unclean' = TRUE
    /\ UNCHANGED <<timers, clock, keeper, popups, page_, away, stayed, again>>

\* Another user takes a free act, or leaves it.
RivalMoves(a, u) ==
    /\ lease[a] \in {NoUser, u}
    /\ lease' = [lease EXCEPT ![a] = IF @ = NoUser THEN u ELSE NoUser]
    /\ UNCHANGED <<ttl, timers, clock, keeper, popups, page_, told, calls>>

Activity ==
    /\ Open /\ ~away /\ listening /\ idle > 0
    /\ idle' = 0
    /\ UNCHANGED <<timers, sinceExtension, keeper, popups, server, page_, told, calls>>

\* Only in FairSpec, whose property is about a user who never comes back.
GoAway ==
    /\ ~away
    /\ away' = TRUE
    /\ UNCHANGED <<timers, clock, keeper, popups, server, page_, stayed, again, disturbed, unclean, calls>>

Behind == Open /\ (extendDue > 0 \/ idleDue \/ leaving \/ calls # {} \/ \E d \in dialogs : d.left = 0)

\* Bound: a clock of the page stops at the limit it is compared with.
Capped(n, limit) == IF n < limit THEN n + 1 ELSE limit

Tick ==
    /\ Behind => Late
    /\ IF Open THEN /\ idle' = Capped(idle, IdleLimit)
                    /\ sinceExtension' = Capped(sinceExtension, MinExtension)
       ELSE UNCHANGED clock
    /\ extendDue' = strays + (IF timer THEN 1 ELSE 0)
    /\ idleDue' = idleCheck
    /\ dialogs' = {[d EXCEPT !.left = IF @ > 0 THEN @ - 1 ELSE @] : d \in dialogs}
    /\ ttl' = [a \in Acts |-> IF ttl[a] > 0 THEN ttl[a] - 1 ELSE 0]
    /\ lease' = [a \in Acts |-> IF lease[a] = Me /\ ttl[a] <= 1 THEN NoUser ELSE lease[a]]
    /\ disturbed' = (disturbed \/ Behind)
    /\ UNCHANGED <<timer, strays, idleCheck, listening, keeper, shown, page_, away, stayed,
                   again, unclean, calls>>

CountdownEnds == \E d \in dialogs : CountdownFires(d)

\* The page reads the answer to a call.
Read(c) ==
    \/ LockGranted(c) \/ LockDenied(c)
    \/ Extended(c) \/ ExtensionEnds(c) \/ ExtensionFails(c)
    \/ StayGranted(c) \/ StayDenied(c)
    \/ SaveAnswered(c) \/ ExitAnswered(c) \/ SwitchAnswered(c)
    \/ \E stays \in BOOLEAN : ManualAnswered(c, stays)

\* The network brings a call to its end.
Settle(c) == Serve(c) \/ \E done \in BOOLEAN : Lose(c, done)

UserActs ==
    \/ \E a \in Acts : Start(a) \/ SwitchAct(a)
    \/ \E stays \in BOOLEAN : RefusalRead(stays)
    \/ \E d \in dialogs, stay \in BOOLEAN : DialogAnswered(d, stay)
    \/ ExitAsked \/ manualUnlock \/ Close \/ CloseCancelled \/ Activity

Next ==
    \/ ExtendFires \/ IdleFires \/ CountdownEnds \/ Redirected
    \/ \E c \in calls : Read(c) \/ Settle(c)
    \/ UserActs \/ _handleVisibilityChange \/ Crash \/ Tick
    \/ \E a \in Acts, u \in Rivals : RivalMoves(a, u)

Spec == Init /\ [][Next]_vars

\* Time passes, due callbacks run, every call ends, by an error at last, and its
\* answer is read.  Nothing is asked of the user, nor of the extensions.
FairSpec ==
    /\ Init /\ [][Next \/ GoAway]_vars
    /\ WF_vars(Tick) /\ WF_vars(IdleFires) /\ WF_vars(CountdownEnds) /\ WF_vars(Redirected)
    /\ \A k \in {"stay", "save", "exit"} :
          /\ WF_vars(\E c \in calls : c.kind = k /\ Settle(c))
          /\ WF_vars(\E c \in calls : c.kind = k /\ Read(c))

-----------------------------------------------------------------------------
(* Properties *)

\* Every variable holds what the code may put into it.
TypeOK ==
    /\ page \in Pages \cup {"gone"}
    /\ phase \in {"none", "locking", "live", "refused", "closed"}
    /\ session \in 0 .. MaxSessions
    /\ {current, target, actId} \subseteq Acts \cup {NoAct}
    /\ {exiting, manual, unload, timer, idleCheck, idleDue, listening, leaving, away, stayed, again,
        disturbed, unclean} \subseteq BOOLEAN
    /\ failures \in Nat
    /\ strays \in 0 .. MaxSessions /\ extendDue \in 0 .. MaxSessions + 1
    /\ dialogs \subseteq Dialog
    /\ shown \in 0 .. MaxSessions
    /\ idle \in 0 .. IdleLimit /\ sinceExtension \in 0 .. MinExtension
    /\ calls \subseteq Call
    /\ lease \in [Acts -> Rivals \cup {Me, NoUser}] /\ ttl \in [Acts -> 0 .. LockDuration]

\* A session nobody has begun to end, and whose beacon was not sent.
Watched == Open /\ phase = "live" /\ ~exiting /\ ~manual /\ ~stayed

CountingDown == \E d \in dialogs : d.session = shown /\ d.left # Stopped

\* A session is never left alone: its extension timer runs, its listeners and its
\* beforeunload handler are attached, and somebody will notice an idle user - the
\* idle check, a dialog that counts down, or the answer to "Continue".
\* (init and destroy of one session overlap the dialogs and callbacks of another.)
SomeoneWatches ==
    Watched => /\ timer /\ listening /\ unload
               /\ \/ idleCheck \/ CountingDown
                  \/ \E c \in calls : c.kind = "stay"

\* With callbacks and answers in time, the lease outlasts every session, however its
\* user behaves: extensions, the idle limit and the dialog's time add up to less than
\* the TTL, the save of an exit included.
LeaseCovers ==
    phase = "live" /\ ~disturbed /\ ~stayed /\ ~again /\ ~unclean =>
        /\ Watched /\ target = NoAct => Holds(lease[actId], Me)
        /\ \A c \in calls : c.kind = "save" /\ c.answer = "none" => Holds(lease[c.act], Me)

\* A page that is gone holds no act: every way out gives the lock back, by a call or
\* by the beacon, unless a call was lost or the way out met a session's beginning.
NothingLeft ==
    page = "gone" /\ calls = {} /\ ~unclean => \A a \in Acts : lease[a] # Me

\* A user who leaves the keyboard for good leaves the act: the session ends and the page
\* with it, whatever is lost on the way.
AwayEnds == (away /\ Watched) ~> page = "gone"
=============================================================================
