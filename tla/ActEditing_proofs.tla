-------------------------- MODULE ActEditing_proofs --------------------------
(***************************************************************************)
(* Proofs about ActEditing for any number of tabs, users, browsers, edits  *)
(* and versions: type correctness, the agreement of every base version     *)
(* with what is stored, and from it that no save loses a stored edit; that *)
(* no draft is lost while a browser has one tab with the act; that the     *)
(* indicators of an act with a tree tell the truth.                        *)
(***************************************************************************)
EXTENDS ActEditing, TLAPS

\* Drafts and requests built from a tab's state have the right type.
LEMMA DraftableType ==
  ASSUME TypeOK, NEW t \in Tabs
  PROVE  Draftable(t) \in Draft
BY DEF TypeOK, Draftable, Draft

LEMMA PutType ==
  ASSUME TypeOK, NEW t \in Tabs, NEW k \in Kinds
  PROVE  Put(t, k) \in Request
BY DEF TypeOK, Put, Request, Stages, Content

LEMMA DefaultPutType ==
  ASSUME TypeOK, NEW t \in Tabs
  PROVE  DefaultPut(t) \in Request
BY DEF TypeOK, DefaultPut, Request, Stages, Content, Kinds

\* A page that goes away leaves well-typed state behind.
LEMMA PageGoneType ==
  ASSUME TabAssumption, ContentAssumption, TypeOK, NEW t \in Tabs, NEW rs \in SUBSET Request,
         NEW h \in BOOLEAN, NEW u \in BOOLEAN, PageGone(t, rs, h, u)
  PROVE  TypeOK'
<1> USE DEF PageGone
<1>1. BrowserOf[t] \in Browsers
  BY DEF TabAssumption
<1>2. snapshot' \in [Browsers -> Draft \cup {NoDraft}]
  BY <1>1, DraftableType DEF TypeOK
<1>3. owner' \in Users \cup {NoUser}
  BY DEF TypeOK, AfterRelease, Holds
<1>4. reqs' \subseteq Request
  <2>1. \A r \in Request : [r EXCEPT !.live = FALSE] \in Request
    BY DEF Request
  <2> QED BY <2>1 DEF Unheard
<1>5. /\ phase' \in [Tabs -> Phases]
      /\ work' \in [Tabs -> Content]
      /\ base' \in [Tabs -> Nat]
      /\ state' \in [Tabs -> {"saved", "local-only", "unsaved"}]
      /\ epoch' \in [Tabs -> Nat]
      /\ halt' \in [Tabs -> {"none", "conflict", "lock"}]
      /\ asked' \in [Tabs -> Draft \cup {NoDraft}]
      /\ \A u1 \in Tabs : phase'[u1] \in Dialogs => asked'[u1] # NoDraft
      /\ restored' \in [Tabs -> BOOLEAN]
      /\ waived' \in [Tabs -> Content]
  BY DEF TypeOK, Phases, Dialogs, Content
<1> QED BY <1>2, <1>3, <1>4, <1>5 DEF TypeOK

LEMMA OfferType ==
  ASSUME TabAssumption, ContentAssumption, TypeOK, NEW t \in Tabs, NEW c \in Content,
         OfferSnapshot(t, c)
  PROVE  /\ phase' \in [Tabs -> Phases]
         /\ asked' \in [Tabs -> Draft \cup {NoDraft}]
         /\ \A u \in Tabs : phase'[u] \in Dialogs => asked'[u] # NoDraft
         /\ work' \in [Tabs -> Content]
         /\ reqs' \subseteq Request
BY DefaultPutType DEF OfferSnapshot, Load, TypeOK, Phases, Dialogs, OpenPhases, TabAssumption, Content

LEMMA LoadType ==
  ASSUME TabAssumption, ContentAssumption, TypeOK, NEW t \in Tabs, NEW c \in Content,
         Load(t, c)
  PROVE  /\ phase' \in [Tabs -> Phases]
         /\ asked' \in [Tabs -> Draft \cup {NoDraft}]
         /\ \A u \in Tabs : phase'[u] \in Dialogs => asked'[u] # NoDraft
         /\ work' \in [Tabs -> Content]
         /\ reqs' \subseteq Request
BY DefaultPutType DEF Load, TypeOK, Phases, Dialogs, OpenPhases, Content

\* Taking an answer off the requests, or marking it unheard, keeps the type.
LEMMA FailedType ==
  ASSUME TabAssumption, ContentAssumption, TypeOK, NEW r \in reqs, NEW rs \in SUBSET Request,
         NEW cause \in {"conflict", "lockLost", "failed"}, SaveFailed(r, rs, cause)
  PROVE  TypeOK'
<1>1. r.tab \in Tabs
  BY DEF TypeOK, Request
<1>2. CASE r.kind \in {"auto", "manual", "invoice"} /\ ~(r.kind = "manual" /\ cause = "lockLost")
  <2>1. /\ halt' \in [Tabs -> {"none", "conflict", "lock"}]
        /\ reqs' \subseteq Request
    <3>1. /\ reqs' = rs
          /\ halt' = [halt EXCEPT ![r.tab] = CASE r.kind # "invoice" /\ cause = "conflict" -> "conflict"
                                               [] r.kind # "invoice" /\ cause = "lockLost" -> "lock"
                                               [] OTHER -> @]
      BY <1>2 DEF SaveFailed
    <3>2. halt[r.tab] \in {"none", "conflict", "lock"}
      BY <1>1 DEF TypeOK
    <3> DEFINE h == CASE r.kind # "invoice" /\ cause = "conflict" -> "conflict"
                      [] r.kind # "invoice" /\ cause = "lockLost" -> "lock"
                      [] OTHER -> halt[r.tab]
    <3>3. h \in {"none", "conflict", "lock"}
      BY <3>2
    <3>4. halt' = [halt EXCEPT ![r.tab] = h]
      BY <3>1
    <3> HIDE DEF h
    <3> QED BY <1>1, <3>1, <3>3, <3>4 DEF TypeOK
  <2>2. UNCHANGED <<server, storage, phase, work, base, state, epoch, asked, restored,
                    waived, made, opens>>
    BY <1>2 DEF SaveFailed
  <2> QED BY <2>1, <2>2 DEF TypeOK, server, storage
<1>3. CASE r.kind = "exit"
  BY <1>1, <1>3 DEF SaveFailed, TypeOK, server, storage, Phases, Dialogs, OpenPhases
<1>4. CASE r.kind = "default" \/ (r.kind = "manual" /\ cause = "lockLost")
  <2>1. PageGone(r.tab, rs, TRUE, phase[r.tab] \in {"loaded", "editing"})
    BY <1>4 DEF SaveFailed
  <2>2. (phase[r.tab] \in {"loaded", "editing"}) \in BOOLEAN
    OBVIOUS
  <2> HIDE DEF SaveFailed
  <2> QED BY <1>1, <2>1, <2>2, PageGoneType
<1>5. r.kind # "restore"
  BY DEF SaveFailed
<1> QED BY <1>2, <1>3, <1>4, <1>5 DEF TypeOK, Request, Kinds

LEMMA OpeningType ==
  ASSUME TabAssumption, ContentAssumption, TypeOK, NEW t \in Tabs, Opening(t)
  PROVE  TypeOK'
<1> USE DEF server, storage
<1>0. BrowserOf[t] \in Browsers /\ UserOf[t] \in Users
  BY DEF TabAssumption
<1>1. CASE FetchMeta(t)
  BY <1>1 DEF FetchMeta, TypeOK, Phases, Dialogs
<1>2. CASE FetchContent(t)
  BY <1>2 DEF FetchContent, TypeOK, Phases, Dialogs
<1>3. CASE Lock(t)
  BY <1>0, <1>3 DEF Lock, TypeOK, Phases, Dialogs, OpenPhases
<1>4. CASE LockRefused(t)
  BY <1>4, PageGoneType DEF LockRefused, TypeOK
<1>5. CASE Apply(t)
  <2>1. CASE backup[BrowserOf[t]] = NoDraft
    <3>1. OfferSnapshot(t, work[t])
      BY <1>5, <2>1 DEF Apply
    <3>2. work[t] \in Content
      BY DEF TypeOK
    <3> QED BY <1>5, <3>1, <3>2, OfferType DEF Apply, TypeOK
  <2>2. CASE backup[BrowserOf[t]] # NoDraft
    BY <1>0, <1>5, <2>2 DEF Apply, TypeOK, Phases, Dialogs
  <2> QED BY <2>1, <2>2
<1>6. ASSUME NEW a \in Answers, AnswerBackup(t, a)
      PROVE  TypeOK'
  <2>1. asked[t] \in Draft /\ work[t] \in Content
    BY <1>6 DEF AnswerBackup, TypeOK, Dialogs
  <2>2. backup' \in [Browsers -> Draft \cup {NoDraft}]
    BY <1>0, <1>6 DEF AnswerBackup, TypeOK
  <2>3. CASE a = "restore"
    <3>1. OfferSnapshot(t, asked[t].data) /\ asked[t].data \in Content
      BY <1>6, <2>1, <2>3 DEF AnswerBackup, Draft
    <3>2. WaivedBy(t, asked[t]) \in Content
      BY <2>1 DEF WaivedBy, TypeOK, Draft, Content
    <3>3. waived' \in [Tabs -> Content] /\ restored' \in [Tabs -> BOOLEAN]
      <4>1. /\ waived' = [waived EXCEPT ![t] = WaivedBy(t, asked[t])]
            /\ restored' = [restored EXCEPT ![t] = TRUE]
        BY <1>6, <2>3 DEF AnswerBackup
      <4> QED BY <3>2, <4>1 DEF TypeOK
    <3>4. UNCHANGED <<server, snapshot, base, state, epoch, halt, made, opens>>
      BY <1>6 DEF AnswerBackup
    <3> QED BY <2>2, <3>1, <3>3, <3>4, OfferType DEF TypeOK
  <2>4. CASE a # "restore"
    <3>1. OfferSnapshot(t, work[t])
      BY <1>6, <2>4 DEF AnswerBackup
    <3>2. UNCHANGED <<server, snapshot, base, state, epoch, halt, made, opens, waived, restored>>
      BY <1>6, <2>4 DEF AnswerBackup
    <3> QED BY <2>1, <2>2, <3>1, <3>2, OfferType DEF TypeOK
  <2> QED BY <2>3, <2>4
<1>7. ASSUME NEW a \in Answers, AnswerSnapshot(t, a)
      PROVE  TypeOK'
  <2>1. asked[t] \in Draft /\ work[t] \in Content
    BY <1>7 DEF AnswerSnapshot, TypeOK, Dialogs
  <2>2. /\ backup' \in [Browsers -> Draft \cup {NoDraft}]
        /\ snapshot' \in [Browsers -> Draft \cup {NoDraft}]
    BY <1>0, <1>7 DEF AnswerSnapshot, BackupAfter, TypeOK
  <2>3. CASE a = "restore"
    <3>1. Load(t, asked[t].data) /\ asked[t].data \in Content
      BY <1>7, <2>1, <2>3 DEF AnswerSnapshot, Draft
    <3>2. WaivedBy(t, asked[t]) \in Content
      BY <2>1 DEF WaivedBy, TypeOK, Draft, Content
    <3>3. waived' \in [Tabs -> Content] /\ restored' \in [Tabs -> BOOLEAN]
      <4>1. /\ waived' = [waived EXCEPT ![t] = WaivedBy(t, asked[t])]
            /\ restored' = [restored EXCEPT ![t] = TRUE]
        BY <1>7, <2>3 DEF AnswerSnapshot
      <4> QED BY <3>2, <4>1 DEF TypeOK
    <3>4. UNCHANGED <<server, base, state, epoch, halt, made, opens>>
      BY <1>7 DEF AnswerSnapshot
    <3> QED BY <2>2, <3>1, <3>3, <3>4, LoadType DEF TypeOK
  <2>4. CASE a # "restore"
    <3>1. Load(t, work[t])
      BY <1>7, <2>4 DEF AnswerSnapshot
    <3>2. UNCHANGED <<server, base, state, epoch, halt, made, opens, waived, restored>>
      BY <1>7, <2>4 DEF AnswerSnapshot
    <3> QED BY <2>1, <2>2, <3>1, <3>2, LoadType DEF TypeOK
  <2> QED BY <2>3, <2>4
<1>8. ASSUME NEW n \in BOOLEAN, StartTracking(t, n)
      PROVE  TypeOK'
  BY <1>0, <1>8, DraftableType DEF StartTracking, TypeOK, Phases, Dialogs, OpenPhases
<1> QED BY <1>1, <1>2, <1>3, <1>4, <1>5, <1>6, <1>7, <1>8 DEF Opening

LEMMA WorkingType ==
  ASSUME TabAssumption, ContentAssumption, TypeOK, NEW t \in Tabs, Working(t)
  PROVE  TypeOK'
<1> USE DEF server, storage, page
<1>0. BrowserOf[t] \in Browsers
  BY DEF TabAssumption
<1>1. ASSUME NEW e \in Edits, Edit(t, e)
      PROVE  TypeOK'
  BY <1>1 DEF Edit, TypeOK, Content
<1>2. CASE WriteSnapshot(t)
  BY <1>0, <1>2, DraftableType DEF WriteSnapshot, TypeOK
<1>3. CASE SendAuto(t)
  BY <1>3, PutType DEF SendAuto, TypeOK, Kinds
<1>4. ASSUME NEW k \in UserSaves, SendByUser(t, k)
      PROVE  TypeOK'
  <2>1. k \in Kinds
    BY DEF ContentAssumption, Kinds
  <2> QED BY <1>4, <2>1, PutType DEF SendByUser, TypeOK
<1>5. ASSUME NEW c \in archive, SendRestore(t, c)
      PROVE  TypeOK'
  <2>1. c \in Content
    BY DEF TypeOK
  <2>2. [Put(t, "restore") EXCEPT !.data = c, !.waived = {}, !.epoch = 0,
                                  !.expected = NoVersion, !.live = FALSE] \in Request
    <3>1. "restore" \in Kinds /\ {} \in Content /\ 0 \in Nat
      BY DEF Kinds, Content
    <3>2. \A q \in Request : [q EXCEPT !.data = c, !.waived = {}, !.epoch = 0,
                                       !.expected = NoVersion, !.live = FALSE] \in Request
      BY <2>1, <3>1 DEF Request
    <3> QED BY <3>1, <3>2, PutType
  <2> QED BY <1>5, <2>2 DEF SendRestore, TypeOK
<1> QED BY <1>1, <1>2, <1>3, <1>4, <1>5 DEF Working

LEMMA LeavingType ==
  ASSUME TabAssumption, ContentAssumption, TypeOK, NEW t \in Tabs, Leaving(t)
  PROVE  TypeOK'
<1> USE DEF server, storage, page
<1>0. reqs \in SUBSET Request
  BY DEF TypeOK
<1>1. CASE Exit(t)
  BY <1>1 DEF Exit, TypeOK, Phases, Dialogs, OpenPhases
<1>2. CASE SendExit(t)
  BY <1>2, PutType DEF SendExit, TypeOK, Kinds
<1>3. CASE UnlockOnExit(t)
  BY <1>3 DEF UnlockOnExit, TypeOK, Phases, Dialogs, OpenPhases, AfterRelease
<1>4. CASE Redirect(t)
  BY <1>0, <1>4, PageGoneType DEF Redirect
<1>5. CASE Close(t)
  <2> DEFINE beacon == phase[t] \in {"locked", "backupDialog", "snapshotDialog", "loaded", "editing"}
  <2>1. beacon \in BOOLEAN
    OBVIOUS
  <2>2. PageGone(t, reqs, TRUE, beacon)
    BY <1>5 DEF Close
  <2> HIDE DEF beacon
  <2> QED BY <1>0, <2>1, <2>2, PageGoneType
<1>6. CASE Crash(t)
  BY <1>0, <1>6, PageGoneType DEF Crash
<1> QED BY <1>1, <1>2, <1>3, <1>4, <1>5, <1>6 DEF Leaving

LEMMA HandlingType ==
  ASSUME TabAssumption, ContentAssumption, TypeOK, NEW r \in reqs, Handling(r)
  PROVE  TypeOK'
<1> USE DEF server, storage, page
<1>0. r \in Request /\ r.tab \in Tabs /\ BrowserOf[r.tab] \in Browsers
  BY DEF TypeOK, Request, TabAssumption
<1>1. CASE Guard(r)
  <2>1. \A s \in Stages : [r EXCEPT !.stage = s] \in Request
    BY <1>0 DEF Request
  <2> QED BY <1>1, <2>1 DEF Guard, Becomes, TypeOK, Stages
<1>2. CASE CopyForRestore(r)
  <2>1. [r EXCEPT !.stage = "copied", !.pre = content] \in Request
    BY <1>0 DEF Request, TypeOK, Stages
  <2> QED BY <1>2, <2>1 DEF CopyForRestore, Becomes, TypeOK
<1>3. CASE Commit(r)
  <2>1. [r EXCEPT !.stage = "stored", !.version = version + 1] \in Request
    <3>1. version + 1 \in Nat /\ "stored" \in Stages
      BY DEF TypeOK, Stages
    <3> QED BY <1>0, <3>1 DEF Request
  <2>2. r.data \in Content /\ r.pre \in Content
    BY <1>0 DEF Request
  <2> QED BY <1>3, <2>1, <2>2 DEF Commit, Becomes, TypeOK
<1>4. CASE Reject(r)
  <2>1. [r EXCEPT !.stage = "conflict"] \in Request
    BY <1>0 DEF Request, Stages
  <2> QED BY <1>4, <2>1 DEF Reject, Becomes, TypeOK
<1>5. CASE OnStored(r)
  <2>1. r.version \in Nat
    BY <1>0 DEF Request
  <2> QED BY <1>0, <1>5, <2>1 DEF OnStored, BaseAfter, TypeOK, Phases, Dialogs, OpenPhases, Content
<1>6. CASE OnConflict(r)
  <2>1. reqs \ {r} \in SUBSET Request
    BY DEF TypeOK
  <2> QED BY <1>6, <2>1, FailedType DEF OnConflict
<1>7. CASE OnLockLost(r)
  <2>1. reqs \ {r} \in SUBSET Request
    BY DEF TypeOK
  <2> QED BY <1>7, <2>1, FailedType DEF OnLockLost
<1>8. CASE OnNoAnswer(r)
  <2>1. reqs \ {r} \in SUBSET Request
    BY DEF TypeOK
  <2>2. [r EXCEPT !.live = FALSE] \in Request
    BY <1>0 DEF Request
  <2>3. (reqs \ {r}) \cup {[r EXCEPT !.live = FALSE]} \in SUBSET Request
    BY <2>1, <2>2
  <2> QED BY <1>8, <2>1, <2>3, FailedType DEF OnNoAnswer
<1> QED BY <1>1, <1>2, <1>3, <1>4, <1>5, <1>6, <1>7, <1>8 DEF Handling

\* The variables stay within their types: contents are sets of edits, a request
\* is always complete, a draft is either absent or whole (ActEditing!TypeOK).
THEOREM TypeCorrect == Spec => []TypeOK
<1> USE TabAssumption, ContentAssumption
<1>1. Init => TypeOK
  BY DEF Init, TypeOK, Content, Phases, Dialogs
<1>2. TypeOK /\ [Next]_vars => TypeOK'
  <2> SUFFICES ASSUME TypeOK, [Next]_vars PROVE TypeOK'
    OBVIOUS
  <2>1. ASSUME NEW t \in Tabs, Opening(t) \/ Working(t) \/ Leaving(t)
        PROVE  TypeOK'
    BY <2>1, OpeningType, WorkingType, LeavingType
  <2>2. ASSUME NEW r \in reqs, Handling(r)
        PROVE  TypeOK'
    BY <2>2, HandlingType
  <2>3. CASE Expire
    BY <2>3 DEF Expire, TypeOK, storage, page
  <2>4. CASE UNCHANGED vars
    BY <2>4 DEF vars, server, storage, page, TypeOK
  <2> QED BY <2>1, <2>2, <2>3, <2>4 DEF Next
<1> QED BY <1>1, <1>2, PTL DEF Spec

-----------------------------------------------------------------------------
(* The versions agree.                                                      *)

\* What a tab shows, taken as a draft, is as current as the tab.
LEMMA DraftableCurrent ==
  ASSUME TypeOK, VersionsAgree, NEW t \in Tabs, phase[t] \notin {"closed", "meta"}
  PROVE  DraftCurrent(Draftable(t))
BY DEF VersionsAgree, TabsCurrent, DraftCurrent, Draftable, Current

\* A request that is under way, or was and is heard of no more.
FromReqs(r) ==
  \/ r \in reqs
  \/ /\ ~r.live
     /\ \E q \in reqs : /\ r.expected = q.expected /\ r.data = q.data
                        /\ r.waived = q.waived /\ r.stage = q.stage

LEMMA PageGoneAgree ==
  ASSUME TabAssumption, ContentAssumption, TypeOK, VersionsAgree, NEW t \in Tabs,
         NEW rs \in SUBSET Request, \A r \in rs : FromReqs(r),
         NEW h \in BOOLEAN, NEW u \in BOOLEAN, PageGone(t, rs, h, u)
  PROVE  VersionsAgree'
<1> USE DEF VersionsAgree
<1>0. UNCHANGED <<version, content, backup>>
  BY DEF PageGone
<1>1. TabsCurrent'
  <2> SUFFICES ASSUME NEW x \in Tabs
      PROVE  /\ base'[x] <= version
             /\ phase'[x] \notin {"closed", "meta"} => Current(base'[x], work'[x] \cup waived'[x])
    BY <1>0 DEF TabsCurrent, Current
  <2>1. CASE x = t
    BY <2>1 DEF PageGone, TypeOK
  <2>2. CASE x # t
    BY <2>2 DEF PageGone, TypeOK, TabsCurrent
  <2> QED BY <2>1, <2>2
<1>2. DraftsCurrent'
  <2>1. ASSUME NEW b \in Browsers PROVE DraftCurrent(snapshot'[b])
    <3>1. CASE state[t] = "unsaved" /\ h /\ b = BrowserOf[t]
      <4>1. phase[t] \notin {"closed", "meta"}
        BY <3>1 DEF DirtyIsOpen, OpenPhases
      <4>2. snapshot'[b] = Draftable(t)
        BY <3>1 DEF PageGone, TypeOK
      <4> QED BY <4>1, <4>2, DraftableCurrent
    <3>2. CASE ~(state[t] = "unsaved" /\ h /\ b = BrowserOf[t])
      <4>1. snapshot'[b] = snapshot[b]
        BY <3>2 DEF PageGone, TypeOK
      <4> QED BY <4>1 DEF DraftsCurrent
    <3> QED BY <3>1, <3>2
  <2>2. ASSUME NEW x \in Tabs PROVE DraftCurrent(asked'[x])
    BY DEF PageGone, TypeOK, DraftsCurrent, DraftCurrent
  <2> QED BY <1>0, <2>1, <2>2 DEF DraftsCurrent, DraftCurrent, Current
<1>3. \A r \in reqs' : FromReqs(r) /\ (r.tab # t \/ ~r.live)
  <2> SUFFICES ASSUME NEW r \in Unheard(t, rs)
      PROVE  FromReqs(r) /\ (r.tab # t \/ ~r.live)
    BY DEF PageGone
  <2>1. CASE r \in {q \in rs : q.tab # t \/ ~q.live}
    BY <2>1
  <2>2. CASE r \in {[q EXCEPT !.live = FALSE] :
                    q \in {q \in rs : q.tab = t /\ q.live /\ q.stage \in Unanswered}}
    <3>1. PICK q \in rs : q.live /\ r = [q EXCEPT !.live = FALSE]
      BY <2>2
    <3>2. /\ r.expected = q.expected /\ r.data = q.data /\ r.waived = q.waived
          /\ r.stage = q.stage /\ ~r.live
      BY <3>1 DEF Request
    <3>3. q \in reqs
      BY <3>1 DEF FromReqs
    <3> QED BY <3>2, <3>3 DEF FromReqs
  <2> QED BY <2>1, <2>2 DEF Unheard
<1>4. SavesCurrent'
  BY <1>0, <1>3 DEF SavesCurrent, Current, FromReqs
<1>5. AnswersCurrent'
  <2> SUFFICES ASSUME NEW r \in reqs', r.live
      PROVE  /\ phase'[r.tab] \in OpenPhases
             /\ r.data \subseteq work'[r.tab]
             /\ r.stage = "stored" => Current(r.version, r.data)
    BY <1>0 DEF AnswersCurrent, Current
  <2>1. r \in reqs /\ r.tab # t /\ r.tab \in Tabs
    BY <1>3 DEF TypeOK, Request, FromReqs
  <2>2. phase'[r.tab] = phase[r.tab] /\ work'[r.tab] = work[r.tab]
    BY <2>1 DEF PageGone, TypeOK
  <2> QED BY <2>1, <2>2 DEF AnswersCurrent
<1>6. DirtyIsOpen'
  BY DEF PageGone, TypeOK, DirtyIsOpen
<1> QED BY <1>1, <1>2, <1>4, <1>5, <1>6

\* A request that adds no claim: an old one, or a new one that is current and
\* not yet answered.
Harmless(r) ==
  \/ r \in reqs
  \/ /\ r.stage = "sent"
     /\ r.expected # NoVersion => Current(r.expected, r.data \cup r.waived)

\* A step of tab t agrees if the tab, the drafts and the requests it leaves do.
LEMMA TabStepAgrees ==
  ASSUME TypeOK, VersionsAgree, NEW t \in Tabs,
         UNCHANGED <<version, content>>,
         \A x \in Tabs \ {t} : /\ phase'[x] = phase[x] /\ base'[x] = base[x]
                               /\ work'[x] = work[x] /\ waived'[x] = waived[x]
                               /\ asked'[x] = asked[x] /\ state'[x] = state[x],
         base'[t] <= version,
         phase'[t] \notin {"closed", "meta"} => Current(base'[t], work'[t] \cup waived'[t]),
         state'[t] # "saved" => phase'[t] \in OpenPhases \ {"loaded"},
         DraftCurrent(asked'[t]),
         \A b \in Browsers : DraftCurrent(snapshot'[b]) /\ DraftCurrent(backup'[b]),
         \A r \in reqs' : Harmless(r),
         \A r \in reqs' : r.live /\ r.tab = t => phase'[t] \in OpenPhases /\ r.data \subseteq work'[t],
         \A r \in reqs' : r.live /\ r.tab # t => r \in reqs
  PROVE  VersionsAgree'
<1> USE DEF VersionsAgree
<1>1. TabsCurrent'
  BY DEF TabsCurrent, Current
<1>2. DraftsCurrent'
  BY DEF DraftsCurrent, DraftCurrent, Current
<1>3. SavesCurrent'
  BY DEF SavesCurrent, Harmless, Current
<1>4. AnswersCurrent'
  <2> SUFFICES ASSUME NEW r \in reqs', r.live
      PROVE  /\ phase'[r.tab] \in OpenPhases
             /\ r.data \subseteq work'[r.tab]
             /\ r.stage = "stored" => Current(r.version, r.data)
    BY DEF AnswersCurrent, Current
  <2>1. r.stage = "stored" => Current(r.version, r.data)
    BY DEF Harmless, AnswersCurrent
  <2>2. phase'[r.tab] \in OpenPhases /\ r.data \subseteq work'[r.tab]
    <3>1. CASE r.tab = t
      BY <3>1
    <3>2. CASE r.tab # t
      <4>1. r \in reqs /\ r.tab \in Tabs \ {t}
        BY <3>2 DEF TypeOK, Request
      <4> QED BY <4>1 DEF AnswersCurrent
    <3> QED BY <3>1, <3>2
  <2> QED BY <2>1, <2>2
<1>5. DirtyIsOpen'
  BY DEF DirtyIsOpen
<1> QED BY <1>1, <1>2, <1>3, <1>4, <1>5

\* Nobody waits for an answer before the page is open.
LEMMA NoneWaits ==
  ASSUME VersionsAgree, NEW t \in Tabs, phase[t] \notin OpenPhases
  PROVE  \A r \in reqs : r.tab = t => ~r.live
BY DEF VersionsAgree, AnswersCurrent

\* Restoring draft d leaves the tab with a current content.
LEMMA RestoredCurrent ==
  ASSUME TypeOK, VersionsAgree, NEW t \in Tabs, phase[t] \in Dialogs
  PROVE  Current(base[t], asked[t].data \cup WaivedBy(t, asked[t]))
<1>1. asked[t] \in Draft /\ DraftCurrent(asked[t]) /\ asked[t] # NoDraft
  BY DEF TypeOK, VersionsAgree, DraftsCurrent
<1>2. Current(base[t], work[t] \cup waived[t])
  BY DEF VersionsAgree, TabsCurrent, Dialogs
<1> QED BY <1>1, <1>2 DEF WaivedBy, Conflicting, Current, DraftCurrent

\* Loading a current content c, or asking about the snapshot first.
LEMMA LoadAgrees ==
  ASSUME TabAssumption, ContentAssumption, TypeOK, VersionsAgree, NEW t \in Tabs, NEW c \in Content,
         phase[t] \notin OpenPhases \cup {"closed", "meta"},
         OfferSnapshot(t, c) \/ Load(t, c),
         UNCHANGED <<version, content, base, state>>,
         \A x \in Tabs \ {t} : waived'[x] = waived[x],
         Current(base[t], c \cup waived'[t]),
         \A b \in Browsers : DraftCurrent(snapshot'[b]) /\ DraftCurrent(backup'[b])
  PROVE  VersionsAgree'
<1> DEFINE shown == IF c = {} THEN {Skeleton} ELSE c
<1>1. CASE Load(t, c)
  <2>1. /\ phase'[t] = "loaded" /\ work'[t] = shown /\ asked'[t] = NoDraft
        /\ \A x \in Tabs \ {t} : phase'[x] = phase[x] /\ work'[x] = work[x] /\ asked'[x] = asked[x]
    <3>1. phase' = [phase EXCEPT ![t] = "loaded"] /\ phase \in [Tabs -> Phases]
      BY <1>1 DEF Load, TypeOK
    <3>2. work' = [work EXCEPT ![t] = shown] /\ work \in [Tabs -> Content]
      BY <1>1 DEF Load, TypeOK
    <3>3. asked' = [asked EXCEPT ![t] = NoDraft] /\ asked \in [Tabs -> Draft \cup {NoDraft}]
      BY <1>1 DEF Load, TypeOK
    <3> QED BY ONLY <3>1, <3>2, <3>3, t \in Tabs
  <2>2. Current(base[t], shown \cup waived'[t])
    BY DEF Current
  <2>3. reqs' = reqs \/ (c = {} /\ reqs' = reqs \cup {DefaultPut(t)})
    BY <1>1 DEF Load
  <2>4. \A r \in reqs' : r \in reqs \/ (r = DefaultPut(t) /\ shown = {Skeleton})
    BY <2>3
  <2>5. /\ DefaultPut(t).stage = "sent" /\ DefaultPut(t).expected = NoVersion
        /\ DefaultPut(t).data = {Skeleton} /\ DefaultPut(t).tab = t
    BY DEF DefaultPut
  <2> HIDE DEF shown
  <2>6. \A r \in reqs' : r.live /\ r.tab = t => phase'[t] \in OpenPhases /\ r.data \subseteq work'[t]
    BY <2>1, <2>4, <2>5, NoneWaits DEF OpenPhases
  <2>7. \A r \in reqs' : r.live /\ r.tab # t => r \in reqs
    BY <2>4, <2>5
  <2>8. \A r \in reqs' : Harmless(r)
    BY <2>4, <2>5 DEF Harmless
  <2>9. DraftCurrent(asked'[t])
    BY <2>1 DEF DraftCurrent
  <2>10. state'[t] = "saved" /\ base'[t] <= version
    BY DEF VersionsAgree, DirtyIsOpen, TabsCurrent
  <2>11. \A x \in Tabs \ {t} : /\ phase'[x] = phase[x] /\ base'[x] = base[x]
                               /\ work'[x] = work[x] /\ waived'[x] = waived[x]
                               /\ asked'[x] = asked[x] /\ state'[x] = state[x]
    BY <2>1
  <2>12. Current(base'[t], work'[t] \cup waived'[t])
    BY <2>1, <2>2
  <2>13. state'[t] # "saved" => phase'[t] \in OpenPhases \ {"loaded"}
    BY <2>10
  <2>14. base'[t] <= version
    BY <2>10
  <2> QED BY <2>6, <2>7, <2>8, <2>9, <2>11, <2>12, <2>13, <2>14, TabStepAgrees
<1>2. CASE OfferSnapshot(t, c) /\ snapshot[BrowserOf[t]] # NoDraft
  <2>1. /\ phase'[t] = "snapshotDialog" /\ work'[t] = c /\ asked'[t] = snapshot[BrowserOf[t]]
        /\ \A x \in Tabs \ {t} : phase'[x] = phase[x] /\ work'[x] = work[x] /\ asked'[x] = asked[x]
        /\ reqs' = reqs
    BY <1>2 DEF OfferSnapshot, TypeOK
  <2>2. DraftCurrent(asked'[t])
    BY <2>1 DEF VersionsAgree, DraftsCurrent, TabAssumption
  <2>3. state'[t] = "saved" /\ base'[t] <= version
    BY DEF VersionsAgree, DirtyIsOpen, TabsCurrent
  <2>4. /\ \A r \in reqs' : Harmless(r)
        /\ \A r \in reqs' : r.live /\ r.tab = t => phase'[t] \in OpenPhases /\ r.data \subseteq work'[t]
        /\ \A r \in reqs' : r.live /\ r.tab # t => r \in reqs
    BY <2>1, NoneWaits DEF Harmless
  <2>5. \A x \in Tabs \ {t} : /\ phase'[x] = phase[x] /\ base'[x] = base[x]
                             /\ work'[x] = work[x] /\ waived'[x] = waived[x]
                             /\ asked'[x] = asked[x] /\ state'[x] = state[x]
    BY <2>1
  <2>6. UNCHANGED <<version, content>> /\ base'[t] <= version
    BY <2>3
  <2>7. /\ Current(base'[t], work'[t] \cup waived'[t])
        /\ state'[t] # "saved" => phase'[t] \in OpenPhases \ {"loaded"}
    BY <2>1, <2>3
  <2>8. \A b \in Browsers : DraftCurrent(snapshot'[b]) /\ DraftCurrent(backup'[b])
    OBVIOUS
  <2> QED BY ONLY TypeOK, VersionsAgree, <2>2, <2>4, <2>5, <2>6, <2>7, <2>8, TabStepAgrees
<1> QED BY <1>1, <1>2 DEF OfferSnapshot

LEMMA OpeningAgrees ==
  ASSUME TabAssumption, ContentAssumption, TypeOK, VersionsAgree, NEW t \in Tabs, Opening(t)
  PROVE  VersionsAgree'
<1> USE DEF server, storage
<1>0. /\ BrowserOf[t] \in Browsers
      /\ work[t] \in Content /\ waived[t] \in Content
      /\ base[t] <= version
      /\ phase[t] \notin {"closed", "meta"} => Current(base[t], work[t] \cup waived[t])
      /\ state[t] # "saved" => phase[t] \in OpenPhases \ {"loaded"}
      /\ \A b \in Browsers : DraftCurrent(snapshot[b]) /\ DraftCurrent(backup[b])
      /\ DraftCurrent(asked[t])
      /\ \A r \in reqs : Harmless(r)
  BY DEF TabAssumption, TypeOK, VersionsAgree, TabsCurrent, DraftsCurrent, DirtyIsOpen, Harmless
<1>1. CASE FetchMeta(t)
  <2>1. /\ phase'[t] = "meta" /\ base'[t] = version /\ state[t] = "saved"
        /\ \A x \in Tabs \ {t} : phase'[x] = phase[x] /\ base'[x] = base[x]
    BY <1>0, <1>1 DEF FetchMeta, TypeOK, OpenPhases
  <2>2. \A r \in reqs : r.tab = t => ~r.live
    BY <1>1, NoneWaits DEF FetchMeta, OpenPhases
  <2>3. base'[t] <= version
    BY <2>1 DEF TypeOK
  <2>4. UNCHANGED <<server, reqs, storage, work, state, asked, waived>>
    BY <1>1 DEF FetchMeta
  <2>5. UNCHANGED <<version, content>> /\ DraftCurrent(asked'[t])
    BY <1>0, <2>4
  <2>6. \A b \in Browsers : DraftCurrent(snapshot'[b]) /\ DraftCurrent(backup'[b])
    BY <1>0, <2>4
  <2>7. \A x \in Tabs \ {t} : /\ phase'[x] = phase[x] /\ base'[x] = base[x]
                             /\ work'[x] = work[x] /\ waived'[x] = waived[x]
                             /\ asked'[x] = asked[x] /\ state'[x] = state[x]
    BY <2>1, <2>4
  <2>8. /\ phase'[t] \notin {"closed", "meta"} => Current(base'[t], work'[t] \cup waived'[t])
        /\ state'[t] # "saved" => phase'[t] \in OpenPhases \ {"loaded"}
    BY <2>1, <2>4
  <2>9. /\ \A r \in reqs' : Harmless(r)
        /\ \A r \in reqs' : r.live /\ r.tab = t => phase'[t] \in OpenPhases /\ r.data \subseteq work'[t]
        /\ \A r \in reqs' : r.live /\ r.tab # t => r \in reqs
    BY <1>0, <2>2, <2>4
  <2> QED BY ONLY TypeOK, VersionsAgree, <2>3, <2>5, <2>6, <2>7, <2>8, <2>9, TabStepAgrees
<1>2. CASE FetchContent(t)
  <2>1. /\ phase'[t] = "fetched" /\ work'[t] = content /\ state[t] = "saved"
        /\ \A x \in Tabs \ {t} : phase'[x] = phase[x] /\ work'[x] = work[x]
    BY <1>0, <1>2 DEF FetchContent, TypeOK, OpenPhases
  <2>2. \A r \in reqs : r.tab = t => ~r.live
    BY <1>2, NoneWaits DEF FetchContent, OpenPhases
  <2>3. Current(base[t], content \cup waived[t])
    BY <1>0 DEF Current
  <2>4. UNCHANGED <<server, reqs, storage, base, state, asked, waived>>
    BY <1>2 DEF FetchContent
  <2>5. /\ UNCHANGED <<version, content>> /\ base'[t] <= version
        /\ DraftCurrent(asked'[t])
    BY <1>0, <2>4
  <2>6. \A b \in Browsers : DraftCurrent(snapshot'[b]) /\ DraftCurrent(backup'[b])
    BY <1>0, <2>4
  <2>7. \A x \in Tabs \ {t} : /\ phase'[x] = phase[x] /\ base'[x] = base[x]
                             /\ work'[x] = work[x] /\ waived'[x] = waived[x]
                             /\ asked'[x] = asked[x] /\ state'[x] = state[x]
    BY <2>1, <2>4
  <2>8. /\ Current(base'[t], work'[t] \cup waived'[t])
        /\ state'[t] # "saved" => phase'[t] \in OpenPhases \ {"loaded"}
    BY <2>1, <2>3, <2>4
  <2>9. /\ \A r \in reqs' : Harmless(r)
        /\ \A r \in reqs' : r.live /\ r.tab = t => phase'[t] \in OpenPhases /\ r.data \subseteq work'[t]
        /\ \A r \in reqs' : r.live /\ r.tab # t => r \in reqs
    BY <1>0, <2>2, <2>4
  <2> QED BY ONLY TypeOK, VersionsAgree, <2>5, <2>6, <2>7, <2>8, <2>9, TabStepAgrees
<1>3. CASE Lock(t)
  <2>1. /\ phase'[t] = "locked" /\ phase[t] = "fetched" /\ state[t] = "saved"
        /\ \A x \in Tabs \ {t} : phase'[x] = phase[x]
    BY <1>0, <1>3 DEF Lock, TypeOK, OpenPhases
  <2>2. \A r \in reqs : r.tab = t => ~r.live
    BY <1>3, NoneWaits DEF Lock, OpenPhases
  <2>4. UNCHANGED <<version, content, reqs, storage, work, base, state, asked, waived>>
    BY <1>3 DEF Lock
  <2>5. /\ UNCHANGED <<version, content>> /\ base'[t] <= version
        /\ DraftCurrent(asked'[t])
    BY <1>0, <2>4
  <2>6. \A b \in Browsers : DraftCurrent(snapshot'[b]) /\ DraftCurrent(backup'[b])
    BY <1>0, <2>4
  <2>7. \A x \in Tabs \ {t} : /\ phase'[x] = phase[x] /\ base'[x] = base[x]
                             /\ work'[x] = work[x] /\ waived'[x] = waived[x]
                             /\ asked'[x] = asked[x] /\ state'[x] = state[x]
    BY <2>1, <2>4
  <2>8. /\ Current(base'[t], work'[t] \cup waived'[t])
        /\ state'[t] # "saved" => phase'[t] \in OpenPhases \ {"loaded"}
    BY <1>0, <2>1, <2>4
  <2>9. /\ \A r \in reqs' : Harmless(r)
        /\ \A r \in reqs' : r.live /\ r.tab = t => phase'[t] \in OpenPhases /\ r.data \subseteq work'[t]
        /\ \A r \in reqs' : r.live /\ r.tab # t => r \in reqs
    BY <1>0, <2>2, <2>4
  <2> QED BY ONLY TypeOK, VersionsAgree, <2>5, <2>6, <2>7, <2>8, <2>9, TabStepAgrees
<1>4. CASE LockRefused(t)
  BY <1>4, PageGoneAgree DEF LockRefused, FromReqs, TypeOK
<1>5. CASE Apply(t)
  <2>1. phase[t] = "locked"
    BY <1>5 DEF Apply
  <2>2. CASE backup[BrowserOf[t]] = NoDraft
    <3>1. /\ OfferSnapshot(t, work[t])
          /\ UNCHANGED <<version, content, snapshot, backup, base, state, waived>>
      BY <1>5, <2>2 DEF Apply, server, storage
    <3>2. phase[t] \notin OpenPhases \cup {"closed", "meta"}
      BY <2>1 DEF OpenPhases
    <3>3. work[t] \in Content /\ Current(base[t], work[t] \cup waived'[t])
      BY <3>1, <3>2 DEF TypeOK, VersionsAgree, TabsCurrent
    <3>4. \A b \in Browsers : DraftCurrent(snapshot'[b]) /\ DraftCurrent(backup'[b])
      BY <3>1 DEF VersionsAgree, DraftsCurrent, DraftCurrent, Current
    <3>5. \A x \in Tabs \ {t} : waived'[x] = waived[x]
      BY <3>1
    <3> QED BY <3>1, <3>2, <3>3, <3>4, <3>5, LoadAgrees
  <2>3. CASE backup[BrowserOf[t]] # NoDraft
    <3>1. /\ phase'[t] = "backupDialog" /\ asked'[t] = backup[BrowserOf[t]] /\ state[t] = "saved"
          /\ \A x \in Tabs \ {t} : phase'[x] = phase[x] /\ asked'[x] = asked[x]
      BY <1>0, <1>5, <2>1, <2>3 DEF Apply, TypeOK, OpenPhases
    <3>2. \A r \in reqs : r.tab = t => ~r.live
      BY <2>1, NoneWaits DEF OpenPhases
    <3>3. /\ reqs' = reqs /\ work' = work
          /\ UNCHANGED <<server, storage, base, state, epoch, halt, restored, waived, made, opens>>
      BY <1>5, <2>3 DEF Apply
    <3>5. /\ UNCHANGED <<version, content>> /\ base'[t] <= version
          /\ DraftCurrent(asked'[t])
      BY <1>0, <3>1, <3>3
    <3>6. \A b \in Browsers : DraftCurrent(snapshot'[b]) /\ DraftCurrent(backup'[b])
      BY <1>0, <3>3
    <3>7. \A x \in Tabs \ {t} : /\ phase'[x] = phase[x] /\ base'[x] = base[x]
                               /\ work'[x] = work[x] /\ waived'[x] = waived[x]
                               /\ asked'[x] = asked[x] /\ state'[x] = state[x]
      BY <3>1, <3>3
    <3>8. /\ Current(base'[t], work'[t] \cup waived'[t])
          /\ state'[t] # "saved" => phase'[t] \in OpenPhases \ {"loaded"}
      BY <1>0, <2>1, <3>1, <3>3
    <3>9. /\ \A r \in reqs' : Harmless(r)
          /\ \A r \in reqs' : r.live /\ r.tab = t => phase'[t] \in OpenPhases /\ r.data \subseteq work'[t]
          /\ \A r \in reqs' : r.live /\ r.tab # t => r \in reqs
      BY <1>0, <3>2, <3>3
    <3> QED BY ONLY TypeOK, VersionsAgree, <3>5, <3>6, <3>7, <3>8, <3>9, TabStepAgrees
  <2> QED BY <2>2, <2>3
<1>6. ASSUME NEW a \in Answers, AnswerBackup(t, a)
      PROVE  VersionsAgree'
  <2>1. /\ phase[t] = "backupDialog" /\ asked[t] \in Draft
        /\ UNCHANGED <<version, content, base, state, snapshot>>
    BY <1>6 DEF AnswerBackup, TypeOK, Dialogs
  <2>2. \A b \in Browsers : DraftCurrent(backup'[b])
    <3>1. \/ backup' = backup
          \/ backup' = [backup EXCEPT ![BrowserOf[t]] = NoDraft]
      BY <1>6 DEF AnswerBackup
    <3>2. \A b \in Browsers : backup'[b] \in {backup[b], NoDraft}
      BY <3>1 DEF TypeOK
    <3> QED BY <1>0, <3>2 DEF DraftCurrent
  <2>3. CASE a = "restore"
    <3>1. /\ OfferSnapshot(t, asked[t].data) /\ asked[t].data \in Content
          /\ waived'[t] = WaivedBy(t, asked[t])
          /\ \A x \in Tabs \ {t} : waived'[x] = waived[x]
      BY <1>6, <2>1, <2>3 DEF AnswerBackup, Draft, TypeOK
    <3>2. Current(base[t], asked[t].data \cup waived'[t])
      BY <2>1, <3>1, RestoredCurrent DEF Dialogs
    <3> QED BY <1>0, <2>1, <2>2, <3>1, <3>2, LoadAgrees DEF OpenPhases
  <2>4. CASE a # "restore"
    <3>1. OfferSnapshot(t, work[t]) /\ waived' = waived
      BY <1>6, <2>4 DEF AnswerBackup
    <3> QED BY <1>0, <2>1, <2>2, <3>1, LoadAgrees DEF OpenPhases
  <2> QED BY <2>3, <2>4
<1>7. ASSUME NEW a \in Answers, AnswerSnapshot(t, a)
      PROVE  VersionsAgree'
  <2>1. /\ phase[t] = "snapshotDialog" /\ asked[t] \in Draft
        /\ UNCHANGED <<version, content, base, state>>
    BY <1>7 DEF AnswerSnapshot, TypeOK, Dialogs
  <2>2. \A b \in Browsers : DraftCurrent(snapshot'[b]) /\ DraftCurrent(backup'[b])
    <3>1. \A b \in Browsers : /\ snapshot'[b] \in {snapshot[b], NoDraft}
                              /\ backup'[b] \in {snapshot[b], backup[b]}
      BY <1>0, <1>7 DEF AnswerSnapshot, BackupAfter, TypeOK
    <3> QED BY <1>0, <3>1 DEF DraftCurrent
  <2>3. CASE a = "restore"
    <3>1. /\ Load(t, asked[t].data) /\ asked[t].data \in Content
          /\ waived'[t] = WaivedBy(t, asked[t])
          /\ \A x \in Tabs \ {t} : waived'[x] = waived[x]
      BY <1>7, <2>1, <2>3 DEF AnswerSnapshot, Draft, TypeOK
    <3>2. Current(base[t], asked[t].data \cup waived'[t])
      BY <2>1, <3>1, RestoredCurrent DEF Dialogs
    <3> QED BY <1>0, <2>1, <2>2, <3>1, <3>2, LoadAgrees DEF OpenPhases
  <2>4. CASE a # "restore"
    <3>1. Load(t, work[t]) /\ waived' = waived
      BY <1>7, <2>4 DEF AnswerSnapshot
    <3> QED BY <1>0, <2>1, <2>2, <3>1, LoadAgrees DEF OpenPhases
  <2> QED BY <2>3, <2>4
<1>8. ASSUME NEW n \in BOOLEAN, StartTracking(t, n)
      PROVE  VersionsAgree'
  <2>1. /\ phase[t] = "loaded" /\ phase'[t] = "editing"
        /\ \A x \in Tabs \ {t} : phase'[x] = phase[x] /\ state'[x] = state[x]
        /\ UNCHANGED <<version, content, reqs, backup, work, base, asked, waived>>
    BY <1>8 DEF StartTracking, TypeOK
  <2>2. \A b \in Browsers : DraftCurrent(snapshot'[b])
    <3>1. \A b \in Browsers : snapshot'[b] \in {snapshot[b], Draftable(t)}
      BY <1>0, <1>8 DEF StartTracking, TypeOK
    <3> QED BY <1>0, <2>1, <3>1, DraftableCurrent
  <2>3. \A r \in reqs' : r.live /\ r.tab = t => phase'[t] \in OpenPhases /\ r.data \subseteq work'[t]
    BY <2>1 DEF VersionsAgree, AnswersCurrent, OpenPhases
  <2>4. UNCHANGED <<version, content>> /\ base'[t] <= version /\ DraftCurrent(asked'[t])
    BY <1>0, <2>1
  <2>5. \A x \in Tabs \ {t} : /\ phase'[x] = phase[x] /\ base'[x] = base[x]
                             /\ work'[x] = work[x] /\ waived'[x] = waived[x]
                             /\ asked'[x] = asked[x] /\ state'[x] = state[x]
    BY <2>1
  <2>6. /\ Current(base'[t], work'[t] \cup waived'[t])
        /\ state'[t] # "saved" => phase'[t] \in OpenPhases \ {"loaded"}
    BY <1>0, <2>1 DEF OpenPhases
  <2>7. \A b \in Browsers : DraftCurrent(snapshot'[b]) /\ DraftCurrent(backup'[b])
    BY <1>0, <2>1, <2>2
  <2>8. /\ \A r \in reqs' : Harmless(r)
        /\ \A r \in reqs' : r.live /\ r.tab # t => r \in reqs
    BY <1>0, <2>1
  <2> QED BY ONLY TypeOK, VersionsAgree, <2>3, <2>4, <2>5, <2>6, <2>7, <2>8, TabStepAgrees
<1> QED BY <1>1, <1>2, <1>3, <1>4, <1>5, <1>6, <1>7, <1>8 DEF Opening

\* A save of what the tab shows makes no claim the tab cannot.
LEMMA SendAgrees ==
  ASSUME TypeOK, VersionsAgree, NEW t \in Tabs, NEW k \in Kinds, phase[t] \in OpenPhases,
         reqs' = reqs \cup {Put(t, k)}, UNCHANGED <<server, storage, page>>
  PROVE  VersionsAgree'
<1> USE DEF server, storage, page
<1>1. /\ base[t] <= version
      /\ Current(base[t], work[t] \cup waived[t])
      /\ state[t] # "saved" => phase[t] \in OpenPhases \ {"loaded"}
      /\ \A b \in Browsers : DraftCurrent(snapshot[b]) /\ DraftCurrent(backup[b])
      /\ DraftCurrent(asked[t])
      /\ \A r \in reqs : r.live /\ r.tab = t => r.data \subseteq work[t]
  BY DEF TypeOK, VersionsAgree, TabsCurrent, DraftsCurrent, DirtyIsOpen, AnswersCurrent, OpenPhases
<1>2. /\ Put(t, k).tab = t /\ Put(t, k).stage = "sent" /\ Put(t, k).data = work[t]
      /\ Put(t, k).waived = waived[t] /\ Put(t, k).expected = base[t]
  BY DEF Put
<1>3. \A r \in reqs' : Harmless(r)
  BY <1>1, <1>2 DEF Harmless
<1>4. \A r \in reqs' : r.live /\ r.tab = t => r.data \subseteq work[t]
  BY <1>1, <1>2
<1>5. \A r \in reqs' : r.live /\ r.tab # t => r \in reqs
  BY <1>2
<1> QED BY <1>1, <1>3, <1>4, <1>5, TabStepAgrees

LEMMA WorkingAgrees ==
  ASSUME TabAssumption, ContentAssumption, TypeOK, VersionsAgree, NEW t \in Tabs, Working(t)
  PROVE  VersionsAgree'
<1> USE DEF server, storage, page
<1>0. /\ BrowserOf[t] \in Browsers
      /\ work[t] \in Content
      /\ base[t] <= version
      /\ phase[t] \notin {"closed", "meta"} => Current(base[t], work[t] \cup waived[t])
      /\ state[t] # "saved" => phase[t] \in OpenPhases \ {"loaded"}
      /\ \A b \in Browsers : DraftCurrent(snapshot[b]) /\ DraftCurrent(backup[b])
      /\ DraftCurrent(asked[t])
      /\ \A r \in reqs : Harmless(r)
      /\ \A r \in reqs : r.live /\ r.tab = t => phase[t] \in OpenPhases /\ r.data \subseteq work[t]
  BY DEF TabAssumption, TypeOK, VersionsAgree, TabsCurrent, DraftsCurrent, DirtyIsOpen,
         AnswersCurrent, Harmless
<1>1. ASSUME NEW e \in Edits, Edit(t, e)
      PROVE  VersionsAgree'
  <2>1. /\ phase[t] \in OpenPhases \ {"loaded"} /\ work'[t] = work[t] \cup {e}
        /\ \A x \in Tabs \ {t} : work'[x] = work[x] /\ state'[x] = state[x]
    BY <1>1 DEF Edit, TypeOK
  <2>2. Current(base[t], work'[t] \cup waived[t])
    BY <1>0, <2>1 DEF Current, OpenPhases
  <2> QED BY <1>0, <1>1, <2>1, <2>2, TabStepAgrees DEF Edit
<1>2. CASE WriteSnapshot(t)
  <2>1. /\ phase[t] \in OpenPhases \ {"loaded"}
        /\ \A x \in Tabs \ {t} : state'[x] = state[x]
        /\ \A b \in Browsers : snapshot'[b] \in {snapshot[b], Draftable(t)}
    BY <1>0, <1>2 DEF WriteSnapshot, TypeOK
  <2>2. \A b \in Browsers : DraftCurrent(snapshot'[b])
    BY <1>0, <2>1, DraftableCurrent DEF OpenPhases
  <2> QED BY <1>0, <1>2, <2>1, <2>2, TabStepAgrees DEF WriteSnapshot
<1>3. CASE SendAuto(t)
  BY <1>3, SendAgrees DEF SendAuto, Kinds
<1>4. ASSUME NEW k \in UserSaves, SendByUser(t, k)
      PROVE  VersionsAgree'
  <2>1. k \in Kinds /\ phase[t] \in OpenPhases
    BY <1>4 DEF ContentAssumption, Kinds, SendByUser, OpenPhases
  <2> QED BY <1>4, <2>1, SendAgrees DEF SendByUser
<1>5. ASSUME NEW c \in archive, SendRestore(t, c)
      PROVE  VersionsAgree'
  <2> DEFINE q == [Put(t, "restore") EXCEPT !.data = c, !.waived = {}, !.epoch = 0,
                                            !.expected = NoVersion, !.live = FALSE]
  <2>1. q.stage = "sent" /\ q.expected = NoVersion /\ ~q.live
    BY DEF Put
  <2>2. reqs' = reqs \cup {q}
    BY <1>5 DEF SendRestore
  <2> HIDE DEF q
  <2>3. \A r \in reqs' : Harmless(r) /\ (r.live => r \in reqs)
    BY <1>0, <2>1, <2>2 DEF Harmless
  <2> QED BY <1>0, <1>5, <2>3, TabStepAgrees DEF SendRestore
<1> QED BY <1>1, <1>2, <1>3, <1>4, <1>5 DEF Working

LEMMA LeavingAgrees ==
  ASSUME TabAssumption, ContentAssumption, TypeOK, VersionsAgree, NEW t \in Tabs, Leaving(t)
  PROVE  VersionsAgree'
<1> USE DEF server, storage, page
<1>0. /\ base[t] <= version
      /\ phase[t] \in OpenPhases => Current(base[t], work[t] \cup waived[t])
      /\ \A b \in Browsers : DraftCurrent(snapshot[b]) /\ DraftCurrent(backup[b])
      /\ DraftCurrent(asked[t])
      /\ \A r \in reqs : Harmless(r) /\ FromReqs(r)
      /\ reqs \in SUBSET Request
      /\ \A r \in reqs : r.live /\ r.tab = t => phase[t] \in OpenPhases /\ r.data \subseteq work[t]
  BY DEF TypeOK, VersionsAgree, TabsCurrent, DraftsCurrent, AnswersCurrent, Harmless, FromReqs,
         OpenPhases
<1>1. CASE Exit(t)
  <2>1. /\ phase[t] = "editing" /\ phase'[t] = "exiting"
        /\ \A x \in Tabs \ {t} : phase'[x] = phase[x]
    BY <1>1 DEF Exit, TypeOK
  <2>2. UNCHANGED <<server, reqs, storage, work, base, state, asked, waived>>
    BY <1>1 DEF Exit
  <2> QED BY <1>0, <2>1, <2>2, TabStepAgrees DEF OpenPhases
<1>2. CASE SendExit(t)
  BY <1>2, SendAgrees DEF SendExit, Kinds, OpenPhases
<1>3. CASE UnlockOnExit(t)
  <2>1. /\ phase[t] = "leaving" /\ phase'[t] = "redirecting"
        /\ \A x \in Tabs \ {t} : phase'[x] = phase[x]
    BY <1>3 DEF UnlockOnExit, TypeOK
  <2> QED BY <1>0, <1>3, <2>1, TabStepAgrees DEF UnlockOnExit, OpenPhases
<1>4. CASE Redirect(t)
  BY <1>0, <1>4, PageGoneAgree DEF Redirect
<1>5. CASE Close(t)
  <2> DEFINE beacon == phase[t] \in {"locked", "backupDialog", "snapshotDialog", "loaded", "editing"}
  <2>1. beacon \in BOOLEAN
    OBVIOUS
  <2>2. PageGone(t, reqs, TRUE, beacon)
    BY <1>5 DEF Close
  <2> HIDE DEF beacon
  <2> QED BY <1>0, <2>1, <2>2, PageGoneAgree
<1>6. CASE Crash(t)
  BY <1>0, <1>6, PageGoneAgree DEF Crash
<1> QED BY <1>1, <1>2, <1>3, <1>4, <1>5, <1>6 DEF Leaving

\* Request r leaves the set, or stays as q, with the same body and no new claim;
\* nothing but the set changes.
LEMMA AdvanceAgrees ==
  ASSUME TypeOK, VersionsAgree, NEW r \in reqs, NEW q,
         reqs' \subseteq (reqs \ {r}) \cup {q},
         q.tab = r.tab, q.data = r.data, q.waived = r.waived, q.expected = r.expected,
         q.live => r.live, q.stage # "stored",
         q.stage \in Unanswered => r.stage \in Unanswered,
         UNCHANGED <<version, content, storage, phase, work, base, state, asked, waived>>
  PROVE  VersionsAgree'
<1> USE DEF VersionsAgree, storage
<1>1. TabsCurrent' /\ DraftsCurrent' /\ DirtyIsOpen'
  BY DEF TabsCurrent, DraftsCurrent, DirtyIsOpen, DraftCurrent, Current
<1>2. SavesCurrent'
  BY DEF SavesCurrent, Current
<1>3. AnswersCurrent'
  BY DEF AnswersCurrent, Current
<1> QED BY <1>1, <1>2, <1>3


\* A save that fails leaves no new claim behind.
LEMMA FailedAgrees ==
  ASSUME TabAssumption, ContentAssumption, TypeOK, VersionsAgree, NEW r \in reqs, r.live,
         NEW cause \in {"conflict", "lockLost", "failed"},
         NEW rs \in SUBSET Request, \A q \in rs : FromReqs(q),
         SaveFailed(r, rs, cause)
  PROVE  VersionsAgree'
<1> USE DEF server, storage
<1>0. r \in Request /\ r.tab \in Tabs
  BY DEF TypeOK, Request
<1>1. CASE PageGone(r.tab, rs, TRUE, phase[r.tab] \in {"loaded", "editing"})
  <2>1. (phase[r.tab] \in {"loaded", "editing"}) \in BOOLEAN
    OBVIOUS
  <2> HIDE DEF SaveFailed
  <2> QED BY <1>0, <1>1, <2>1, PageGoneAgree
<1>2. CASE ~PageGone(r.tab, rs, TRUE, phase[r.tab] \in {"loaded", "editing"})
  <2>1. /\ reqs' = rs
        /\ UNCHANGED <<version, content, snapshot, backup, work, base, state, asked, waived>>
        /\ phase' = phase \/ phase' = [phase EXCEPT ![r.tab] = "leaving"]
    BY <1>2 DEF SaveFailed
  <2>2. \A x \in Tabs : phase'[x] = phase[x] \/ (x = r.tab /\ phase'[x] = "leaving")
    BY <2>1 DEF TypeOK
  <2>3. phase[r.tab] \in OpenPhases
    BY DEF VersionsAgree, AnswersCurrent
  <2>4. TabsCurrent'
    BY <2>1, <2>2, <2>3 DEF VersionsAgree, TabsCurrent, Current, OpenPhases
  <2>5. DraftsCurrent'
    BY <2>1 DEF VersionsAgree, DraftsCurrent, DraftCurrent, Current
  <2>6. SavesCurrent'
    BY <2>1 DEF VersionsAgree, SavesCurrent, Current, FromReqs
  <2>7. AnswersCurrent'
    <3> SUFFICES ASSUME NEW q \in reqs', q.live
        PROVE  /\ phase'[q.tab] \in OpenPhases
               /\ q.data \subseteq work'[q.tab]
               /\ q.stage = "stored" => Current(q.version, q.data)
      BY <2>1 DEF AnswersCurrent, Current
    <3>1. q \in reqs /\ q.tab \in Tabs
      BY <2>1 DEF FromReqs, TypeOK, Request
    <3> QED BY <2>1, <2>2, <3>1 DEF VersionsAgree, AnswersCurrent, OpenPhases
  <2>8. DirtyIsOpen'
    BY <2>1, <2>2 DEF VersionsAgree, DirtyIsOpen, OpenPhases
  <2> QED BY <2>4, <2>5, <2>6, <2>7, <2>8 DEF VersionsAgree
<1> QED BY <1>1, <1>2

\* A transaction makes every earlier claim to the newest version an old one.
LEMMA CommitAgrees ==
  ASSUME TypeOK, VersionsAgree, NEW r \in reqs, Commit(r)
  PROVE  VersionsAgree'
<1> USE DEF VersionsAgree, storage, page
<1> DEFINE q == [r EXCEPT !.stage = "stored", !.version = version + 1]
<1>0. r \in Request /\ version \in Nat
  BY DEF TypeOK
<1>1. /\ version' = version + 1 /\ content' = r.data
      /\ UNCHANGED <<storage, page>>
      /\ reqs' \subseteq (reqs \ {r}) \cup {q}
  BY DEF Commit, Becomes
<1>2. /\ q.tab = r.tab /\ q.data = r.data /\ q.live = r.live
      /\ q.stage = "stored" /\ q.version = version + 1
  BY <1>0 DEF Request
<1>3. \A b \in Nat : b <= version => b <= version' /\ b # version'
  BY <1>0, <1>1
<1> HIDE DEF q
<1>4. TabsCurrent'
  BY <1>0, <1>1, <1>3 DEF TabsCurrent, TypeOK, Current
<1>5. DraftsCurrent'
  BY <1>0, <1>1, <1>3 DEF DraftsCurrent, DraftCurrent, Current, TypeOK, Draft
<1>6. SavesCurrent'
  BY <1>0, <1>1, <1>2 DEF SavesCurrent, Current, TypeOK, Request, Unanswered
<1>7. AnswersCurrent'
  BY <1>0, <1>1, <1>2 DEF AnswersCurrent, Current, TypeOK, Request
<1>8. DirtyIsOpen'
  BY <1>1 DEF DirtyIsOpen
<1> QED BY <1>4, <1>5, <1>6, <1>7, <1>8

LEMMA HandlingAgrees ==
  ASSUME TabAssumption, ContentAssumption, TypeOK, VersionsAgree, NEW r \in reqs, Handling(r)
  PROVE  VersionsAgree'
<1> USE DEF server, storage, page
<1>0. /\ r \in Request /\ r.tab \in Tabs /\ BrowserOf[r.tab] \in Browsers
      /\ reqs \ {r} \in SUBSET Request
      /\ \A q \in reqs \ {r} : FromReqs(q)
  BY DEF TypeOK, Request, TabAssumption, FromReqs
<1>1. CASE Guard(r)
  <2> DEFINE s == IF Holds(owner, UserOf[r.tab]) THEN "guarded" ELSE "lockLost"
             q == [r EXCEPT !.stage = s]
  <2>1. s \in {"guarded", "lockLost"}
    OBVIOUS
  <2>2. reqs' \subseteq (reqs \ {r}) \cup {q} /\ r.stage \in Unanswered
    BY <1>1 DEF Guard, Becomes, Unanswered
  <2>3. /\ q.tab = r.tab /\ q.data = r.data /\ q.waived = r.waived /\ q.expected = r.expected
        /\ q.live = r.live /\ q.stage = s
    BY <1>0 DEF Request
  <2>4. UNCHANGED <<version, content, storage, phase, work, base, state, asked, waived>>
    BY <1>1 DEF Guard
  <2> HIDE DEF q, s
  <2> QED BY <2>1, <2>2, <2>3, <2>4, AdvanceAgrees
<1>2. CASE CopyForRestore(r)
  <2> DEFINE q == [r EXCEPT !.stage = "copied", !.pre = content]
  <2>1. reqs' \subseteq (reqs \ {r}) \cup {q} /\ r.stage \in Unanswered
    BY <1>2 DEF CopyForRestore, Becomes, Unanswered
  <2>2. /\ q.tab = r.tab /\ q.data = r.data /\ q.waived = r.waived /\ q.expected = r.expected
        /\ q.live = r.live /\ q.stage = "copied"
    BY <1>0 DEF Request
  <2>3. UNCHANGED <<version, content, storage, phase, work, base, state, asked, waived>>
    BY <1>2 DEF CopyForRestore
  <2> HIDE DEF q
  <2> QED BY <2>1, <2>2, <2>3, AdvanceAgrees
<1>3. CASE Commit(r)
  BY <1>3, CommitAgrees
<1>4. CASE Reject(r)
  <2> DEFINE q == [r EXCEPT !.stage = "conflict"]
  <2>1. reqs' \subseteq (reqs \ {r}) \cup {q} /\ r.stage \in Unanswered
    BY <1>4 DEF Reject, Becomes, Unanswered
  <2>2. /\ q.tab = r.tab /\ q.data = r.data /\ q.waived = r.waived /\ q.expected = r.expected
        /\ q.live = r.live /\ q.stage = "conflict"
    BY <1>0 DEF Request
  <2>3. UNCHANGED <<version, content, storage, phase, work, base, state, asked, waived>>
    BY <1>4 DEF Reject
  <2> HIDE DEF q
  <2> QED BY <2>1, <2>2, <2>3, AdvanceAgrees
<1>5. CASE OnStored(r)
  <2> DEFINE t == r.tab
  <2>1. r.live /\ r.stage = "stored" /\ reqs' = reqs \ {r} /\ r.version \in Nat
    BY <1>0, <1>5 DEF OnStored, Request
  <2>2. /\ phase[t] \in OpenPhases /\ r.data \subseteq work[t] /\ Current(r.version, r.data)
        /\ r.version <= version
    BY <2>1 DEF VersionsAgree, AnswersCurrent, Current
  <2>3. base'[t] = r.version /\ waived'[t] = {}
    BY <1>0, <1>5 DEF OnStored, BaseAfter, TypeOK
  <2>4. phase'[t] \in {phase[t], "leaving"} /\ state'[t] \in {state[t], "saved"}
    BY <1>0, <1>5 DEF OnStored, TypeOK
  <2>5. \A x \in Tabs \ {t} : /\ phase'[x] = phase[x] /\ base'[x] = base[x]
                             /\ work'[x] = work[x] /\ waived'[x] = waived[x]
                             /\ asked'[x] = asked[x] /\ state'[x] = state[x]
    BY <1>0, <1>5 DEF OnStored, TypeOK
  <2>6. UNCHANGED <<version, content, backup, work, asked>>
    BY <1>5 DEF OnStored
  <2>7. \A b \in Browsers : DraftCurrent(snapshot'[b]) /\ DraftCurrent(backup'[b])
    <3>1. \A b \in Browsers : snapshot'[b] \in {snapshot[b], NoDraft}
      BY <1>0, <1>5 DEF OnStored, TypeOK
    <3> QED BY <2>6, <3>1 DEF VersionsAgree, DraftsCurrent, DraftCurrent
  <2>8. Current(base'[t], work'[t] \cup waived'[t])
    BY <2>2, <2>3, <2>6 DEF Current
  <2>9. /\ \A q \in reqs' : Harmless(q) /\ q \in reqs
        /\ \A q \in reqs' : q.live /\ q.tab = t => phase'[t] \in OpenPhases /\ q.data \subseteq work'[t]
    BY <2>1, <2>4, <2>6 DEF VersionsAgree, AnswersCurrent, Harmless, OpenPhases
  <2>10. state'[t] # "saved" => phase'[t] \in OpenPhases \ {"loaded"}
    BY <1>0, <2>4 DEF VersionsAgree, DirtyIsOpen, OpenPhases
  <2>11. DraftCurrent(asked'[t]) /\ UNCHANGED <<version, content>> /\ base'[t] <= version
    BY <1>0, <2>2, <2>3, <2>6 DEF VersionsAgree, DraftsCurrent
  <2>12. t \in Tabs
    BY <1>0
  <2> HIDE DEF t
  <2> QED BY ONLY TypeOK, VersionsAgree, <2>5, <2>7, <2>8, <2>9, <2>10, <2>11, <2>12, TabStepAgrees
<1>6. CASE OnConflict(r)
  BY <1>0, <1>6, FailedAgrees DEF OnConflict
<1>7. CASE OnLockLost(r)
  BY <1>0, <1>7, FailedAgrees DEF OnLockLost
<1>8. CASE OnNoAnswer(r)
  <2>1. CASE SaveFailed(r, reqs \ {r}, "failed")
    BY <1>0, <1>8, <2>1, FailedAgrees DEF OnNoAnswer
  <2>2. CASE SaveFailed(r, (reqs \ {r}) \cup {[r EXCEPT !.live = FALSE]}, "failed")
    <3> DEFINE q == [r EXCEPT !.live = FALSE]
    <3>1. q \in Request /\ FromReqs(q)
      BY <1>0 DEF Request, FromReqs
    <3>2. r.live /\ SaveFailed(r, (reqs \ {r}) \cup {q}, "failed")
      BY <1>8, <2>2 DEF OnNoAnswer
    <3> HIDE DEF q
    <3>3. /\ (reqs \ {r}) \cup {q} \in SUBSET Request
          /\ \A x \in (reqs \ {r}) \cup {q} : FromReqs(x)
      BY <1>0, <3>1
    <3> QED BY <3>2, <3>3, FailedAgrees
  <2> QED BY <1>8, <2>1, <2>2 DEF OnNoAnswer
<1> QED BY <1>1, <1>2, <1>3, <1>4, <1>5, <1>6, <1>7, <1>8 DEF Handling

LEMMA NextAgrees ==
  ASSUME TabAssumption, ContentAssumption, TypeOK, VersionsAgree, [Next]_vars
  PROVE  VersionsAgree'
<1>1. ASSUME NEW t \in Tabs, Opening(t) \/ Working(t) \/ Leaving(t)
      PROVE  VersionsAgree'
  BY <1>1, OpeningAgrees, WorkingAgrees, LeavingAgrees
<1>2. ASSUME NEW r \in reqs, Handling(r)
      PROVE  VersionsAgree'
  BY <1>2, HandlingAgrees
<1>3. CASE Expire \/ UNCHANGED vars
  <2>1. UNCHANGED <<version, content, reqs, storage, page>>
    BY <1>3 DEF Expire, vars, server
  <2> QED BY <2>1 DEF VersionsAgree, TabsCurrent, DraftsCurrent, SavesCurrent, AnswersCurrent,
                      DirtyIsOpen, DraftCurrent, Current, storage, page
<1> QED BY <1>1, <1>2, <1>3 DEF Next

\* In every reachable state each base version in the system - of a tab, of a
\* draft, of a save, of an answer - that equals acts.content_version comes with
\* all that is stored, or with the user's consent to overwrite it.
THEOREM VersionsCorrect == Spec => []VersionsAgree
<1> USE TabAssumption, ContentAssumption
<1>1. Init => VersionsAgree
  BY DEF Init, VersionsAgree, TabsCurrent, DraftsCurrent, SavesCurrent, AnswersCurrent,
         DirtyIsOpen, DraftCurrent, Current
<1>2. TypeOK /\ VersionsAgree /\ [Next]_vars => VersionsAgree'
  BY NextAgrees
<1> QED BY <1>1, <1>2, TypeCorrect, PTL DEF Spec

\* No save that carries expected_content_version removes a stored edit its
\* author had not seen, whatever the tabs, users, leases and requests in flight
\* (ActContentService._check_content_conflict and the clients' base versions).
THEOREM SavesKeepEdits == Spec => NoLostUpdate
<1> USE TabAssumption, ContentAssumption
<1>1. ASSUME TypeOK, VersionsAgree, NEW r \in reqs, Commit(r), r.expected # NoVersion
      PROVE  content \ r.waived \subseteq content'
  <2>1. r.expected = version /\ content' = r.data
    BY <1>1 DEF Commit, Accepts
  <2>2. r.stage \in Unanswered
    BY <1>1 DEF Commit, Unanswered
  <2>3. Current(version, r.data \cup r.waived)
    BY <1>1, <2>1, <2>2 DEF VersionsAgree, SavesCurrent
  <2> QED BY <2>1, <2>3 DEF Current
<1>2. TypeOK /\ VersionsAgree /\ [Next]_vars =>
        [\A r \in reqs : Commit(r) /\ r.expected # NoVersion => content \ r.waived \subseteq content']_vars
  BY <1>1
<1> QED BY <1>2, TypeCorrect, VersionsCorrect, PTL DEF Spec, NoLostUpdate

-----------------------------------------------------------------------------
(* Drafts: what a browser keeps, when no two tabs of it have the act open.   *)

OneTabEach == \A s, t \in Tabs : BrowserOf[s] = BrowserOf[t] => s = t

\* What tab t's browser keeps of the act: an open tab has all of the snapshot, a
\* dialog shows the draft it found, and 'local-only' means the snapshot has all.
TabKeeps(t) ==
  LET b == BrowserOf[t] IN
  /\ phase[t] \in OpenPhases => DataOf(snapshot[b]) \subseteq work[t]
  /\ phase[t] = "backupDialog" => asked[t] = backup[b]
  /\ phase[t] = "snapshotDialog" => asked[t] = snapshot[b]
  /\ state[t] = "local-only" => snapshot[b] # NoDraft /\ work[t] \subseteq snapshot[b].data

DraftsKept == \A t \in Tabs : TabKeeps(t)

\* A step of tab t touches no other tab and no other browser's drafts,
OnlyTab(t) ==
  /\ \A x \in Tabs \ {t} : /\ phase'[x] = phase[x] /\ work'[x] = work[x]
                           /\ state'[x] = state[x] /\ asked'[x] = asked[x]
  /\ \A b \in Browsers \ {BrowserOf[t]} : snapshot'[b] = snapshot[b] /\ backup'[b] = backup[b]

\* and drops of its own only what it shows or was asked about.
DropsOwn(t) ==
  LET b == BrowserOf[t] IN Carried(b) \ Carried(b)' \subseteq Answered(t) \cup work'[t]

TabStep(t) == OnlyTab(t) /\ TabKeeps(t)' /\ DropsOwn(t)

LEMMA TabStepKeeps ==
  ASSUME TabAssumption, OneTabEach, DraftsKept, NEW t \in Tabs, TabStep(t)
  PROVE  DraftsKept'
<1>. SUFFICES ASSUME NEW x \in Tabs \ {t} PROVE TabKeeps(x)'
  BY DEF DraftsKept, TabStep
<1>1. BrowserOf[x] \in Browsers \ {BrowserOf[t]}
  BY DEF TabAssumption, OneTabEach
<1>2. TabKeeps(x) /\ OnlyTab(t)
  BY DEF DraftsKept, TabStep
<1> QED BY <1>1, <1>2 DEF TabKeeps, OnlyTab

\* The edits of a draft taken from a tab are those of the tab.
LEMMA DraftableData ==
  ASSUME DraftAssumption, TypeOK, NEW t \in Tabs
  PROVE  /\ Draftable(t) # NoDraft /\ Draftable(t).data = work[t]
         /\ DataOf(Draftable(t)) = work[t]
<1>1. Draftable(t) # NoDraft
  BY DraftableType DEF DraftAssumption
<1>2. Draftable(t).data = work[t]
  BY DEF Draftable
<1> QED BY <1>1, <1>2 DEF DataOf

\* A page that goes away keeps the draft, or rewrites it with all that it shows.
LEMMA PageGoneKeeps ==
  ASSUME TabAssumption, DraftAssumption, TypeOK, VersionsAgree, DraftsKept, NEW t \in Tabs,
         NEW rs, NEW h \in BOOLEAN, NEW u \in BOOLEAN, PageGone(t, rs, h, u)
  PROVE  /\ TabStep(t)
         /\ h /\ state[t] # "saved" => work[t] \subseteq Carried(BrowserOf[t])'
<1> DEFINE b == BrowserOf[t]
<1>1. b \in Browsers
  BY DEF TabAssumption
<1>2. /\ phase'[t] = "closed" /\ state'[t] = "saved" /\ backup' = backup
      /\ \A x \in Tabs \ {t} : /\ phase'[x] = phase[x] /\ work'[x] = work[x]
                               /\ state'[x] = state[x] /\ asked'[x] = asked[x]
  BY DEF PageGone, TypeOK
<1>3. /\ \A c \in Browsers \ {b} : snapshot'[c] = snapshot[c]
      /\ snapshot'[b] = IF h /\ state[t] = "unsaved" THEN Draftable(t) ELSE snapshot[b]
  BY <1>1 DEF PageGone, TypeOK
<1>4. /\ state[t] = "unsaved" => phase[t] \in OpenPhases
      /\ state[t] \in {"saved", "local-only", "unsaved"}
  BY DEF VersionsAgree, DirtyIsOpen, TypeOK
<1>5. TabKeeps(t)
  BY DEF DraftsKept
<1>6. OnlyTab(t)
  BY <1>2, <1>3 DEF OnlyTab
<1>7. TabKeeps(t)'
  BY <1>2 DEF TabKeeps, OpenPhases
<1>8. Carried(b) \subseteq Carried(b)'
  BY <1>2, <1>3, <1>4, <1>5, DraftableData DEF Carried, TabKeeps
<1>9. h /\ state[t] # "saved" => work[t] \subseteq Carried(b)'
  <2>1. CASE state[t] = "unsaved"
    BY <1>3, <2>1, DraftableData DEF Carried
  <2>2. CASE state[t] = "local-only"
    BY <1>3, <1>5, <2>2 DEF Carried, TabKeeps, DataOf
  <2> QED BY <1>4, <2>1, <2>2
<1> QED BY <1>6, <1>7, <1>8, <1>9 DEF TabStep, DropsOwn

\* Loading shows what was chosen, offering leaves what is stored to be chosen.
LEMMA LoadShows ==
  ASSUME TypeOK, NEW t \in Tabs, NEW c, Load(t, c)
  PROVE  /\ phase'[t] = "loaded" /\ c \subseteq work'[t]
         /\ \A x \in Tabs \ {t} : phase'[x] = phase[x] /\ work'[x] = work[x] /\ asked'[x] = asked[x]
BY DEF Load, TypeOK

LEMMA OfferShows ==
  ASSUME TabAssumption, TypeOK, NEW t \in Tabs, NEW c, OfferSnapshot(t, c)
  PROVE  /\ \/ phase'[t] = "loaded" /\ snapshot[BrowserOf[t]] = NoDraft
            \/ phase'[t] = "snapshotDialog" /\ asked'[t] = snapshot[BrowserOf[t]]
         /\ \A x \in Tabs \ {t} : phase'[x] = phase[x] /\ work'[x] = work[x] /\ asked'[x] = asked[x]
<1>1. CASE snapshot[BrowserOf[t]] = NoDraft
  BY <1>1, LoadShows DEF OfferSnapshot
<1>2. CASE snapshot[BrowserOf[t]] # NoDraft
  BY <1>2 DEF OfferSnapshot, TypeOK
<1> QED BY <1>1, <1>2

LEMMA OpeningKeeps ==
  ASSUME TabAssumption, ContentAssumption, DraftAssumption, TypeOK, VersionsAgree, DraftsKept,
         NEW t \in Tabs, Opening(t)
  PROVE  TabStep(t)
<1> USE DEF server, storage
<1> DEFINE b == BrowserOf[t]
<1>0. /\ b \in Browsers /\ TabKeeps(t)
      /\ phase[t] \notin OpenPhases \ {"loaded"} => state[t] = "saved"
  BY DEF TabAssumption, DraftsKept, VersionsAgree, DirtyIsOpen
<1>1. CASE FetchMeta(t) \/ FetchContent(t) \/ Lock(t)
  <2>1. /\ phase[t] \in {"closed", "meta", "fetched"} /\ phase'[t] \in {"meta", "fetched", "locked"}
        /\ \A x \in Tabs \ {t} : phase'[x] = phase[x] /\ work'[x] = work[x]
        /\ UNCHANGED <<storage, state, asked>>
    BY <1>1 DEF FetchMeta, FetchContent, Lock, TypeOK
  <2>2. state'[t] = "saved"
    BY <1>0, <2>1 DEF OpenPhases
  <2> QED BY <1>0, <2>1, <2>2 DEF TabStep, OnlyTab, TabKeeps, DropsOwn, Carried, OpenPhases
<1>2. CASE LockRefused(t)
  BY <1>2, PageGoneKeeps DEF LockRefused
<1>3. CASE Apply(t)
  <2>1. phase[t] = "locked" /\ UNCHANGED <<snapshot, backup, state>>
    BY <1>3 DEF Apply
  <2>2. state[t] = "saved"
    BY <1>0, <2>1 DEF OpenPhases
  <2>3. CASE backup[b] = NoDraft
    <3>1. OfferSnapshot(t, work[t])
      BY <1>3, <2>3 DEF Apply
    <3> QED BY <1>0, <2>1, <2>2, <3>1, OfferShows
            DEF TabStep, OnlyTab, TabKeeps, DropsOwn, Carried, OpenPhases, DataOf
  <2>4. CASE backup[b] # NoDraft
    <3>1. /\ phase'[t] = "backupDialog" /\ asked'[t] = backup[b] /\ work' = work
          /\ \A x \in Tabs \ {t} : phase'[x] = phase[x] /\ asked'[x] = asked[x]
      BY <1>3, <2>4 DEF Apply, TypeOK
    <3> QED BY <1>0, <2>1, <2>2, <3>1
            DEF TabStep, OnlyTab, TabKeeps, DropsOwn, Carried, OpenPhases
  <2> QED BY <2>3, <2>4
<1>4. ASSUME NEW a \in Answers, AnswerBackup(t, a)
      PROVE  TabStep(t)
  <2>1. /\ phase[t] = "backupDialog" /\ UNCHANGED <<snapshot, state>>
        /\ backup'[b] \in {backup[b], NoDraft}
        /\ \A c \in Browsers \ {b} : backup'[c] = backup[c]
    BY <1>0, <1>4 DEF AnswerBackup, TypeOK
  <2>2. state[t] = "saved" /\ asked[t] = backup[b]
    BY <1>0, <2>1 DEF OpenPhases, TabKeeps
  <2>3. PICK c : OfferSnapshot(t, c)
    BY <1>4 DEF AnswerBackup
  <2>4. OnlyTab(t) /\ TabKeeps(t)'
    BY <1>0, <2>1, <2>2, <2>3, OfferShows DEF OnlyTab, TabKeeps, OpenPhases, DataOf
  <2>5. DropsOwn(t)
    BY <2>1, <2>2 DEF DropsOwn, Carried, Answered
  <2> QED BY <2>4, <2>5 DEF TabStep
<1>5. ASSUME NEW a \in Answers, AnswerSnapshot(t, a)
      PROVE  TabStep(t)
  <2>1. /\ phase[t] = "snapshotDialog" /\ UNCHANGED state
        /\ backup'[b] \in {backup[b], snapshot[b]}
        /\ snapshot'[b] = IF a = "restore" THEN snapshot[b] ELSE NoDraft
        /\ \A c \in Browsers \ {b} : snapshot'[c] = snapshot[c] /\ backup'[c] = backup[c]
    BY <1>0, <1>5 DEF AnswerSnapshot, BackupAfter, TypeOK
  <2>2. state[t] = "saved" /\ asked[t] = snapshot[b] /\ asked[t] # NoDraft
    BY <1>0, <2>1 DEF OpenPhases, TabKeeps, TypeOK, Dialogs
  <2>3. Load(t, IF a = "restore" THEN asked[t].data ELSE work[t])
    BY <1>5 DEF AnswerSnapshot
  <2>4. /\ phase'[t] = "loaded" /\ (a = "restore" => asked[t].data \subseteq work'[t])
        /\ \A x \in Tabs \ {t} : phase'[x] = phase[x] /\ work'[x] = work[x] /\ asked'[x] = asked[x]
    BY <2>3, LoadShows
  <2>5. OnlyTab(t) /\ TabKeeps(t)'
    BY <1>0, <2>1, <2>2, <2>4 DEF OnlyTab, TabKeeps, OpenPhases, DataOf
  <2>6. DropsOwn(t)
    BY <2>1, <2>2 DEF DropsOwn, Carried, Answered
  <2> QED BY <2>5, <2>6 DEF TabStep
<1>6. ASSUME NEW n \in BOOLEAN, StartTracking(t, n)
      PROVE  TabStep(t)
  <2>1. /\ phase[t] = "loaded" /\ phase'[t] = "editing"
        /\ \A x \in Tabs \ {t} : phase'[x] = phase[x] /\ state'[x] = state[x]
        /\ UNCHANGED <<backup, work, asked>>
        /\ \A c \in Browsers \ {b} : snapshot'[c] = snapshot[c]
    BY <1>0, <1>6 DEF StartTracking, TypeOK
  <2>2. IF restored[t] THEN snapshot'[b] = Draftable(t)
        ELSE snapshot'[b] = snapshot[b] /\ state'[t] \in {"saved", "unsaved"}
    BY <1>0, <1>6, <2>1 DEF StartTracking, TypeOK
  <2>3. OnlyTab(t) /\ TabKeeps(t)'
    BY <1>0, <2>1, <2>2, DraftableData DEF OnlyTab, TabKeeps, OpenPhases, DataOf
  <2>4. DropsOwn(t)
    BY <1>0, <2>1, <2>2, DraftableData DEF DropsOwn, Carried, TabKeeps, OpenPhases
  <2> QED BY <2>3, <2>4 DEF TabStep
<1> QED BY <1>1, <1>2, <1>3, <1>4, <1>5, <1>6 DEF Opening

\* A step that leaves every tab and every draft as it is, but for the phase of an
\* open tab, keeps all.
LEMMA QuietKeeps ==
  ASSUME TypeOK, DraftsKept, NEW t \in Tabs, UNCHANGED <<storage, work, state, asked>>,
         \A x \in Tabs \ {t} : phase'[x] = phase[x],
         phase'[t] # phase[t] => phase[t] \in OpenPhases /\ phase'[t] \in OpenPhases
  PROVE  TabStep(t)
<1>1. TabKeeps(t)
  BY DEF DraftsKept
<1>2. OnlyTab(t)
  BY DEF OnlyTab, storage
<1>3. TabKeeps(t)'
  BY <1>1 DEF TabKeeps, storage, OpenPhases
<1>4. DropsOwn(t)
  BY DEF DropsOwn, Carried, storage
<1> QED BY <1>2, <1>3, <1>4 DEF TabStep

LEMMA WorkingKeeps ==
  ASSUME TabAssumption, ContentAssumption, DraftAssumption, TypeOK, VersionsAgree, DraftsKept,
         NEW t \in Tabs, Working(t)
  PROVE  TabStep(t)
<1> DEFINE b == BrowserOf[t]
<1>0. b \in Browsers /\ TabKeeps(t)
  BY DEF TabAssumption, DraftsKept
<1>1. ASSUME NEW e \in Edits, Edit(t, e)
      PROVE  TabStep(t)
  <2>1. /\ work'[t] = work[t] \cup {e} /\ state'[t] = "unsaved"
        /\ \A x \in Tabs \ {t} : work'[x] = work[x] /\ state'[x] = state[x]
        /\ UNCHANGED <<snapshot, backup, phase, asked>>
    BY <1>1 DEF Edit, TypeOK, storage
  <2> QED BY <1>0, <2>1 DEF TabStep, OnlyTab, TabKeeps, DropsOwn, Carried
<1>2. CASE WriteSnapshot(t)
  <2>1. /\ phase[t] \in OpenPhases /\ snapshot'[b] = Draftable(t) /\ state'[t] = "local-only"
        /\ \A x \in Tabs \ {t} : state'[x] = state[x]
        /\ \A c \in Browsers \ {b} : snapshot'[c] = snapshot[c]
        /\ UNCHANGED <<backup, phase, work, asked>>
    BY <1>0, <1>2 DEF WriteSnapshot, TypeOK
  <2> QED BY <1>0, <2>1, DraftableData DEF TabStep, OnlyTab, TabKeeps, DropsOwn, Carried, OpenPhases
<1>3. ASSUME UNCHANGED <<storage, page>>
      PROVE  TabStep(t)
  BY <1>3, QuietKeeps DEF page
<1> QED BY <1>1, <1>2, <1>3 DEF Working, SendAuto, SendByUser, SendRestore

LEMMA LeavingKeeps ==
  ASSUME TabAssumption, ContentAssumption, DraftAssumption, TypeOK, VersionsAgree, DraftsKept,
         NEW t \in Tabs, Leaving(t)
  PROVE  TabStep(t)
<1>1. CASE Exit(t) \/ UnlockOnExit(t)
  <2>1. /\ phase[t] \in OpenPhases /\ phase'[t] \in OpenPhases
        /\ \A x \in Tabs \ {t} : phase'[x] = phase[x]
        /\ UNCHANGED <<storage, work, state, asked>>
    BY <1>1 DEF Exit, UnlockOnExit, TypeOK, OpenPhases
  <2> QED BY <2>1, QuietKeeps
<1>2. CASE SendExit(t)
  BY <1>2, QuietKeeps DEF SendExit, page
<1>3. CASE Redirect(t) \/ Crash(t)
  BY <1>3, PageGoneKeeps DEF Redirect, Crash
<1>4. CASE Close(t)
  <2> DEFINE beacon == phase[t] \in {"locked", "backupDialog", "snapshotDialog", "loaded", "editing"}
  <2>1. beacon \in BOOLEAN
    OBVIOUS
  <2>2. PageGone(t, reqs, TRUE, beacon)
    BY <1>4 DEF Close
  <2> HIDE DEF beacon
  <2> QED BY <2>1, <2>2, PageGoneKeeps
<1> QED BY <1>1, <1>2, <1>3, <1>4 DEF Leaving

\* A save that failed: the page stays, or goes with its handlers run.
LEMMA FailedStays ==
  ASSUME TypeOK, NEW r, NEW rs, NEW cause, SaveFailed(r, rs, cause)
  PROVE  \/ \E u \in BOOLEAN : PageGone(r.tab, rs, TRUE, u)
         \/ /\ reqs' = rs
            /\ UNCHANGED <<server, storage, work, base, state, epoch, asked, restored>>
            /\ \/ phase' = phase
               \/ r.kind = "exit" /\ phase' = [phase EXCEPT ![r.tab] = "leaving"]
<1>1. CASE r.kind = "default" \/ (r.kind = "manual" /\ cause = "lockLost")
  <2> DEFINE beacon == phase[r.tab] \in {"loaded", "editing"}
  <2>1. beacon \in BOOLEAN
    OBVIOUS
  <2>2. CASE PageGone(r.tab, rs, TRUE, beacon)
    <3> HIDE DEF beacon
    <3> QED BY <2>1, <2>2
  <2>3. CASE ~PageGone(r.tab, rs, TRUE, beacon)
    BY <1>1, <2>3 DEF SaveFailed
  <2> QED BY <2>2, <2>3
<1>2. CASE ~(r.kind = "default" \/ (r.kind = "manual" /\ cause = "lockLost"))
  BY <1>2 DEF SaveFailed
<1> QED BY <1>1, <1>2

LEMMA FailedKeeps ==
  ASSUME TabAssumption, DraftAssumption, TypeOK, VersionsAgree, DraftsKept, NEW r \in reqs, r.live,
         NEW rs, NEW cause, SaveFailed(r, rs, cause)
  PROVE  TabStep(r.tab)
<1>0. r.tab \in Tabs /\ phase[r.tab] \in OpenPhases
  BY DEF TypeOK, Request, VersionsAgree, AnswersCurrent
<1>1. CASE \E u \in BOOLEAN : PageGone(r.tab, rs, TRUE, u)
  BY <1>0, <1>1, PageGoneKeeps
<1>2. CASE /\ UNCHANGED <<storage, work, state, asked>>
           /\ \/ phase' = phase
              \/ phase' = [phase EXCEPT ![r.tab] = "leaving"]
  <2>1. /\ \A x \in Tabs \ {r.tab} : phase'[x] = phase[x]
        /\ phase'[r.tab] \in {phase[r.tab], "leaving"}
    BY <1>0, <1>2 DEF TypeOK
  <2> QED BY <1>0, <1>2, <2>1, QuietKeeps DEF OpenPhases
<1> QED BY <1>1, <1>2, FailedStays

LEMMA HandlingKeeps ==
  ASSUME TabAssumption, ContentAssumption, DraftAssumption, TypeOK, VersionsAgree, DraftsKept,
         NEW r \in reqs, Handling(r)
  PROVE  TabStep(r.tab)
<1> DEFINE t == r.tab
           b == BrowserOf[t]
<1>0. t \in Tabs /\ b \in Browsers /\ TabKeeps(t)
  BY DEF TypeOK, Request, TabAssumption, DraftsKept
<1>1. CASE Guard(r) \/ CopyForRestore(r) \/ Commit(r) \/ Reject(r)
  <2>1. UNCHANGED <<storage, page>>
    BY <1>1 DEF Guard, CopyForRestore, Commit, Reject
  <2> QED BY <1>0, <2>1, QuietKeeps DEF page
<1>2. CASE OnStored(r)
  <2>1. /\ phase[t] \in OpenPhases /\ phase'[t] \in OpenPhases
        /\ \A x \in Tabs \ {t} : phase'[x] = phase[x]
    <3>1. phase[t] \in OpenPhases
      BY <1>2 DEF OnStored, VersionsAgree, AnswersCurrent
    <3> QED BY <1>0, <1>2, <3>1 DEF OnStored, TypeOK, OpenPhases
  <2>2. /\ \A x \in Tabs \ {t} : state'[x] = state[x]
        /\ \A c \in Browsers \ {b} : snapshot'[c] = snapshot[c]
        /\ UNCHANGED <<backup, work, asked>>
    BY <1>0, <1>2 DEF OnStored, TypeOK
  <2>3. \/ state'[t] = "saved" /\ snapshot'[b] = NoDraft
        \/ state'[t] = state[t] /\ snapshot'[b] = snapshot[b]
    BY <1>0, <1>2 DEF OnStored, DropsDraft, TypeOK
  <2>4. OnlyTab(t)
    BY <2>1, <2>2 DEF OnlyTab
  <2>5. TabKeeps(t)'
    BY <1>0, <2>1, <2>2, <2>3 DEF TabKeeps, OpenPhases, DataOf
  <2>6. DropsOwn(t)
    BY <1>0, <2>1, <2>2, <2>3 DEF DropsOwn, TabKeeps, Carried
  <2> QED BY <2>4, <2>5, <2>6 DEF TabStep
<1>3. CASE OnConflict(r) \/ OnLockLost(r) \/ OnNoAnswer(r)
  BY <1>3, FailedKeeps DEF OnConflict, OnLockLost, OnNoAnswer
<1> QED BY <1>1, <1>2, <1>3 DEF Handling

\* Every step is the step of some tab, or leaves the drafts and the tabs alone.
LEMMA NextKeeps ==
  ASSUME TabAssumption, ContentAssumption, DraftAssumption, TypeOK, VersionsAgree, DraftsKept,
         [Next]_vars
  PROVE  (\E t \in Tabs : TabStep(t)) \/ UNCHANGED <<storage, page>>
<1>1. ASSUME NEW t \in Tabs, Opening(t) \/ Working(t) \/ Leaving(t)
      PROVE  TabStep(t)
  BY <1>1, OpeningKeeps, WorkingKeeps, LeavingKeeps
<1>2. ASSUME NEW r \in reqs, Handling(r)
      PROVE  r.tab \in Tabs /\ TabStep(r.tab)
  BY <1>2, HandlingKeeps DEF TypeOK, Request
<1> QED BY <1>1, <1>2 DEF Next, Expire, vars

\* When no two tabs of a browser have the act open, an open tab shows all that the
\* snapshot has, and a dialog shows the draft that its answer is about.
LEMMA DraftsCorrect ==
  ASSUME OneTabEach
  PROVE  Spec => []DraftsKept
<1> USE TabAssumption, ContentAssumption, DraftAssumption
<1>1. Init => DraftsKept
  BY DEF Init, DraftsKept, TabKeeps, OpenPhases
<1>2. TypeOK /\ VersionsAgree /\ DraftsKept /\ [Next]_vars => DraftsKept'
  <2> SUFFICES ASSUME TypeOK, VersionsAgree, DraftsKept, [Next]_vars PROVE DraftsKept'
    OBVIOUS
  <2>1. ASSUME NEW t \in Tabs, TabStep(t) PROVE DraftsKept'
    BY <2>1, TabStepKeeps
  <2>2. CASE UNCHANGED <<storage, page>>
    BY <2>2 DEF DraftsKept, TabKeeps, storage, page
  <2> QED BY <2>1, <2>2, NextKeeps
<1> QED BY <1>1, <1>2, TypeCorrect, VersionsCorrect, PTL DEF Spec

\* The yellow indicator tells the truth, however saves, answers, losses and page
\* loads interleave, as long as a browser has one tab with the act
\* (_setState, _markAsSaved, finalizeDbSave).
THEOREM LocalOnlyIsTrue ==
  ASSUME OneTabEach
  PROVE  Spec => []LocalOnlyHasDraft
<1>1. DraftsKept => LocalOnlyHasDraft
  BY DEF DraftsKept, TabKeeps, LocalOnlyHasDraft
<1> QED BY <1>1, DraftsCorrect, PTL

\* Then no step drops an edit from localStorage that is neither shown by a tab of
\* the browser nor part of the draft its user is being asked about.
THEOREM DraftsSurvive ==
  ASSUME OneTabEach
  PROVE  Spec => DraftSurvives
<1> USE TabAssumption, ContentAssumption, DraftAssumption
<1> DEFINE Kept(b) ==
      Carried(b) \ Carried(b)' \subseteq
        Stored \cup UNION {IF BrowserOf[t] # b THEN {} ELSE Answered(t) \cup work'[t] : t \in Tabs}
<1>1. ASSUME TypeOK, VersionsAgree, DraftsKept, [Next]_vars, NEW b \in Browsers
      PROVE  Kept(b)
  <2>1. ASSUME NEW t \in Tabs, TabStep(t) PROVE Kept(b)
    <3>1. CASE BrowserOf[t] = b
      <4>1. Carried(b) \ Carried(b)' \subseteq Answered(t) \cup work'[t]
        BY <2>1, <3>1 DEF TabStep, DropsOwn
      <4> QED BY <3>1, <4>1
    <3>2. CASE BrowserOf[t] # b
      BY <2>1, <3>2 DEF TabStep, OnlyTab, Carried
    <3> QED BY <3>1, <3>2
  <2>2. CASE UNCHANGED <<storage, page>>
    BY <2>2 DEF Carried, storage
  <2> QED BY <1>1, <2>1, <2>2, NextKeeps
<1>2. TypeOK /\ VersionsAgree /\ DraftsKept /\ [Next]_vars => [\A b \in Browsers : Kept(b)]_vars
  BY <1>1
<1> QED BY <1>2, TypeCorrect, VersionsCorrect, DraftsCorrect, PTL DEF Spec, DraftSurvives

\* And unless the browser dies, whatever becomes of the saves on the way, each edit
\* of a dirty tab is in the browser's draft once the page has gone
\* (beforeunload handler, _initiateExit, _handleSaveExportError).
THEOREM LeavingKeepsWork ==
  ASSUME OneTabEach
  PROVE  Spec => NothingLostOnLeaving
<1> USE TabAssumption, ContentAssumption, DraftAssumption
<1>1. ASSUME TypeOK, VersionsAgree, DraftsKept, Next, NEW t \in Tabs,
             state[t] # "saved", phase'[t] = "closed", t \notin Crashing
      PROVE  work[t] \subseteq Carried(BrowserOf[t])'
  <2>1. phase[t] \in OpenPhases \ {"loaded"} /\ phase[t] # "closed"
    BY <1>1 DEF VersionsAgree, DirtyIsOpen, OpenPhases
  <2>2. SUFFICES \E rs, u : u \in BOOLEAN /\ PageGone(t, rs, TRUE, u)
    BY <1>1, <2>2, PageGoneKeeps
  <2>3. ASSUME NEW x \in Tabs, Opening(x)
        PROVE  FALSE
    <3>1. x = t
      <4>1. CASE LockRefused(x)
        BY <1>1, <2>1, <4>1 DEF LockRefused, PageGone, TypeOK
      <4>2. CASE ~LockRefused(x)
        <5>1. TabStep(x)
          BY <1>1, <2>3, OpeningKeeps
        <5> QED BY <1>1, <2>1, <5>1 DEF TabStep, OnlyTab
      <4> QED BY <4>1, <4>2
    <3>2. phase[t] \in {"closed", "meta", "fetched", "locked", "backupDialog", "snapshotDialog", "loaded"}
      BY <2>3, <3>1 DEF Opening, FetchMeta, FetchContent, Lock, LockRefused, Apply, AnswerBackup,
         AnswerSnapshot, StartTracking
    <3> QED BY <2>1, <3>2 DEF OpenPhases
  <2>4. ASSUME NEW x \in Tabs, Working(x)
        PROVE  FALSE
    BY <1>1, <2>1, <2>4 DEF Working, Edit, WriteSnapshot, SendAuto, SendByUser, SendRestore, page
  <2>5. ASSUME NEW x \in Tabs, Leaving(x)
        PROVE  \E rs, u : u \in BOOLEAN /\ PageGone(t, rs, TRUE, u)
    <3>1. x = t
      <4>1. TabStep(x)
        BY <1>1, <2>5, LeavingKeeps
      <4> QED BY <1>1, <2>1, <4>1 DEF TabStep, OnlyTab
    <3>2. CASE Redirect(t)
      BY <3>2 DEF Redirect
    <3>3. CASE Close(t)
      <4> DEFINE beacon == phase[t] \in {"locked", "backupDialog", "snapshotDialog", "loaded", "editing"}
      <4>1. beacon \in BOOLEAN
        OBVIOUS
      <4>2. PageGone(t, reqs, TRUE, beacon)
        BY <3>3 DEF Close
      <4> HIDE DEF beacon
      <4> QED BY <4>1, <4>2
    <3>4. CASE Exit(t) \/ SendExit(t) \/ UnlockOnExit(t)
      BY <1>1, <2>1, <3>4 DEF Exit, SendExit, UnlockOnExit, page, TypeOK
    <3> QED BY <1>1, <2>5, <3>1, <3>2, <3>3, <3>4 DEF Leaving, Crash
  <2>6. ASSUME NEW r \in reqs, Handling(r)
        PROVE  \E rs, u : u \in BOOLEAN /\ PageGone(t, rs, TRUE, u)
    <3>1. r.tab \in Tabs
      BY <1>1 DEF TypeOK, Request
    <3>2. r.tab = t
      <4>1. TabStep(r.tab)
        BY <1>1, <2>6, HandlingKeeps
      <4> QED BY <1>1, <2>1, <3>1, <4>1 DEF TabStep, OnlyTab
    <3>3. CASE Guard(r) \/ CopyForRestore(r) \/ Commit(r) \/ Reject(r)
      BY <1>1, <2>1, <3>3 DEF Guard, CopyForRestore, Commit, Reject, page
    <3>4. CASE OnStored(r)
      BY <1>1, <2>1, <3>2, <3>4 DEF OnStored, TypeOK
    <3>5. ASSUME NEW rs, NEW cause, SaveFailed(r, rs, cause)
          PROVE  \E u \in BOOLEAN : PageGone(t, rs, TRUE, u)
      <4>1. phase'[t] = phase[t] \/ phase'[t] = "leaving" \/ \E u \in BOOLEAN : PageGone(t, rs, TRUE, u)
        <5>1. TypeOK /\ phase \in [Tabs -> Phases]
          BY <1>1 DEF TypeOK
        <5>2. \/ \E u \in BOOLEAN : PageGone(r.tab, rs, TRUE, u)
              \/ phase' = phase
              \/ phase' = [phase EXCEPT ![r.tab] = "leaving"]
          BY <3>5, <5>1, FailedStays
        <5> QED BY <3>2, <5>1, <5>2
      <4> QED BY <1>1, <2>1, <4>1
    <3> QED BY <2>6, <3>3, <3>4, <3>5 DEF Handling, OnConflict, OnLockLost, OnNoAnswer
  <2>7. CASE Expire
    BY <1>1, <2>1, <2>7 DEF Expire, page
  <2> QED BY <1>1, <2>3, <2>4, <2>5, <2>6, <2>7 DEF Next
<1>2. TypeOK /\ VersionsAgree /\ DraftsKept /\ [Next]_vars =>
        [\A t \in Tabs : state[t] # "saved" /\ phase'[t] = "closed" /\ t \notin Crashing =>
           work[t] \cap Edits \subseteq Stored \cup Carried(BrowserOf[t])']_vars
  BY <1>1
<1> QED BY <1>2, TypeCorrect, VersionsCorrect, DraftsCorrect, PTL DEF Spec, NothingLostOnLeaving

-----------------------------------------------------------------------------
(* The white indicator, for an act that has a tree.                          *)

HasData(d) == d # NoDraft => d.data # {}

\* Once an act has a tree, nothing in the system is without one, and no default
\* structure is on its way.
HasTree ==
  /\ content # {} /\ {} \notin archive
  /\ \A r \in reqs : r.kind # "default" /\ r.data # {} /\ (r.stage = "copied" => r.pre # {})
  /\ \A b \in Browsers : HasData(snapshot[b]) /\ HasData(backup[b])
  /\ \A t \in Tabs : /\ HasData(asked[t])
                     /\ phase[t] \notin {"closed", "meta"} => work[t] # {}

\* A request that was there already, perhaps heard of no more.
Echo(r) ==
  \/ r \in reqs
  \/ /\ ~r.live
     /\ \E q \in reqs : /\ r.kind = q.kind /\ r.data = q.data
                        /\ r.stage = q.stage /\ r.pre = q.pre

LEMMA UnheardEcho ==
  ASSUME NEW t \in Tabs, NEW rs \in SUBSET Request, \A r \in rs : Echo(r),
         NEW r \in Unheard(t, rs)
  PROVE  Echo(r) /\ (r.live => r \in reqs /\ r.tab # t)
<1>1. CASE r \in {q \in rs : q.tab # t \/ ~q.live}
  BY <1>1 DEF Echo
<1>2. CASE r \in {[q EXCEPT !.live = FALSE] :
                  q \in {q \in rs : q.tab = t /\ q.live /\ q.stage \in Unanswered}}
  <2>1. PICK q \in rs : q.live /\ r = [q EXCEPT !.live = FALSE]
    BY <1>2
  <2>2. /\ r.kind = q.kind /\ r.data = q.data /\ r.stage = q.stage /\ r.pre = q.pre /\ ~r.live
    BY <2>1 DEF Request
  <2>3. q \in reqs
    BY <2>1 DEF Echo
  <2> QED BY <2>2, <2>3 DEF Echo
<1> QED BY <1>1, <1>2 DEF Unheard

\* A step of a tab that shows, keeps and sends nothing empty.
LEMMA TreeTabStep ==
  ASSUME TabAssumption, TypeOK, HasTree, NEW t \in Tabs, UNCHANGED <<content, archive>>,
         \A x \in Tabs \ {t} : phase'[x] = phase[x] /\ work'[x] = work[x] /\ asked'[x] = asked[x],
         phase'[t] \notin {"closed", "meta"} => work'[t] # {},
         asked'[t] \in {asked[t], NoDraft, snapshot[BrowserOf[t]], backup[BrowserOf[t]]},
         \A b \in Browsers : \/ snapshot'[b] \in {snapshot[b], NoDraft}
                             \/ work[t] # {} /\ snapshot'[b] = Draftable(t),
         \A b \in Browsers : backup'[b] \in {backup[b], snapshot[b], NoDraft},
         \A r \in reqs' : Echo(r) \/ (r.kind # "default" /\ r.data # {} /\ r.stage # "copied")
  PROVE  HasTree'
<1>1. HasData(asked'[t])
  BY DEF HasTree, HasData, TabAssumption
<1>2. \A x \in Tabs : HasData(asked'[x]) /\ (phase'[x] \notin {"closed", "meta"} => work'[x] # {})
  BY <1>1 DEF HasTree
<1>3. \A b \in Browsers : HasData(snapshot'[b]) /\ HasData(backup'[b])
  <2>1. Draftable(t).data = work[t]
    BY DEF Draftable
  <2> QED BY <2>1 DEF HasTree, HasData
<1>4. \A r \in reqs' : r.kind # "default" /\ r.data # {} /\ (r.stage = "copied" => r.pre # {})
  BY DEF HasTree, Echo
<1>5. content' # {} /\ {} \notin archive'
  BY DEF HasTree
<1> QED BY <1>2, <1>3, <1>4, <1>5 DEF HasTree, HasData

LEMMA PageGoneTree ==
  ASSUME TabAssumption, TypeOK, VersionsAgree, HasTree, NEW t \in Tabs,
         NEW rs \in SUBSET Request, \A r \in rs : Echo(r),
         NEW h \in BOOLEAN, NEW u \in BOOLEAN, PageGone(t, rs, h, u)
  PROVE  HasTree'
<1>1. BrowserOf[t] \in Browsers
  BY DEF TabAssumption
<1>2. /\ phase'[t] = "closed" /\ asked'[t] = NoDraft
      /\ \A x \in Tabs \ {t} : phase'[x] = phase[x] /\ work'[x] = work[x] /\ asked'[x] = asked[x]
      /\ UNCHANGED <<content, archive, backup>>
  BY DEF PageGone, TypeOK
<1>3. state[t] = "unsaved" => work[t] # {}
  BY DEF VersionsAgree, DirtyIsOpen, HasTree, OpenPhases
<1>4. \A b \in Browsers : \/ snapshot'[b] \in {snapshot[b], NoDraft}
                          \/ work[t] # {} /\ snapshot'[b] = Draftable(t)
  BY <1>1, <1>3 DEF PageGone, TypeOK
<1>5. \A r \in reqs' : Echo(r)
  BY UnheardEcho DEF PageGone
<1> QED BY <1>2, <1>4, <1>5, TreeTabStep

LEMMA LoadTree ==
  ASSUME TypeOK, NEW t \in Tabs, NEW c, c # {}, Load(t, c)
  PROVE  /\ phase'[t] = "loaded" /\ work'[t] = c /\ asked'[t] = NoDraft /\ reqs' = reqs
         /\ \A x \in Tabs \ {t} : phase'[x] = phase[x] /\ work'[x] = work[x] /\ asked'[x] = asked[x]
BY DEF Load, TypeOK

LEMMA OfferTree ==
  ASSUME TypeOK, NEW t \in Tabs, NEW c, c # {}, OfferSnapshot(t, c)
  PROVE  /\ phase'[t] \in {"loaded", "snapshotDialog"} /\ work'[t] = c /\ reqs' = reqs
         /\ asked'[t] \in {NoDraft, snapshot[BrowserOf[t]]}
         /\ \A x \in Tabs \ {t} : phase'[x] = phase[x] /\ work'[x] = work[x] /\ asked'[x] = asked[x]
<1>1. CASE snapshot[BrowserOf[t]] = NoDraft
  BY <1>1, LoadTree DEF OfferSnapshot
<1>2. CASE snapshot[BrowserOf[t]] # NoDraft
  BY <1>2 DEF OfferSnapshot, TypeOK
<1> QED BY <1>1, <1>2

LEMMA OpeningTree ==
  ASSUME TabAssumption, TypeOK, VersionsAgree, HasTree, NEW t \in Tabs, Opening(t)
  PROVE  HasTree'
<1> USE DEF server, storage
<1> DEFINE b == BrowserOf[t]
<1>0. /\ b \in Browsers /\ content # {} /\ (phase[t] \notin {"closed", "meta"} => work[t] # {})
      /\ reqs \in SUBSET Request /\ \A r \in reqs : Echo(r)
  BY DEF TabAssumption, HasTree, TypeOK, Echo
<1>1. CASE FetchMeta(t)
  <2>1. /\ phase'[t] = "meta" /\ \A x \in Tabs \ {t} : phase'[x] = phase[x]
        /\ UNCHANGED <<content, archive, reqs, snapshot, backup, work, asked>>
    BY <1>1 DEF FetchMeta, TypeOK
  <2> QED BY <1>0, <2>1, TreeTabStep
<1>2. CASE FetchContent(t)
  <2>1. /\ work'[t] = content
        /\ \A x \in Tabs \ {t} : phase'[x] = phase[x] /\ work'[x] = work[x]
        /\ UNCHANGED <<content, archive, reqs, snapshot, backup, asked>>
    BY <1>2 DEF FetchContent, TypeOK
  <2> QED BY <1>0, <2>1, TreeTabStep
<1>3. CASE Lock(t)
  <2>1. /\ phase[t] = "fetched"
        /\ \A x \in Tabs \ {t} : phase'[x] = phase[x]
        /\ UNCHANGED <<content, archive, reqs, snapshot, backup, work, asked>>
    BY <1>3 DEF Lock, TypeOK
  <2> QED BY <1>0, <2>1, TreeTabStep
<1>4. CASE LockRefused(t)
  BY <1>0, <1>4, PageGoneTree DEF LockRefused
<1>5. CASE Apply(t)
  <2>1. phase[t] = "locked" /\ UNCHANGED <<content, archive, snapshot, backup>>
    BY <1>5 DEF Apply
  <2>2. work[t] # {}
    BY <1>0, <2>1
  <2>3. CASE backup[b] = NoDraft
    <3>1. OfferSnapshot(t, work[t])
      BY <1>5, <2>3 DEF Apply
    <3> HIDE DEF b
    <3>2. /\ work'[t] = work[t] /\ reqs' = reqs /\ asked'[t] \in {NoDraft, snapshot[BrowserOf[t]]}
          /\ \A x \in Tabs \ {t} : phase'[x] = phase[x] /\ work'[x] = work[x] /\ asked'[x] = asked[x]
      BY <2>2, <3>1, OfferTree
    <3> QED BY <1>0, <2>1, <2>2, <3>2, TreeTabStep
  <2>4. CASE backup[b] # NoDraft
    <3>1. /\ asked'[t] = backup[b] /\ work' = work /\ reqs' = reqs
          /\ \A x \in Tabs \ {t} : phase'[x] = phase[x] /\ asked'[x] = asked[x]
      BY <1>5, <2>4 DEF Apply, TypeOK
    <3> QED BY <1>0, <2>1, <2>2, <3>1, TreeTabStep
  <2> QED BY <2>3, <2>4
<1>6. ASSUME NEW a \in Answers, AnswerBackup(t, a)
      PROVE  HasTree'
  <2>1. /\ phase[t] = "backupDialog" /\ UNCHANGED <<content, archive, snapshot>>
        /\ \A c \in Browsers : backup'[c] \in {backup[c], NoDraft}
    BY <1>0, <1>6 DEF AnswerBackup, TypeOK
  <2>2. work[t] # {} /\ asked[t].data # {}
    BY <1>0, <2>1 DEF HasTree, HasData, TypeOK, Dialogs
  <2>3. PICK c : c # {} /\ OfferSnapshot(t, c)
    BY <1>6, <2>2 DEF AnswerBackup
  <2>4. /\ work'[t] # {} /\ reqs' = reqs /\ asked'[t] \in {NoDraft, snapshot[BrowserOf[t]]}
        /\ \A x \in Tabs \ {t} : phase'[x] = phase[x] /\ work'[x] = work[x] /\ asked'[x] = asked[x]
    BY <2>3, OfferTree
  <2> QED BY <1>0, <2>1, <2>4, TreeTabStep
<1>7. ASSUME NEW a \in Answers, AnswerSnapshot(t, a)
      PROVE  HasTree'
  <2>1. /\ phase[t] = "snapshotDialog" /\ UNCHANGED <<content, archive>>
        /\ \A c \in Browsers : /\ backup'[c] \in {backup[c], snapshot[c]}
                               /\ snapshot'[c] \in {snapshot[c], NoDraft}
    BY <1>0, <1>7 DEF AnswerSnapshot, BackupAfter, TypeOK
  <2>2. work[t] # {} /\ asked[t].data # {}
    BY <1>0, <2>1 DEF HasTree, HasData, TypeOK, Dialogs
  <2>3. PICK c : c # {} /\ Load(t, c)
    BY <1>7, <2>2 DEF AnswerSnapshot
  <2>4. /\ work'[t] # {} /\ reqs' = reqs /\ asked'[t] = NoDraft
        /\ \A x \in Tabs \ {t} : phase'[x] = phase[x] /\ work'[x] = work[x] /\ asked'[x] = asked[x]
    BY <2>3, LoadTree
  <2> QED BY <1>0, <2>1, <2>4, TreeTabStep
<1>8. ASSUME NEW n \in BOOLEAN, StartTracking(t, n)
      PROVE  HasTree'
  <2>1. /\ phase[t] = "loaded" /\ \A x \in Tabs \ {t} : phase'[x] = phase[x]
        /\ UNCHANGED <<content, archive, reqs, backup, work, asked>>
        /\ \A c \in Browsers : snapshot'[c] \in {snapshot[c], Draftable(t)}
    BY <1>0, <1>8 DEF StartTracking, TypeOK
  <2> QED BY <1>0, <2>1, TreeTabStep
<1> QED BY <1>1, <1>2, <1>3, <1>4, <1>5, <1>6, <1>7, <1>8 DEF Opening

\* A save of what an open tab shows has a tree.
LEMMA SendTree ==
  ASSUME TabAssumption, TypeOK, HasTree, NEW t \in Tabs, NEW k, k # "default",
         phase[t] \in OpenPhases, reqs' = reqs \cup {Put(t, k)}, UNCHANGED <<server, storage, page>>
  PROVE  HasTree'
<1>1. work[t] # {}
  BY DEF HasTree, OpenPhases
<1>2. Put(t, k).kind = k /\ Put(t, k).data = work[t] /\ Put(t, k).stage = "sent"
  BY DEF Put
<1>3. \A r \in reqs' : Echo(r) \/ (r.kind # "default" /\ r.data # {} /\ r.stage # "copied")
  BY <1>1, <1>2 DEF Echo
<1> QED BY <1>1, <1>3, TreeTabStep DEF server, storage, page

LEMMA WorkingTree ==
  ASSUME TabAssumption, ContentAssumption, TypeOK, VersionsAgree, HasTree, NEW t \in Tabs, Working(t)
  PROVE  HasTree'
<1> USE DEF server, storage, page
<1>0. /\ BrowserOf[t] \in Browsers /\ (phase[t] \in OpenPhases => work[t] # {})
      /\ \A r \in reqs : Echo(r)
  BY DEF TabAssumption, HasTree, Echo, OpenPhases
<1>1. ASSUME NEW e \in Edits, Edit(t, e)
      PROVE  HasTree'
  <2>1. /\ work'[t] # {} /\ \A x \in Tabs \ {t} : work'[x] = work[x]
        /\ UNCHANGED <<content, archive, reqs, snapshot, backup, phase, asked>>
    BY <1>1 DEF Edit, TypeOK
  <2> QED BY <1>0, <2>1, TreeTabStep
<1>2. CASE WriteSnapshot(t)
  <2>1. /\ phase[t] \in OpenPhases
        /\ UNCHANGED <<content, archive, reqs, backup, phase, work, asked>>
        /\ \A c \in Browsers : snapshot'[c] \in {snapshot[c], Draftable(t)}
    BY <1>0, <1>2 DEF WriteSnapshot, TypeOK
  <2> QED BY <1>0, <2>1, TreeTabStep
<1>3. CASE SendAuto(t)
  BY <1>3, SendTree DEF SendAuto
<1>4. ASSUME NEW k \in UserSaves, SendByUser(t, k)
      PROVE  HasTree'
  <2>1. k # "default" /\ phase[t] \in OpenPhases
    BY <1>4 DEF ContentAssumption, SendByUser, OpenPhases
  <2> QED BY <1>4, <2>1, SendTree DEF SendByUser
<1>5. ASSUME NEW c \in archive, SendRestore(t, c)
      PROVE  HasTree'
  <2> DEFINE q == [Put(t, "restore") EXCEPT !.data = c, !.waived = {}, !.epoch = 0,
                                            !.expected = NoVersion, !.live = FALSE]
  <2>1. q.kind = "restore" /\ q.stage = "sent" /\ q.data = c
    BY DEF Put
  <2>2. reqs' = reqs \cup {q} /\ UNCHANGED <<server, storage, page>> /\ c # {}
    BY <1>5 DEF SendRestore, HasTree
  <2> HIDE DEF q
  <2>3. \A r \in reqs' : Echo(r) \/ (r.kind # "default" /\ r.data # {} /\ r.stage # "copied")
    BY <1>0, <2>1, <2>2
  <2>4. phase[t] \notin {"closed", "meta"} => work[t] # {}
    BY DEF HasTree
  <2> QED BY <2>2, <2>3, <2>4, TreeTabStep
<1> QED BY <1>1, <1>2, <1>3, <1>4, <1>5 DEF Working

LEMMA LeavingTree ==
  ASSUME TabAssumption, TypeOK, VersionsAgree, HasTree, NEW t \in Tabs, Leaving(t)
  PROVE  HasTree'
<1> USE DEF server, storage, page
<1>0. /\ reqs \in SUBSET Request /\ \A r \in reqs : Echo(r)
      /\ phase[t] \in OpenPhases => work[t] # {}
  BY DEF TypeOK, Echo, HasTree, OpenPhases
<1>1. CASE Exit(t) \/ UnlockOnExit(t)
  <2>1. /\ phase[t] \in OpenPhases /\ \A x \in Tabs \ {t} : phase'[x] = phase[x]
        /\ UNCHANGED <<content, archive, reqs, snapshot, backup, work, asked>>
    BY <1>1 DEF Exit, UnlockOnExit, TypeOK, OpenPhases
  <2> QED BY <1>0, <2>1, TreeTabStep
<1>2. CASE SendExit(t)
  BY <1>2, SendTree DEF SendExit, OpenPhases
<1>3. CASE Redirect(t) \/ Crash(t)
  BY <1>0, <1>3, PageGoneTree DEF Redirect, Crash
<1>4. CASE Close(t)
  <2> DEFINE beacon == phase[t] \in {"locked", "backupDialog", "snapshotDialog", "loaded", "editing"}
  <2>1. beacon \in BOOLEAN
    OBVIOUS
  <2>2. PageGone(t, reqs, TRUE, beacon)
    BY <1>4 DEF Close
  <2> HIDE DEF beacon
  <2> QED BY <1>0, <2>1, <2>2, PageGoneTree
<1> QED BY <1>1, <1>2, <1>3, <1>4 DEF Leaving

\* What is left of the requests when a save failed are echoes.
LEMMA FailedEcho ==
  ASSUME TypeOK, NEW r \in reqs, OnConflict(r) \/ OnLockLost(r) \/ OnNoAnswer(r)
  PROVE  \E rs \in SUBSET Request :
           /\ \A q \in rs : Echo(q) /\ (q.live => q # r)
           /\ \E cause \in {"conflict", "lockLost", "failed"} : SaveFailed(r, rs, cause)
<1>1. /\ reqs \ {r} \in SUBSET Request
      /\ \A q \in reqs \ {r} : Echo(q) /\ (q.live => q # r)
  BY DEF TypeOK, Echo
<1>2. CASE \E cause \in {"conflict", "lockLost", "failed"} : SaveFailed(r, reqs \ {r}, cause)
  BY <1>1, <1>2
<1>3. CASE SaveFailed(r, (reqs \ {r}) \cup {[r EXCEPT !.live = FALSE]}, "failed")
  <2> DEFINE q == [r EXCEPT !.live = FALSE]
  <2>1. q \in Request /\ ~q.live /\ Echo(q)
    BY DEF TypeOK, Request, Echo
  <2>2. SaveFailed(r, (reqs \ {r}) \cup {q}, "failed")
    BY <1>3
  <2> HIDE DEF q
  <2>3. /\ (reqs \ {r}) \cup {q} \in SUBSET Request
        /\ \A x \in (reqs \ {r}) \cup {q} : Echo(x) /\ (x.live => x # r)
    BY <1>1, <2>1
  <2> QED BY <2>2, <2>3
<1> QED BY <1>2, <1>3 DEF OnConflict, OnLockLost, OnNoAnswer

LEMMA HandlingTree ==
  ASSUME TabAssumption, TypeOK, VersionsAgree, HasTree, NEW r \in reqs, Handling(r)
  PROVE  HasTree'
<1> USE DEF server, storage, page
<1>0. /\ r \in Request /\ r.tab \in Tabs /\ r.kind # "default" /\ r.data # {}
      /\ r.stage = "copied" => r.pre # {}
      /\ \A q \in reqs : Echo(q)
      /\ phase[r.tab] \notin {"closed", "meta"} => work[r.tab] # {}
  BY DEF TypeOK, Request, HasTree, Echo
<1>1. ASSUME NEW q \in Request, q.kind = r.kind, q.data = r.data, q.stage = "copied" => q.pre # {},
             reqs' \subseteq (reqs \ {r}) \cup {q}, UNCHANGED <<storage, page>>,
             content' # {}, {} \notin archive'
      PROVE  HasTree'
  <2>1. \A x \in reqs' : x.kind # "default" /\ x.data # {} /\ (x.stage = "copied" => x.pre # {})
    BY <1>0, <1>1 DEF HasTree
  <2> QED BY <1>1, <2>1 DEF HasTree, HasData
<1>2. CASE Guard(r)
  <2> DEFINE s == IF Holds(owner, UserOf[r.tab]) THEN "guarded" ELSE "lockLost"
             q == [r EXCEPT !.stage = s]
  <2>1. /\ q \in Request /\ q.kind = r.kind /\ q.data = r.data /\ q.stage # "copied"
    BY <1>0 DEF Request, Stages
  <2>2. reqs' \subseteq (reqs \ {r}) \cup {q} /\ UNCHANGED <<server, storage, page>>
    BY <1>2 DEF Guard, Becomes
  <2> HIDE DEF q
  <2> QED BY <1>1, <2>1, <2>2 DEF HasTree
<1>3. CASE CopyForRestore(r)
  <2> DEFINE q == [r EXCEPT !.stage = "copied", !.pre = content]
  <2>1. /\ q \in Request /\ q.kind = r.kind /\ q.data = r.data /\ q.pre = content
    BY <1>0 DEF Request, Stages, TypeOK
  <2>2. reqs' \subseteq (reqs \ {r}) \cup {q} /\ UNCHANGED <<server, storage, page>>
    BY <1>3 DEF CopyForRestore, Becomes
  <2> HIDE DEF q
  <2> QED BY <1>1, <2>1, <2>2 DEF HasTree
<1>4. CASE Commit(r)
  <2> DEFINE q == [r EXCEPT !.stage = "stored", !.version = version + 1]
  <2>1. /\ q \in Request /\ q.kind = r.kind /\ q.data = r.data /\ q.stage # "copied"
    <3>1. version + 1 \in Nat /\ "stored" \in Stages
      BY DEF TypeOK, Stages
    <3> QED BY <1>0, <3>1 DEF Request
  <2>2. /\ reqs' \subseteq (reqs \ {r}) \cup {q} /\ UNCHANGED <<storage, page>>
        /\ content' = r.data
        /\ \/ archive' \subseteq archive \cup {r.data}
           \/ r.stage = "copied" /\ archive' = archive \cup {r.pre, r.data}
    BY <1>0, <1>4 DEF Commit, Becomes
  <2>3. {} \notin archive'
    BY <1>0, <2>2 DEF HasTree
  <2> HIDE DEF q
  <2> QED BY <1>0, <1>1, <2>1, <2>2, <2>3
<1>5. CASE Reject(r)
  <2> DEFINE q == [r EXCEPT !.stage = "conflict"]
  <2>1. /\ q \in Request /\ q.kind = r.kind /\ q.data = r.data /\ q.stage # "copied"
    BY <1>0 DEF Request, Stages
  <2>2. reqs' \subseteq (reqs \ {r}) \cup {q} /\ UNCHANGED <<server, storage, page>>
    BY <1>5 DEF Reject, Becomes
  <2> HIDE DEF q
  <2> QED BY <1>1, <2>1, <2>2 DEF HasTree
<1>6. CASE OnStored(r)
  <2>1. phase[r.tab] \in OpenPhases
    BY <1>6 DEF OnStored, VersionsAgree, AnswersCurrent
  <2>2. /\ \A x \in Tabs \ {r.tab} : phase'[x] = phase[x]
        /\ \A c \in Browsers : snapshot'[c] \in {snapshot[c], NoDraft}
        /\ UNCHANGED <<content, archive, backup, work, asked>> /\ reqs' \subseteq reqs
    BY <1>0, <1>6 DEF OnStored, TypeOK
  <2>3. work'[r.tab] # {}
    BY <1>0, <2>1, <2>2 DEF OpenPhases
  <2> QED BY <1>0, <2>2, <2>3, TreeTabStep
<1>7. CASE OnConflict(r) \/ OnLockLost(r) \/ OnNoAnswer(r)
  <2>1. phase[r.tab] \in OpenPhases
    BY <1>7 DEF OnConflict, OnLockLost, OnNoAnswer, VersionsAgree, AnswersCurrent
  <2>2. PICK rs \in SUBSET Request :
           /\ \A q \in rs : Echo(q)
           /\ \E cause \in {"conflict", "lockLost", "failed"} : SaveFailed(r, rs, cause)
    BY <1>7, FailedEcho
  <2>3. CASE \E u \in BOOLEAN : PageGone(r.tab, rs, TRUE, u)
    BY <1>0, <2>2, <2>3, PageGoneTree
  <2>4. CASE ~\E u \in BOOLEAN : PageGone(r.tab, rs, TRUE, u)
    <3>1. /\ UNCHANGED <<server, storage, work, asked>> /\ reqs' = rs
          /\ \/ phase' = phase
             \/ phase' = [phase EXCEPT ![r.tab] = "leaving"]
      BY <2>2, <2>4, FailedStays
    <3>2. \A x \in Tabs \ {r.tab} : phase'[x] = phase[x]
      BY <3>1 DEF TypeOK
    <3>3. work'[r.tab] # {}
      BY <1>0, <2>1, <3>1 DEF OpenPhases
    <3> QED BY <1>0, <2>2, <3>1, <3>2, <3>3, TreeTabStep
  <2> QED BY <2>3, <2>4
<1> QED BY <1>2, <1>3, <1>4, <1>5, <1>6, <1>7 DEF Handling

LEMMA TreeStays ==
  ASSUME ~NewAct
  PROVE  Spec => []HasTree
<1> USE TabAssumption, ContentAssumption
<1>1. Init => HasTree
  BY DEF Init, HasTree, HasData
<1>2. TypeOK /\ VersionsAgree /\ HasTree /\ [Next]_vars => HasTree'
  <2> SUFFICES ASSUME TypeOK, VersionsAgree, HasTree, [Next]_vars PROVE HasTree'
    OBVIOUS
  <2>1. ASSUME NEW t \in Tabs, Opening(t) \/ Working(t) \/ Leaving(t) PROVE HasTree'
    BY <2>1, OpeningTree, WorkingTree, LeavingTree
  <2>2. ASSUME NEW r \in reqs, Handling(r) PROVE HasTree'
    BY <2>2, HandlingTree
  <2>3. CASE Expire \/ UNCHANGED vars
    BY <2>3 DEF Expire, vars, server, storage, page, HasTree, HasData
  <2> QED BY <2>1, <2>2, <2>3 DEF Next
<1> QED BY <1>1, <1>2, TypeCorrect, VersionsCorrect, PTL DEF Spec

\* A tab at the newest version that shows what it loaded, or is white, shows what
\* is stored.
TabTells(t) ==
  /\ phase[t] \in {"fetched", "locked", "loaded"} \cup Dialogs /\ ~restored[t] /\ base[t] = version
       => work[t] = content
  /\ phase[t] \in OpenPhases \ {"loaded"} /\ state[t] = "saved" /\ base[t] = version
       => work[t] = content

\* What a save in flight knows: the epoch tells whether the tab still shows its
\* body, and an answer with the newest version is about what is stored.
SaveTells(r) ==
  /\ r.kind \in {"auto", "manual", "invoice", "exit"}
  /\ r.kind = "exit" => phase[r.tab] # "loaded"
  /\ r.epoch <= epoch[r.tab]
  /\ r.epoch = epoch[r.tab] => work[r.tab] = r.data
  /\ r.epoch < epoch[r.tab] => state[r.tab] # "saved"
  /\ r.stage = "stored" /\ r.version = version => content = r.data

OneSave == \A r, q \in reqs : r.live /\ q.live /\ r.tab = q.tab => r = q

Tells ==
  /\ \A t \in Tabs : TabTells(t)
  /\ \A r \in reqs : r.live => SaveTells(r)
  /\ OneSave

\* A step of tab t after which the tab, and the save it waits for, tell the truth.
LEMMA TabStepTells ==
  ASSUME TypeOK, Tells, NEW t \in Tabs, UNCHANGED <<version, content>>,
         \A x \in Tabs \ {t} : /\ phase'[x] = phase[x] /\ work'[x] = work[x]
                               /\ base'[x] = base[x] /\ state'[x] = state[x]
                               /\ epoch'[x] = epoch[x] /\ restored'[x] = restored[x],
         TabTells(t)',
         \A r \in reqs' : r.live => (r \in reqs /\ r.tab # t) \/ (r.tab = t /\ SaveTells(r)'),
         \A r, q \in reqs' : r.live /\ q.live /\ r.tab = t /\ q.tab = t => r = q
  PROVE  Tells'
<1>1. \A x \in Tabs : TabTells(x)'
  BY DEF Tells, TabTells
<1>2. \A r \in reqs' : r.live => SaveTells(r)'
  <2> SUFFICES ASSUME NEW r \in reqs', r.live, r \in reqs, r.tab # t PROVE SaveTells(r)'
    OBVIOUS
  <2>1. r.tab \in Tabs \ {t} /\ SaveTells(r)
    BY DEF Tells, TypeOK, Request
  <2> QED BY <2>1 DEF SaveTells
<1>3. OneSave'
  BY DEF Tells, OneSave
<1> QED BY <1>1, <1>2, <1>3 DEF Tells

\* No save is waited for before the page is open.
LEMMA Unwaited ==
  ASSUME TypeOK, VersionsAgree, NEW t \in Tabs, phase[t] \notin OpenPhases
  PROVE  \A r \in reqs : r.live => r.tab # t
BY NoneWaits

LEMMA PageGoneTells ==
  ASSUME TypeOK, Tells, NEW t \in Tabs,
         NEW rs \in SUBSET Request, \A r \in rs : Echo(r),
         NEW h \in BOOLEAN, NEW u \in BOOLEAN, PageGone(t, rs, h, u)
  PROVE  Tells'
<1>1. /\ phase'[t] = "closed" /\ UNCHANGED <<version, content>>
      /\ \A x \in Tabs \ {t} : /\ phase'[x] = phase[x] /\ work'[x] = work[x]
                               /\ base'[x] = base[x] /\ state'[x] = state[x]
                               /\ epoch'[x] = epoch[x] /\ restored'[x] = restored[x]
  BY DEF PageGone, TypeOK
<1>2. TabTells(t)'
  BY <1>1 DEF TabTells, OpenPhases, Dialogs
<1>3. \A r \in reqs' : r.live => r \in reqs /\ r.tab # t
  BY UnheardEcho DEF PageGone
<1> QED BY <1>1, <1>2, <1>3, TabStepTells

LEMMA OpeningTells ==
  ASSUME TabAssumption, TypeOK, VersionsAgree, HasTree, Tells, NEW t \in Tabs, Opening(t)
  PROVE  Tells'
<1> USE DEF server, storage
<1> DEFINE b == BrowserOf[t]
<1>0. /\ TabTells(t) /\ OneSave
      /\ reqs \in SUBSET Request /\ \A r \in reqs : Echo(r)
      /\ phase[t] \notin {"closed", "meta"} => work[t] # {}
      /\ phase[t] \notin OpenPhases => \A r \in reqs : r.live => r.tab # t
  BY Unwaited DEF Tells, TypeOK, Echo, HasTree
<1>1. CASE FetchMeta(t)
  <2>1. /\ phase[t] = "closed" /\ phase'[t] = "meta"
        /\ \A x \in Tabs \ {t} : phase'[x] = phase[x] /\ base'[x] = base[x]
        /\ UNCHANGED <<version, content, reqs, work, state, epoch, restored>>
    BY <1>1 DEF FetchMeta, TypeOK
  <2>2. TabTells(t)'
    BY <2>1 DEF TabTells, OpenPhases, Dialogs
  <2>3. \A r \in reqs : r.live => r.tab # t
    BY <1>0, <2>1 DEF OpenPhases
  <2> QED BY <2>1, <2>2, <2>3, TabStepTells
<1>2. CASE FetchContent(t)
  <2>1. /\ phase[t] = "meta" /\ phase'[t] = "fetched" /\ work'[t] = content
        /\ \A x \in Tabs \ {t} : phase'[x] = phase[x] /\ work'[x] = work[x]
        /\ UNCHANGED <<version, content, reqs, base, state, epoch, restored>>
    BY <1>2 DEF FetchContent, TypeOK
  <2>2. TabTells(t)'
    BY <2>1 DEF TabTells, OpenPhases
  <2>3. \A r \in reqs : r.live => r.tab # t
    BY <1>0, <2>1 DEF OpenPhases
  <2> QED BY <2>1, <2>2, <2>3, TabStepTells
<1>3. CASE Lock(t)
  <2>1. /\ phase[t] = "fetched" /\ phase'[t] = "locked"
        /\ \A x \in Tabs \ {t} : phase'[x] = phase[x]
        /\ UNCHANGED <<version, content, reqs, work, base, state, epoch, restored>>
    BY <1>3 DEF Lock, TypeOK
  <2>2. TabTells(t)'
    BY <1>0, <2>1 DEF TabTells, OpenPhases
  <2>3. \A r \in reqs : r.live => r.tab # t
    BY <1>0, <2>1 DEF OpenPhases
  <2> QED BY <2>1, <2>2, <2>3, TabStepTells
<1>4. CASE LockRefused(t)
  BY <1>0, <1>4, PageGoneTells DEF LockRefused
\* A content that is not empty is loaded, or kept while the snapshot is offered.
<1>5. ASSUME NEW c, c # {}, OfferSnapshot(t, c) \/ Load(t, c),
             phase[t] \in {"locked"} \cup Dialogs, restored'[t] = TRUE \/ (c = work[t] /\ restored' = restored),
             \A x \in Tabs \ {t} : restored'[x] = restored[x],
             UNCHANGED <<version, content, base, state, epoch>>
      PROVE  Tells'
  <2>1. /\ phase'[t] \in {"loaded", "snapshotDialog"} /\ work'[t] = c /\ reqs' = reqs
        /\ \A x \in Tabs \ {t} : phase'[x] = phase[x] /\ work'[x] = work[x]
    BY <1>5, OfferTree, LoadTree
  <2>2. TabTells(t)'
    BY <1>0, <1>5, <2>1 DEF TabTells, OpenPhases, Dialogs
  <2>3. \A r \in reqs : r.live => r.tab # t
    BY <1>0, <1>5 DEF OpenPhases, Dialogs
  <2> QED BY <1>5, <2>1, <2>2, <2>3, TabStepTells
<1>6. CASE Apply(t)
  <2>1. phase[t] = "locked" /\ UNCHANGED <<version, content, base, state, epoch, restored>>
    BY <1>6 DEF Apply
  <2>2. CASE backup[b] = NoDraft
    <3>1. OfferSnapshot(t, work[t]) /\ work[t] # {}
      BY <1>0, <1>6, <2>1, <2>2 DEF Apply
    <3> QED BY <1>5, <2>1, <3>1
  <2>3. CASE backup[b] # NoDraft
    <3>1. /\ phase'[t] = "backupDialog" /\ \A x \in Tabs \ {t} : phase'[x] = phase[x]
          /\ UNCHANGED <<reqs, work>>
      BY <1>6, <2>3 DEF Apply, TypeOK
    <3>2. TabTells(t)'
      BY <1>0, <2>1, <3>1 DEF TabTells, OpenPhases
    <3>3. \A r \in reqs : r.live => r.tab # t
      BY <1>0, <2>1 DEF OpenPhases
    <3> QED BY <2>1, <3>1, <3>2, <3>3, TabStepTells
  <2> QED BY <2>2, <2>3
<1>7. ASSUME NEW a \in Answers, AnswerBackup(t, a) \/ AnswerSnapshot(t, a)
      PROVE  Tells'
  <2>1. phase[t] \in Dialogs /\ UNCHANGED <<version, content, base, state, epoch>>
    BY <1>7 DEF AnswerBackup, AnswerSnapshot, Dialogs
  <2>2. work[t] # {} /\ asked[t].data # {}
    BY <1>0, <2>1 DEF HasTree, HasData, TypeOK, Dialogs
  <2>3. CASE a = "restore"
    <3>1. /\ OfferSnapshot(t, asked[t].data) \/ Load(t, asked[t].data)
          /\ restored'[t] = TRUE /\ \A x \in Tabs \ {t} : restored'[x] = restored[x]
      BY <1>7, <2>3 DEF AnswerBackup, AnswerSnapshot, TypeOK
    <3> QED BY <1>5, <2>1, <2>2, <3>1
  <2>4. CASE a # "restore"
    <3>1. OfferSnapshot(t, work[t]) \/ Load(t, work[t])
      BY <1>7, <2>4 DEF AnswerBackup, AnswerSnapshot
    <3>2. restored' = restored
      BY <1>7, <2>4 DEF AnswerBackup, AnswerSnapshot
    <3> QED BY <1>5, <2>1, <2>2, <3>1, <3>2
  <2> QED BY <2>3, <2>4
<1>8. ASSUME NEW n \in BOOLEAN, StartTracking(t, n)
      PROVE  Tells'
  <2>1. /\ phase[t] = "loaded" /\ phase'[t] = "editing"
        /\ \A x \in Tabs \ {t} : /\ phase'[x] = phase[x] /\ state'[x] = state[x]
                                 /\ epoch'[x] = epoch[x] /\ restored'[x] = restored[x]
        /\ UNCHANGED <<version, content, reqs, work, base>>
    BY <1>8 DEF StartTracking, TypeOK
  <2>2. /\ state'[t] = IF restored[t] THEN "local-only" ELSE IF n THEN "unsaved" ELSE state[t]
        /\ epoch'[t] = IF n THEN epoch[t] + 1 ELSE epoch[t]
    BY <1>8 DEF StartTracking, TypeOK
  <2>3. TabTells(t)'
    BY <1>0, <2>1, <2>2 DEF TabTells, OpenPhases, Dialogs
  <2>4. ASSUME NEW r \in reqs, r.live, r.tab = t PROVE SaveTells(r)'
    <3>1. SaveTells(r) /\ r.epoch \in Nat /\ epoch[t] \in Nat
      BY <2>4 DEF Tells, TypeOK, Request
    <3> QED BY <2>1, <2>2, <2>4, <3>1 DEF SaveTells
  <2> QED BY <1>0, <2>1, <2>3, <2>4, TabStepTells DEF OneSave
<1> QED BY <1>1, <1>2, <1>3, <1>4, <1>6, <1>7, <1>8 DEF Opening

\* A save leaves with what the tab shows, and no other is on its way.
LEMMA SendTells ==
  ASSUME TypeOK, Tells, NEW t \in Tabs, NEW k \in {"auto", "manual", "invoice", "exit"},
         k = "exit" => phase[t] # "loaded", ~Saving(t),
         reqs' = reqs \cup {Put(t, k)}, UNCHANGED <<server, storage, page>>
  PROVE  Tells'
<1> USE DEF server, storage, page
<1> DEFINE p == Put(t, k)
<1>1. /\ p.tab = t /\ p.kind = k /\ p.data = work[t] /\ p.epoch = epoch[t] /\ p.stage = "sent"
      /\ epoch[t] \in Nat
  BY DEF Put, TypeOK
<1>2. \A r \in reqs : r.live => r.tab # t
  BY DEF Saving, Tells, SaveTells
<1>3. TabTells(t)'
  BY DEF Tells, TabTells
<1>4. reqs' = reqs \cup {p}
  OBVIOUS
<1> HIDE DEF p
<1>5. ASSUME NEW r \in reqs', r = p PROVE SaveTells(r)'
  BY <1>1, <1>5 DEF SaveTells
<1>6. \A r \in reqs' : r.live => (r \in reqs /\ r.tab # t) \/ r = p
  BY <1>2, <1>4
<1>7. \A r \in reqs' : r.live => (r \in reqs /\ r.tab # t) \/ (r.tab = t /\ SaveTells(r)')
  BY <1>1, <1>5, <1>6
<1>8. \A r, q \in reqs' : r.live /\ q.live /\ r.tab = t /\ q.tab = t => r = q
  BY <1>6
<1> QED BY <1>3, <1>7, <1>8, TabStepTells

LEMMA WorkingTells ==
  ASSUME TabAssumption, ContentAssumption, TypeOK, VersionsAgree, HasTree, Tells,
         NEW t \in Tabs, Working(t)
  PROVE  Tells'
<1> USE DEF server, storage, page
<1>0. TabTells(t) /\ OneSave /\ (\A r \in reqs : r.live => SaveTells(r))
  BY DEF Tells
<1>1. ASSUME NEW e \in Edits, Edit(t, e)
      PROVE  Tells'
  <2>1. /\ phase[t] \in OpenPhases \ {"loaded"} /\ state'[t] = "unsaved" /\ epoch'[t] = epoch[t] + 1
        /\ \A x \in Tabs \ {t} : work'[x] = work[x] /\ state'[x] = state[x] /\ epoch'[x] = epoch[x]
        /\ UNCHANGED <<version, content, reqs, phase, base, restored>>
    BY <1>1 DEF Edit, TypeOK
  <2>2. TabTells(t)'
    BY <2>1 DEF TabTells, OpenPhases, Dialogs
  <2>3. ASSUME NEW r \in reqs, r.live, r.tab = t PROVE SaveTells(r)'
    <3>1. SaveTells(r) /\ r.epoch \in Nat /\ epoch[t] \in Nat
      BY <1>0, <2>3 DEF TypeOK, Request
    <3> QED BY <2>1, <2>3, <3>1 DEF SaveTells
  <2> QED BY <1>0, <2>1, <2>2, <2>3, TabStepTells DEF OneSave
<1>2. CASE WriteSnapshot(t)
  <2>1. /\ phase[t] \in OpenPhases \ {"loaded"} /\ state'[t] = "local-only"
        /\ \A x \in Tabs \ {t} : state'[x] = state[x]
        /\ UNCHANGED <<version, content, reqs, phase, work, base, epoch, restored>>
    BY <1>2 DEF WriteSnapshot, TypeOK
  <2>2. TabTells(t)'
    BY <2>1 DEF TabTells, OpenPhases, Dialogs
  <2>3. ASSUME NEW r \in reqs, r.live, r.tab = t PROVE SaveTells(r)'
    BY <1>0, <2>1, <2>3 DEF SaveTells
  <2> QED BY <1>0, <2>1, <2>2, <2>3, TabStepTells DEF OneSave
<1>3. CASE SendAuto(t)
  BY <1>3, SendTells DEF SendAuto
<1>4. ASSUME NEW k \in UserSaves, SendByUser(t, k)
      PROVE  Tells'
  <2>1. k \in {"manual", "invoice"}
    BY DEF ContentAssumption
  <2> QED BY <1>4, <2>1, SendTells DEF SendByUser
<1>5. ASSUME NEW c \in archive, SendRestore(t, c)
      PROVE  Tells'
  <2> DEFINE q == [Put(t, "restore") EXCEPT !.data = c, !.waived = {}, !.epoch = 0,
                                            !.expected = NoVersion, !.live = FALSE]
  <2>1. ~q.live
    BY DEF Put
  <2>2. reqs' = reqs \cup {q} /\ UNCHANGED <<server, storage, page>>
    BY <1>5 DEF SendRestore
  <2> HIDE DEF q
  <2>3. \A r \in reqs' : r.live => r \in reqs
    BY <2>1, <2>2
  <2>4. (\A x \in Tabs : TabTells(x)') /\ (\A r \in reqs : SaveTells(r) => SaveTells(r)')
    BY <2>2 DEF Tells, TabTells, SaveTells
  <2> QED BY <1>0, <2>3, <2>4 DEF Tells, OneSave
<1> QED BY <1>1, <1>2, <1>3, <1>4, <1>5 DEF Working

LEMMA LeavingTells ==
  ASSUME TabAssumption, TypeOK, VersionsAgree, HasTree, Tells, NEW t \in Tabs, Leaving(t)
  PROVE  Tells'
<1> USE DEF server, storage, page
<1>0. /\ reqs \in SUBSET Request /\ \A r \in reqs : Echo(r)
      /\ TabTells(t) /\ OneSave /\ (\A r \in reqs : r.live => SaveTells(r))
  BY DEF TypeOK, Echo, Tells
<1>1. CASE Exit(t) \/ UnlockOnExit(t)
  <2>1. /\ phase[t] \in {"editing", "leaving"} /\ phase'[t] \in {"exiting", "redirecting"}
        /\ \A x \in Tabs \ {t} : phase'[x] = phase[x]
        /\ UNCHANGED <<version, content, reqs, work, base, state, epoch, restored>>
    BY <1>1 DEF Exit, UnlockOnExit, TypeOK
  <2>2. TabTells(t)'
    BY <1>0, <2>1 DEF TabTells, OpenPhases, Dialogs
  <2>3. ASSUME NEW r \in reqs, r.live, r.tab = t PROVE SaveTells(r)'
    BY <1>0, <2>1, <2>3 DEF SaveTells
  <2> QED BY <1>0, <2>1, <2>2, <2>3, TabStepTells DEF OneSave
<1>2. CASE SendExit(t)
  BY <1>2, SendTells DEF SendExit
<1>3. CASE Redirect(t) \/ Crash(t)
  BY <1>0, <1>3, PageGoneTells DEF Redirect, Crash
<1>4. CASE Close(t)
  <2> DEFINE beacon == phase[t] \in {"locked", "backupDialog", "snapshotDialog", "loaded", "editing"}
  <2>1. beacon \in BOOLEAN
    OBVIOUS
  <2>2. PageGone(t, reqs, TRUE, beacon)
    BY <1>4 DEF Close
  <2> HIDE DEF beacon
  <2> QED BY <1>0, <2>1, <2>2, PageGoneTells
<1> QED BY <1>1, <1>2, <1>3, <1>4 DEF Leaving

\* Request r goes on as q at the server, which stores nothing by that.
LEMMA AdvanceTells ==
  ASSUME Tells, NEW r \in reqs, NEW q, reqs' \subseteq (reqs \ {r}) \cup {q},
         q.tab = r.tab, q.kind = r.kind, q.epoch = r.epoch, q.data = r.data,
         q.live = r.live, q.stage # "stored", UNCHANGED <<server, storage, page>>
  PROVE  Tells'
<1> USE DEF server, page
<1>1. \A t \in Tabs : TabTells(t)'
  BY DEF Tells, TabTells
<1>2. q.live => SaveTells(q)'
  BY DEF Tells, SaveTells
<1>3. \A x \in reqs : x.live => SaveTells(x)'
  BY DEF Tells, SaveTells
<1>4. OneSave'
  BY DEF Tells, OneSave
<1> QED BY <1>1, <1>2, <1>3, <1>4 DEF Tells

\* A transaction ends the claims to the newest version; the answer makes a new one.
LEMMA CommitTells ==
  ASSUME TypeOK, VersionsAgree, Tells, NEW r \in reqs, Commit(r)
  PROVE  Tells'
<1> USE DEF storage, page
<1> DEFINE q == [r EXCEPT !.stage = "stored", !.version = version + 1]
<1>0. r \in Request /\ version \in Nat
  BY DEF TypeOK
<1>1. /\ version' = version + 1 /\ content' = r.data
      /\ UNCHANGED <<storage, page>>
      /\ reqs' \subseteq (reqs \ {r}) \cup {q}
  BY DEF Commit, Becomes
<1>2. /\ q.tab = r.tab /\ q.kind = r.kind /\ q.epoch = r.epoch /\ q.data = r.data
      /\ q.live = r.live
  BY <1>0 DEF Request
<1> HIDE DEF q
<1>3. \A t \in Tabs : TabTells(t)'
  <2> SUFFICES ASSUME NEW t \in Tabs PROVE TabTells(t)'
    OBVIOUS
  <2>1. phase[t] \notin {"closed", "meta"} => base[t] # version'
    BY <1>0, <1>1 DEF VersionsAgree, TabsCurrent, Current, TypeOK
  <2> QED BY <1>1, <2>1 DEF TabTells, OpenPhases, Dialogs
<1>4. ASSUME NEW x \in reqs', x.live PROVE SaveTells(x)'
  <2>1. CASE x = q
    <3>1. SaveTells(r)
      BY <1>2, <1>4, <2>1 DEF Tells
    <3> QED BY <1>1, <1>2, <2>1, <3>1 DEF SaveTells
  <2>2. CASE x \in reqs
    <3>1. SaveTells(x) /\ (x.stage = "stored" => x.version <= version) /\ x.version \in Nat
      BY <1>4, <2>2 DEF Tells, VersionsAgree, AnswersCurrent, Current, TypeOK, Request
    <3>2. x.stage = "stored" => x.version # version'
      BY <1>0, <1>1, <3>1
    <3> QED BY <1>1, <3>1, <3>2 DEF SaveTells
  <2> QED BY <1>1, <1>4, <2>1, <2>2
<1>5. OneSave'
  BY <1>1, <1>2 DEF Tells, OneSave
<1> QED BY <1>3, <1>4, <1>5 DEF Tells

LEMMA HandlingTells ==
  ASSUME TabAssumption, TypeOK, VersionsAgree, HasTree, Tells, NEW r \in reqs, Handling(r)
  PROVE  Tells'
<1> USE DEF server, storage, page
<1> DEFINE t == r.tab
<1>0. r \in Request /\ t \in Tabs /\ TabTells(t) /\ OneSave
  BY DEF TypeOK, Request, Tells
<1>1. CASE Guard(r)
  <2> DEFINE s == IF Holds(owner, UserOf[r.tab]) THEN "guarded" ELSE "lockLost"
             q == [r EXCEPT !.stage = s]
  <2>1. /\ q.tab = r.tab /\ q.kind = r.kind /\ q.epoch = r.epoch /\ q.data = r.data
        /\ q.live = r.live /\ q.stage # "stored"
    BY <1>0 DEF Request
  <2>2. reqs' \subseteq (reqs \ {r}) \cup {q} /\ UNCHANGED <<server, storage, page>>
    BY <1>1 DEF Guard, Becomes
  <2> HIDE DEF q
  <2> QED BY <2>1, <2>2, AdvanceTells
<1>2. CASE CopyForRestore(r)
  <2> DEFINE q == [r EXCEPT !.stage = "copied", !.pre = content]
  <2>1. /\ q.tab = r.tab /\ q.kind = r.kind /\ q.epoch = r.epoch /\ q.data = r.data
        /\ q.live = r.live /\ q.stage # "stored"
    BY <1>0 DEF Request
  <2>2. reqs' \subseteq (reqs \ {r}) \cup {q} /\ UNCHANGED <<server, storage, page>>
    BY <1>2 DEF CopyForRestore, Becomes
  <2> HIDE DEF q
  <2> QED BY <2>1, <2>2, AdvanceTells
<1>3. CASE Commit(r)
  BY <1>3, CommitTells
<1>4. CASE Reject(r)
  <2> DEFINE q == [r EXCEPT !.stage = "conflict"]
  <2>1. /\ q.tab = r.tab /\ q.kind = r.kind /\ q.epoch = r.epoch /\ q.data = r.data
        /\ q.live = r.live /\ q.stage # "stored"
    BY <1>0 DEF Request
  <2>2. reqs' \subseteq (reqs \ {r}) \cup {q} /\ UNCHANGED <<server, storage, page>>
    BY <1>4 DEF Reject, Becomes
  <2> HIDE DEF q
  <2> QED BY <2>1, <2>2, AdvanceTells
<1>5. CASE OnStored(r)
  <2>1. /\ r.live /\ r.stage = "stored" /\ reqs' = reqs \ {r} /\ r.epoch \in Nat /\ epoch[t] \in Nat
    BY <1>0, <1>5 DEF OnStored, Request, TypeOK
  <2>2. SaveTells(r) /\ phase[t] \in OpenPhases
    BY <2>1 DEF Tells, VersionsAgree, AnswersCurrent
  <2>3. \A x \in Tabs \ {t} : /\ phase'[x] = phase[x] /\ work'[x] = work[x]
                              /\ base'[x] = base[x] /\ state'[x] = state[x]
                              /\ epoch'[x] = epoch[x] /\ restored'[x] = restored[x]
    BY <1>0, <1>5 DEF OnStored, TypeOK
  <2>4. base'[t] = r.version /\ UNCHANGED <<version, content, work, epoch>>
    BY <1>0, <1>5 DEF OnStored, BaseAfter, TypeOK
  <2>5. phase'[t] = phase[t] \/ (r.kind = "exit" /\ phase'[t] = "leaving")
    BY <1>0, <1>5 DEF OnStored, TypeOK
  <2>6. phase[t] = "loaded" => state[t] = "saved"
    BY <1>0 DEF VersionsAgree, DirtyIsOpen
  <2>7. state'[t] = "saved" => r.epoch = epoch[t] \/ state[t] = "saved"
    BY <1>0, <1>5, <2>2 DEF OnStored, Synced, SaveTells, TypeOK
  <2>8. phase[t] = "loaded" \/ state'[t] = "saved" => work[t] = r.data
    BY <2>1, <2>2, <2>6, <2>7 DEF SaveTells
  <2>9. TabTells(t)'
    BY <2>1, <2>2, <2>4, <2>5, <2>8 DEF TabTells, SaveTells, OpenPhases, Dialogs
  <2>10. \A q \in reqs' : q.live => q \in reqs /\ q.tab # t
    BY <1>0, <2>1 DEF OneSave
  <2> HIDE DEF t
  <2> QED BY <1>0, <2>3, <2>4, <2>9, <2>10, TabStepTells
<1>6. CASE OnConflict(r) \/ OnLockLost(r) \/ OnNoAnswer(r)
  <2>1. r.live
    BY <1>6 DEF OnConflict, OnLockLost, OnNoAnswer
  <2>2. PICK rs \in SUBSET Request :
           /\ \A q \in rs : Echo(q) /\ (q.live => q # r)
           /\ \E cause \in {"conflict", "lockLost", "failed"} : SaveFailed(r, rs, cause)
    BY <1>6, FailedEcho
  <2>3. CASE \E u \in BOOLEAN : PageGone(r.tab, rs, TRUE, u)
    BY <1>0, <2>2, <2>3, PageGoneTells
  <2>4. CASE ~\E u \in BOOLEAN : PageGone(r.tab, rs, TRUE, u)
    <3>1. /\ UNCHANGED <<server, storage, work, base, state, epoch, restored>> /\ reqs' = rs
          /\ \/ phase' = phase
             \/ r.kind = "exit" /\ phase' = [phase EXCEPT ![r.tab] = "leaving"]
      BY <2>2, <2>4, FailedStays
    <3>2. /\ \A x \in Tabs \ {t} : phase'[x] = phase[x]
          /\ phase'[t] = phase[t] \/ (r.kind = "exit" /\ phase'[t] = "leaving")
      BY <1>0, <3>1 DEF TypeOK
    <3>3. SaveTells(r) /\ phase[t] \in OpenPhases
      BY <2>1 DEF Tells, VersionsAgree, AnswersCurrent
    <3>4. TabTells(t)'
      BY <1>0, <3>1, <3>2, <3>3 DEF TabTells, SaveTells, OpenPhases, Dialogs
    <3>5. \A q \in reqs' : q.live => q \in reqs /\ q.tab # t
      BY <1>0, <2>1, <2>2, <3>1 DEF OneSave, Echo
    <3> HIDE DEF t
    <3> QED BY <1>0, <3>1, <3>2, <3>4, <3>5, TabStepTells
  <2> QED BY <2>3, <2>4
<1> QED BY <1>1, <1>2, <1>3, <1>4, <1>5, <1>6 DEF Handling

\* The white indicator tells the truth of an act that has a tree, whatever the
\* tabs, users, drafts, conflicts, lost answers and restores: a tab in state
\* 'saved' at the newest version shows what is stored (finalizeDbSave and its
\* epoch gate, setBaseContentVersion).
THEOREM SavedIsTrue ==
  ASSUME ~NewAct
  PROVE  Spec => []SavedIsStored
<1> USE TabAssumption, ContentAssumption
<1>1. Init => Tells
  BY DEF Init, Tells, TabTells, OneSave, OpenPhases, Dialogs
<1>2. TypeOK /\ VersionsAgree /\ HasTree /\ Tells /\ [Next]_vars => Tells'
  <2> SUFFICES ASSUME TypeOK, VersionsAgree, HasTree, Tells, [Next]_vars PROVE Tells'
    OBVIOUS
  <2>1. ASSUME NEW t \in Tabs, Opening(t) \/ Working(t) \/ Leaving(t) PROVE Tells'
    BY <2>1, OpeningTells, WorkingTells, LeavingTells
  <2>2. ASSUME NEW r \in reqs, Handling(r) PROVE Tells'
    BY <2>2, HandlingTells
  <2>3. CASE Expire \/ UNCHANGED vars
    <3>1. UNCHANGED <<version, content, reqs, page>>
      BY <2>3 DEF Expire, vars, server, page
    <3> QED BY <3>1 DEF page, Tells, TabTells, SaveTells, OneSave
  <2> QED BY <2>1, <2>2, <2>3 DEF Next
<1>3. Tells => SavedIsStored
  BY DEF Tells, TabTells, SavedIsStored
<1> QED BY <1>1, <1>2, <1>3, TypeCorrect, VersionsCorrect, TreeStays, PTL DEF Spec
=============================================================================
