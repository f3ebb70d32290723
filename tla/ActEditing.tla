----------------------------- MODULE ActEditing -----------------------------
(***************************************************************************)
(* Editing sessions of ONE act: browser tabs, the local drafts they keep,  *)
(* and the server that stores the act's content.                           *)
(*                                                                         *)
(* Server: the Redis edit lock, the acts row with content_version and the  *)
(* content, the table of saved versions.  Network: PUT /content and the    *)
(* restore request, each taken through the lock guard and then the         *)
(* transaction, which are two separate awaits in the code.  Tab: the       *)
(* open / draft dialogs / editing / exit life cycle of acts-menu.js,       *)
(* api.js, storage-manager.js and lock-manager.js.                         *)
(*                                                                         *)
(* Content is the set of edits it contains.  An edit is made once, and no  *)
(* edit is taken back, so a set that shrinks has lost something.           *)
(* Skeleton is the default section structure: the empty set is the act     *)
(* that has never had a tree.                                              *)
(***************************************************************************)
EXTENDS Integers, FiniteSets

CONSTANTS
  Tabs, Users, Browsers,
  UserOf,      \* the user signed in in a tab
  BrowserOf,   \* the browser a tab belongs to: tabs of one share localStorage
  Managers,    \* users whose role may restore a saved version
  Edits, Skeleton,
  NoUser, NoDraft,
  NewAct,      \* does the act start without a tree?
  UserSaves,   \* the kinds of save a user causes: "manual", "invoice"
  Exiting,     \* tabs whose sessions may end by _initiateExit
  Crashing,    \* tabs whose browser may die
  Lossy,       \* may answers be late or lost?
  MaxVersion,  \* bound on content_version
  MaxOpens     \* bound on the number of page loads

ASSUME TabAssumption ==
  /\ UserOf \in [Tabs -> Users]
  /\ BrowserOf \in [Tabs -> Browsers]
  /\ NoUser \notin Users
  /\ Exiting \subseteq Tabs /\ Crashing \subseteq Tabs
ASSUME ContentAssumption ==
  /\ Skeleton \notin Edits
  /\ UserSaves \subseteq {"manual", "invoice"}
  /\ NewAct \in BOOLEAN
  /\ Lossy \in BOOLEAN
  /\ MaxVersion \in Nat
  /\ MaxOpens \in Nat

INSTANCE LeaseLock

NoVersion == -1    \* expected_content_version not sent

Content == SUBSET (Edits \cup {Skeleton})

\* A localStorage snapshot.  waived is not in the code: the stored edits the
\* user agreed to overwrite when restoring over a newer version.
Draft == [base : Nat, data : Content, waived : Content]

ASSUME DraftAssumption == NoDraft \notin Draft

Kinds  == {"auto", "manual", "invoice", "exit", "default", "restore"}
Stages == {"sent", "guarded", "copied", "stored", "conflict", "lockLost"}
Unanswered == {"sent", "guarded", "copied"}

Request == [tab : Tabs, kind : Kinds, data : Content, waived : Content,
            expected : Nat \cup {NoVersion}, epoch : Nat, stage : Stages,
            version : Nat, live : BOOLEAN, pre : Content]

OpenPhases == {"loaded", "editing", "exiting", "leaving", "redirecting"}
Dialogs == {"backupDialog", "snapshotDialog"}
Phases == {"closed", "meta", "fetched", "locked"} \cup Dialogs \cup OpenPhases

VARIABLES
  \* server
  owner,     \* holder of the Redis lock
  version,   \* acts.content_version
  content,   \* what the act's rows contain
  archive,   \* contents in act_content_versions
  reqs,      \* requests under way, at the server or answered and not yet read
  \* localStorage, one per browser
  snapshot,  \* audit_workstation_state:{actId}
  backup,    \* audit_workstation_conflict:{actId}
  \* tabs
  phase, work, base, state, epoch, halt,
  asked,     \* the draft a dialog is showing
  restored,  \* draftRestored
  waived, made,
  opens      \* page loads so far, for the bound

server  == <<owner, version, content, archive>>
storage == <<snapshot, backup>>
page    == <<phase, work, base, state, epoch, halt, asked, restored, waived, made, opens>>
vars    == <<server, reqs, storage, page>>

Init ==
  /\ owner = NoUser
  /\ version = (IF NewAct THEN 0 ELSE 1)
  /\ content = (IF NewAct THEN {} ELSE {Skeleton})
  /\ archive = {}
  /\ reqs = {}
  /\ snapshot = [b \in Browsers |-> NoDraft]
  /\ backup = [b \in Browsers |-> NoDraft]
  /\ phase = [t \in Tabs |-> "closed"]
  /\ work = [t \in Tabs |-> {}]
  /\ base = [t \in Tabs |-> 0]
  /\ state = [t \in Tabs |-> "saved"]
  /\ epoch = [t \in Tabs |-> 0]
  /\ halt = [t \in Tabs |-> "none"]
  /\ asked = [t \in Tabs |-> NoDraft]
  /\ restored = [t \in Tabs |-> FALSE]
  /\ waived = [t \in Tabs |-> {}]
  /\ made = {}
  /\ opens = 0

-----------------------------------------------------------------------------
(* Helpers                                                                  *)

Pending == {r \in reqs : r.stage \in Unanswered}

\* Bound: every request under way can still commit without passing MaxVersion.
MaySend == version + Cardinality(Pending) < MaxVersion

\* _saveInFlight: one save of a tab at a time; the default-structure PUT and
\* the restore request do not go through this guard.
Saving(t) == \E r \in reqs : r.tab = t /\ r.live /\ r.kind \in {"auto", "manual", "invoice", "exit"}

Draftable(t) == [base |-> base[t], data |-> work[t], waived |-> waived[t]]

Put(t, kind) ==
  [tab |-> t, kind |-> kind, data |-> work[t], waived |-> waived[t],
   expected |-> base[t], epoch |-> epoch[t], stage |-> "sent",
   version |-> 0, live |-> TRUE, pre |-> {}]

\* _saveDefaultStructure sends the body without expected_content_version.
DefaultPut(t) ==
  [tab |-> t, kind |-> "default", data |-> {Skeleton}, waived |-> {},
   expected |-> NoVersion, epoch |-> epoch[t], stage |-> "sent",
   version |-> 0, live |-> TRUE, pre |-> {}]

\* Requests once tab t no longer listens: those still unanswered go on at the
\* server, the answered ones are gone.
Unheard(t, rs) ==
  {r \in rs : r.tab # t \/ ~r.live}
    \cup {[r EXCEPT !.live = FALSE] :
            r \in {q \in rs : q.tab = t /\ q.live /\ q.stage \in Unanswered}}

\* The page of t goes away with requests rs under way.  The beforeunload
\* handlers write the snapshot of unsaved edits and send the unlock beacon.
PageGone(t, rs, handlers, beacon) ==
  LET b == BrowserOf[t] IN
  /\ snapshot' = IF handlers /\ state[t] = "unsaved"
                 THEN [snapshot EXCEPT ![b] = Draftable(t)] ELSE snapshot
  /\ owner' = IF beacon THEN AfterRelease(owner, UserOf[t]) ELSE owner
  /\ reqs' = Unheard(t, rs)
  /\ phase' = [phase EXCEPT ![t] = "closed"]
  /\ work' = [work EXCEPT ![t] = {}]
  /\ base' = [base EXCEPT ![t] = 0]
  /\ state' = [state EXCEPT ![t] = "saved"]
  /\ epoch' = [epoch EXCEPT ![t] = 0]
  /\ halt' = [halt EXCEPT ![t] = "none"]
  /\ asked' = [asked EXCEPT ![t] = NoDraft]
  /\ restored' = [restored EXCEPT ![t] = FALSE]
  /\ waived' = [waived EXCEPT ![t] = {}]
  /\ UNCHANGED <<version, content, archive, backup, made, opens>>

-----------------------------------------------------------------------------
(* Opening an act: _autoLoadAct, _fetchActContent, _applyActContent         *)

\* GET /content, first query: the acts row with content_version.
FetchMeta(t) ==
  /\ phase[t] = "closed"
  /\ phase' = [phase EXCEPT ![t] = "meta"]
  /\ base' = [base EXCEPT ![t] = version]
  /\ opens < MaxOpens
  /\ opens' = opens + 1
  /\ UNCHANGED <<server, reqs, storage, work, state, epoch, halt, asked, restored,
                 waived, made>>

\* GET /content, later queries, outside any transaction: the content rows.
FetchContent(t) ==
  /\ phase[t] = "meta"
  /\ phase' = [phase EXCEPT ![t] = "fetched"]
  /\ work' = [work EXCEPT ![t] = content]
  /\ UNCHANGED <<server, reqs, storage, base, state, epoch, halt, asked, restored, waived, made, opens>>

\* LockManager.init comes after the content was fetched.
Lock(t) ==
  /\ phase[t] = "fetched"
  /\ CanAcquire(owner, UserOf[t])
  /\ owner' = UserOf[t]
  /\ phase' = [phase EXCEPT ![t] = "locked"]
  /\ UNCHANGED <<version, content, archive, reqs, storage, work, base,
                 state, epoch, halt, asked, restored, waived, made, opens>>

\* ACT_LOCKED: back to the acts list; the lock was not taken, so no beacon.
LockRefused(t) ==
  /\ phase[t] = "fetched"
  /\ ~CanAcquire(owner, UserOf[t])
  /\ PageGone(t, reqs, FALSE, FALSE)

\* The synchronous end of _applyActContent with the content c chosen: an act
\* without a tree gets the default structure, whose PUT leaves at once.
Load(t, c) ==
  /\ phase' = [phase EXCEPT ![t] = "loaded"]
  /\ asked' = [asked EXCEPT ![t] = NoDraft]
  /\ IF c = {}
     THEN /\ work' = [work EXCEPT ![t] = {Skeleton}]
          /\ MaySend
          /\ reqs' = reqs \cup {DefaultPut(t)}
     ELSE /\ work' = [work EXCEPT ![t] = c]
          /\ UNCHANGED reqs

\* Second half of _maybeRestoreDraft: the ordinary snapshot, read after the
\* answer about the backup.
OfferSnapshot(t, c) ==
  LET d == snapshot[BrowserOf[t]] IN
  IF d = NoDraft
  THEN Load(t, c)
  ELSE /\ phase' = [phase EXCEPT ![t] = "snapshotDialog"]
       /\ asked' = [asked EXCEPT ![t] = d]
       /\ work' = [work EXCEPT ![t] = c]
       /\ UNCHANGED reqs

Apply(t) ==
  LET d == backup[BrowserOf[t]] IN
  /\ phase[t] = "locked"
  /\ IF d = NoDraft
     THEN OfferSnapshot(t, work[t])
     ELSE /\ phase' = [phase EXCEPT ![t] = "backupDialog"]
          /\ asked' = [asked EXCEPT ![t] = d]
          /\ UNCHANGED <<reqs, work>>
  /\ UNCHANGED <<server, storage, base, state, epoch, halt, restored, waived, made, opens>>

Answers == {"restore", "keepDb", "dismiss"}

\* Mutant: every draft is offered as if nothing had changed since.
NeverConflicting(t, d) == FALSE

\* shouldOfferRestore: did the content change since the draft was taken?
Conflicting(t, d) == d.base # base[t]

\* Stored edits the user gives up by restoring d over what the tab has.
WaivedBy(t, d) ==
  d.waived \cup IF Conflicting(t, d) THEN (work[t] \cup waived[t]) \ d.data ELSE {}

AnswerBackup(t, answer) ==
  LET b == BrowserOf[t]
      d == asked[t]
      keeps == answer = "dismiss" /\ Conflicting(t, d)
  IN
  /\ phase[t] = "backupDialog"
  /\ backup' = IF keeps THEN backup ELSE [backup EXCEPT ![b] = NoDraft]
  /\ IF answer = "restore"
     THEN /\ waived' = [waived EXCEPT ![t] = WaivedBy(t, d)]
          /\ restored' = [restored EXCEPT ![t] = TRUE]
          /\ OfferSnapshot(t, d.data)
     ELSE /\ OfferSnapshot(t, work[t])
          /\ UNCHANGED <<waived, restored>>
  /\ UNCHANGED <<server, snapshot, base, state, epoch, halt, made, opens>>

\* Mutant: answering about the snapshot clears the backup as out of date.
BackupDropped(b, stash) == IF stash THEN snapshot[b] ELSE NoDraft

\* stashConflictSnapshot: a dismissed conflict moves the snapshot to the backup
\* key, over an older backup.
BackupAfter(b, stash) == IF stash /\ snapshot[b] # NoDraft THEN snapshot[b] ELSE backup[b]

\* Escape in the ordinary dialog answers like the refusal button.
AnswerSnapshot(t, answer) ==
  LET b == BrowserOf[t]
      d == asked[t]
      stash == answer = "dismiss" /\ Conflicting(t, d)
  IN
  /\ phase[t] = "snapshotDialog"
  /\ backup' = [backup EXCEPT ![b] = BackupAfter(b, stash)]
  /\ snapshot' = IF answer = "restore" THEN snapshot
                 ELSE [snapshot EXCEPT ![b] = NoDraft]
  /\ IF answer = "restore"
     THEN /\ waived' = [waived EXCEPT ![t] = WaivedBy(t, d)]
          /\ restored' = [restored EXCEPT ![t] = TRUE]
          /\ Load(t, d.data)
     ELSE /\ Load(t, work[t])
          /\ UNCHANGED <<waived, restored>>
  /\ UNCHANGED <<server, base, state, epoch, halt, made, opens>>

\* The timer of _applyActContent: tracking on; a content that loading had to
\* normalise is dirty; a restored draft is dirty and its snapshot rewritten.
StartTracking(t, normalised) ==
  /\ phase[t] = "loaded"
  /\ phase' = [phase EXCEPT ![t] = "editing"]
  /\ epoch' = [epoch EXCEPT ![t] = IF normalised THEN @ + 1 ELSE @]
  /\ state' = [state EXCEPT ![t] = IF restored[t] THEN "local-only"
                                   ELSE IF normalised THEN "unsaved" ELSE @]
  /\ snapshot' = IF restored[t]
                 THEN [snapshot EXCEPT ![BrowserOf[t]] = Draftable(t)] ELSE snapshot
  /\ restored' = [restored EXCEPT ![t] = FALSE]
  /\ UNCHANGED <<server, reqs, backup, work, base, halt, asked, waived, made, opens>>

-----------------------------------------------------------------------------
(* Editing and the local draft                                              *)

\* markAsUnsaved.
Edit(t, e) ==
  /\ phase[t] \in OpenPhases \ {"loaded"}
  /\ e \notin made
  /\ made' = made \cup {e}
  /\ work' = [work EXCEPT ![t] = @ \cup {e}]
  /\ epoch' = [epoch EXCEPT ![t] = @ + 1]
  /\ state' = [state EXCEPT ![t] = "unsaved"]
  /\ UNCHANGED <<server, reqs, storage, phase, base, halt, asked, restored, waived, opens>>

\* saveState after the debounce or on its interval.
WriteSnapshot(t) ==
  /\ phase[t] \in OpenPhases \ {"loaded"}
  /\ state[t] # "saved"
  /\ snapshot' = [snapshot EXCEPT ![BrowserOf[t]] = Draftable(t)]
  /\ state' = [state EXCEPT ![t] = "local-only"]
  /\ UNCHANGED <<server, reqs, backup, phase, work, base, epoch, halt, asked,
                 restored, waived, made, opens>>

-----------------------------------------------------------------------------
(* Saving: saveActContent and forceSaveToDb                                 *)

\* The periodic tick, the retry on 'online' and the quota escalation.
SendAuto(t) ==
  /\ phase[t] \in OpenPhases
  /\ state[t] # "saved"
  /\ halt[t] = "none"
  /\ ~Saving(t)
  /\ MaySend
  /\ reqs' = reqs \cup {Put(t, "auto")}
  /\ UNCHANGED <<server, storage, page>>

\* Saves the user causes, whatever the state and the halt: Ctrl+S and the Save
\* button ("manual"); attaching an invoice saves the act too, with the saveType
\* 'auto' ("invoice").
SendByUser(t, kind) ==
  /\ phase[t] = "editing" \/ (phase[t] = "loaded" /\ kind = "manual")
  /\ ~Saving(t)
  /\ MaySend
  /\ reqs' = reqs \cup {Put(t, kind)}
  /\ UNCHANGED <<server, storage, page>>

\* POST .../restore of a saved version c, from the acts list by the same user.
SendRestore(t, c) ==
  /\ UserOf[t] \in Managers
  /\ c \in archive
  /\ MaySend
  /\ reqs' = reqs \cup {[Put(t, "restore") EXCEPT !.data = c, !.waived = {}, !.epoch = 0,
                                                  !.expected = NoVersion, !.live = FALSE]}
  /\ UNCHANGED <<server, storage, page>>

-----------------------------------------------------------------------------
(* Server: ActContentService.save_content, AuditLogService.restore_version  *)

\* Request r has moved on to q; the answer to a request nobody waits for is
\* dropped.
Becomes(r, q) ==
  reqs' = (reqs \ {r}) \cup IF q.live \/ q.stage \in Unanswered THEN {q} ELSE {}

\* require_lock_owner: a Redis read before, and outside, the transaction.
Guard(r) ==
  /\ r.stage = "sent"
  /\ Becomes(r, [r EXCEPT !.stage = IF Holds(owner, UserOf[r.tab]) THEN "guarded" ELSE "lockLost"])
  /\ UNCHANGED <<server, storage, page>>

\* restore_version reads the content it is about to replace for the
\* pre-snapshot: a plain SELECT, which locks no row.
CopyForRestore(r) ==
  /\ r.stage = "guarded" /\ r.kind = "restore"
  /\ Becomes(r, [r EXCEPT !.stage = "copied", !.pre = content])
  /\ UNCHANGED <<server, storage, page>>

\* Mutants: no version check; a check that takes version 0 for "not sent".
AcceptsAll(r) == TRUE
AcceptsZero(r) == r.expected \in {NoVersion, 0, version}

\* _check_content_conflict, which a request without a version skips.
Accepts(r) == r.expected \in {NoVersion, version}

\* The transaction: version check under FOR UPDATE, write, increment; a
\* manual or periodic save leaves a version, a restore leaves two.
Commit(r) ==
  /\ r.stage = IF r.kind = "restore" THEN "copied" ELSE "guarded"
  /\ Accepts(r)
  /\ version' = version + 1
  /\ content' = r.data
  /\ archive' = CASE r.kind = "restore" -> archive \cup {r.pre, r.data}
                  [] r.kind \in {"default", "invoice"} -> archive
                  [] OTHER -> archive \cup {r.data}
  /\ Becomes(r, [r EXCEPT !.stage = "stored", !.version = version + 1])
  /\ UNCHANGED <<owner, storage, page>>

\* ContentConflictError: the transaction rolls back.
Reject(r) ==
  /\ r.stage = "guarded"
  /\ ~Accepts(r)
  /\ Becomes(r, [r EXCEPT !.stage = "conflict"])
  /\ UNCHANGED <<server, storage, page>>

\* The TTL of the lock runs out.
Expire ==
  /\ owner # NoUser
  /\ owner' = NoUser
  /\ UNCHANGED <<version, content, archive, reqs, storage, page>>

-----------------------------------------------------------------------------
(* Answers reach the tab                                                    *)

\* Mutants: no epoch gate; the base read from the server again, or left as sent.
SyncedAlways(r) == r.kind # "default"
LatestBase(r) == version
SentBase(r) == r.expected

\* finalizeDbSave: in sync only if no edit was made since the body was built; the
\* default structure has no such end.  The snapshot goes under the same gate.
Synced(r) == r.kind # "default" /\ epoch[r.tab] = r.epoch
DropsDraft(r) == Synced(r)

\* The new base comes from the answer.
BaseAfter(r) == r.version

\* 200.
OnStored(r) ==
  LET t == r.tab IN
  /\ r.live /\ r.stage = "stored"
  /\ reqs' = reqs \ {r}
  /\ base' = [base EXCEPT ![t] = BaseAfter(r)]
  /\ waived' = [waived EXCEPT ![t] = {}]
  /\ state' = IF Synced(r) THEN [state EXCEPT ![t] = "saved"] ELSE state
  /\ halt' = IF Synced(r) THEN [halt EXCEPT ![t] = "none"] ELSE halt
  /\ snapshot' = IF DropsDraft(r) THEN [snapshot EXCEPT ![BrowserOf[t]] = NoDraft] ELSE snapshot
  /\ phase' = IF r.kind = "exit" THEN [phase EXCEPT ![t] = "leaving"] ELSE phase
  /\ UNCHANGED <<server, backup, work, epoch, asked, restored, made, opens>>

\* The save of kind r.kind failed for the given cause; rs are the requests
\* still under way.
SaveFailed(r, rs, cause) ==
  LET t == r.tab IN
  \/ /\ r.kind \in {"auto", "manual", "invoice"}
     /\ ~(r.kind = "manual" /\ cause = "lockLost")
     /\ reqs' = rs
     /\ halt' = [halt EXCEPT ![t] = CASE r.kind # "invoice" /\ cause = "conflict" -> "conflict"
                                      [] r.kind # "invoice" /\ cause = "lockLost" -> "lock"
                                      [] OTHER -> @]   \* an invoice's failure is only logged
     /\ UNCHANGED <<server, storage, phase, work, base, state, epoch, asked,
                    restored, waived, made, opens>>
  \/ /\ r.kind = "exit"
     /\ reqs' = rs
     /\ phase' = [phase EXCEPT ![t] = "leaving"]
     /\ UNCHANGED <<server, storage, work, base, state, epoch, halt, asked,
                    restored, waived, made, opens>>
  \/ /\ r.kind = "default" \/ (r.kind = "manual" /\ cause = "lockLost")
     /\ PageGone(t, rs, TRUE, phase[t] \in {"loaded", "editing"})

OnConflict(r) == r.live /\ r.stage = "conflict" /\ SaveFailed(r, reqs \ {r}, "conflict")

OnLockLost(r) == r.live /\ r.stage = "lockLost" /\ SaveFailed(r, reqs \ {r}, "lockLost")

\* The client timed out, or the request or its answer was lost.
OnNoAnswer(r) ==
  /\ r.live /\ Lossy
  /\ \/ SaveFailed(r, reqs \ {r}, "failed")
     \/ /\ r.stage \in Unanswered
        /\ SaveFailed(r, (reqs \ {r}) \cup {[r EXCEPT !.live = FALSE]}, "failed")

-----------------------------------------------------------------------------
(* Leaving: _initiateExit, closing the tab, a crash                         *)

\* The user, the inactivity dialog, or a lock that could not be extended.
Exit(t) ==
  /\ t \in Exiting
  /\ phase[t] = "editing"
  /\ phase' = [phase EXCEPT ![t] = "exiting"]
  /\ UNCHANGED <<server, reqs, storage, work, base, state, epoch, halt, asked,
                 restored, waived, made, opens>>

\* The exit waits for a save in flight and then makes its own.
SendExit(t) ==
  /\ phase[t] = "exiting"
  /\ ~Saving(t)
  /\ MaySend
  /\ reqs' = reqs \cup {Put(t, "exit")}
  /\ UNCHANGED <<server, storage, page>>

UnlockOnExit(t) ==
  /\ phase[t] = "leaving"
  /\ phase' = [phase EXCEPT ![t] = "redirecting"]
  /\ owner' = AfterRelease(owner, UserOf[t])
  /\ UNCHANGED <<version, content, archive, reqs, storage, work, base, state,
                 epoch, halt, asked, restored, waived, made, opens>>

\* Mutant: programmatic exits skip the beforeunload handler.
RedirectSilently(t) ==
  /\ phase[t] = "redirecting"
  /\ PageGone(t, reqs, FALSE, FALSE)

Redirect(t) ==
  /\ phase[t] = "redirecting"
  /\ PageGone(t, reqs, TRUE, FALSE)

\* The user closes the tab: beforeunload handlers run; no beacon once an exit
\* has begun (_manualUnlockTriggered).
Close(t) ==
  /\ phase[t] # "closed"
  /\ PageGone(t, reqs, TRUE, phase[t] \in {"locked", "backupDialog", "snapshotDialog", "loaded", "editing"})

\* The browser dies: nothing but localStorage remains.
Crash(t) ==
  /\ t \in Crashing /\ phase[t] # "closed"
  /\ PageGone(t, reqs, FALSE, FALSE)

-----------------------------------------------------------------------------
Opening(t) ==
  \/ FetchMeta(t) \/ FetchContent(t) \/ Lock(t) \/ LockRefused(t) \/ Apply(t)
  \/ \E a \in Answers : AnswerBackup(t, a) \/ AnswerSnapshot(t, a)
  \/ \E n \in BOOLEAN : StartTracking(t, n)

Working(t) ==
  \/ \E e \in Edits : Edit(t, e)
  \/ WriteSnapshot(t) \/ SendAuto(t)
  \/ \E k \in UserSaves : SendByUser(t, k)
  \/ \E c \in archive : SendRestore(t, c)

Leaving(t) ==
  Exit(t) \/ SendExit(t) \/ UnlockOnExit(t) \/ Redirect(t) \/ Close(t) \/ Crash(t)

Handling(r) ==
  \/ Guard(r) \/ CopyForRestore(r) \/ Commit(r) \/ Reject(r)
  \/ OnStored(r) \/ OnConflict(r) \/ OnLockLost(r) \/ OnNoAnswer(r)

Next ==
  \/ \E t \in Tabs : Opening(t) \/ Working(t) \/ Leaving(t)
  \/ \E r \in reqs : Handling(r)
  \/ Expire

Spec == Init /\ [][Next]_vars

-----------------------------------------------------------------------------
(* Properties                                                               *)

TypeOK ==
  /\ owner \in Users \cup {NoUser}
  /\ version \in Nat
  /\ content \in Content
  /\ archive \subseteq Content
  /\ reqs \subseteq Request
  /\ snapshot \in [Browsers -> Draft \cup {NoDraft}]
  /\ backup \in [Browsers -> Draft \cup {NoDraft}]
  /\ phase \in [Tabs -> Phases]
  /\ work \in [Tabs -> Content]
  /\ base \in [Tabs -> Nat]
  /\ state \in [Tabs -> {"saved", "local-only", "unsaved"}]
  /\ epoch \in [Tabs -> Nat]
  /\ halt \in [Tabs -> {"none", "conflict", "lock"}]
  /\ asked \in [Tabs -> Draft \cup {NoDraft}]
  /\ \A t \in Tabs : phase[t] \in Dialogs => asked[t] # NoDraft
  /\ restored \in [Tabs -> BOOLEAN]
  /\ waived \in [Tabs -> Content]
  /\ made \subseteq Edits
  /\ opens \in Nat

\* A save that carries expected_content_version never removes from the act a
\* stored edit its author had not loaded, unless the user agreed to that in a
\* conflict dialog: across tabs, users, lost leases, late requests, drafts of
\* earlier sessions and content read by several queries (_check_content_conflict).
NoLostUpdate ==
  [][\A r \in reqs : Commit(r) /\ r.expected # NoVersion =>
       content \ r.waived \subseteq content']_vars

\* The white indicator tells the truth: a tab in state 'saved' that is at the
\* newest version shows exactly the edits that are stored (the epoch gate of
\* finalizeDbSave and the bookkeeping of base versions).
SavedIsStored ==
  \A t \in Tabs :
    phase[t] \in OpenPhases \ {"loaded"} /\ state[t] = "saved" /\ base[t] = version
      => work[t] \cap Edits = content \cap Edits

\* The yellow indicator tells the truth: in state 'local-only' the snapshot in
\* localStorage holds all that the tab holds (_setState, _markAsSaved).
LocalOnlyHasDraft ==
  \A t \in Tabs :
    state[t] = "local-only" =>
      /\ snapshot[BrowserOf[t]] # NoDraft
      /\ work[t] \subseteq snapshot[BrowserOf[t]].data

DataOf(d) == IF d = NoDraft THEN {} ELSE d.data
Carried(b) == DataOf(snapshot[b]) \cup DataOf(backup[b])
Stored == content \cup UNION archive

\* The edits the answer in t's dialog may drop from localStorage: those of the
\* draft asked about, and the older backup when the snapshot takes its place.
Answered(t) ==
  DataOf(asked[t]) \cup
  IF phase[t] = "snapshotDialog" /\ backup'[BrowserOf[t]] = asked[t]
  THEN DataOf(backup[BrowserOf[t]]) ELSE {}

\* An edit that reached localStorage leaves it only because it is stored, or
\* because the user answered a dialog about that very draft, or while an open
\* tab of the browser still has it: no crash, reload, conflict, save of other
\* content or answer about another draft destroys a draft (finalizeDbSave,
\* _maybeRestoreDraft, stashConflictSnapshot).
DraftSurvives ==
  [][\A b \in Browsers : Carried(b) \ Carried(b)' \subseteq
       Stored \cup
       UNION {IF BrowserOf[t] # b THEN {}
              ELSE Answered(t) \cup work'[t] : t \in Tabs}]_vars

\* As long as the browser does not die, leaving the page keeps unsaved work:
\* after the exit, a redirect or a closed tab, whatever became of the saves on
\* the way, each edit of a dirty tab is stored or in the browser's draft
\* (beforeunload handler, _initiateExit, _handleSaveExportError).
NothingLostOnLeaving ==
  [][\A t \in Tabs :
       state[t] # "saved" /\ phase'[t] = "closed" /\ t \notin Crashing =>
         work[t] \cap Edits \subseteq Stored \cup Carried(BrowserOf[t])']_vars

-----------------------------------------------------------------------------
(* Why NoLostUpdate holds: the invariant behind it.                          *)

\* c would be a legitimate successor of what is stored at version b.
Current(b, c) == b <= version /\ (b = version => content \subseteq c)

DraftCurrent(d) == d # NoDraft => Current(d.base, d.data \cup d.waived)

\* Whoever claims to have seen the newest version has all of its edits, or
\* agreed to give them up: a tab, a draft in localStorage or in a dialog, a
\* save under way, a stored answer not yet read.
TabsCurrent ==
  \A t \in Tabs :
    /\ base[t] <= version
    /\ phase[t] \notin {"closed", "meta"} => Current(base[t], work[t] \cup waived[t])

DraftsCurrent ==
  /\ \A b \in Browsers : DraftCurrent(snapshot[b]) /\ DraftCurrent(backup[b])
  /\ \A t \in Tabs : DraftCurrent(asked[t])

SavesCurrent ==
  \A r \in reqs :
    r.stage \in Unanswered /\ r.expected # NoVersion =>
      Current(r.expected, r.data \cup r.waived)

AnswersCurrent ==
  \A r \in reqs : r.live =>
    /\ phase[r.tab] \in OpenPhases
    /\ r.data \subseteq work[r.tab]
    /\ r.stage = "stored" => Current(r.version, r.data)

\* Only an open tab is dirty.
DirtyIsOpen ==
  \A t \in Tabs : state[t] # "saved" => phase[t] \in OpenPhases \ {"loaded"}

\* Every bookkeeping of versions in the system agrees with what is stored: the
\* base of a tab, of a draft, of a save and of an answer (setBaseContentVersion,
\* baseContentVersion of the snapshots, expected_content_version).
VersionsAgree ==
  TabsCurrent /\ DraftsCurrent /\ SavesCurrent /\ AnswersCurrent /\ DirtyIsOpen

-----------------------------------------------------------------------------
(* What a docstring promises and the code does not do: no run checks it, and *)
(* TLC finds it violated in the instance of run new_act.                     *)

\* restore_version: the pre-snapshot keeps the editor's last saved content in the
\* history.  Every stored edit that a restore overwrites is in a saved version.
RestoreKeepsReplaced ==
  [][\A r \in reqs : r.kind = "restore" /\ Commit(r) =>
       content \cap Edits \subseteq UNION archive']_vars
=============================================================================
