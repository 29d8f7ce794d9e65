----------------------------- MODULE SessionPage -----------------------------
(***************************************************************************)
(* The consumer's page (app.js) and the web server behind it: requests are *)
(* handled, answered and lost in any order, and SessionResponseCoordinator *)
(* decides which answers may replace the session the page shows.           *)
(*                                                                         *)
(* An answer is a whole SessionView.  Here it is the session's id, how     *)
(* many changes of the consumer it has seen, and the status of its case.   *)
(* A request's sequence number is kept as its age, the number of requests  *)
(* begun after it: the coordinator only compares numbers with those of the *)
(* latest request begun and of the latest answer applied.                  *)
(*                                                                         *)
(* A request that fails before the server handled it is never handled.     *)
(* Voice capture, which only blocks the other operations, is left out.     *)
(***************************************************************************)
EXTENDS Naturals, Sequences, FiniteSets, SequencesExt

CONSTANTS
    Item,           \* items of the checklist
    None,
    Media,          \* may the consumer use images: a set of BOOLEANs
    MaxSessions,    \* bound on the sessions created
    MaxEdits,       \* bound on the changes the consumer asks for
    MaxPolls,       \* bound on the polls in flight
    MaxFailures,    \* bound on the requests that fail
    MaxAge          \* ages from here on are not told apart

Status == {"none", "pending_provider", "accepted", "rejected"}

ASSUME SessionPageAssumption ==
    /\ None \notin Item
    /\ None \notin [sid : Nat, changes : Nat, status : Status]
    /\ Media \subseteq BOOLEAN
    /\ MaxSessions \in Nat \ {0} /\ MaxEdits \in Nat /\ MaxPolls \in Nat
    /\ MaxFailures \in Nat /\ MaxAge \in Nat \ {0}

VARIABLES
    sessions,       \* the server's sessions; a session's index is its id
    page,           \* store.session
    busy,           \* store.busy
    mediaBusy,      \* store.mediaBusy
    checklistBusy,  \* store.checklistBusy
    syncing,        \* store.checklistSyncing
    polling,        \* store.pollTimer is set
    requests,       \* requests not settled yet, in the order they were begun
    appliedAge,     \* the age of the latest answer applied
    alerted,        \* a failure was shown and nothing has been applied since
    edits, failures,\* the consumer's changes and the failures so far
    images          \* does this consumer use images?

local == <<busy, mediaBusy, checklistBusy, syncing, polling>>
vars == <<sessions, page, local, requests, appliedAge, alerted, edits, failures,
          images>>

-----------------------------------------------------------------------------
(***************************************************************************)
(* The coordinator.                                                        *)
(***************************************************************************)
Older(age) == IF age < MaxAge THEN age + 1 ELSE MaxAge

Sent(kind, item, sid, reqs) ==
    Append([n \in DOMAIN reqs |-> [reqs[n] EXCEPT !.age = Older(@)]],
           [kind |-> kind, item |-> item, sid |-> sid, age |-> 0,
            replaced |-> FALSE, answer |-> None])

\* begin
Begin(kind, item, sid) ==
    /\ requests' = Sent(kind, item, sid, requests)
    /\ appliedAge' = Older(appliedAge)

\* beginReplacement: everything begun before is of an older generation.
BeginReplacement ==
    /\ requests' = Sent("create", None, 0,
          [n \in DOMAIN requests |-> [requests[n] EXCEPT !.replaced = TRUE]])
    /\ appliedAge' = Older(appliedAge)

\* Mutant: only the latest answer applied counts, not the latest request begun.
AcceptAnyUnapplied(q) == ~q.replaced /\ q.age < appliedAge
\* May the answer of q replace store.session?
Accept(q) ==
    /\ ~q.replaced
    /\ q.age = 0
    /\ q.age < appliedAge
    /\ q.sid # 0 => page # None /\ q.sid = page.sid /\ q.sid = q.answer.sid

-----------------------------------------------------------------------------
(***************************************************************************)
(* What the consumer and the timer start.  While an operation blocks the   *)
(* others, their controls are disabled; a checkbox does not wait for an    *)
(* image operation.                                                        *)
(***************************************************************************)
ChecklistMutation == checklistBusy # {} \/ syncing
Blocked == busy \/ mediaBusy \/ ChecklistMutation

Edit == edits < MaxEdits /\ edits' = edits + 1

\* Reset with a case: createSession.
StartOver ==
    /\ page # None /\ page.status # "none"
    /\ ~Blocked
    /\ Len(sessions) < MaxSessions
    /\ BeginReplacement
    /\ busy' = TRUE /\ polling' = FALSE /\ checklistBusy' = {}
    /\ UNCHANGED <<sessions, page, mediaBusy, syncing, alerted, edits, failures>>

\* A message, a branch, the form, the summary, or Reset without a case.
StartEdit ==
    /\ page # None /\ page.status = "none"
    /\ ~Blocked
    /\ Edit
    /\ Begin("edit", None, page.sid)
    /\ busy' = TRUE
    /\ UNCHANGED <<sessions, page, mediaBusy, checklistBusy, syncing, polling,
                   alerted, failures>>

ConfirmDispatch ==
    /\ page # None /\ page.status \in {"none", "rejected"}
    /\ ~Blocked
    /\ Edit
    /\ Begin("dispatch", None, page.sid)
    /\ busy' = TRUE
    /\ UNCHANGED <<sessions, page, mediaBusy, checklistBusy, syncing, polling,
                   alerted, failures>>

UpdateChecklistItem(i) ==
    /\ page # None
    /\ ~busy /\ ~syncing /\ i \notin checklistBusy
    /\ Edit
    /\ Begin("checklist", i, page.sid)
    /\ checklistBusy' = checklistBusy \cup {i}
    /\ UNCHANGED <<sessions, page, busy, mediaBusy, syncing, polling,
                   alerted, failures>>

\* Upload, confirm or remove an image: a request the coordinator never sees.
StartMedia ==
    /\ images
    /\ page # None /\ page.status = "none"
    /\ ~Blocked
    /\ Edit
    /\ requests' = Append(requests, [kind |-> "media", item |-> None,
            sid |-> page.sid, age |-> 0, replaced |-> FALSE, answer |-> None])
    /\ mediaBusy' = TRUE
    /\ UNCHANGED <<sessions, page, busy, checklistBusy, syncing, polling,
                   appliedAge, alerted, failures>>

Polls == {n \in DOMAIN requests : requests[n].kind = "poll"}
\* refreshSession, every three seconds, answered or not
RefreshSession ==
    /\ polling
    /\ page # None /\ page.status = "pending_provider"
    /\ ~Blocked
    /\ Cardinality(Polls) < MaxPolls
    /\ Begin("poll", None, page.sid)
    /\ UNCHANGED <<sessions, page, local, alerted, edits, failures>>

-----------------------------------------------------------------------------
(***************************************************************************)
(* The server, as far as the page can tell.                                *)
(***************************************************************************)
View(sid, ss) == [sid |-> sid, changes |-> ss[sid].changes, status |-> ss[sid].status]
Changed(sid) == [sessions EXCEPT ![sid].changes = @ + 1]
Sync == {"sync", "poll", "media_sync"}

Handle(n) ==
    LET q == requests[n]
        answerFrom(sid) ==
            requests' = [requests EXCEPT ![n].answer = View(sid, sessions')] IN
    /\ q.answer = None
    /\ \/ /\ q.kind = "create"
          /\ sessions' = Append(sessions, [changes |-> 0, status |-> "none"])
          /\ answerFrom(Len(sessions) + 1)
       \/ /\ \/ q.kind \in {"edit", "media"} /\ sessions[q.sid].status = "none"
             \/ q.kind = "checklist"
          /\ sessions' = Changed(q.sid)
          /\ answerFrom(q.sid)
       \/ /\ q.kind = "dispatch"
          /\ sessions' = IF sessions[q.sid].status \in {"none", "rejected"}
                         THEN [Changed(q.sid) EXCEPT
                                  ![q.sid].status = "pending_provider"]
                         ELSE sessions
          /\ answerFrom(q.sid)
       \/ /\ q.kind \in Sync
          /\ UNCHANGED sessions
          /\ answerFrom(q.sid)
    /\ UNCHANGED <<page, local, appliedAge, alerted, edits, failures>>

ProviderDecides(sid) ==
    /\ sessions[sid].status = "pending_provider"
    /\ \E st \in {"accepted", "rejected"} :
          sessions' = [sessions EXCEPT ![sid].status = st]
    /\ UNCHANGED <<page, local, requests, appliedAge, alerted, edits, failures>>

-----------------------------------------------------------------------------
(***************************************************************************)
(* Settling.                                                               *)
(***************************************************************************)
Others(n) == RemoveAt(requests, n)

\* Mutant: the checklist is not read again after its items were saved.
SyncDueNever(q) == FALSE
\* The last checklist request has settled: synchronizeChecklistSession.
SyncDue(q) ==
    /\ q.kind = "checklist"
    /\ checklistBusy' = {}
    /\ page' # None /\ page'.sid = q.sid

\* Mutant: an early return forgets to release the page.
FinishBusy(q, rest, age) ==
    /\ checklistBusy' = checklistBusy \ {q.item}
    /\ syncing' = (syncing /\ q.kind # "sync")
    /\ requests' = rest
    /\ appliedAge' = age
    /\ UNCHANGED <<busy, mediaBusy>>
\* The finally blocks; age is that of the latest answer applied by now.
Finish(q, rest, age) ==
    /\ busy' = (busy /\ q.kind \notin {"create", "edit", "dispatch"})
    /\ mediaBusy' = (mediaBusy /\ q.kind \notin {"media", "media_sync"})
    /\ checklistBusy' = checklistBusy \ {q.item}
    /\ IF SyncDue(q)
       THEN /\ syncing' = TRUE
            /\ requests' = Sent("sync", None, q.sid, rest)
            /\ appliedAge' = Older(age)
       ELSE /\ syncing' = (syncing /\ q.kind # "sync")
            /\ requests' = rest
            /\ appliedAge' = age

\* Mutant: the first answer to a poll ends the polling.
StillPollingOnce(q) ==
    IF q.kind = "dispatch" THEN q.answer.status = "pending_provider"
    ELSE polling /\ q.kind # "poll"
StillPolling(q) ==
    CASE q.kind = "dispatch" -> q.answer.status = "pending_provider"
      [] q.kind = "poll" -> polling /\ q.answer.status = "pending_provider"
      [] OTHER -> polling

Applied(n) ==
    LET q == requests[n] IN
    /\ q.answer # None
    /\ q.kind \notin {"media", "media_sync"}
    /\ Accept(q)
    /\ page' = q.answer
    /\ polling' = StillPolling(q)
    /\ alerted' = (alerted /\ q.kind = "checklist")
    /\ Finish(q, Others(n), q.age)
    /\ UNCHANGED <<sessions, edits, failures>>

Dropped(n) ==
    LET q == requests[n] IN
    /\ q.answer # None
    /\ q.kind \notin {"media", "media_sync"}
    /\ ~Accept(q)
    /\ UNCHANGED <<sessions, page, polling, alerted, edits, failures>>
    /\ Finish(q, Others(n), appliedAge)

\* applyMediaResponse: the answer replaces store.session as it is.
ApplyMediaResponse(n) ==
    LET q == requests[n] IN
    /\ q.answer # None
    /\ q.kind \in {"media", "media_sync"}
    /\ page' = q.answer
    /\ Finish(q, Others(n), appliedAge)
    /\ UNCHANGED <<sessions, polling, alerted, edits, failures>>

\* The server refuses, or the request or its answer is lost.
Failed(n) ==
    LET q == requests[n] IN
    /\ failures < MaxFailures
    /\ failures' = failures + 1
    /\ alerted' = TRUE
    /\ polling' = (polling /\ q.kind # "poll")
    /\ page' = page
    /\ Finish(q, Others(n), appliedAge)
    /\ UNCHANGED <<sessions, edits>>

\* IMAGE_CONFIRMATION_STALE: the session is read again.
MediaStale(n) ==
    /\ requests[n].kind = "media"
    /\ requests[n].answer = None
    /\ requests' = [requests EXCEPT ![n].kind = "media_sync"]
    /\ UNCHANGED <<sessions, page, local, appliedAge, alerted, edits, failures>>

-----------------------------------------------------------------------------
\* DOMContentLoaded: the page creates its first session.
Init ==
    /\ sessions = << >> /\ page = None
    /\ busy = TRUE /\ mediaBusy = FALSE
    /\ checklistBusy = {} /\ syncing = FALSE /\ polling = FALSE
    /\ requests = Sent("create", None, 0, << >>)
    /\ appliedAge = 1
    /\ alerted = FALSE /\ edits = 0 /\ failures = 0
    /\ images \in Media

Settle(n) == Applied(n) \/ Dropped(n) \/ ApplyMediaResponse(n)

Step ==
    \/ StartOver \/ StartEdit \/ ConfirmDispatch \/ StartMedia \/ RefreshSession
    \/ \E i \in Item : UpdateChecklistItem(i)
    \/ \E n \in DOMAIN requests : Handle(n)
    \/ \E n \in DOMAIN requests : Settle(n)
    \/ \E n \in DOMAIN requests : Failed(n)
    \/ \E n \in DOMAIN requests : MediaStale(n)
    \/ \E sid \in DOMAIN sessions : ProviderDecides(sid)

Next == Step /\ UNCHANGED images

Spec == Init /\ [][Next]_vars

Only(A) == Len(requests) = 1 /\ A /\ UNCHANGED images

\* The timer keeps firing and the oldest request is handled and answered.
\* Time and again an answer comes back within the polling interval: if each
\* took longer, each poll would be followed by another before its answer came,
\* and the coordinator would drop them all.
FairSpec ==
    /\ Spec
    /\ WF_vars(RefreshSession /\ UNCHANGED images)
    /\ WF_vars(requests # << >> /\ Handle(1) /\ UNCHANGED images)
    /\ WF_vars(requests # << >> /\ Settle(1) /\ UNCHANGED images)
    /\ SF_vars(Only(Handle(1))) /\ SF_vars(Only(Settle(1)))

-----------------------------------------------------------------------------
(***************************************************************************)
(* Properties.                                                             *)
(***************************************************************************)
ViewType == [sid : 1..MaxSessions, changes : 0..MaxEdits, status : Status]
RequestType ==
    [kind : {"create", "edit", "dispatch", "checklist", "media"} \cup Sync,
     item : Item \cup {None}, sid : 0..MaxSessions, age : 0..MaxAge,
     replaced : BOOLEAN, answer : ViewType \cup {None}]

\* The type invariant.  An operation that blocks the page has its request in
\* flight: no early return leaves the page blocked.
TypeOK ==
    /\ page \in ViewType \cup {None}
    /\ requests \in Seq(RequestType)
    /\ checklistBusy \subseteq Item
    /\ appliedAge \in 0..MaxAge
    /\ busy => \E n \in DOMAIN requests :
                  requests[n].kind \in {"create", "edit", "dispatch"}
    /\ mediaBusy => \E n \in DOMAIN requests :
                  requests[n].kind \in {"media", "media_sync"}
    /\ \A i \in checklistBusy : \E n \in DOMAIN requests :
                  requests[n].kind = "checklist" /\ requests[n].item = i
    /\ syncing => \E n \in DOMAIN requests : requests[n].kind = "sync"

Forward ==
    page # None => /\ page' # None
                   /\ page'.sid >= page.sid
                   /\ page'.sid = page.sid =>
                        /\ page'.changes >= page.changes
                        /\ page'.changes = page.changes =>
                             \/ page'.status = page.status
                             \/ page.status = "pending_provider"

\* An answer never takes the page back: not to a session that was replaced, not
\* to before a change it has shown, not from a decision to the wait for it.
NeverOlder == [][Forward]_vars

\* The coordinator keeps that promise for every answer it is asked about, that
\* is, as long as the consumer uses no image.
CoordinatedNeverOlder == [][~images => Forward]_vars

\* Once every request has settled and no failure was left unrecovered, the page
\* shows all the changes the server has made for the consumer, in whatever
\* order it handled and answered them (the answer of an image operation is
\* applied without asking the coordinator).
SettledPageIsCurrent ==
    requests = << >> /\ ~alerted /\ ~images /\ page # None =>
        page.changes = sessions[page.sid].changes

\* A provider's decision on the case that the page is polling for reaches the
\* page, or the consumer has left for a new session or was shown a failure.
DecisionReachesPage ==
    (/\ polling
     /\ page # None /\ page.status = "pending_provider"
     /\ sessions[page.sid].status # "pending_provider")
    ~> \/ ~(page # None /\ page.status = "pending_provider")
       \/ alerted
=============================================================================
