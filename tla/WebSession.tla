----------------------------- MODULE WebSession -----------------------------
(***************************************************************************)
(* One consumer session of WebSessionService: from the description of a    *)
(* need to a dispatched case.  A handler holds the session's lock for its  *)
(* whole body, so it is one action on the record `rec`; the providers and  *)
(* the clock run in between.  Writes to the case workflow are the actions  *)
(* of CaseWorkflow itself.                                                 *)
(*                                                                         *)
(* What a text says is abstracted to what the code tells apart: whether it *)
(* is dangerous, outside the service, names branches, names a place or     *)
(* corrects the location.  The policies that read texts a second time, and *)
(* the tools, the agent and the image model, answer anything they may.  A  *)
(* handler that refuses and changes nothing is not an action.              *)
(***************************************************************************)
EXTENDS Naturals, Sequences, FiniteSets

CONSTANTS
    Branch,      \* repair branches
    Location,    \* resolved districts
    Answer,      \* complete answers to a branch's own questions
    Provider, Key, Start, CaseId, MaxNow, NoRecord,    \* see CaseWorkflow
    ChecklistKey, \* items of the consumer's checklist
    None,
    MaxTask,     \* bound on the tasks of the session (1 + resets)
    MaxId,       \* bound on the summary ids issued
    MaxMedia     \* bound on the images stored

VARIABLES
    rec,         \* the session's _SessionRecord
    ids,         \* summary ids issued so far; an id is a fresh uuid4
    files,       \* images in the media storage
    staged,      \* images a deletion neither removed nor put back
    uploads,     \* images stored so far
    screen,      \* the summary on the consumer's page
    saved,       \* the form as the consumer last saved it
    sent,        \* what each case holds, and what the consumer had approved
    cases, idempotency, now, reply      \* the case workflow

Me == "session"
Cases == INSTANCE CaseWorkflow WITH Session <- {Me}, Lag <- 0
caseVars == <<cases, idempotency, now, reply>>
vars == <<rec, ids, files, staged, uploads, screen, saved, sent, caseVars>>

ASSUME WebSessionAssumption ==
    /\ MaxTask \in Nat \ {0} /\ MaxId \in Nat /\ MaxMedia \in Nat
    /\ None \notin Branch \cup Location \cup Answer
    /\ Start \subseteq Nat \ {0} /\ CaseId \subseteq Nat /\ MaxNow \in Nat
    /\ NoRecord \notin Cases!Record
    /\ ChecklistKey \subseteq {"service", "location", "consultation"}

-----------------------------------------------------------------------------
(***************************************************************************)
(* The record.  0 stands for None where the field is a number; the service *)
(* is verified while it has evidence: Text, or the image it came from.     *)
(* "some": part of a branch's own questions are answered.  `approved`, not *)
(* a field of the code, is what the page showed when it was confirmed.     *)
(***************************************************************************)
\* Mutant: a rejection opens the session again.
LockedButRejected == {"matched", "no_candidates", "dispatch_pending",
                      "provider_accepted"}
Locked == {"matched", "no_candidates", "dispatch_pending",
           "provider_accepted", "provider_rejected"}
Dispatched == {"dispatch_pending", "provider_accepted", "provider_rejected"}

\* The evidence of the text tools, as a number no image has.
Text == MaxMedia + 1

NewRecord(task) ==
    [task |-> task, state |-> "collecting_need", routing |-> {}, branch |-> None,
     pending |-> FALSE, place |-> FALSE, stopped |-> FALSE, evidence |-> {},
     location |-> None, source |-> FALSE, form |-> None, started |-> FALSE,
     active |-> FALSE, own |-> None, shared |-> FALSE, start |-> 0,
     version |-> 0, id |-> 0, okVersion |-> 0, okId |-> 0, approved |-> None,
     recheck |-> FALSE, candidates |-> {}, media |-> 0, mediaBranch |-> None,
     mediaOk |-> FALSE, checklist |-> {}]

HasAnswers(r) == r.own # None \/ r.shared
FormReady(r) ==
    /\ r.branch # None
    /\ r.evidence # {}
    /\ r.location # None
    /\ r.form # None
\* _build_summary is not None
HasSummary(r) ==
    /\ r.version >= 1
    /\ r.id # 0
    /\ FormReady(r)
    /\ r.own \in Answer
    /\ r.start # 0
    /\ ~r.recheck
MediaConfirmed(r) == r.media = 0 \/ (r.mediaOk /\ r.mediaBranch = r.branch)
Image(r) == IF MediaConfirmed(r) THEN r.media ELSE 0
\* What the form and the summary say, and what a dispatched case says.
Form(r) == [branch |-> r.branch, location |-> r.location, form |-> r.form,
            own |-> r.own, start |-> r.start]
Content(r) == [form |-> Form(r), image |-> Image(r)]
Summary(r) == [task |-> r.task, id |-> r.id, version |-> r.version,
               content |-> Content(r)]

\* Mutant: a safety stop is not looked at again.
StableBranchPendingOnly(r) == ~r.pending
StableBranch(r) == ~r.stopped /\ ~r.pending
IntakeOpen(r) == ~r.stopped /\ ~HasAnswers(r) /\ r.state \notin Locked

Derive(r) ==
    IF r.stopped THEN "error"
    ELSE IF r.pending THEN "replacement_pending"
    ELSE IF r.candidates # {} THEN "matched"
    ELSE IF HasSummary(r) THEN "awaiting_summary_confirmation"
    ELSE IF FormReady(r) THEN "awaiting_form"
    ELSE IF \/ r.branch # None \/ r.evidence # {}
            \/ r.location # None \/ r.form # None THEN "clarifying"
    ELSE IF r.routing # {} THEN "routing_pending"
    ELSE "collecting_need"
Derived(r) == [r EXCEPT !.state = Derive(r)]

\* Mutant: the candidates of the old summary stay.
NewVersionMatched(r) ==
    [r EXCEPT !.version = IF @ > 0 THEN @ + 1 ELSE 0,
              !.id = IF r.version > 0 THEN ids + 1 ELSE 0,
              !.okVersion = 0, !.okId = 0]
\* `ids` is the last summary id issued; ids + 1 is a fresh one.
NewVersion(r) ==
    [r EXCEPT !.version = IF @ > 0 THEN @ + 1 ELSE 0,
              !.id = IF r.version > 0 THEN ids + 1 ELSE 0,
              !.okVersion = 0, !.okId = 0, !.candidates = {}]
Invalidate(r) ==
    [NewVersion(r) EXCEPT
        !.state = IF HasAnswers(r) THEN "awaiting_summary_confirmation" ELSE @]

SafetyStop(r) ==
    [Invalidate([r EXCEPT !.pending = FALSE, !.place = FALSE, !.stopped = TRUE])
        EXCEPT !.state = "error"]

StartGuided(r) ==
    IF r.started \/ ~(r.form # None /\ r.branch # None /\ r.location # None)
       \/ r.state = "error" THEN r
    ELSE [r EXCEPT !.started = TRUE,
                   !.active = r.own \notin Answer \/ r.start = 0]

DropImage(r) ==
    [r EXCEPT !.evidence = @ \ {r.media}, !.media = 0,
              !.mediaBranch = None, !.mediaOk = FALSE]

\* _to_view: the state follows the session's latest case.
Viewed(r, cs) ==
    IF cs = << >> THEN r
    ELSE [r EXCEPT !.state =
            CASE cs[Len(cs)].status = "pending_provider" -> "dispatch_pending"
              [] cs[Len(cs)].status = "accepted"         -> "provider_accepted"
              [] cs[Len(cs)].status = "rejected"         -> "provider_rejected"]

(***************************************************************************)
(* _run_agent_turn and _apply_agent_trace.  Only a completed turn whose    *)
(* whole trace is verified commits what the tools found; a recoverable     *)
(* rejection commits nothing, anything else is an error, and a text the    *)
(* conversation cannot hold raises.  A form needs a service and a location.*)
(***************************************************************************)
Found(r) ==
    LET Facts == [evidence : {r.evidence, r.evidence \cup {Text}},
                  location : {r.location} \cup Location,
                  source   : {r.source, TRUE}]
        Verified(t) ==
            /\ t.location # r.location => t.evidence # {}
            /\ t.source # r.source => t.evidence # {} /\ t.location # None
    IN {[r EXCEPT !.evidence = t.evidence, !.location = t.location,
                  !.source = t.source,
                  !.form = IF t.location # None /\ t.source THEN r.branch ELSE @] :
           t \in {u \in Facts : Verified(u)}}
AgentTurn(r) ==
    {r, [r EXCEPT !.state = "error"], StartGuided(Derived(r))}
    \cup {StartGuided(Derived(f)) : f \in Found(r)}

-----------------------------------------------------------------------------
\* The handler leaves the record as r, which issued a summary id if it has a
\* new one.
Becomes(r) ==
    /\ rec' = r
    /\ ids' = IF r.id > ids THEN r.id ELSE ids
    /\ ids' <= MaxId
Answered(r) == Becomes(Viewed(r, cases))

\* A handler that touches neither the files nor the cases.
Keep == UNCHANGED <<files, staged, uploads, screen, saved, sent, caseVars>>

-----------------------------------------------------------------------------
(***************************************************************************)
(* The media storage.  A deletion stages the image and then removes it;    *)
(* one that cannot stage it, or puts it back after the removal failed,     *)
(* makes the handler refuse and changes nothing.  An image that is not in  *)
(* its place cannot be staged.                                             *)
(***************************************************************************)
DeleteImage(m, new) ==
    /\ m \in files \cup {0}
    /\ files' = (files \ {m}) \cup new
    /\ UNCHANGED staged

\* The removal fails, and so does putting the image back: remove_image, reset,
\* a branch switch or a new image is refused, and the record keeps the image.
DeletionLost ==
    /\ cases = << >>
    /\ rec.media \in files
    /\ files' = files \ {rec.media}
    /\ staged' = staged \cup {rec.media}
    /\ UNCHANGED <<rec, ids, uploads, screen, saved, sent, caseVars>>

-----------------------------------------------------------------------------
(***************************************************************************)
(* send_message, one action for each way the handler can go.               *)
(***************************************************************************)
Hazard == Answered(SafetyStop([rec EXCEPT !.routing = {}])) /\ Keep

CanSay == ~rec.stopped /\ MediaConfirmed(rec) /\ rec.state \notin Locked

Describe(candidates) ==
    /\ CanSay
    /\ rec.branch = None
    /\ Answered([rec EXCEPT !.routing = candidates, !.pending = FALSE,
            !.place = FALSE,
            !.state = IF candidates # {} THEN "routing_pending"
                      ELSE "collecting_need"])
    /\ Keep

NonTarget ==
    /\ CanSay
    /\ LET r == [rec EXCEPT !.routing = {}, !.pending = FALSE, !.place = FALSE] IN
       Answered(IF rec.branch = None
                THEN [Invalidate([r EXCEPT !.stopped = TRUE])
                         EXCEPT !.state = "error"]
                ELSE Derived(r))
    /\ Keep

AskReplacement(candidates, place) ==
    /\ CanSay
    /\ rec.branch # None
    /\ candidates \ {rec.branch} # {}
    /\ Answered([rec EXCEPT !.routing = candidates, !.pending = TRUE,
            !.place = place, !.state = "replacement_pending"])
    /\ Keep

\* _prepare_location_correction
LocationCleared(r) ==
    [r EXCEPT !.location = None, !.source = FALSE, !.form = None,
              !.recheck = HasAnswers(r) \/ r.start # 0,
              !.checklist = @ \ {"location", "consultation"}]

CorrectLocation ==
    /\ CanSay
    /\ rec.branch # None
    /\ rec.form # None
    /\ \E r \in AgentTurn(Invalidate(LocationCleared(rec))) : Answered(r)
    /\ Keep

\* One guided question: answered, refused with the question repeated (no
\* change), or left for the form ("manual").
GuidedAnswers(r) ==
    LET noted == [r EXCEPT !.candidates = {}, !.checklist = @ \ {"consultation"}]
        asked == IF r.own = None THEN {[noted EXCEPT !.own = "some"]}
                 ELSE IF r.start = 0
                 THEN {[noted EXCEPT !.start = t] : t \in {u \in Start : u > now}}
                 ELSE {[noted EXCEPT !.own = a] : a \in Answer}
    IN {[Derived(q) EXCEPT !.active = q.own \notin Answer \/ q.start = 0] : q \in asked}

GuidedAnswer ==
    /\ CanSay
    /\ rec.branch # None
    /\ rec.form # None
    /\ rec.active
    /\ \/ Answered(Derived([rec EXCEPT !.active = FALSE]))
       \/ \E r \in GuidedAnswers(rec) : Answered(r)
    /\ Keep

Chat ==
    /\ CanSay
    /\ rec.branch # None
    /\ rec.form = None
    /\ \E r \in AgentTurn(rec) : Answered(r)
    /\ Keep

SendMessage ==
    \/ Hazard
    \/ \E c \in SUBSET Branch : Describe(c)
    \/ NonTarget
    \/ \E c \in SUBSET Branch, place \in BOOLEAN : AskReplacement(c, place)
    \/ CorrectLocation
    \/ GuidedAnswer
    \/ Chat

-----------------------------------------------------------------------------
(***************************************************************************)
(* confirm_branch                                                          *)
(***************************************************************************)
RejectProposal ==
    /\ LET unbound == /\ ~rec.pending /\ rec.branch = None
                      /\ rec.media # 0 /\ rec.mediaBranch = None
           r == [rec EXCEPT !.routing = {}, !.pending = FALSE, !.place = FALSE]
       IN /\ Answered(Derived(IF unbound THEN DropImage(r) ELSE r))
          /\ DeleteImage(IF unbound THEN rec.media ELSE 0, {})
    /\ UNCHANGED <<uploads, screen, saved, sent, caseVars>>

\* Mutant: the shared answers kept from the old branch count as confirmed.
ReplacedUnflagged(b, clear) ==
    LET r == [NewVersion(rec) EXCEPT
                !.branch = b, !.evidence = {}, !.started = FALSE,
                !.active = FALSE, !.own = None, !.media = 0,
                !.mediaBranch = None, !.mediaOk = FALSE,
                !.checklist = @ \ {"consultation"},
                !.form = IF rec.source THEN b ELSE None]
    IN IF clear
       THEN [r EXCEPT !.location = None, !.source = FALSE, !.form = None,
                      !.checklist = @ \ {"location"}]
       ELSE r

\* _replace_branch; clear says that the new need names another place
Replaced(b, clear) ==
    LET r == [NewVersion(rec) EXCEPT
                !.branch = b, !.evidence = {}, !.started = FALSE,
                !.active = FALSE, !.own = None, !.media = 0,
                !.mediaBranch = None, !.mediaOk = FALSE,
                !.recheck = \/ rec.location # None \/ rec.start # 0
                            \/ rec.shared \/ clear,
                !.checklist = @ \ {"consultation"},
                !.form = IF rec.source THEN b ELSE None]
    IN IF clear
       THEN [r EXCEPT !.location = None, !.source = FALSE, !.form = None,
                      !.checklist = @ \ {"location"}]
       ELSE r

\* The branch is confirmed: the service and the form were just looked up.
Confirmed(r, b) ==
    [r EXCEPT !.branch = b, !.evidence = @ \cup {Text}, !.source = TRUE,
              !.form = IF r.location # None THEN b ELSE None,
              !.mediaBranch = IF r.media # 0 /\ @ = None THEN b ELSE @,
              !.pending = FALSE, !.place = FALSE]

AcceptProposal(b) ==
    /\ LET replaced == rec.branch # None /\ b # rec.branch
           r == Confirmed(IF replaced THEN Replaced(b, rec.place) ELSE rec, b)
       IN /\ \/ r.location # None /\ Answered(StartGuided(Derived(r)))
             \/ r.location = None /\ \E q \in AgentTurn(r) : Answered(q)
          /\ DeleteImage(IF replaced THEN rec.media ELSE 0, {})
    /\ UNCHANGED <<uploads, screen, saved, sent, caseVars>>

ConfirmBranch(b, confirm) ==
    /\ ~rec.stopped
    /\ rec.branch = None \/ rec.pending
    /\ b \in rec.routing
    /\ \/ ~confirm /\ RejectProposal
       \/ confirm /\ AcceptProposal(b)
       \/ confirm /\ Becomes(SafetyStop(rec)) /\ Keep

-----------------------------------------------------------------------------
(***************************************************************************)
(* upload_image, confirm_image_analysis, remove_image.  An image without a *)
(* branch proposes one itself.  An image that cannot be read back after it *)
(* was stored is left behind.                                              *)
(***************************************************************************)
UploadImage ==
    /\ uploads < MaxMedia
    /\ IntakeOpen(rec)
    /\ uploads' = uploads + 1
    /\ LET m == uploads + 1
           r == [DropImage(rec) EXCEPT !.media = m, !.mediaBranch = rec.branch]
       IN \/ /\ rec.branch # None
             /\ DeleteImage(rec.media, {m})
             /\ Answered(Invalidate(r))
          \/ /\ rec.branch = None
             /\ DeleteImage(rec.media, {m})
             /\ \E b \in Branch :
                  Answered(Invalidate([r EXCEPT !.routing = {b}, !.pending = FALSE,
                      !.place = FALSE, !.state = "routing_pending"]))
          \/ /\ DeleteImage(0, {m})
             /\ UNCHANGED <<rec, ids>>
    /\ UNCHANGED <<screen, saved, sent, caseVars>>

ConfirmImage ==
    /\ IntakeOpen(rec)
    /\ rec.branch # None
    /\ rec.media # 0
    /\ rec.mediaBranch = rec.branch
    /\ \/ Answered(Derived(Invalidate([rec EXCEPT !.mediaOk = TRUE,
                               !.evidence = @ \cup {rec.media}])))
       \/ Becomes(SafetyStop(rec))
    /\ Keep

\* Mutant: an image is removed from a session that has cases.
RemoveImageAlways ==
    /\ rec.media # 0
    /\ Answered(Invalidate(DropImage(rec)))
    /\ DeleteImage(rec.media, {})
    /\ UNCHANGED <<uploads, screen, saved, sent, caseVars>>
RemoveImage ==
    /\ rec.media # 0
    /\ cases = << >>
    /\ LET unbound == rec.branch = None /\ rec.mediaBranch = None
           r == DropImage(rec) IN
       Answered(Invalidate(IF ~unbound THEN r
                ELSE Derived([r EXCEPT !.routing = {}, !.pending = FALSE,
                                       !.place = FALSE])))
    /\ DeleteImage(rec.media, {})
    /\ UNCHANGED <<uploads, screen, saved, sent, caseVars>>

-----------------------------------------------------------------------------
(***************************************************************************)
(* submit_form, confirm_summary, dispatch_case                             *)
(***************************************************************************)
FormOpen ==
    /\ rec.state # "error"
    /\ rec.state \notin Dispatched
    /\ cases = << >>

SubmitForm(a, t) ==
    /\ FormOpen
    /\ \/ /\ MediaConfirmed(rec)
          /\ StableBranch(rec)
          /\ rec.state \notin {"matched", "no_candidates"}
          /\ FormReady(rec)
          /\ t > now
          /\ LET r == [rec EXCEPT !.own = a, !.shared = TRUE, !.start = t,
                         !.started = TRUE, !.active = FALSE, !.candidates = {},
                         !.version = @ + 1, !.id = ids + 1, !.okVersion = 0,
                         !.okId = 0, !.recheck = FALSE,
                         !.checklist = @ \ {"consultation"},
                         !.state = "awaiting_summary_confirmation"]
             IN Answered(r) /\ saved' = Form(r)
       \/ Becomes(SafetyStop(rec)) /\ UNCHANGED saved
    /\ UNCHANGED <<files, staged, uploads, screen, sent, caseVars>>

\* Mutant: any summary of the same task may be confirmed.
CurrentAnyVersion(v) == v # None /\ v.task = rec.task /\ rec.id # 0
\* The request of the page names the summary the record has now.
Current(v) ==
    /\ v # None
    /\ v.task = rec.task
    /\ v.id = rec.id
    /\ v.version = rec.version

\* The page's summary is confirmed; the matching service answers with any
\* candidates.  A summary confirmed before is only shown again.
ConfirmSummary(found) ==
    /\ rec.state # "error"
    /\ \/ /\ MediaConfirmed(rec)
          /\ StableBranch(rec)
          /\ Current(screen)
          /\ HasSummary(rec)
          /\ IF rec.okVersion = rec.version /\ rec.okId = rec.id
             THEN Answered(rec)
             ELSE Answered([rec EXCEPT
                     !.okVersion = rec.version, !.okId = rec.id,
                     !.approved = screen.content, !.candidates = found,
                     !.state = IF found # {} THEN "matched" ELSE "no_candidates"])
       \/ Becomes(SafetyStop(rec))
    /\ Keep

DispatchCase(p, k) ==
    /\ rec.state # "error"
    /\ \/ /\ MediaConfirmed(rec)
          /\ StableBranch(rec)
          /\ rec.version >= 1 /\ rec.id # 0
          /\ rec.okVersion = rec.version /\ rec.okId = rec.id
          /\ FormReady(rec)
          /\ rec.start > now
          /\ p \in rec.candidates
          /\ Cases!Submit(k, [op |-> "submit_case", session |-> Me,
                              provider |-> p, start |-> rec.start])
          /\ sent' = IF Len(cases') > Len(cases)
                     THEN Append(sent, [content |-> Content(rec),
                                        approved |-> rec.approved])
                     ELSE sent
          /\ rec' = IF reply'.kind = "error" THEN rec ELSE Viewed(rec, cases')
          /\ UNCHANGED ids
       \/ /\ Becomes(SafetyStop(rec))
          /\ UNCHANGED <<sent, caseVars>>
    /\ UNCHANGED <<files, staged, uploads, screen, saved>>

-----------------------------------------------------------------------------
UpdateChecklistItem(item, checked) ==
    /\ Answered([rec EXCEPT !.checklist =
                    IF checked THEN @ \cup {item} ELSE @ \ {item}])
    /\ Keep

Reset ==
    /\ cases = << >>
    /\ rec.task < MaxTask
    /\ rec' = NewRecord(rec.task + 1)
    /\ DeleteImage(rec.media, {})
    /\ UNCHANGED <<ids, uploads, screen, saved, sent, caseVars>>

\* get_session, and the arrival on the page of this or any other answer: an
\* answer that is lost or late leaves the page with an older summary.
GetSession ==
    LET r == Viewed(rec, cases) IN
    /\ rec' = r
    /\ screen' = IF HasSummary(r) THEN Summary(r) ELSE None
    /\ UNCHANGED <<ids, files, staged, uploads, saved, sent, caseVars>>

\* The provider's side and the clock.
ProviderDecides(k, r) ==
    /\ Cases!Decide(k, r)
    /\ UNCHANGED <<rec, ids, files, staged, uploads, screen, saved, sent>>
Tick ==
    /\ Cases!Tick
    /\ UNCHANGED <<rec, ids, files, staged, uploads, screen, saved, sent>>

Init ==
    /\ rec = NewRecord(1)
    /\ ids = 0 /\ uploads = 0
    /\ files = {} /\ staged = {}
    /\ screen = None /\ saved = None
    /\ sent = << >>
    /\ Cases!Init

Next ==
    \/ SendMessage
    \/ \E b \in Branch, confirm \in BOOLEAN : ConfirmBranch(b, confirm)
    \/ UploadImage
    \/ ConfirmImage
    \/ RemoveImage
    \/ DeletionLost
    \/ \E a \in Answer, t \in Start : SubmitForm(a, t)
    \/ \E found \in SUBSET Provider : ConfirmSummary(found)
    \/ \E p \in Provider, k \in Key : DispatchCase(p, k)
    \/ \E item \in ChecklistKey, checked \in BOOLEAN :
          UpdateChecklistItem(item, checked)
    \/ Reset
    \/ GetSession
    \/ \E k \in Key, r \in Cases!Decision : ProviderDecides(k, r)
    \/ Tick

Spec == Init /\ [][Next]_vars

-----------------------------------------------------------------------------
(***************************************************************************)
(* Properties.                                                             *)
(***************************************************************************)
State == {"collecting_need", "routing_pending", "replacement_pending",
          "clarifying", "awaiting_form", "awaiting_summary_confirmation",
          "matched", "no_candidates", "dispatch_pending", "provider_accepted",
          "provider_rejected", "error"}
FormType == [branch : Branch \cup {None}, location : Location \cup {None},
             form : Branch \cup {None}, own : Answer \cup {None, "some"},
             start : Start \cup {0}]
ContentType == [form : FormType, image : 0..MaxMedia]

\* The type invariant of the session.  A form is the projection for the branch
\* in force, candidates belong to the summary that was confirmed, and the image
\* of the record is on the disk.
TypeOK ==
    /\ rec.state \in State
    /\ rec.routing \subseteq Branch
    /\ Content(rec) \in ContentType
    /\ rec.form \in {None, rec.branch}
    /\ rec.evidence \subseteq 1..Text
    /\ rec.candidates \subseteq Provider
    /\ rec.candidates # {} => rec.okId = rec.id /\ rec.okVersion = rec.version
    /\ rec.checklist \subseteq ChecklistKey
    /\ rec.media \in files \cup staged \cup {0}
    /\ rec.task \in 1..MaxTask
    /\ ids \in 0..MaxId /\ uploads \in 0..MaxMedia
    /\ rec.id \in 0..ids /\ rec.okId \in {0, rec.id}
    /\ files \subseteq 1..uploads /\ staged \subseteq 1..uploads \ files
    /\ screen # None => screen.content \in ContentType
    /\ Len(sent) = Len(cases)
    /\ Cases!TypeOK

\* What a provider is sent is, field for field, what the consumer's page showed
\* when the consumer confirmed the summary: no correction, image change, branch
\* switch, reset or late page in between reaches a case unconfirmed.
SentAsApproved == \A i \in DOMAIN sent : sent[i].content = sent[i].approved

\* Whatever a summary shows was saved in the form as it stands: a value kept
\* from another branch, guided answers, or a location the agent resolved later
\* is in no summary before the consumer saved the form again.
SummaryIsWhatWasSaved == HasSummary(rec) => Form(rec) = saved

\* The image of a case stays on the disk for the provider it was sent to, in its
\* place unless a deletion had gone wrong twice before the case was sent.
CaseImageKept ==
    \A i \in DOMAIN sent : sent[i].content.image \in files \cup staged \cup {0}

\* A safety stop holds until the consumer starts over: from then on no case is
\* created, however far the session was and whatever its state shows.
SafetyStopHolds ==
    [][rec.stopped =>
         /\ Len(cases') = Len(cases)
         /\ rec'.stopped \/ rec'.task # rec.task]_vars

\* Once a case is submitted, the form, the answers and the location it was made
\* from are never rewritten, in any state the providers' decisions lead to.
DispatchedFormIsFrozen == [][cases # << >> => Form(rec') = Form(rec)]_vars
=============================================================================
