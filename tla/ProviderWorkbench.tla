-------------------------- MODULE ProviderWorkbench --------------------------
(***************************************************************************)
(* The provider's page (provider.js): an inbox polled every three seconds, *)
(* the selected case with its image, and a dialog that confirms the        *)
(* provider's decision.  `busy` lets one request run at a time; images are *)
(* fetched on the side.                                                    *)
(*                                                                         *)
(* An answer shows the server as it is when the answer arrives: while the  *)
(* request runs the page can do nothing that would tell the difference.    *)
(* Two fetches of the same image are not told apart.                       *)
(***************************************************************************)
EXTENDS Naturals

CONSTANTS
    Case, Provider,
    None,
    MaxFailures     \* bound on the requests that fail

ASSUME ProviderWorkbenchAssumption ==
    MaxFailures \in Nat /\ None \notin Case \cup Provider

VARIABLES
    cases,      \* the server's cases
    provider,   \* providerStore.providerId
    inbox,      \* providerStore.cases, as the status listed for each case
    filter,     \* providerStore.filter
    selected,   \* providerStore.selectedCaseId
    detail,     \* providerStore.detail
    request,    \* the request that keeps the page busy
    dialog,     \* the decision the open dialog asks to confirm
    shown,      \* the detail on the screen
    section,    \* the image section is not hidden
    src,        \* the case whose image the section holds
    fetches,    \* images on their way
    failures

store  == <<provider, inbox, filter, selected, detail>>
screen == <<shown, section, src, fetches>>
vars == <<cases, store, request, dialog, screen, failures>>

-----------------------------------------------------------------------------
Status == {"pending_provider", "accepted", "rejected"}
Busy == request # None
Deciding == Busy /\ request.kind = "decision"
Load(kind, c, d) == [kind |-> kind, case |-> c, decision |-> d]

\* get_provider_case
Detail(all, c) == [case |-> c, status |-> all[c].status,
                   image |-> all[c].image /\ all[c].status # "rejected"]

Listed(p) == [c \in Case |-> IF cases[c].provider = p THEN cases[c].status ELSE None]
\* visibleProviderCases
Visible(in, f) == {c \in Case : in[c] # None /\ f \in {"all", in[c]}}

\* reconcileProviderSelection: the first of the visible cases takes the place
\* of a selection that is not among them.
Reconcile(visible) ==
    \/ /\ selected \in visible
       /\ UNCHANGED <<selected, detail>>
    \/ /\ selected \notin visible
       /\ detail' = None
       /\ \/ visible = {} /\ selected' = None
          \/ \E c \in visible : selected' = c

\* renderProviderDetail and the first part of renderProviderCaseImage
Render(d) ==
    /\ shown' = d
    /\ IF d = None THEN UNCHANGED <<section, src, fetches>>
       ELSE /\ section' = d.image
            /\ src' = None
            /\ fetches' = IF ~d.image THEN fetches
                  ELSE fetches \cup {[case |-> d.case, provider |-> provider,
                                      answer |-> None]}

-----------------------------------------------------------------------------
(***************************************************************************)
(* The provider, and the timer.  An open dialog is modal.                  *)
(***************************************************************************)
\* loadProviderCases, by the timer or the refresh button
LoadCases ==
    /\ ~Busy
    /\ request' = Load("list", None, None)
    /\ UNCHANGED <<cases, store, dialog, screen, failures>>

\* Mutant: the detail of the previous identity's case is kept.
ChangeIdentityKeepsDetail(p) ==
    /\ ~Busy /\ dialog = None
    /\ p # provider
    /\ provider' = p
    /\ selected' = None
    /\ src' = None
    /\ request' = Load("list", None, None)
    /\ UNCHANGED <<cases, inbox, filter, detail, dialog, shown, section,
                   fetches, failures>>
ChangeIdentity(p) ==
    /\ ~Busy /\ dialog = None
    /\ p # provider
    /\ provider' = p
    /\ selected' = None /\ detail' = None
    /\ src' = None
    /\ request' = Load("list", None, None)
    /\ UNCHANGED <<cases, inbox, filter, dialog, shown, section, fetches,
                   failures>>

UpdateFilter(f) ==
    /\ ~Busy /\ dialog = None
    /\ filter' = f
    /\ Reconcile(Visible(inbox, f))
    /\ IF selected \in Visible(inbox, f)
       THEN UNCHANGED <<screen, request>>
       ELSE /\ Render(None)
            /\ request' = IF selected' = None THEN None
                          ELSE Load("detail", selected', None)
    /\ UNCHANGED <<cases, provider, inbox, dialog, failures>>

SelectCase(c) ==
    /\ ~Busy /\ dialog = None
    /\ c \in Visible(inbox, filter)
    /\ selected' = c
    /\ request' = Load("detail", c, None)
    /\ UNCHANGED <<cases, provider, inbox, filter, detail, dialog, screen,
                   failures>>

OpenDecisionDialog(d) ==
    /\ ~Busy /\ dialog = None
    /\ detail # None /\ detail.status = "pending_provider"
    /\ shown # None /\ shown.status = "pending_provider"
    /\ dialog' = d
    /\ UNCHANGED <<cases, store, request, screen, failures>>

Cancel ==
    /\ dialog # None
    /\ dialog' = None
    /\ UNCHANGED <<cases, store, request, screen, failures>>

\* Mutant: the selection is decided, not the case that was loaded.
ConfirmSelected ==
    /\ ~Busy /\ dialog # None
    /\ selected # None
    /\ request' = Load("decision", selected, dialog)
    /\ UNCHANGED <<cases, store, dialog, screen, failures>>
\* confirmProviderDecision
Confirm ==
    /\ ~Busy /\ dialog # None
    /\ detail # None
    /\ request' = Load("decision", detail.case, dialog)
    /\ UNCHANGED <<cases, store, dialog, screen, failures>>

-----------------------------------------------------------------------------
(***************************************************************************)
(* Answers.                                                                *)
(***************************************************************************)
ListAnswered ==
    /\ Busy /\ request.kind = "list"
    /\ inbox' = Listed(provider)
    /\ Reconcile(Visible(inbox', filter))
    /\ IF selected' = None
       THEN Render(detail') /\ request' = None
       ELSE UNCHANGED screen /\ request' = Load("detail", selected', None)
    /\ UNCHANGED <<cases, provider, filter, dialog, failures>>

DetailAnswered ==
    /\ Busy /\ request.kind = "detail"
    /\ cases[request.case].provider = provider
    /\ detail' = Detail(cases, request.case)
    /\ Render(detail')
    /\ request' = None
    /\ UNCHANGED <<cases, provider, inbox, filter, selected, dialog, failures>>

\* What the server makes of a decision: a case already decided the same way
\* was decided with the same idempotency key, so the request is a replay.
CanDecide(c, d) == cases[c].status \in {"pending_provider", d}
Decide(c, d) == cases' = [cases EXCEPT ![c].status = d]

DecisionAnswered ==
    /\ Deciding
    /\ CanDecide(request.case, request.decision)
    /\ Decide(request.case, request.decision)
    /\ detail' = Detail(cases', request.case)
    /\ dialog' = None
    /\ request' = Load("list", None, None)
    /\ UNCHANGED <<provider, inbox, filter, selected, screen, failures>>

\* The request is refused, or it or its answer is lost.
Failed ==
    /\ Busy
    /\ \/ /\ Deciding
          /\ ~CanDecide(request.case, request.decision)
          /\ UNCHANGED <<cases, failures>>
       \/ /\ request.kind = "detail"
          /\ cases[request.case].provider # provider
          /\ UNCHANGED <<cases, failures>>
       \/ /\ failures < MaxFailures
          /\ failures' = failures + 1
          /\ \/ UNCHANGED cases
             \/ /\ Deciding
                /\ CanDecide(request.case, request.decision)
                /\ Decide(request.case, request.decision)
    /\ request' = None
    /\ UNCHANGED <<store, dialog, screen>>

-----------------------------------------------------------------------------
(***************************************************************************)
(* Images.                                                                 *)
(***************************************************************************)
ServeImage(f) ==
    /\ f \in fetches /\ f.answer = None
    /\ LET c == cases[f.case]
           ok == c.provider = f.provider /\ c.status # "rejected"
           Answer(a) == fetches' = (fetches \ {f}) \cup {[f EXCEPT !.answer = a]} IN
       \/ Answer(IF ok THEN "image" ELSE "missing") /\ UNCHANGED failures
       \/ /\ failures < MaxFailures
          /\ failures' = failures + 1
          /\ Answer("missing")
    /\ UNCHANGED <<cases, store, request, dialog, shown, section, src>>

\* Mutant: an image is shown whenever it arrives.
WantedAlways(f) == TRUE
Wanted(f) == detail # None /\ detail.case = f.case /\ provider = f.provider

ImageArrives(f) ==
    /\ f \in fetches /\ f.answer = "image"
    /\ fetches' = fetches \ {f}
    /\ src' = IF Wanted(f) THEN f.case ELSE src
    /\ UNCHANGED <<cases, store, request, dialog, shown, section, failures>>

ImageFails(f) ==
    /\ f \in fetches /\ f.answer = "missing"
    /\ fetches' = fetches \ {f}
    /\ section' = FALSE
    /\ UNCHANGED <<cases, store, request, dialog, shown, src, failures>>

-----------------------------------------------------------------------------
(***************************************************************************)
(* Everybody else: consumers submit cases, and the same provider decides   *)
(* in another window.                                                      *)
(***************************************************************************)
Submitted(c, p, image) ==
    /\ cases[c].provider = None
    /\ cases' = [cases EXCEPT ![c] =
                    [provider |-> p, status |-> "pending_provider", image |-> image]]
    /\ UNCHANGED <<store, request, dialog, screen, failures>>

DecidedElsewhere(c, d) ==
    /\ cases[c].status = "pending_provider"
    /\ Decide(c, d)
    /\ UNCHANGED <<store, request, dialog, screen, failures>>

Init ==
    /\ cases = [c \in Case |-> [provider |-> None, status |-> None, image |-> FALSE]]
    /\ provider \in Provider
    /\ inbox = [c \in Case |-> None]
    /\ filter = "all"
    /\ selected = None /\ detail = None
    /\ request = Load("list", None, None)
    /\ dialog = None
    /\ shown = None /\ section = FALSE /\ src = None
    /\ fetches = {}
    /\ failures = 0

Answered == ListAnswered \/ DetailAnswered \/ DecisionAnswered \/ Failed

Next ==
    \/ LoadCases \/ Cancel \/ Confirm
    \/ \E p \in Provider : ChangeIdentity(p)
    \/ \E f \in Status \cup {"all"} : UpdateFilter(f)
    \/ \E c \in Case : SelectCase(c)
    \/ \E d \in {"accepted", "rejected"} : OpenDecisionDialog(d)
    \/ Answered
    \/ \E f \in fetches : ServeImage(f) \/ ImageArrives(f) \/ ImageFails(f)
    \/ \E c \in Case, p \in Provider, image \in BOOLEAN : Submitted(c, p, image)
    \/ \E c \in Case, d \in {"accepted", "rejected"} : DecidedElsewhere(c, d)

Spec == Init /\ [][Next]_vars

-----------------------------------------------------------------------------
(***************************************************************************)
(* Properties.                                                             *)
(***************************************************************************)
DetailType == [case : Case, status : Status, image : BOOLEAN]

\* The type invariant.  What the store keeps of a case is of a case assigned to
\* the identity in use.
TypeOK ==
    /\ detail \in DetailType \cup {None}
    /\ detail # None => cases[detail.case].provider = provider
    /\ selected \in Case \cup {None}
    /\ \A c \in Case : inbox[c] \in Status \cup {None}
    /\ shown \in DetailType \cup {None}
    /\ src \in Case \cup {None}
    /\ dialog \in {"accepted", "rejected", None}

\* The image on the screen is that of the case on the screen, whatever image
\* arrives late, and never of a case shown as rejected.
ImageOnScreen == shown # None /\ section /\ src # None
ImageIsOfTheCaseShown ==
    ImageOnScreen => src = shown.case /\ shown.status # "rejected"

\* A decision is sent for the case on the screen, never for one that is only
\* selected, or still loading, or shown to another identity.
DecisionIsForTheCaseShown ==
    Deciding =>
        /\ shown # None /\ request.case = shown.case
        /\ cases[request.case].provider = provider
=============================================================================
