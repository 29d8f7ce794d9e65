----------------------- MODULE ProviderWorkbenchProofs -----------------------
(***************************************************************************)
(* What the provider's page shows and what it decides, for any number of   *)
(* cases, identities and failing requests.                                 *)
(*                                                                         *)
(* The argument: whatever the store holds of a case is on the screen, so   *)
(* the case an image or a decision is checked against is the case shown.   *)
(* Only a rendering shows the image section, and it does so for a case     *)
(* whose image the provider may see; every rendering forgets the image     *)
(* before.                                                                 *)
(***************************************************************************)
EXTENDS ProviderWorkbench, TLAPS

\* The server's cases
CaseOf(x) ==
    /\ x = [provider |-> x.provider, status |-> x.status, image |-> x.image]
    /\ x.image \in BOOLEAN
    /\ x.provider \in Provider => x.status \in Status
ServerInv ==
    /\ cases = [c \in Case |-> cases[c]]
    /\ \A c \in Case : CaseOf(cases[c])
\* What the page asks for is asked for a case.
RequestInv ==
    Busy /\ request.kind \in {"detail", "decision"} =>
        /\ request.case \in Case
        /\ request.kind = "decision" => request.decision \in {"accepted", "rejected"}
ShownInv ==
    /\ detail # None => shown # None /\ shown.case = detail.case
    /\ shown # None /\ section => shown.status # "rejected"
IInv ==
    /\ provider \in Provider
    /\ ServerInv /\ RequestInv /\ ShownInv
    /\ TypeOK /\ ImageIsOfTheCaseShown /\ DecisionIsForTheCaseShown

LEMMA DetailShown ==
    ASSUME NEW all, NEW c \in Case, CaseOf(all[c]), all[c].provider \in Provider
    PROVE  /\ Detail(all, c) \in DetailType /\ Detail(all, c).case = c
           /\ Detail(all, c).image => Detail(all, c).status # "rejected"
<1> DEFINE image == all[c].image /\ all[c].status # "rejected"
<1>1. image \in BOOLEAN
  BY DEF CaseOf
<1>2. Detail(all, c) = [case |-> c, status |-> all[c].status, image |-> image]
  BY DEF Detail
<1>3. image => all[c].status # "rejected"
  OBVIOUS
<1> HIDE DEF image
<1> QED
  BY <1>1, <1>2, <1>3 DEF CaseOf, DetailType

LEMMA Rendered ==
    ASSUME NEW d, Render(d), d # None => (d.image => d.status # "rejected"),
           d \in DetailType \cup {None}, src \in Case \cup {None}
    PROVE  /\ shown' = d /\ shown' \in DetailType \cup {None}
           /\ shown' # None /\ section' => shown'.status # "rejected"
           /\ src' \in Case \cup {None}
           /\ ImageIsOfTheCaseShown'
<1>1. CASE d = None
  BY <1>1 DEF Render, ImageIsOfTheCaseShown, ImageOnScreen
<1>2. CASE d # None
  <2>1. shown' = d /\ section' = d.image /\ src' = None
    BY <1>2 DEF Render
  <2> QED
    BY <1>2, <2>1 DEF ImageIsOfTheCaseShown, ImageOnScreen
<1> QED
  BY <1>1, <1>2

\* A step that changes neither the cases nor what is shown of them.
LEMMA QuietIInv ==
    ASSUME IInv, UNCHANGED <<cases, provider, inbox, detail, shown, section, src>>,
           selected' \in Case \cup {None}, dialog' \in {"accepted", "rejected", None},
           RequestInv', DecisionIsForTheCaseShown'
    PROVE  IInv'
<1> USE DEF IInv
<1>1. ServerInv' /\ ShownInv'
  BY DEF ServerInv, ShownInv
<1>2. TypeOK'
  BY DEF TypeOK
<1>3. ImageIsOfTheCaseShown'
  BY DEF ImageIsOfTheCaseShown, ImageOnScreen
<1> QED
  BY <1>1, <1>2, <1>3

LEMMA Asks ==
    ASSUME NEW kind, kind # "decision", NEW c, kind = "detail" => c \in Case, NEW d,
           request' = Load(kind, c, d) \/ request' = None
    PROVE  RequestInv' /\ DecisionIsForTheCaseShown'
  BY DEF RequestInv, Busy, Load, DecisionIsForTheCaseShown, Deciding

LEMMA AsksNothing ==
    ASSUME request' = None PROVE RequestInv' /\ DecisionIsForTheCaseShown'
  BY DEF RequestInv, Busy, DecisionIsForTheCaseShown, Deciding

-----------------------------------------------------------------------------
(***************************************************************************)
(* The provider, and the timer.                                            *)
(***************************************************************************)
LEMMA LoadCasesIInv == ASSUME IInv, LoadCases PROVE IInv'
<1>1. RequestInv' /\ DecisionIsForTheCaseShown'
  BY Asks DEF LoadCases
<1> QED
  BY <1>1, QuietIInv DEF LoadCases, store, screen, IInv, TypeOK

LEMMA ChangeIdentityIInv ==
    ASSUME IInv, NEW p \in Provider, ChangeIdentity(p) PROVE IInv'
<1> USE DEF IInv, ChangeIdentity
<1>1. RequestInv' /\ DecisionIsForTheCaseShown'
  BY Asks
<1>2. ServerInv' /\ ShownInv'
  BY DEF ServerInv, ShownInv
<1>3. TypeOK'
  BY DEF TypeOK
<1>4. ImageIsOfTheCaseShown'
  BY DEF ImageIsOfTheCaseShown, ImageOnScreen
<1> QED
  BY <1>1, <1>2, <1>3, <1>4

LEMMA VisibleCases == \A in, f : Visible(in, f) \subseteq Case /\ None \notin Visible(in, f)
  BY ProviderWorkbenchAssumption DEF Visible

LEMMA UpdateFilterIInv == ASSUME IInv, NEW f, UpdateFilter(f) PROVE IInv'
<1> DEFINE visible == Visible(inbox, f)
<1> USE DEF IInv
<1>1. UNCHANGED <<cases, provider, inbox, dialog>> /\ Reconcile(visible)
  BY DEF UpdateFilter
<1>2. selected' \in Case \cup {None}
  BY <1>1, VisibleCases DEF Reconcile, TypeOK
<1>3. CASE selected \in visible
  <2>1. UNCHANGED <<detail, shown, section, src, request>>
    BY <1>1, <1>3 DEF UpdateFilter, screen, Reconcile
  <2>2. RequestInv' /\ DecisionIsForTheCaseShown'
    BY <1>1, <2>1 DEF RequestInv, Busy, DecisionIsForTheCaseShown, Deciding
  <2> QED
    BY <1>1, <1>2, <2>1, <2>2, QuietIInv DEF TypeOK
<1>4. CASE selected \notin visible
  <2>1. detail' = None /\ Render(None)
    BY <1>1, <1>4 DEF UpdateFilter, Reconcile
  <2>2. shown' = None /\ src' \in Case \cup {None} /\ ImageIsOfTheCaseShown'
    BY <2>1, Rendered DEF TypeOK
  <2>3. RequestInv' /\ DecisionIsForTheCaseShown'
    <3>1. PICK c \in Case \cup {None} : selected' = c
      BY <1>2
    <3>2. request' = IF c = None THEN None ELSE Load("detail", c, None)
      BY <1>4, <3>1 DEF UpdateFilter
    <3>3. CASE c = None
      BY <3>2, <3>3, AsksNothing
    <3>4. CASE c \in Case
      BY <3>2, <3>4, Asks, ProviderWorkbenchAssumption
    <3> QED
      BY <3>3, <3>4
  <2>4. ServerInv' /\ ShownInv'
    BY <1>1, <2>1, <2>2 DEF ServerInv, ShownInv
  <2>5. TypeOK'
    BY <1>1, <1>2, <2>1, <2>2 DEF TypeOK
  <2> QED
    BY <1>1, <2>2, <2>3, <2>4, <2>5
<1> QED
  BY <1>3, <1>4

LEMMA SelectCaseIInv == ASSUME IInv, NEW c \in Case, SelectCase(c) PROVE IInv'
<1>1. RequestInv' /\ DecisionIsForTheCaseShown'
  BY Asks DEF SelectCase
<1> QED
  BY <1>1, QuietIInv DEF SelectCase, screen, IInv, TypeOK

LEMMA DialogIInv ==
    ASSUME IInv, Cancel \/ \E d \in {"accepted", "rejected"} : OpenDecisionDialog(d)
    PROVE  IInv'
<1>1. UNCHANGED <<cases, store, request, screen>>
      /\ dialog' \in {"accepted", "rejected", None}
  BY DEF Cancel, OpenDecisionDialog
<1>2. RequestInv' /\ DecisionIsForTheCaseShown'
  BY <1>1 DEF IInv, RequestInv, Busy, DecisionIsForTheCaseShown, Deciding, store, screen
<1> QED
  BY <1>1, <1>2, QuietIInv DEF store, screen, IInv, TypeOK

\* The case confirmed is the one in the store, and so the one on the screen.
LEMMA ConfirmIInv == ASSUME IInv, Confirm PROVE IInv'
<1> USE DEF IInv, Confirm, store, screen
<1>1. detail \in DetailType /\ request' = Load("decision", detail.case, dialog)
      /\ shown # None /\ shown.case = detail.case
      /\ cases[detail.case].provider = provider
  BY DEF TypeOK, ShownInv
<1>2. detail.case \in Case /\ dialog \in {"accepted", "rejected"}
  BY <1>1 DEF DetailType, TypeOK
<1>3. RequestInv' /\ DecisionIsForTheCaseShown'
  BY <1>1, <1>2 DEF RequestInv, Load, DecisionIsForTheCaseShown
<1> QED
  BY <1>3, QuietIInv DEF TypeOK

-----------------------------------------------------------------------------
(***************************************************************************)
(* Answers.                                                                *)
(***************************************************************************)
LEMMA ListAnsweredIInv == ASSUME IInv, ListAnswered PROVE IInv'
<1> DEFINE visible == Visible(inbox', filter)
<1> USE DEF IInv
<1>1. UNCHANGED <<cases, provider, dialog>> /\ Reconcile(visible)
  BY DEF ListAnswered
<1>2. selected' \in Case \cup {None}
  BY <1>1, VisibleCases DEF Reconcile, TypeOK
<1>3. \A c \in Case : inbox'[c] \in Status \cup {None}
  BY DEF ListAnswered, Listed, ServerInv, CaseOf
<1>4. ServerInv'
  BY <1>1 DEF ServerInv
<1>5. detail' = detail \/ detail' = None
  BY <1>1 DEF Reconcile
<1>6. CASE selected' = None
  <2>1. detail' = None
    BY <1>1, <1>6, VisibleCases DEF Reconcile
  <2>2. Render(None) /\ request' = None
    BY <1>6, <2>1 DEF ListAnswered
  <2>3. shown' = None /\ src' \in Case \cup {None} /\ ImageIsOfTheCaseShown'
    BY <2>2, Rendered DEF TypeOK
  <2>4. RequestInv' /\ DecisionIsForTheCaseShown'
    BY <2>2, AsksNothing
  <2>5. ShownInv' /\ TypeOK'
    BY <1>1, <1>2, <1>3, <2>1, <2>3 DEF ShownInv, TypeOK
  <2> QED
    BY <1>1, <1>4, <2>3, <2>4, <2>5
<1>7. CASE selected' # None
  <2>1. UNCHANGED <<shown, section, src>> /\ request' = Load("detail", selected', None)
    BY <1>7 DEF ListAnswered, screen
  <2>2. PICK c \in Case : selected' = c
    BY <1>2, <1>7
  <2>3. RequestInv' /\ DecisionIsForTheCaseShown'
    BY <2>1, <2>2, Asks
  <2>4. ShownInv' /\ TypeOK' /\ ImageIsOfTheCaseShown'
    BY <1>1, <1>2, <1>3, <1>5, <2>1
       DEF ShownInv, TypeOK, ImageIsOfTheCaseShown, ImageOnScreen
  <2> QED
    BY <1>1, <1>4, <2>3, <2>4
<1> QED
  BY <1>6, <1>7

LEMMA DetailAnsweredIInv == ASSUME IInv, DetailAnswered PROVE IInv'
<1> USE DEF IInv
<1>1. UNCHANGED <<cases, provider, inbox, selected, dialog>> /\ request' = None
  BY DEF DetailAnswered
<1>2. PICK d : detail' = d /\ d = Detail(cases, request.case)
  BY DEF DetailAnswered
<1>3. request.case \in Case /\ cases[request.case].provider = provider
  BY DEF DetailAnswered, RequestInv
<1>4. d \in DetailType /\ d.case = request.case /\ (d.image => d.status # "rejected")
  BY <1>2, <1>3, DetailShown DEF ServerInv
<1>5. Render(d)
  BY <1>2 DEF DetailAnswered
<1>6. /\ shown' = d /\ (shown' # None /\ section' => shown'.status # "rejected")
      /\ src' \in Case \cup {None} /\ ImageIsOfTheCaseShown'
  BY <1>4, <1>5, Rendered DEF TypeOK
<1>7. RequestInv' /\ DecisionIsForTheCaseShown'
  BY <1>1, AsksNothing
<1>8. ServerInv' /\ ShownInv' /\ TypeOK'
  BY <1>1, <1>2, <1>3, <1>4, <1>6 DEF ServerInv, ShownInv, TypeOK
<1> QED
  BY <1>1, <1>6, <1>7, <1>8

\* A decision changes nothing of the cases but a status.
LEMMA DecidedServer ==
    ASSUME ServerInv, NEW c \in Case, NEW d \in {"accepted", "rejected"}, Decide(c, d)
    PROVE  /\ ServerInv'
           /\ \A x \in Case : cases'[x].provider = cases[x].provider
<1>1. \A x \in Case : cases'[x] = IF x = c THEN [cases[c] EXCEPT !.status = d] ELSE cases[x]
  BY DEF Decide, ServerInv
<1>2. cases' = [x \in Case |-> cases'[x]]
  BY DEF Decide, ServerInv
<1>3. CaseOf([cases[c] EXCEPT !.status = d])
      /\ [cases[c] EXCEPT !.status = d].provider = cases[c].provider
  BY DEF ServerInv, CaseOf, Status
<1> QED
  BY <1>1, <1>2, <1>3 DEF ServerInv

LEMMA DecisionAnsweredIInv == ASSUME IInv, DecisionAnswered PROVE IInv'
<1> USE DEF IInv
<1>1. UNCHANGED <<provider, inbox, selected, shown, section, src>>
      /\ request' = Load("list", None, None) /\ dialog' = None
  BY DEF DecisionAnswered, screen
<1>2. request.case \in Case /\ request.decision \in {"accepted", "rejected"}
      /\ shown # None /\ request.case = shown.case
      /\ cases[request.case].provider = provider
  BY DEF DecisionAnswered, Deciding, RequestInv, DecisionIsForTheCaseShown
<1>3. PICK c, d : c = request.case /\ d = request.decision
  OBVIOUS
<1>4. ServerInv' /\ \A x \in Case : cases'[x].provider = cases[x].provider
  BY <1>2, <1>3, DecidedServer DEF DecisionAnswered
<1>5. PICK all : all = cases'
  OBVIOUS
<1>6. detail' = Detail(all, c) /\ CaseOf(all[c]) /\ all[c].provider = provider
  BY <1>2, <1>3, <1>4, <1>5 DEF DecisionAnswered, ServerInv
<1>7. detail' \in DetailType /\ detail'.case = c
  BY <1>2, <1>3, <1>6, DetailShown
<1>8. RequestInv' /\ DecisionIsForTheCaseShown'
  BY <1>1, Asks
<1>9. ShownInv' /\ TypeOK' /\ ImageIsOfTheCaseShown'
  BY <1>1, <1>2, <1>3, <1>5, <1>6, <1>7
     DEF ShownInv, TypeOK, ImageIsOfTheCaseShown, ImageOnScreen
<1> QED
  BY <1>1, <1>4, <1>8, <1>9

\* The cases change and nothing on the page does, but for a request that may end.
LEMMA ServerIInv ==
    ASSUME IInv, UNCHANGED <<provider, inbox, selected, detail, dialog, shown, section, src>>,
           ServerInv', \A x \in Case : cases[x].provider = provider
                                          => cases'[x].provider = provider,
           request' = request \/ request' = None
    PROVE  IInv'
<1> USE DEF IInv
<1>1. RequestInv' /\ DecisionIsForTheCaseShown'
  BY DEF RequestInv, Busy, DecisionIsForTheCaseShown, Deciding
<1>2. ShownInv' /\ ImageIsOfTheCaseShown'
  BY DEF ShownInv, ImageIsOfTheCaseShown, ImageOnScreen
<1>3. TypeOK'
  BY DEF TypeOK, DetailType
<1> QED
  BY <1>1, <1>2, <1>3

LEMMA FailedIInv == ASSUME IInv, Failed PROVE IInv'
<1> USE DEF IInv
<1>1. UNCHANGED <<provider, inbox, selected, detail, dialog, shown, section, src>>
      /\ request' = None
  BY DEF Failed, store, screen
<1>2. CASE UNCHANGED cases
  BY <1>1, <1>2, ServerIInv DEF ServerInv
<1>3. CASE Deciding /\ Decide(request.case, request.decision)
  <2>1. PICK c \in Case, d \in {"accepted", "rejected"} : c = request.case /\ d = request.decision
    BY <1>3 DEF RequestInv, Deciding
  <2>2. ServerInv' /\ \A x \in Case : cases'[x].provider = cases[x].provider
    BY <1>3, <2>1, DecidedServer
  <2> QED
    BY <1>1, <2>2, ServerIInv
<1> QED
  BY <1>2, <1>3 DEF Failed

-----------------------------------------------------------------------------
(***************************************************************************)
(* Images, and everybody else.                                             *)
(***************************************************************************)
LEMMA ServeImageIInv == ASSUME IInv, NEW f, ServeImage(f) PROVE IInv'
<1>1. UNCHANGED <<cases, store, request, dialog, shown, section, src>>
  BY DEF ServeImage
<1>2. RequestInv' /\ DecisionIsForTheCaseShown'
  BY <1>1 DEF IInv, RequestInv, Busy, DecisionIsForTheCaseShown, Deciding, store
<1> QED
  BY <1>1, <1>2, QuietIInv DEF store, IInv, TypeOK

\* The image is wanted if it is of the case in the store, which is shown.
LEMMA ImageIInv == ASSUME IInv, NEW f, ImageArrives(f) \/ ImageFails(f) PROVE IInv'
<1> USE DEF IInv, store
<1>1. UNCHANGED <<cases, provider, inbox, selected, detail, request, dialog, shown>>
  BY DEF ImageArrives, ImageFails
<1>2. section' = section \/ ~section'
  BY DEF ImageArrives, ImageFails
<1>3. src' = src \/ (section' = section /\ Wanted(f) /\ src' = f.case)
  BY DEF ImageArrives, ImageFails
<1>4. Wanted(f) => f.case \in Case /\ shown # None /\ shown.case = f.case
  BY DEF Wanted, ShownInv, TypeOK, DetailType
<1>5. ServerInv' /\ RequestInv' /\ DecisionIsForTheCaseShown'
  BY <1>1 DEF ServerInv, RequestInv, Busy, DecisionIsForTheCaseShown, Deciding
<1>6. ShownInv'
  BY <1>1, <1>2 DEF ShownInv
<1>7. TypeOK'
  BY <1>1, <1>3, <1>4 DEF TypeOK
<1>8. ImageIsOfTheCaseShown'
  BY <1>1, <1>2, <1>3, <1>4 DEF ShownInv, ImageIsOfTheCaseShown, ImageOnScreen
<1> QED
  BY <1>1, <1>5, <1>6, <1>7, <1>8

LEMMA OthersIInv ==
    ASSUME IInv,
           \/ \E c \in Case, p \in Provider, image \in BOOLEAN : Submitted(c, p, image)
           \/ \E c \in Case, d \in {"accepted", "rejected"} : DecidedElsewhere(c, d)
    PROVE  IInv'
<1> USE DEF IInv
<1>1. UNCHANGED <<provider, inbox, selected, detail, dialog, shown, section, src, request>>
  BY DEF Submitted, DecidedElsewhere, store, screen
<1>2. ASSUME NEW c \in Case, NEW p \in Provider, NEW image \in BOOLEAN, Submitted(c, p, image)
      PROVE  IInv'
  <2>1. cases' = [cases EXCEPT ![c] =
                    [provider |-> p, status |-> "pending_provider", image |-> image]]
        /\ cases[c].provider = None
    BY <1>2 DEF Submitted
  <2>2. CaseOf([provider |-> p, status |-> "pending_provider", image |-> image])
    BY DEF CaseOf, Status
  <2>3. ServerInv'
    BY <2>1, <2>2 DEF ServerInv
  <2>4. \A x \in Case : cases[x].provider = provider => cases'[x].provider = provider
    BY <2>1, ProviderWorkbenchAssumption DEF ServerInv
  <2> QED
    BY <1>1, <2>3, <2>4, ServerIInv
<1>3. ASSUME NEW c \in Case, NEW d \in {"accepted", "rejected"}, DecidedElsewhere(c, d)
      PROVE  IInv'
  BY <1>1, <1>3, DecidedServer, ServerIInv DEF DecidedElsewhere
<1> QED
  BY <1>2, <1>3

-----------------------------------------------------------------------------
LEMMA InitIInv == Init => IInv
<1> SUFFICES ASSUME Init PROVE IInv
  OBVIOUS
<1> USE ProviderWorkbenchAssumption DEF Init
<1>1. ServerInv
  BY DEF ServerInv, CaseOf
<1>2. RequestInv /\ DecisionIsForTheCaseShown
  BY DEF RequestInv, Load, DecisionIsForTheCaseShown, Deciding
<1>3. ShownInv /\ TypeOK /\ ImageIsOfTheCaseShown
  BY DEF ShownInv, TypeOK, ImageIsOfTheCaseShown, ImageOnScreen
<1> QED
  BY <1>1, <1>2, <1>3 DEF IInv

LEMMA NextIInv == ASSUME IInv, [Next]_vars PROVE IInv'
<1>1. CASE UNCHANGED vars
  <2>1. UNCHANGED <<cases, store, request, dialog, screen>>
    BY <1>1 DEF vars
  <2>2. RequestInv' /\ DecisionIsForTheCaseShown'
    BY <2>1 DEF IInv, RequestInv, Busy, DecisionIsForTheCaseShown, Deciding, store, screen
  <2> QED
    BY <2>1, <2>2, QuietIInv DEF store, screen, IInv, TypeOK
<1> QED
  BY <1>1, LoadCasesIInv, DialogIInv, ConfirmIInv, ChangeIdentityIInv, UpdateFilterIInv,
     SelectCaseIInv, ListAnsweredIInv, DetailAnsweredIInv, DecisionAnsweredIInv, FailedIInv,
     ServeImageIInv, ImageIInv, OthersIInv DEF Next, Answered

LEMMA Invariant == Spec => []IInv
<1>1. IInv /\ [Next]_vars => IInv'
  BY NextIInv
<1> QED
  BY <1>1, InitIInv, PTL DEF Spec

\* The image on the screen is always that of the case on the screen, and never of
\* one shown as rejected.
THEOREM ImageIsOfTheCase == Spec => []ImageIsOfTheCaseShown
  BY Invariant, PTL DEF IInv

\* A decision is always sent for the case on the screen.
THEOREM DecisionIsForTheCase == Spec => []DecisionIsForTheCaseShown
  BY Invariant, PTL DEF IInv

\* What the store keeps of a case is always of a case of the identity in use.
THEOREM TypeCorrect == Spec => []TypeOK
  BY Invariant, PTL DEF IInv
=============================================================================
