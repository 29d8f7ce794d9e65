------------------------- MODULE CaseWorkflowProofs -------------------------
(***************************************************************************)
(* Proofs about CaseWorkflow, for every set of sessions, providers, keys   *)
(* and start times.  The argument: TypeOK is inductive; given TypeOK, each *)
(* of the five parts of CaseInv is preserved by every write, because a     *)
(* submission adds a case only when its session has no active case and its *)
(* provider has not rejected, and a decision touches a waiting case only.  *)
(***************************************************************************)
EXTENDS CaseWorkflow, SequenceTheorems, TLAPS

-----------------------------------------------------------------------------
(* The two writes keep the case table well typed. *)

\* submit_case builds a well-typed case.
LEMMA NewCaseType ==
    ASSUME NEW r \in Submission, NEW at \in Nat
    PROVE  NewCase(r, at) \in Case
BY ConstantsAssumption DEF Submission, NewCase, Case, Status, Order, Event

\* Replacing the fields decide_case assigns keeps the type.
LEMMA CaseUpdateType ==
    ASSUME NEW c \in Case, NEW st \in Status, NEW o \in Order,
           NEW au \in Seq(Event), NEW at \in Nat, NEW v \in Nat
    PROVE  /\ [c EXCEPT !.status = st, !.order = o, !.audit = au,
                     !.updatedAt = at, !.version = v] \in Case
           /\ [c EXCEPT !.status = st,  !.audit = au,
                     !.updatedAt = at, !.version = v] \in Case
BY DEF Case
\* decide_case leaves a well-typed case.
LEMMA DecidedType ==
    ASSUME NEW c \in Case, NEW r \in Decision, NEW at \in Nat
    PROVE  Decided(c, r.op, at) \in Case
<1>1. <<"provider_accepted", "contact_revealed">> \in Seq(Event)
  BY DEF Event
<1>2. /\ c.audit \o <<"provider_accepted", "contact_revealed">> \in Seq(Event)
      /\ Append(c.audit, "provider_rejected") \in Seq(Event)
      /\ c.version + 1 \in Nat
  BY <1>1 DEF Case, Event
<1>3. {"accepted", "rejected"} \subseteq Status /\ "issued" \in Order
  BY DEF Status, Order
<1>4. CASE r.op = "provider_accept"
  BY <1>2, <1>3, <1>4, CaseUpdateType DEF Decided
<1>5. CASE r.op # "provider_accept"
  BY <1>2, <1>3, <1>5, CaseUpdateType DEF Decided
<1> QED BY <1>4, <1>5

\* The view of a stored case is a well-typed answer, for the consumer ...
LEMMA ConsumerViewType ==
    ASSUME NEW cs \in Seq(Case), NEW i \in DOMAIN cs
    PROVE  ConsumerView(i, cs) \in Reply
<1>1. cs[i] \in Case /\ i \in Nat
  OBVIOUS
<1>2. RejectedBy(cs[i].session, cs) \in SUBSET Provider
  <2>1. \A j \in DOMAIN cs : cs[j] \in Case
    OBVIOUS
  <2>2. \A j \in DOMAIN cs : cs[j].provider \in Provider
    BY <2>1 DEF Case
  <2> QED BY <2>2 DEF RejectedBy, CasesOf
<1> QED
  BY <1>1, <1>2 DEF ConsumerView, Reply, Case

\* ... and for the provider.
LEMMA ProviderDetailType ==
    ASSUME NEW cs \in Seq(Case), NEW i \in DOMAIN cs
    PROVE  ProviderDetail(i, cs) \in Reply
<1>1. cs[i] \in Case /\ i \in Nat
  OBVIOUS
<1>2. /\ Access(cs[i]) \in {"full", "masked", "unavailable"}
      /\ Image(cs[i]) \in {"visible", "hidden"}
  BY <1>1 DEF Access, Image, Case, Status
<1> QED
  BY <1>1, <1>2 DEF ProviderDetail, Reply, Case
-----------------------------------------------------------------------------
(* What a step can do: nothing to the tables, or one of the two writes. *)

\* Every action leaves the tables alone, creates one case, or decides one.
LEMMA StepKinds ==
    ASSUME [Next]_vars
    PROVE  \/ UNCHANGED <<cases, idempotency>>
           \/ \E k \in Key, r \in Submission, at \in Nat : SubmitCreated(k, r, at)
           \/ \E k \in Key, r \in Decision, at \in Nat : DecideApplied(k, r, at)
BY DEF Next, vars, Submit, Decide, KeyReused, SubmitReplayed, SubmitRefused,
       DecideReplayed, DecideRefused, GetConsumerCase, GetProviderCase,
       ListProviderCases, Tick, Refuse, Reading

\* A submission that creates a case: what it checked and what it wrote.
LEMMA CreatedFacts ==
    ASSUME TypeOK, NEW k \in Key, NEW r \in Submission, NEW at \in Nat,
             SubmitCreated(k, r, at)
    PROVE  /\ ~HasActive(r.session, cases)
           /\ ~WasRejected(r.session, r.provider, cases)
           /\ NewCase(r, at) \in Case
           /\ cases' = Append(cases, NewCase(r, at))
           /\ DOMAIN cases' = DOMAIN cases \cup {Len(cases) + 1}
           /\ Len(cases) + 1 \in Nat
           /\ \A i \in DOMAIN cases : i < Len(cases) + 1 /\ i \in Nat
           /\ \A i \in DOMAIN cases : cases'[i] = cases[i]
           /\ cases'[Len(cases) + 1] = NewCase(r, at)
<1>1. /\ ~HasActive(r.session, cases)
      /\ ~WasRejected(r.session, r.provider, cases)
  BY ConstantsAssumption
     DEF TypeOK, SubmitCreated, SubmitRefusal, Submission
<1>2. NewCase(r, at) \in Case
  BY NewCaseType DEF TypeOK
<1> QED
  BY <1>1, <1>2 DEF TypeOK, SubmitCreated

\* A decision that is applied: what it checked and what it wrote.
LEMMA DecidedFacts ==
    ASSUME TypeOK, NEW k \in Key, NEW r \in Decision, NEW at \in Nat,
             DecideApplied(k, r, at)
    PROVE  /\ r.case \in DOMAIN cases
           /\ cases[r.case].provider = r.provider
           /\ cases[r.case].status = "pending_provider"
           /\ Decided(cases[r.case], r.op, at) \in Case
           /\ cases' = [cases EXCEPT ![r.case] = Decided(cases[r.case], r.op, at)]
           /\ DOMAIN cases' = DOMAIN cases
           /\ \A i \in DOMAIN cases : i # r.case => cases'[i] = cases[i]
           /\ cases'[r.case] = Decided(cases[r.case], r.op, at)
<1>1. /\ r.case \in DOMAIN cases
      /\ cases[r.case].provider = r.provider
      /\ cases[r.case].status = "pending_provider"
  BY DEF DecideApplied, DecideRefusal, Authorized
<1>2. Decided(cases[r.case], r.op, at) \in Case
  BY <1>1, DecidedType DEF TypeOK
<1> QED
  BY <1>1, <1>2 DEF TypeOK, DecideApplied

-----------------------------------------------------------------------------
(* Type correctness. *)

\* Every answer is of the declared kinds.
LEMMA ReplyType ==
    ASSUME TypeOK, cases' \in Seq(Case), Next
    PROVE  reply' \in Reply
<1> USE DEF TypeOK
<1>0. \A c \in Code : Refusal(c) \in Reply
  BY DEF Refusal, Reply
<1>1. ASSUME NEW k \in Key, NEW r \in Request, KeyReused(k, r)
      PROVE  reply' \in Reply
  BY <1>0, <1>1 DEF KeyReused, Refuse, Code
<1>2. ASSUME NEW k \in Key, NEW r \in Submission, NEW at \in Nat,
             SubmitReplayed(k, r) \/ SubmitRefused(k, r, at) \/ SubmitCreated(k, r, at)
      PROVE  reply' \in Reply
  <2>1. CASE SubmitReplayed(k, r)
    BY <2>1, ConsumerViewType DEF SubmitReplayed
  <2>2. CASE SubmitRefused(k, r, at)
    <3>1. SubmitRefusal(r, at, cases) \in Code \cup {"none"}
      BY DEF SubmitRefusal, Code
    <3> QED BY <1>0, <2>2, <3>1 DEF SubmitRefused, Refuse
  <2>3. CASE SubmitCreated(k, r, at)
    <3>1. Len(cases) + 1 \in DOMAIN cases'
      BY <2>3, CreatedFacts
    <3> QED BY <2>3, <3>1, ConsumerViewType DEF SubmitCreated
  <2> QED BY <1>2, <2>1, <2>2, <2>3
<1>3. ASSUME NEW k \in Key, NEW r \in Decision, NEW at \in Nat,
             DecideReplayed(k, r) \/ DecideRefused(k, r) \/ DecideApplied(k, r, at)
      PROVE  reply' \in Reply
  <2>1. CASE DecideReplayed(k, r)
    BY <2>1, ProviderDetailType DEF DecideReplayed
  <2>2. CASE DecideRefused(k, r)
    <3>1. DecideRefusal(r, cases) \in Code \cup {"none"}
      BY DEF DecideRefusal, Code
    <3> QED BY <1>0, <2>2, <3>1 DEF DecideRefused, Refuse
  <2>3. CASE DecideApplied(k, r, at)
    <3>1. r.case \in DOMAIN cases'
      BY <2>3, DecidedFacts
    <3> QED BY <2>3, <3>1, ProviderDetailType DEF DecideApplied
  <2> QED BY <1>3, <2>1, <2>2, <2>3
<1>4. ASSUME NEW s \in Session, GetConsumerCase(s)
      PROVE  reply' \in Reply
  <2>1. NoReply \in Reply
    BY DEF Reply
  <2>2. \A i \in CasesOf(s, cases) : ConsumerView(i, cases) \in Reply
    BY ConsumerViewType DEF CasesOf
  <2> QED BY <1>4, <2>1, <2>2 DEF GetConsumerCase
<1>5. ASSUME NEW p \in Provider, NEW i \in CaseId, GetProviderCase(p, i)
      PROVE  reply' \in Reply
  BY <1>0, <1>5, ProviderDetailType DEF GetProviderCase, Authorized, Code
<1>6. ASSUME NEW p \in Provider, NEW filter, ListProviderCases(p, filter)
      PROVE  reply' \in Reply
  <2>1. \A i \in DOMAIN cases : ProviderSummary(i, cases) \in Summary
    <3> SUFFICES ASSUME NEW i \in DOMAIN cases
                 PROVE  ProviderSummary(i, cases) \in Summary
      OBVIOUS
    <3>1. cases[i] \in Case /\ i \in Nat
      OBVIOUS
    <3> QED BY <3>1 DEF ProviderSummary, Summary, Image, Case
  <2>2. {ProviderSummary(i, cases) :
            i \in {j \in DOMAIN cases : /\ cases[j].provider = p
                                        /\ cases[j].status \in filter}}
           \in SUBSET Summary
    BY <2>1
  <2> QED BY <1>6, <2>2 DEF ListProviderCases, Reply
<1>7. CASE Tick
  BY <1>7 DEF Tick
<1> QED
  BY <1>1, <1>2, <1>3, <1>4, <1>5, <1>6, <1>7
     DEF Next, Submit, Decide, Request, Reading

\* The case table keeps its type.
LEMMA CasesType ==
    ASSUME TypeOK, [Next]_vars
    PROVE  cases' \in Seq(Case)
<1>1. ASSUME NEW k \in Key, NEW r \in Submission, NEW at \in Nat,
             SubmitCreated(k, r, at)
      PROVE  cases' \in Seq(Case)
  BY <1>1, CreatedFacts DEF TypeOK
<1>2. ASSUME NEW k \in Key, NEW r \in Decision, NEW at \in Nat,
             DecideApplied(k, r, at)
      PROVE  cases' \in Seq(Case)
  BY <1>2, DecidedFacts DEF TypeOK
<1> QED BY <1>1, <1>2, StepKinds DEF TypeOK

\* The idempotency table keeps its type and its references.
LEMMA IdempotencyType ==
    ASSUME TypeOK, [Next]_vars
    PROVE  /\ idempotency' \in [Key -> Record \cup {NoRecord}]
           /\ \A k \in Key : idempotency'[k] # NoRecord =>
                                 idempotency'[k].case \in DOMAIN cases'
<1>1. ASSUME NEW k \in Key, NEW r \in Submission, NEW at \in Nat,
             SubmitCreated(k, r, at)
      PROVE  /\ idempotency' \in [Key -> Record \cup {NoRecord}]
             /\ \A l \in Key : idempotency'[l] # NoRecord =>
                                   idempotency'[l].case \in DOMAIN cases'
  <2>1. /\ DOMAIN cases' = DOMAIN cases \cup {Len(cases) + 1}
        /\ Len(cases) + 1 \in Nat
    BY <1>1, CreatedFacts
  <2>2. [request |-> r, case |-> Len(cases) + 1] \in Record
    BY <2>1 DEF Record, Request
  <2> QED BY <1>1, <2>1, <2>2 DEF TypeOK, SubmitCreated
<1>2. ASSUME NEW k \in Key, NEW r \in Decision, NEW at \in Nat,
             DecideApplied(k, r, at)
      PROVE  /\ idempotency' \in [Key -> Record \cup {NoRecord}]
             /\ \A l \in Key : idempotency'[l] # NoRecord =>
                                   idempotency'[l].case \in DOMAIN cases'
  <2>1. r.case \in DOMAIN cases /\ DOMAIN cases' = DOMAIN cases
    BY <1>2, DecidedFacts
  <2>2. [request |-> r, case |-> r.case] \in Record
    BY <2>1 DEF Record, Request, TypeOK
  <2> QED BY <1>2, <2>1, <2>2 DEF TypeOK, DecideApplied
<1> QED BY <1>1, <1>2, StepKinds DEF TypeOK

\* Every step keeps the type.
LEMMA TypeStep ==
    ASSUME TypeOK, [Next]_vars
    PROVE  TypeOK'
<1>1. cases' \in Seq(Case)
  BY CasesType
<1>2. /\ idempotency' \in [Key -> Record \cup {NoRecord}]
      /\ \A k \in Key : idempotency'[k] # NoRecord =>
                            idempotency'[k].case \in DOMAIN cases'
  BY IdempotencyType
<1>3. now' \in Nat
  BY DEF TypeOK, Next, vars, Submit, Decide, KeyReused, SubmitReplayed,
         SubmitRefused, SubmitCreated, DecideReplayed, DecideRefused,
         DecideApplied, GetConsumerCase, GetProviderCase, ListProviderCases,
         Tick, Refuse
<1>4. reply' \in Reply
  BY <1>1, ReplyType DEF TypeOK, vars
<1> QED BY <1>1, <1>2, <1>3, <1>4 DEF TypeOK

\* The tables, the clock and the answers are well typed, and every idempotency
\* record names a stored case, for any number of sessions, providers and keys.
THEOREM TypeCorrect == Spec => []TypeOK
<1>1. Init => TypeOK
  BY DEF Init, TypeOK, Reply
<1>2. TypeOK /\ [Next]_vars => TypeOK'
  BY TypeStep
<1> QED BY <1>1, <1>2, PTL DEF Spec

-----------------------------------------------------------------------------
(* The safety invariants.  Each part is preserved under TypeOK; only       *)
(* ContactDisclosure needs two of the others.                              *)

\* In the next state a session's old cases are the ones it had.
LEMMA CreatedLookup ==
    ASSUME TypeOK, NEW k \in Key, NEW r \in Submission, NEW at \in Nat,
             SubmitCreated(k, r, at),
           NEW i \in DOMAIN cases
    PROVE  /\ cases[i].session = r.session => cases[i].status = "rejected"
           /\ cases[i].session = r.session => cases[i].provider # r.provider
<1>1. cases[i] \in Case
  BY DEF TypeOK
<1>2. cases[i].status \in Status
  BY <1>1 DEF Case
<1> QED
  BY <1>2, CreatedFacts
     DEF HasActive, WasRejected, CasesOf, ActiveStatus, Status

\* A decision keeps who the case belongs to ...
LEMMA DecidedKeeps ==
    ASSUME NEW c \in Case, NEW op, NEW at
    PROVE  /\ Decided(c, op, at).session = c.session
           /\ Decided(c, op, at).provider = c.provider
           /\ Decided(c, op, at).start = c.start
           /\ Decided(c, op, at).createdAt = c.createdAt
BY DEF Decided, Case

\* The two audit trails a decision leaves, written out.
LEMMA AuditSequences ==
    /\ <<"case_submitted">> \o <<"provider_accepted", "contact_revealed">> =
         <<"case_submitted", "provider_accepted", "contact_revealed">>
    /\ Append(<<"case_submitted">>, "provider_rejected") =
         <<"case_submitted", "provider_rejected">>
<1> DEFINE s == <<"case_submitted">>
           t == <<"provider_accepted", "contact_revealed">>
           u == <<"case_submitted", "provider_accepted", "contact_revealed">>
           v == <<"case_submitted", "provider_rejected">>
<1>1. /\ s \in Seq(Event) /\ t \in Seq(Event)
      /\ u \in Seq(Event) /\ v \in Seq(Event)
  BY DEF Event
<1>2. /\ s \o t \in Seq(Event) /\ Len(s \o t) = 3 /\ Len(u) = 3
      /\ \A i \in 1..3 : (s \o t)[i] = u[i]
  BY <1>1
<1>3. /\ Append(s, "provider_rejected") \in Seq(Event)
      /\ Len(Append(s, "provider_rejected")) = 2 /\ Len(v) = 2
      /\ \A i \in 1..2 : Append(s, "provider_rejected")[i] = v[i]
  BY <1>1 DEF Event
<1> HIDE DEF s, t, u, v
<1>4. s \o t = u
  BY <1>1, <1>2, SeqEqual
<1>5. Append(s, "provider_rejected") = v
  BY <1>1, <1>3, SeqEqual
<1> QED BY <1>4, <1>5 DEF s, t, u, v

\* ... and closes it.
LEMMA DecidedCloses ==
    ASSUME NEW c \in Case, NEW op, NEW at, c.status = "pending_provider",
           c.audit = <<"case_submitted">>, c.version = 1, c.order = "none"
    PROVE  /\ Decided(c, op, at).version = 2
           /\ op = "provider_accept" =>
                /\ Decided(c, op, at).status = "accepted"
                /\ Decided(c, op, at).order = "issued"
                /\ Decided(c, op, at).audit =
                     <<"case_submitted", "provider_accepted", "contact_revealed">>
           /\ op # "provider_accept" =>
                /\ Decided(c, op, at).status = "rejected"
                /\ Decided(c, op, at).order = "none"
                /\ Decided(c, op, at).audit =
                     <<"case_submitted", "provider_rejected">>
<1>1. /\ c.audit \o <<"provider_accepted", "contact_revealed">> =
           <<"case_submitted", "provider_accepted", "contact_revealed">>
      /\ Append(c.audit, "provider_rejected") =
           <<"case_submitted", "provider_rejected">>
  BY AuditSequences
<1>2. c.version + 1 = 2
  OBVIOUS
<1> QED BY <1>1, <1>2 DEF Decided, Case

\* At most one active case: created only into a session without one.
LEMMA OneActiveStep ==
    ASSUME TypeOK, OneActiveCasePerSession, [Next]_vars
    PROVE  OneActiveCasePerSession'
<1>1. ASSUME NEW k \in Key, NEW r \in Submission, NEW at \in Nat,
             SubmitCreated(k, r, at)
      PROVE  OneActiveCasePerSession'
  <2> DEFINE n == Len(cases) + 1
  <2>1. \A i \in DOMAIN cases : /\ cases'[i] = cases[i]
                                /\ cases[i].session = r.session =>
                                     cases[i].status \notin ActiveStatus
    BY <1>1, CreatedFacts, CreatedLookup DEF ActiveStatus
  <2>2. cases'[n] = NewCase(r, at) /\ DOMAIN cases' = DOMAIN cases \cup {n}
    BY <1>1, CreatedFacts
  <2>3. cases'[n].session = r.session
    BY <2>2 DEF NewCase
  <2> HIDE DEF n
  <2> QED BY <2>1, <2>2, <2>3 DEF OneActiveCasePerSession
<1>2. ASSUME NEW k \in Key, NEW r \in Decision, NEW at \in Nat,
             DecideApplied(k, r, at)
      PROVE  OneActiveCasePerSession'
  <2>1. cases[r.case] \in Case /\ r.case \in DOMAIN cases
    BY <1>2, DecidedFacts DEF TypeOK
  <2>2. /\ cases'[r.case].session = cases[r.case].session
        /\ cases[r.case].status \in ActiveStatus
    BY <1>2, <2>1, DecidedFacts, DecidedKeeps DEF ActiveStatus
  <2>3. \A i \in DOMAIN cases :
          /\ cases'[i].session = cases[i].session
          /\ cases'[i].status \in ActiveStatus => cases[i].status \in ActiveStatus
    BY <1>2, <2>1, <2>2, DecidedFacts
  <2> QED BY <1>2, <2>3, DecidedFacts DEF OneActiveCasePerSession
<1> QED
  BY <1>1, <1>2, StepKinds DEF OneActiveCasePerSession

\* A provider is asked once by a session.
LEMMA OneCasePerProviderStep ==
    ASSUME TypeOK, OneCasePerProvider, [Next]_vars
    PROVE  OneCasePerProvider'
<1>1. ASSUME NEW k \in Key, NEW r \in Submission, NEW at \in Nat,
             SubmitCreated(k, r, at)
      PROVE  OneCasePerProvider'
  <2> DEFINE n == Len(cases) + 1
  <2>1. \A i \in DOMAIN cases : /\ cases'[i] = cases[i]
                                /\ cases[i].session = r.session =>
                                     cases[i].provider # r.provider
    BY <1>1, CreatedFacts, CreatedLookup
  <2>2. cases'[n] = NewCase(r, at) /\ DOMAIN cases' = DOMAIN cases \cup {n}
    BY <1>1, CreatedFacts
  <2>3. cases'[n].session = r.session /\ cases'[n].provider = r.provider
    BY <2>2 DEF NewCase
  <2> HIDE DEF n
  <2> QED BY <2>1, <2>2, <2>3 DEF OneCasePerProvider
<1>2. ASSUME NEW k \in Key, NEW r \in Decision, NEW at \in Nat,
             DecideApplied(k, r, at)
      PROVE  OneCasePerProvider'
  <2>1. cases[r.case] \in Case /\ r.case \in DOMAIN cases
    BY <1>2, DecidedFacts DEF TypeOK
  <2>2. \A i \in DOMAIN cases : /\ cases'[i].session = cases[i].session
                                /\ cases'[i].provider = cases[i].provider
    BY <1>2, <2>1, DecidedFacts, DecidedKeeps
  <2> QED BY <1>2, <2>2, DecidedFacts DEF OneCasePerProvider
<1> QED
  BY <1>1, <1>2, StepKinds DEF OneCasePerProvider

\* The active case of a session is its latest.
LEMMA ActiveIsLatestStep ==
    ASSUME TypeOK, ActiveCaseIsLatest, [Next]_vars
    PROVE  ActiveCaseIsLatest'
<1>1. ASSUME NEW k \in Key, NEW r \in Submission, NEW at \in Nat,
             SubmitCreated(k, r, at)
      PROVE  ActiveCaseIsLatest'
  <2> DEFINE n == Len(cases) + 1
  <2>1. \A i \in DOMAIN cases : /\ cases'[i] = cases[i]
                                /\ cases[i].session = r.session =>
                                     cases[i].status \notin ActiveStatus
    BY <1>1, CreatedFacts, CreatedLookup DEF ActiveStatus
  <2>2. cases'[n] = NewCase(r, at) /\ DOMAIN cases' = DOMAIN cases \cup {n}
    BY <1>1, CreatedFacts
  <2>3. cases'[n].session = r.session
    BY <2>2 DEF NewCase
  <2>4. \A i \in DOMAIN cases' : i <= n
    BY <1>1, CreatedFacts
  <2> HIDE DEF n
  <2> QED BY <2>1, <2>2, <2>3, <2>4 DEF ActiveCaseIsLatest, IsLatest, CasesOf
<1>2. ASSUME NEW k \in Key, NEW r \in Decision, NEW at \in Nat,
             DecideApplied(k, r, at)
      PROVE  ActiveCaseIsLatest'
  <2>1. cases[r.case] \in Case /\ r.case \in DOMAIN cases
    BY <1>2, DecidedFacts DEF TypeOK
  <2>2. /\ cases'[r.case].session = cases[r.case].session
        /\ cases[r.case].status \in ActiveStatus
    BY <1>2, <2>1, DecidedFacts, DecidedKeeps DEF ActiveStatus
  <2>3. \A i \in DOMAIN cases :
          /\ cases'[i].session = cases[i].session
          /\ cases'[i].status \in ActiveStatus => cases[i].status \in ActiveStatus
    BY <1>2, <2>1, <2>2, DecidedFacts
  <2> QED
    BY <1>2, <2>3, DecidedFacts DEF ActiveCaseIsLatest, IsLatest, CasesOf
<1> QED
  BY <1>1, <1>2, StepKinds DEF ActiveCaseIsLatest, IsLatest, CasesOf

\* The audit trail, version and order number follow the status.
LEMMA HistoryStep ==
    ASSUME TypeOK, HistoryMatchesStatus, [Next]_vars
    PROVE  HistoryMatchesStatus'
<1> DEFINE Tells(c) ==
      /\ c.audit = AuditOf(c.status)
      /\ c.version = IF c.status = "pending_provider" THEN 1 ELSE 2
      /\ c.order = IF c.status = "accepted" THEN "issued" ELSE "none"
<1>1. ASSUME NEW k \in Key, NEW r \in Submission, NEW at \in Nat,
             SubmitCreated(k, r, at)
      PROVE  HistoryMatchesStatus'
  <2>1. Tells(NewCase(r, at))
    BY DEF NewCase, AuditOf
  <2> QED BY <1>1, <2>1, CreatedFacts DEF HistoryMatchesStatus
<1>2. ASSUME NEW k \in Key, NEW r \in Decision, NEW at \in Nat,
             DecideApplied(k, r, at)
      PROVE  HistoryMatchesStatus'
  <2> DEFINE c == cases[r.case]
  <2>1. c \in Case /\ r.case \in DOMAIN cases /\ c.status = "pending_provider"
    BY <1>2, DecidedFacts DEF TypeOK
  <2>2. c.audit = <<"case_submitted">> /\ c.version = 1 /\ c.order = "none"
    BY <2>1 DEF HistoryMatchesStatus, AuditOf
  <2>5. Tells(Decided(cases[r.case], r.op, at))
    BY <2>1, <2>2, DecidedCloses DEF AuditOf
  <2>6. \A i \in DOMAIN cases : Tells(cases'[i])
    BY <1>2, <2>5, DecidedFacts DEF HistoryMatchesStatus
  <2> QED BY <1>2, <2>6, DecidedFacts DEF HistoryMatchesStatus
<1> QED
  BY <1>1, <1>2, StepKinds DEF HistoryMatchesStatus

\* A submission and a decision are never the same request.
LEMMA Disjoint == Submission \cap Decision = {}
BY DEF Submission, Decision

\* Creating a case records it under a key that had no record.
LEMMA WrittenOnceCreate ==
    ASSUME TypeOK, WrittenOnce, NEW k \in Key, NEW r \in Submission, NEW at \in Nat,
           SubmitCreated(k, r, at)
    PROVE  WrittenOnce'
<1>0. PICK n \in Nat : n = Len(cases) + 1
  BY CreatedFacts
<1>1. /\ DOMAIN cases' = DOMAIN cases \cup {n}
      /\ n \notin DOMAIN cases
      /\ \A i \in DOMAIN cases : cases'[i] = cases[i]
      /\ cases'[n] = NewCase(r, at)
  <2>1. \A i \in DOMAIN cases : i \in Nat /\ i < n
    BY <1>0, CreatedFacts
  <2>2. n \notin DOMAIN cases
    BY <2>1
  <2>3. /\ DOMAIN cases' = DOMAIN cases \cup {Len(cases) + 1}
        /\ \A i \in DOMAIN cases : cases'[i] = cases[i]
        /\ cases'[Len(cases) + 1] = NewCase(r, at)
    BY CreatedFacts
  <2> QED BY <1>0, <2>2, <2>3
<1>2. /\ idempotency[k] = NoRecord
      /\ idempotency'[k] = [request |-> r, case |-> n]
      /\ \A l \in Key : l # k => idempotency'[l] = idempotency[l]
  BY <1>0 DEF SubmitCreated, TypeOK
<1>3. \A l \in Key : idempotency[l] # NoRecord => idempotency[l].case \in DOMAIN cases
  BY DEF TypeOK
<1>4. idempotency'[k] # NoRecord
  BY <1>2, ConstantsAssumption DEF Record, Request
<1>5. /\ cases'[n].session = r.session /\ cases'[n].provider = r.provider
      /\ cases'[n].start = r.start /\ cases'[n].status = "pending_provider"
  BY <1>1 DEF NewCase
<1>6. idempotency'[k].request = r /\ idempotency'[k].case = n
  BY <1>2
<1>7. \A i \in DOMAIN cases' :
        /\ \E l \in Key : Created(l, i)'
        /\ cases'[i].status = "accepted" =>
              \E l \in Key : Closed(l, i, "provider_accept")'
        /\ cases'[i].status = "rejected" =>
              \E l \in Key : Closed(l, i, "provider_reject")'
  <2>1. Created(k, n)' /\ cases'[n].status = "pending_provider"
    BY <1>4, <1>5, <1>6 DEF Created
  <2>2. ASSUME NEW i \in DOMAIN cases, NEW l \in Key
        PROVE  /\ Created(l, i) => Created(l, i)'
               /\ \A op : Closed(l, i, op) => Closed(l, i, op)'
    BY <1>1, <1>2 DEF Created, Closed
  <2> QED BY <1>1, <2>1, <2>2 DEF WrittenOnce
<1>8. \A l, m \in Key :
        /\ idempotency'[l] # NoRecord /\ idempotency'[m] # NoRecord
        /\ idempotency'[l].case = idempotency'[m].case
        /\ (idempotency'[l].request \in Submission) =
              (idempotency'[m].request \in Submission)
        => l = m
  BY <1>1, <1>2, <1>3, <1>6 DEF WrittenOnce
<1>9. \A l \in Key : idempotency'[l] # NoRecord /\ idempotency'[l].request \in Decision
        => cases'[idempotency'[l].case].status # "pending_provider"
  BY <1>1, <1>2, <1>3, <1>6, Disjoint DEF WrittenOnce
<1> QED BY <1>7, <1>8, <1>9 DEF WrittenOnce

\* Deciding a waiting case records the decision under a key that had no record;
\* no decision of that case was recorded before, because it was waiting.
LEMMA WrittenOnceDecide ==
    ASSUME TypeOK, WrittenOnce, NEW k \in Key, NEW r \in Decision, NEW at \in Nat,
           DecideApplied(k, r, at)
    PROVE  WrittenOnce'
<1> DEFINE n == r.case
<1>1. /\ DOMAIN cases' = DOMAIN cases
      /\ n \in DOMAIN cases
      /\ \A i \in DOMAIN cases : i # n => cases'[i] = cases[i]
      /\ cases[n] \in Case /\ cases[n].status = "pending_provider"
      /\ cases[n].provider = r.provider
      /\ cases'[n] = Decided(cases[n], r.op, at)
  BY DecidedFacts DEF TypeOK
<1>2. /\ idempotency[k] = NoRecord
      /\ idempotency'[k] = [request |-> r, case |-> n]
      /\ \A l \in Key : l # k => idempotency'[l] = idempotency[l]
  BY DEF DecideApplied, TypeOK
<1>3. \A l \in Key : idempotency[l] # NoRecord =>
        /\ idempotency[l].case \in DOMAIN cases
        /\ idempotency[l].request \in Submission \cup Decision
  BY DEF TypeOK, Record, Request
<1>4. idempotency'[k] # NoRecord
  <2>1. n \in Nat
    BY <1>1 DEF TypeOK
  <2> HIDE DEF n
  <2> QED BY <1>2, <2>1, ConstantsAssumption DEF Record, Request
<1>5. /\ cases'[n].session = cases[n].session
      /\ cases'[n].provider = cases[n].provider
      /\ cases'[n].start = cases[n].start
      /\ cases'[n].status =
           IF r.op = "provider_accept" THEN "accepted" ELSE "rejected"
  <2>1. cases'[n].status =
           IF r.op = "provider_accept" THEN "accepted" ELSE "rejected"
    BY <1>1 DEF Decided, Case
  <2> QED BY <1>1, <2>1, DecidedKeeps
<1>6. idempotency'[k].request = r /\ idempotency'[k].case = n
  BY <1>2
<1>7. /\ r.op \in {"provider_accept", "provider_reject"}
      /\ r = [op |-> r.op, case |-> n, provider |-> cases'[n].provider]
  BY <1>1, <1>5 DEF Decision
<1> HIDE DEF n
<1>8. \A i \in DOMAIN cases' :
        /\ \E l \in Key : Created(l, i)'
        /\ cases'[i].status = "accepted" =>
              \E l \in Key : Closed(l, i, "provider_accept")'
        /\ cases'[i].status = "rejected" =>
              \E l \in Key : Closed(l, i, "provider_reject")'
  <2>1. Closed(k, n, r.op)'
    BY <1>4, <1>6, <1>7 DEF Closed
  <2>2. ASSUME NEW i \in DOMAIN cases, NEW l \in Key
        PROVE  /\ Created(l, i) => Created(l, i)'
               /\ i # n => \A op : Closed(l, i, op) => Closed(l, i, op)'
    BY <1>1, <1>2, <1>5 DEF Created, Closed
  <2>3. \A i \in DOMAIN cases' : \E l \in Key : Created(l, i)'
    BY <1>1, <2>2 DEF WrittenOnce
  <2>4. /\ cases'[n].status = "accepted" => Closed(k, n, "provider_accept")'
        /\ cases'[n].status = "rejected" => Closed(k, n, "provider_reject")'
    BY <1>5, <1>7, <2>1
  <2>5. \A i \in DOMAIN cases : i # n =>
          /\ cases'[i].status = "accepted" =>
                \E l \in Key : Closed(l, i, "provider_accept")'
          /\ cases'[i].status = "rejected" =>
                \E l \in Key : Closed(l, i, "provider_reject")'
    BY <1>1, <2>2 DEF WrittenOnce
  <2> QED BY <1>1, <2>3, <2>4, <2>5
<1>9. \A l, m \in Key :
        /\ idempotency'[l] # NoRecord /\ idempotency'[m] # NoRecord
        /\ idempotency'[l].case = idempotency'[m].case
        /\ (idempotency'[l].request \in Submission) =
              (idempotency'[m].request \in Submission)
        => l = m
  <2>1. \A l \in Key : idempotency[l] # NoRecord /\ idempotency[l].case = n
                          => idempotency[l].request \in Submission
    BY <1>1, <1>3 DEF WrittenOnce
  <2> QED BY <1>2, <1>6, <2>1, Disjoint DEF WrittenOnce
<1>10. \A l \in Key : idempotency'[l] # NoRecord /\ idempotency'[l].request \in Decision
        => cases'[idempotency'[l].case].status # "pending_provider"
  BY <1>1, <1>2, <1>3, <1>5, <1>6 DEF WrittenOnce
<1> QED BY <1>8, <1>9, <1>10 DEF WrittenOnce

\* One key per write, for every step.
LEMMA WrittenOnceStep ==
    ASSUME TypeOK, WrittenOnce, [Next]_vars
    PROVE  WrittenOnce'
<1>1. CASE UNCHANGED <<cases, idempotency>>
  BY <1>1 DEF WrittenOnce, Created, Closed
<1> QED BY <1>1, StepKinds, WrittenOnceCreate, WrittenOnceDecide

\* An answer to a provider is the view of a stored case as the step leaves it.
LEMMA ProviderAnswers ==
    ASSUME TypeOK, [Next]_vars
    PROVE  \/ UNCHANGED <<cases, idempotency, reply>>
           \/ reply'.kind # "provider"
           \/ \E i \in DOMAIN cases' : reply' = ProviderDetail(i, cases')
<1> DEFINE Goal == \/ UNCHANGED <<cases, idempotency, reply>>
                   \/ reply'.kind # "provider"
                   \/ \E i \in DOMAIN cases' : reply' = ProviderDetail(i, cases')
<1>1. ASSUME NEW k \in Key, NEW r \in Submission, Submit(k, r)
      PROVE  Goal
  BY <1>1 DEF Submit, KeyReused, SubmitReplayed, SubmitRefused, SubmitCreated,
              Refuse, Refusal, ConsumerView
<1>2. ASSUME NEW k \in Key, NEW r \in Decision, Decide(k, r)
      PROVE  Goal
  <2>1. CASE KeyReused(k, r) \/ DecideRefused(k, r)
    BY <2>1 DEF KeyReused, DecideRefused, Refuse, Refusal
  <2>2. CASE DecideReplayed(k, r)
    BY <2>2 DEF DecideReplayed, TypeOK
  <2>3. ASSUME NEW at \in Reading, DecideApplied(k, r, at)
        PROVE  Goal
    <3>1. at \in Nat
      BY DEF Reading
    <3> QED BY <2>3, <3>1, DecidedFacts DEF DecideApplied
  <2> QED BY <1>2, <2>1, <2>2, <2>3 DEF Decide
<1>3. ASSUME NEW s \in Session, GetConsumerCase(s)
      PROVE  Goal
  BY <1>3 DEF GetConsumerCase, ConsumerView, NoReply
<1>4. ASSUME NEW p \in Provider, NEW i \in CaseId, GetProviderCase(p, i)
      PROVE  Goal
  BY <1>4 DEF GetProviderCase, Authorized, Refusal
<1>5. ASSUME NEW p \in Provider, NEW filter, ListProviderCases(p, filter)
      PROVE  Goal
  BY <1>5 DEF ListProviderCases
<1>6. CASE Tick \/ UNCHANGED vars
  BY <1>6 DEF Tick, vars
<1> QED BY <1>1, <1>2, <1>3, <1>4, <1>5, <1>6 DEF Next

\* Full contact details imply an accepted case whose audit trail and recorded
\* acceptance the other invariants provide.
LEMMA DisclosureStep ==
    ASSUME TypeOK, HistoryMatchesStatus', WrittenOnce', ContactDisclosure,
           [Next]_vars
    PROVE  ContactDisclosure'
<1>1. CASE UNCHANGED <<cases, idempotency, reply>>
  BY <1>1 DEF ContactDisclosure, Closed
<1>2. CASE reply'.kind # "provider"
  BY <1>2 DEF ContactDisclosure
<1>3. ASSUME NEW i \in DOMAIN cases', reply' = ProviderDetail(i, cases'),
             reply'.contact = "full"
      PROVE  ContactDisclosure'
  <2>1. /\ reply'.case = i
        /\ reply'.provider = cases'[i].provider
        /\ Access(cases'[i]) = "full"
    BY <1>3 DEF ProviderDetail
  <2>2. cases'[i].status = "accepted"
    <3>1. cases'[i] \in Case
      BY CasesType
    <3>2. cases'[i].status \in Status
      BY <3>1 DEF Case
    <3> QED BY <2>1, <3>2 DEF Access, Status
  <2>3. cases'[i].audit = AuditOf("accepted")
    BY <2>2 DEF HistoryMatchesStatus
  <2>4. \E k \in Key : Closed(k, i, "provider_accept")'
    BY <2>2 DEF WrittenOnce
  <2> QED BY <2>1, <2>3, <2>4 DEF ContactDisclosure
<1>4. CASE reply'.contact # "full"
  BY <1>4 DEF ContactDisclosure
<1> QED BY <1>1, <1>2, <1>3, <1>4, ProviderAnswers

-----------------------------------------------------------------------------
(* The theorems. *)

\* The inductive invariant: the type invariant and every safety invariant.
CaseInv == /\ TypeOK
           /\ OneActiveCasePerSession
           /\ OneCasePerProvider
           /\ ActiveCaseIsLatest
           /\ HistoryMatchesStatus
           /\ WrittenOnce
           /\ ContactDisclosure

\* Nothing is stored yet and the first answer discloses nothing.
LEMMA CaseInvInit == Init => CaseInv
<1> SUFFICES ASSUME Init PROVE CaseInv
  OBVIOUS
<1>1. DOMAIN cases = {} /\ \A k \in Key : idempotency[k] = NoRecord
  BY DEF Init
<1>2. reply.kind # "provider"
  BY DEF Init, NoReply
<1>3. TypeOK
  BY DEF Init, TypeOK, Reply
<1> QED
  BY <1>1, <1>2, <1>3
     DEF CaseInv, OneActiveCasePerSession, OneCasePerProvider,
         ActiveCaseIsLatest, HistoryMatchesStatus, WrittenOnce,
         ContactDisclosure

\* Every reachable state satisfies all of them together.
THEOREM CaseInvCorrect == Spec => []CaseInv
<1>1. TypeOK /\ CaseInv /\ TypeOK' /\ [Next]_vars => CaseInv'
  BY OneActiveStep, OneCasePerProviderStep, ActiveIsLatestStep, HistoryStep,
     WrittenOnceStep, DisclosureStep DEF CaseInv
<1> QED BY <1>1, CaseInvInit, TypeCorrect, PTL DEF Spec

\* No session ever has two waiting or accepted cases.
THEOREM OneActiveCase == Spec => []OneActiveCasePerSession
<1>1. CaseInv => OneActiveCasePerSession
  BY DEF CaseInv
<1> QED BY <1>1, CaseInvCorrect, PTL

\* No session ever asks the same provider twice.
THEOREM ProviderAskedOnce == Spec => []OneCasePerProvider
<1>1. CaseInv => OneCasePerProvider
  BY DEF CaseInv
<1> QED BY <1>1, CaseInvCorrect, PTL

\* The consumer's current case is always the active one, if there is one.
THEOREM LatestIsActive == Spec => []ActiveCaseIsLatest
<1>1. CaseInv => ActiveCaseIsLatest
  BY DEF CaseInv
<1> QED BY <1>1, CaseInvCorrect, PTL

\* Audit trail, version and order number of every case match its status.
THEOREM HistoryTellsStatus == Spec => []HistoryMatchesStatus
<1>1. CaseInv => HistoryMatchesStatus
  BY DEF CaseInv
<1> QED BY <1>1, CaseInvCorrect, PTL

\* Every case and every decision was written by exactly one idempotency key.
THEOREM ExactlyOneKeyPerWrite == Spec => []WrittenOnce
<1>1. CaseInv => WrittenOnce
  BY DEF CaseInv
<1> QED BY <1>1, CaseInvCorrect, PTL

\* Full contact details are answered only to the provider that accepted, with
\* the disclosure on record.
THEOREM DisclosureIsBacked == Spec => []ContactDisclosure
<1>1. CaseInv => ContactDisclosure
  BY DEF CaseInv
<1> QED BY <1>1, CaseInvCorrect, PTL

\* A decision is final and touches one case, which keeps what was submitted.
THEOREM DecisionsFinal == Spec => DecisionsAreFinal
<1> DEFINE Final ==
      /\ Len(cases') >= Len(cases)
      /\ \A i \in DOMAIN cases : cases'[i] # cases[i] =>
            /\ cases[i].status = "pending_provider"
            /\ cases'[i].status # "pending_provider"
            /\ cases'[i].session = cases[i].session
            /\ cases'[i].provider = cases[i].provider
            /\ cases'[i].start = cases[i].start
            /\ cases'[i].createdAt = cases[i].createdAt
            /\ \A j \in DOMAIN cases : j # i => cases'[j] = cases[j]
<1>1. ASSUME TypeOK, [Next]_vars
      PROVE  Final
  <2>1. ASSUME NEW k \in Key, NEW r \in Submission, NEW at \in Nat,
             SubmitCreated(k, r, at)
        PROVE  Final
    <3>1. Len(cases') = Len(cases) + 1 /\ Len(cases) \in Nat
      BY <1>1, <2>1, CreatedFacts DEF TypeOK
    <3> QED BY <1>1, <2>1, <3>1, CreatedFacts
  <2>2. ASSUME NEW k \in Key, NEW r \in Decision, NEW at \in Nat,
             DecideApplied(k, r, at)
        PROVE  Final
    <3>1. Len(cases') = Len(cases) /\ Len(cases) \in Nat
      BY <1>1, <2>2, DecidedFacts DEF TypeOK
    <3>2. cases[r.case] \in Case /\ r.case \in DOMAIN cases
      BY <1>1, <2>2, DecidedFacts DEF TypeOK
    <3>3. Decided(cases[r.case], r.op, at).status # "pending_provider"
      BY <3>2 DEF Decided, Case
    <3> QED BY <1>1, <2>2, <3>1, <3>2, <3>3, DecidedFacts, DecidedKeeps
  <2>3. CASE UNCHANGED <<cases, idempotency>>
    <3>1. Len(cases) \in Nat
      BY <1>1 DEF TypeOK
    <3> QED BY <2>3, <3>1
  <2> QED BY <1>1, <2>1, <2>2, <2>3, StepKinds
<1>2. TypeOK /\ [Next]_vars => [Final]_vars
  BY <1>1
<1> QED BY <1>2, TypeCorrect, PTL DEF Spec, DecisionsAreFinal
=============================================================================
