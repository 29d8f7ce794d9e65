---------------------------- MODULE CaseWorkflow ----------------------------
(***************************************************************************)
(* The case workflow of Repair Captain AI as one service instance runs it: *)
(* CaseWorkflowService over the process-local repository.  Every public    *)
(* method holds the service's lock and an (empty) transaction for its      *)
(* whole body, so every method is one atomic action here.                  *)
(*                                                                         *)
(* A consumer session submits a case to one provider; that provider        *)
(* accepts or rejects it; after a rejection the session may submit to      *)
(* another provider.  Writes carry an idempotency key chosen by the caller *)
(* and a fingerprint of the whole command.  Requests that are not          *)
(* confirmed, or whose key is malformed, are refused before anything is    *)
(* read and are left out.                                                  *)
(*                                                                         *)
(* PgCaseWorkflow shows that several workers sharing one PostgreSQL        *)
(* database implement the writes of this specification.  There a           *)
(* transaction reads the clock and may wait for a lock before it lands;    *)
(* Lag is that delay, 0 for the process-local repository.                  *)
(***************************************************************************)
EXTENDS Naturals, Sequences

CONSTANTS
    Session,    \* consumer sessions
    Provider,   \* providers
    Key,        \* idempotency keys that pass _validate_idempotency_key
    Start,      \* preferred_start values; they stand for the whole payload
    CaseId,     \* case ids a decision may name
    MaxNow,     \* bound on the clock
    Lag,        \* how long ago a write may have read the clock when it lands
    NoRecord    \* get_idempotency found nothing

(***************************************************************************)
(* The fingerprint is an injective hash of operation and payload, so the   *)
(* request itself stands for it.                                           *)
(***************************************************************************)
Submission == [op : {"submit_case"}, session : Session, provider : Provider,
               start : Start]
Decision   == [op : {"provider_accept", "provider_reject"},
               case : CaseId, provider : Provider]
Request    == Submission \cup Decision
Record     == [request : Request, case : Nat]

ASSUME ConstantsAssumption ==
    /\ Start \subseteq Nat
    /\ CaseId \subseteq Nat
    /\ MaxNow \in Nat
    /\ Lag \in Nat
    /\ NoRecord \notin Record

VARIABLES
    cases,         \* the cases in creation order; a case's index is its id
    idempotency,   \* key -> the request it was first used for, and its case
    now,           \* the service's clock
    reply          \* the answer given to the last call

vars == <<cases, idempotency, now, reply>>

-----------------------------------------------------------------------------
Status        == {"pending_provider", "accepted", "rejected"}
ActiveStatus  == {"pending_provider", "accepted"}
Event         == {"case_submitted", "provider_accepted", "provider_rejected",
                  "contact_revealed"}
\* order_no: None, or the number issued when the provider accepts
Order == {"none", "issued"}
Case == [session : Session, provider : Provider, start : Start,
         status : Status, order : Order, createdAt : Nat,
         updatedAt : Nat, version : Nat, audit : Seq(Event)]

\* list_cases_for_session, as the ids of the session's cases
CasesOf(s, cs) == {i \in DOMAIN cs : cs[i].session = s}
\* _latest_case: the last element of the list
IsLatest(i, s, cs) ==
    i \in CasesOf(s, cs) /\ \A j \in CasesOf(s, cs) : j <= i

\* Mutant: the masked view of a waiting case is forgotten.
AccessUnmasked(c) == IF c.status = "rejected" THEN "unavailable" ELSE "full"
Access(c) == CASE c.status = "accepted"         -> "full"
               [] c.status = "pending_provider" -> "masked"
               [] c.status = "rejected"         -> "unavailable"

Image(c) == IF c.status = "rejected" THEN "hidden" ELSE "visible"

RejectedBy(s, cs) ==
    {cs[i].provider : i \in {j \in CasesOf(s, cs) : cs[j].status = "rejected"}}

\* can_dispatch_again is status = "rejected"
ConsumerView(i, cs) ==
    [kind |-> "consumer", case |-> i, provider |-> cs[i].provider,
     status |-> cs[i].status, order |-> cs[i].order,
     rejected |-> RejectedBy(cs[i].session, cs)]

ProviderDetail(i, cs) ==
    [kind |-> "provider", case |-> i, provider |-> cs[i].provider,
     status |-> cs[i].status, order |-> cs[i].order,
     contact |-> Access(cs[i]), image |-> Image(cs[i]),
     audit |-> cs[i].audit]

\* the inbox shows a masked name only, whatever the status
ProviderSummary(i, cs) ==
    [case |-> i, status |-> cs[i].status, image |-> Image(cs[i])]

Refusal(code) == [kind |-> "error", code |-> code]
NoReply == [kind |-> "none"]

-----------------------------------------------------------------------------
NewCase(r, at) ==
    [session |-> r.session, provider |-> r.provider, start |-> r.start,
     status |-> "pending_provider", order |-> "none", createdAt |-> at,
     updatedAt |-> at, version |-> 1, audit |-> <<"case_submitted">>]

\* Mutant: accepting does not record the disclosure of the contact.
DecidedUndisclosed(c, op, at) ==
    [c EXCEPT !.status = IF op = "provider_accept" THEN "accepted" ELSE "rejected",
              !.order = IF op = "provider_accept" THEN "issued" ELSE "none",
              !.audit = Append(@, IF op = "provider_accept" THEN "provider_accepted"
                                  ELSE "provider_rejected"),
              !.updatedAt = at, !.version = @ + 1]
Decided(c, op, at) ==
    IF op = "provider_accept"
    THEN [c EXCEPT !.status = "accepted", !.order = "issued",
                   !.audit = @ \o <<"provider_accepted", "contact_revealed">>,
                   !.updatedAt = at, !.version = @ + 1]
    ELSE [c EXCEPT !.status = "rejected",
                   !.audit = Append(@, "provider_rejected"),
                   !.updatedAt = at, !.version = @ + 1]

\* Mutant: only a waiting case counts as active.
HasActivePendingOnly(s, cs) ==
    \E i \in CasesOf(s, cs) : cs[i].status = "pending_provider"
HasActive(s, cs) == \E i \in CasesOf(s, cs) : cs[i].status \in ActiveStatus
\* Mutant: the check for a provider that already rejected is lost.
WasRejectedForgotten(s, p, cs) == FALSE
WasRejected(s, p, cs) ==
    \E i \in CasesOf(s, cs) : cs[i].provider = p /\ cs[i].status = "rejected"

Authorized(p, i, cs) == i \in DOMAIN cs /\ cs[i].provider = p

\* Why submit_case refuses a request whose key is new, "none" if it does not.
SubmitRefusal(r, at, cs) ==
    CASE r.start <= at                        -> "INVALID_TIME_WINDOW"
      [] r.start > at /\ HasActive(r.session, cs) -> "ACTIVE_CASE_EXISTS"
      [] r.start > at /\ ~HasActive(r.session, cs)
         /\ WasRejected(r.session, r.provider, cs) -> "PROVIDER_ALREADY_REJECTED"
      [] OTHER -> "none"

\* Mutant: the status is not checked before a decision.
DecideRefusalAnyStatus(r, cs) ==
    IF ~Authorized(r.provider, r.case, cs) THEN "CASE_NOT_FOUND" ELSE "none"
\* Why decide_case refuses a request whose key is new, "none" if it does not.
DecideRefusal(r, cs) ==
    IF ~Authorized(r.provider, r.case, cs) THEN "CASE_NOT_FOUND"
    ELSE IF cs[r.case].status # "pending_provider"
         THEN "INVALID_CASE_TRANSITION" ELSE "none"

-----------------------------------------------------------------------------
(***************************************************************************)
(* Writes.  A key seen before never writes: it answers with the present    *)
(* state of the case it created or decided, or refuses another request.    *)
(***************************************************************************)
\* created_at and updated_at: the clock as the method read it
Reading == {t \in 0..now : now <= t + Lag}

Refuse(code) ==
    /\ reply' = Refusal(code)
    /\ UNCHANGED <<cases, idempotency, now>>

KeyReused(k, r) ==
    /\ idempotency[k] # NoRecord
    /\ idempotency[k].request # r
    /\ Refuse("IDEMPOTENCY_KEY_REUSED")

SubmitReplayed(k, r) ==
    /\ idempotency[k] # NoRecord
    /\ idempotency[k].request = r
    /\ reply' = ConsumerView(idempotency[k].case, cases)
    /\ UNCHANGED <<cases, idempotency, now>>

SubmitRefused(k, r, at) ==
    /\ idempotency[k] = NoRecord
    /\ SubmitRefusal(r, at, cases) # "none"
    /\ Refuse(SubmitRefusal(r, at, cases))

\* Mutant: the record is saved and the case is not.
SubmitCreatedUnsaved(k, r, at) ==
    /\ idempotency[k] = NoRecord
    /\ SubmitRefusal(r, at, cases) = "none"
    /\ idempotency' =
         [idempotency EXCEPT ![k] = [request |-> r, case |-> Len(cases) + 1]]
    /\ reply' = NoReply
    /\ UNCHANGED <<cases, now>>
SubmitCreated(k, r, at) ==
    /\ idempotency[k] = NoRecord
    /\ SubmitRefusal(r, at, cases) = "none"
    /\ cases' = Append(cases, NewCase(r, at))
    /\ idempotency' =
         [idempotency EXCEPT ![k] = [request |-> r, case |-> Len(cases) + 1]]
    /\ reply' = ConsumerView(Len(cases) + 1, cases')
    /\ UNCHANGED now

DecideReplayed(k, r) ==
    /\ idempotency[k] # NoRecord
    /\ idempotency[k].request = r
    /\ reply' = ProviderDetail(idempotency[k].case, cases)
    /\ UNCHANGED <<cases, idempotency, now>>

DecideRefused(k, r) ==
    /\ idempotency[k] = NoRecord
    /\ DecideRefusal(r, cases) # "none"
    /\ Refuse(DecideRefusal(r, cases))

\* Mutant: the decision is saved without its idempotency record.
DecideAppliedUnrecorded(k, r, at) ==
    /\ idempotency[k] = NoRecord
    /\ DecideRefusal(r, cases) = "none"
    /\ cases' = [cases EXCEPT ![r.case] = Decided(@, r.op, at)]
    /\ reply' = ProviderDetail(r.case, cases')
    /\ UNCHANGED <<idempotency, now>>
DecideApplied(k, r, at) ==
    /\ idempotency[k] = NoRecord
    /\ DecideRefusal(r, cases) = "none"
    /\ cases' = [cases EXCEPT ![r.case] = Decided(@, r.op, at)]
    /\ idempotency' =
         [idempotency EXCEPT ![k] = [request |-> r, case |-> r.case]]
    /\ reply' = ProviderDetail(r.case, cases')
    /\ UNCHANGED now

Submit(k, r) ==
    \/ KeyReused(k, r)
    \/ SubmitReplayed(k, r)
    \/ \E at \in Reading : SubmitRefused(k, r, at)
    \/ \E at \in Reading : SubmitCreated(k, r, at)

Decide(k, r) ==
    \/ KeyReused(k, r)
    \/ DecideReplayed(k, r)
    \/ DecideRefused(k, r)
    \/ \E at \in Reading : DecideApplied(k, r, at)

-----------------------------------------------------------------------------
(***************************************************************************)
(* Reads.                                                                  *)
(***************************************************************************)
GetConsumerCase(s) ==
    /\ \/ CasesOf(s, cases) = {} /\ reply' = NoReply
       \/ \E i \in CasesOf(s, cases) :
            IsLatest(i, s, cases) /\ reply' = ConsumerView(i, cases)
    /\ UNCHANGED <<cases, idempotency, now>>

GetProviderCase(p, i) ==
    /\ reply' = IF Authorized(p, i, cases) THEN ProviderDetail(i, cases)
                ELSE Refusal("CASE_NOT_FOUND")
    /\ UNCHANGED <<cases, idempotency, now>>

ListProviderCases(p, filter) ==
    /\ reply' = [kind |-> "inbox", provider |-> p, items |->
          {ProviderSummary(i, cases) :
              i \in {j \in DOMAIN cases : /\ cases[j].provider = p
                                          /\ cases[j].status \in filter}}]
    /\ UNCHANGED <<cases, idempotency, now>>

Tick ==
    /\ now < MaxNow
    /\ now' = now + 1
    /\ UNCHANGED <<cases, idempotency, reply>>

-----------------------------------------------------------------------------
Init ==
    /\ cases = << >>
    /\ idempotency = [k \in Key |-> NoRecord]
    /\ now = 0
    /\ reply = NoReply

Next ==
    \/ \E k \in Key, r \in Submission : Submit(k, r)
    \/ \E k \in Key, r \in Decision : Decide(k, r)
    \/ \E s \in Session : GetConsumerCase(s)
    \/ \E p \in Provider, i \in CaseId : GetProviderCase(p, i)
    \/ \E p \in Provider, filter \in {Status} \cup {{st} : st \in Status} :
          ListProviderCases(p, filter)
    \/ Tick

Spec == Init /\ [][Next]_vars

-----------------------------------------------------------------------------
(***************************************************************************)
(* Properties.                                                             *)
(***************************************************************************)
Summary == [case : Nat, status : Status, image : {"visible", "hidden"}]
Code == {"IDEMPOTENCY_KEY_REUSED", "INVALID_TIME_WINDOW", "ACTIVE_CASE_EXISTS",
         "PROVIDER_ALREADY_REJECTED", "CASE_NOT_FOUND",
         "INVALID_CASE_TRANSITION"}
Reply ==
    {NoReply} \cup [kind : {"error"}, code : Code]
    \cup [kind : {"consumer"}, case : Nat, provider : Provider, status : Status,
          order : Order, rejected : SUBSET Provider]
    \cup [kind : {"provider"}, case : Nat, provider : Provider, status : Status,
          order : Order, contact : {"full", "masked", "unavailable"},
          image : {"visible", "hidden"}, audit : Seq(Event)]
    \cup [kind : {"inbox"}, provider : Provider, items : SUBSET Summary]

\* The type invariant of the case tables, the idempotency table, the clock and
\* the answers.  A record names a case that exists, so a retry always finds its
\* result and IDEMPOTENCY_RESULT_MISSING is never raised.
TypeOK ==
    /\ cases \in Seq(Case)
    /\ idempotency \in [Key -> Record \cup {NoRecord}]
    /\ \A k \in Key :
          idempotency[k] # NoRecord => idempotency[k].case \in DOMAIN cases
    /\ now \in Nat
    /\ reply \in Reply

\* A session never has two cases that are waiting for a provider or accepted,
\* however its submissions, the providers' decisions and retries interleave.
OneActiveCasePerSession ==
    \A i, j \in DOMAIN cases :
        /\ cases[i].session = cases[j].session
        /\ cases[i].status \in ActiveStatus
        /\ cases[j].status \in ActiveStatus
        => i = j

\* A provider is asked at most once by a session: a provider that rejected is
\* never asked again, and one that is deciding or accepted is not asked twice.
OneCasePerProvider ==
    \A i, j \in DOMAIN cases :
        /\ cases[i].session = cases[j].session
        /\ cases[i].provider = cases[j].provider
        => i = j

\* The case get_consumer_case shows, the latest of the session, is the active
\* one whenever there is one: an older case can never hide behind a newer.
ActiveCaseIsLatest ==
    \A i \in DOMAIN cases :
        cases[i].status \in ActiveStatus => IsLatest(i, cases[i].session, cases)

AuditOf(st) ==
    CASE st = "pending_provider" -> <<"case_submitted">>
      [] st = "accepted" ->
            <<"case_submitted", "provider_accepted", "contact_revealed">>
      [] st = "rejected" -> <<"case_submitted", "provider_rejected">>

\* The audit trail, the version and the order number tell exactly the story of
\* the status: one decision at most, an order and the disclosure of the contact
\* when and only when the provider accepted.
HistoryMatchesStatus ==
    \A i \in DOMAIN cases : LET c == cases[i] IN
        /\ c.audit = AuditOf(c.status)
        /\ c.version = IF c.status = "pending_provider" THEN 1 ELSE 2
        /\ c.order = IF c.status = "accepted" THEN "issued" ELSE "none"

\* Key k was used by the submission that created case i.
Created(k, i) ==
    /\ idempotency[k] # NoRecord
    /\ idempotency[k].case = i
    /\ idempotency[k].request \in Submission
    /\ idempotency[k].request.session = cases[i].session
    /\ idempotency[k].request.provider = cases[i].provider
    /\ idempotency[k].request.start = cases[i].start
\* Key k was used by the decision, op, that closed case i.
Closed(k, i, op) ==
    /\ idempotency[k] # NoRecord
    /\ idempotency[k].case = i
    /\ idempotency[k].request =
          [op |-> op, case |-> i, provider |-> cases[i].provider]

\* Every case was written by exactly one key, and every decided case was
\* decided by exactly one key, of the provider it was submitted to, with the
\* decision its status shows: retries write once, and nothing else writes.
WrittenOnce ==
    /\ \A i \in DOMAIN cases :
        /\ \E k \in Key : Created(k, i)
        /\ cases[i].status = "accepted" =>
              \E k \in Key : Closed(k, i, "provider_accept")
        /\ cases[i].status = "rejected" =>
              \E k \in Key : Closed(k, i, "provider_reject")
    /\ \A k, l \in Key :
        /\ idempotency[k] # NoRecord
        /\ idempotency[l] # NoRecord
        /\ idempotency[k].case = idempotency[l].case
        /\ (idempotency[k].request \in Submission) =
              (idempotency[l].request \in Submission)
        => k = l
    /\ \A k \in Key :
        /\ idempotency[k] # NoRecord
        /\ idempotency[k].request \in Decision
        => cases[idempotency[k].case].status # "pending_provider"

\* The consumer's full contact details are in an answer only when the case is
\* accepted, by the provider the answer is for, and the disclosure is on the
\* audit trail and backed by that provider's own recorded acceptance.
ContactDisclosure ==
    reply.kind = "provider" /\ reply.contact = "full" =>
        /\ reply.case \in DOMAIN cases
        /\ cases[reply.case].provider = reply.provider
        /\ cases[reply.case].audit = AuditOf("accepted")
        /\ \E k \in Key : Closed(k, reply.case, "provider_accept")

\* A case once created stays, keeps what was submitted, and changes only from
\* pending_provider to a decision, one case at a time.
DecisionsAreFinal ==
    [][/\ Len(cases') >= Len(cases)
       /\ \A i \in DOMAIN cases : cases'[i] # cases[i] =>
            /\ cases[i].status = "pending_provider"
            /\ cases'[i].status # "pending_provider"
            /\ cases'[i].session = cases[i].session
            /\ cases'[i].provider = cases[i].provider
            /\ cases'[i].start = cases[i].start
            /\ cases'[i].createdAt = cases[i].createdAt
            /\ \A j \in DOMAIN cases : j # i => cases'[j] = cases[j]]_vars
=============================================================================
