--------------------------- MODULE PgCaseWorkflow ---------------------------
(***************************************************************************)
(* The case workflow with WEB_CASE_REPOSITORY=postgres: several workers,   *)
(* each running one CaseWorkflowService (its lock admits one method at a   *)
(* time), share one database through PostgresCaseWorkflowRepository.       *)
(*                                                                         *)
(* Between two statements of a transaction the other workers run.  A       *)
(* statement sees what is committed (READ COMMITTED); advisory locks and   *)
(* row locks are held to the end of the transaction; an exception, a lost  *)
(* connection or a crash rolls the transaction back.  PostgreSQL itself is *)
(* modelled as far as the repository relies on it: lock queues, commit and *)
(* rollback, unique indexes and the version test of UPDATE.                *)
(*                                                                         *)
(* Adjacent statements that no other worker can tell apart are one action: *)
(* the idempotency read after its lock, the case list after the session    *)
(* lock, and the writes, invisible to others before the commit.            *)
(***************************************************************************)
EXTENDS Naturals, Sequences, FiniteSets

CONSTANTS
    Session, Provider, Key, Start, CaseId, MaxNow, NoRecord,
    Worker,     \* web workers, each with its own service instance
    MaxCalls    \* bound on the writing calls of a behaviour

VARIABLES
    cases,         \* committed rows of service_case with their order and
                   \* audit rows, in the order they were committed
    idempotency,   \* committed rows of idempotency_record
    now,           \* the clock
    reply,         \* the answer to the last write that was refused or landed
    tx,            \* tx[w]: the method worker w is in and what it has read
    held,          \* held[w]: the locks of worker w's transaction
    view,          \* the last answer read without writing, replays included
    calls          \* writing calls so far

stored == <<cases, idempotency>>
vars == <<cases, idempotency, now, reply, tx, held, view, calls>>

\* The specification these transactions implement.  A write may land any time
\* after it read the clock.
Atomic == INSTANCE CaseWorkflow WITH Lag <- MaxNow

ASSUME PgAssumption ==
    /\ Start \subseteq Nat /\ CaseId \subseteq Nat
    /\ MaxNow \in Nat /\ MaxCalls \in Nat
    /\ NoRecord \notin Atomic!Record

-----------------------------------------------------------------------------
Idle == [pc |-> "idle"]
Lock == ({"key"} \X Key) \cup ({"session"} \X Session) \cup ({"row"} \X CaseId)
Free(w, l) == \A v \in Worker \ {w} : l \notin held[v]

\* A method that has to wait: its transaction, at the statement that waits.
Waiting(pc, k, r, at) == [pc |-> pc, key |-> k, request |-> r, at |-> at]

\* What a transaction is about to write: the row, the case it replaces (0: it
\* is new) and the record of the request.
Write(pc, k, r, i, row) ==
    [pc |-> pc, key |-> k, request |-> r, case |-> i, row |-> row]

\* A read of several statements: the row its first statement returned.
Reading(as, i, row) == [pc |-> "read_rest", as |-> as, case |-> i, row |-> row]

\* Mutant: the advisory locks are session-level and survive the transaction.
EndHolding(w) == tx' = [tx EXCEPT ![w] = Idle] /\ UNCHANGED held
\* The transaction of w ends, by commit, by rollback or by a lost connection.
End(w) ==
    /\ tx' = [tx EXCEPT ![w] = Idle]
    /\ held' = [held EXCEPT ![w] = {}]

\* The method raises and its transaction rolls back.
Fail(w, code) ==
    /\ reply' = Atomic!Refusal(code)
    /\ End(w)
    /\ UNCHANGED <<stored, view>>

Goto(w, t) == tx' = [tx EXCEPT ![w] = t]
Take(w, l) == held' = [held EXCEPT ![w] = @ \cup {l}]

-----------------------------------------------------------------------------
(***************************************************************************)
(* submit_case and decide_case.                                            *)
(***************************************************************************)
Begin(w, k, r) ==
    /\ calls < MaxCalls
    /\ tx[w] = Idle
    /\ Goto(w, Waiting("lock_key", k, r, now))
    /\ calls' = calls + 1
    /\ UNCHANGED <<stored, now, reply, held, view>>

\* Mutant: the idempotency key is not locked before it is looked up.
LockKeyNot(w) ==
    /\ tx[w].pc = "lock_key"
    /\ Goto(w, [tx[w] EXCEPT !.pc = "read_key"])
    /\ UNCHANGED <<stored, now, reply, held, view, calls>>
LockKey(w) ==
    /\ tx[w].pc = "lock_key"
    /\ Free(w, <<"key", tx[w].key>>)
    /\ Take(w, <<"key", tx[w].key>>)
    /\ Goto(w, [tx[w] EXCEPT !.pc = "read_key"])
    /\ UNCHANGED <<stored, now, reply, view, calls>>

\* _idempotent_case, then, for a key without a record, up to the next lock:
\* submit_case reads the clock and tests the time window here.
FirstUse(w) ==
    LET k == tx[w].key  r == tx[w].request IN
    IF r.op # "submit_case"
    THEN Goto(w, Waiting("lock_row", k, r, now)) /\ UNCHANGED <<stored, reply, held, view>>
    ELSE IF r.start <= now THEN Fail(w, "INVALID_TIME_WINDOW")
    ELSE Goto(w, Waiting("lock_session", k, r, now)) /\ UNCHANGED <<stored, reply, held, view>>

ReadKey(w) ==
    LET rec == idempotency[tx[w].key]
        as  == IF tx[w].request.op = "submit_case" THEN "consumer" ELSE "provider" IN
    /\ tx[w].pc = "read_key"
    /\ \/ rec = NoRecord /\ FirstUse(w)
       \/ /\ rec # NoRecord
          /\ rec.request # tx[w].request
          /\ Fail(w, "IDEMPOTENCY_KEY_REUSED")
       \/ /\ rec # NoRecord
          /\ rec.request = tx[w].request
          /\ Goto(w, Reading(as, rec.case, cases[rec.case]))
          /\ UNCHANGED <<stored, reply, held, view>>
    /\ UNCHANGED <<now, calls>>

\* Mutant: the cases are listed before the session is locked.
LockSessionNot(w) ==
    LET t == tx[w]
        refusal == Atomic!SubmitRefusal(t.request, t.at, cases) IN
    /\ t.pc = "lock_session"
    /\ \/ refusal # "none" /\ Fail(w, refusal)
       \/ /\ refusal = "none"
          /\ Goto(w, Write("write", t.key, t.request, 0,
                           Atomic!NewCase(t.request, t.at)))
          /\ UNCHANGED <<stored, reply, held, view>>
    /\ UNCHANGED <<now, calls>>
\* lock_session, list_cases_for_session and the checks on the list
LockSession(w) ==
    LET t == tx[w]
        refusal == Atomic!SubmitRefusal(t.request, t.at, cases) IN
    /\ t.pc = "lock_session"
    /\ Free(w, <<"session", t.request.session>>)
    /\ \/ refusal # "none" /\ Fail(w, refusal)
       \/ /\ refusal = "none"
          /\ Take(w, <<"session", t.request.session>>)
          /\ Goto(w, Write("write", t.key, t.request, 0,
                           Atomic!NewCase(t.request, t.at)))
          /\ UNCHANGED <<stored, reply, view>>
    /\ UNCHANGED <<now, calls>>

\* get_case FOR UPDATE, the checks on the row, and changed_at.  A SELECT that
\* finds no row locks nothing.
LockRow(w) ==
    LET t == tx[w]
        refusal == Atomic!DecideRefusal(t.request, cases) IN
    /\ t.pc = "lock_row"
    /\ Free(w, <<"row", t.request.case>>)
    /\ \/ refusal # "none" /\ Fail(w, refusal)
       \/ /\ refusal = "none"
          /\ Take(w, <<"row", t.request.case>>)
          /\ Goto(w, Write("write", t.key, t.request, t.request.case,
                   Atomic!Decided(cases[t.request.case], t.request.op, now)))
          /\ UNCHANGED <<stored, reply, view>>
    /\ UNCHANGED <<now, calls>>
\* Transactions that have written rows and not ended: a conflicting statement
\* of another transaction waits for them.
Pending(w) == {v \in Worker \ {w} : tx[v].pc = "commit"}

\* workflow_one_active_case_per_session_idx, the version test of UPDATE, and
\* the primary key of idempotency_record.
WriteConflict(t) ==
    IF /\ t.case = 0
       /\ Atomic!HasActive(t.request.session, cases) THEN "ACTIVE_CASE_EXISTS"
    ELSE IF t.case # 0 /\ cases[t.case].version # t.row.version - 1
         THEN "CONCURRENT_CASE_UPDATE"
    ELSE IF idempotency[t.key] # NoRecord THEN "CASE_WRITE_CONFLICT"
    ELSE "none"

\* save_case and save_idempotency
Save(w) ==
    LET t == tx[w] IN
    /\ t.pc = "write"
    /\ \A v \in Pending(w) :
         /\ tx[v].key # t.key
         /\ t.case # 0 => tx[v].case # t.case
         /\ t.case = 0 /\ tx[v].case = 0 =>
               tx[v].request.session # t.request.session
    /\ IF WriteConflict(t) # "none" THEN Fail(w, WriteConflict(t))
       ELSE /\ Goto(w, [t EXCEPT !.pc = "commit"])
            /\ UNCHANGED <<stored, reply, held, view>>
    /\ UNCHANGED <<now, calls>>

\* The view is computed inside the transaction, which sees its own writes; the
\* locks keep everything else the view shows as it was.
Commit(w) ==
    LET t == tx[w]
        i == IF t.case = 0 THEN Len(cases) + 1 ELSE t.case IN
    /\ t.pc = "commit"
    /\ cases' = IF t.case = 0 THEN Append(cases, t.row)
                ELSE [cases EXCEPT ![i] = t.row]
    /\ idempotency' =
         [idempotency EXCEPT ![t.key] = [request |-> t.request, case |-> i]]
    /\ reply' = IF t.case = 0 THEN Atomic!ConsumerView(i, cases')
                ELSE Atomic!ProviderDetail(i, cases')
    /\ End(w)
    /\ UNCHANGED <<now, view, calls>>
\* The worker crashes or loses its connection: rollback, and no answer.
Abort(w) ==
    /\ tx[w] # Idle
    /\ End(w)
    /\ UNCHANGED <<stored, now, reply, view, calls>>

-----------------------------------------------------------------------------
(***************************************************************************)
(* Reads.  A case is read with one statement for the row and one for its   *)
(* audit events; a consumer's view adds the list of its session's cases.   *)
(***************************************************************************)
BeginGetProviderCase(w, p, i) ==
    /\ tx[w] = Idle
    /\ \/ /\ ~Atomic!Authorized(p, i, cases)
          /\ reply' = Atomic!Refusal("CASE_NOT_FOUND")
          /\ UNCHANGED tx
       \/ /\ Atomic!Authorized(p, i, cases)
          /\ Goto(w, Reading("provider", i, cases[i]))
          /\ UNCHANGED reply
    /\ UNCHANGED <<stored, now, held, view, calls>>

\* Mutant: the list and the audit events are read first, the row second.
ViewRowLast(as, i, row, cs) ==
    IF as = "consumer"
    THEN [Atomic!ConsumerView(i, cs) EXCEPT
            !.rejected = IF row.status = "rejected" THEN @ ELSE @ \ {row.provider}]
    ELSE [Atomic!ProviderDetail(i, cs) EXCEPT !.audit = row.audit]
\* The row as first read, with what the second statement finds.
ViewAs(as, i, row, cs) ==
    IF as = "consumer"
    THEN [Atomic!ConsumerView(i, cs) EXCEPT !.status = row.status, !.order = row.order]
    ELSE [Atomic!ProviderDetail(i, cs) EXCEPT
            !.status = row.status, !.order = row.order,
            !.contact = Atomic!Access(row), !.image = Atomic!Image(row)]

FinishRead(w) ==
    LET t == tx[w] IN
    /\ t.pc = "read_rest"
    /\ view' = ViewAs(t.as, t.case, t.row, cases)
    /\ End(w)
    /\ UNCHANGED <<stored, now, reply, calls>>

\* list_cases_for_session orders by created_at; equal times are ordered by the
\* random case_id.
ListedLast(i, s) ==
    /\ i \in Atomic!CasesOf(s, cases)
    /\ \A j \in Atomic!CasesOf(s, cases) : cases[j].createdAt <= cases[i].createdAt

GetConsumerCase(w, s) ==
    /\ tx[w] = Idle
    /\ \/ Atomic!CasesOf(s, cases) = {} /\ view' = Atomic!NoReply
       \/ \E i \in Atomic!CasesOf(s, cases) :
            ListedLast(i, s) /\ view' = Atomic!ConsumerView(i, cases)
    /\ UNCHANGED <<stored, now, reply, tx, held, calls>>

Tick ==
    /\ now < MaxNow
    /\ now' = now + 1
    /\ UNCHANGED <<stored, reply, tx, held, view, calls>>

-----------------------------------------------------------------------------
Init ==
    /\ Atomic!Init
    /\ tx = [w \in Worker |-> Idle]
    /\ held = [w \in Worker |-> {}]
    /\ view = Atomic!NoReply
    /\ calls = 0

\* The steps a worker takes by itself once a call has begun.
Step(w) ==
    \/ LockKey(w) \/ ReadKey(w) \/ LockSession(w) \/ LockRow(w)
    \/ Save(w) \/ Commit(w) \/ FinishRead(w)

Next ==
    \/ \E w \in Worker, k \in Key, r \in Atomic!Request : Begin(w, k, r)
    \/ \E w \in Worker : Step(w)
    \/ \E w \in Worker : Abort(w)
    \/ \E w \in Worker, p \in Provider, i \in CaseId : BeginGetProviderCase(w, p, i)
    \/ \E w \in Worker, s \in Session : GetConsumerCase(w, s)
    \/ Tick

Spec == Init /\ [][Next]_vars

\* A worker keeps executing its transaction; a lock that is released again and
\* again is granted in the end, because PostgreSQL queues the waiters.
FairSpec == Spec /\ \A w \in Worker : SF_vars(Step(w))

-----------------------------------------------------------------------------
(***************************************************************************)
(* Properties.                                                             *)
(***************************************************************************)
Call == [pc : {"lock_key", "read_key", "lock_session", "lock_row"},
         key : Key, request : Atomic!Request, at : Nat]
Writing == [pc : {"write", "commit"}, key : Key, request : Atomic!Request,
            case : Nat, row : Atomic!Case]
Read == [pc : {"read_rest"}, as : {"consumer", "provider"}, case : Nat,
         row : Atomic!Case]

\* The type invariant: every transaction is at a statement of a method, holds
\* locks of the three kinds, and an idle worker holds none.
TypeOK ==
    /\ Atomic!TypeOK
    /\ tx \in [Worker -> {Idle} \cup Call \cup Writing \cup Read]
    /\ held \in [Worker -> SUBSET Lock]
    /\ \A w \in Worker : tx[w] = Idle => held[w] = {}
    /\ view \in Atomic!Reply
    /\ calls \in 0..MaxCalls

\* The transactions implement the atomic specification: what several workers
\* commit, and every error they answer, is what one service running one method
\* at a time could have done.
AtomicSpec == Atomic!Spec

\* What a transaction read before it locked, checked and wrote is still so when
\* it commits: the locks of submit_case and decide_case protect every check
\* they make, so the unique index and the version test behind them never fire.
ChecksHoldUntilCommit ==
    \A w \in Worker : tx[w].pc \in {"write", "commit"} =>
        LET t == tx[w] IN
        /\ idempotency[t.key] = NoRecord
        /\ t.case = 0 =>
              Atomic!SubmitRefusal(t.request, t.row.createdAt, cases) = "none"
        /\ t.case # 0 =>
              /\ Atomic!DecideRefusal(t.request, cases) = "none"
              /\ t.row = Atomic!Decided(cases[t.case], t.request.op, t.row.updatedAt)

\* An answer put together from several statements may be out of date, but never
\* shows more than the case allows: a full contact comes with the audit event
\* of its disclosure, and a rejected case with the provider that rejected it
\* among those a new dispatch excludes.
TornReadsAreSafe ==
    /\ view.kind = "provider" /\ view.contact = "full" =>
          \E n \in DOMAIN view.audit : view.audit[n] = "contact_revealed"
    /\ view.kind = "consumer" /\ view.status = "rejected" =>
          view.provider \in view.rejected

\* Worker w waits for the transaction of v: for a lock that v holds, or because
\* the row it writes conflicts with one that v has written.
WaitsFor(w, v) ==
    LET t == tx[w] IN
    /\ v # w
    /\ \/ t.pc = "lock_key" /\ <<"key", t.key>> \in held[v]
       \/ t.pc = "lock_session" /\ <<"session", t.request.session>> \in held[v]
       \/ t.pc = "lock_row" /\ <<"row", t.request.case>> \in held[v]
       \/ /\ t.pc = "write" /\ tx[v].pc = "commit"
          /\ \/ tx[v].key = t.key
             \/ t.case # 0 /\ tx[v].case = t.case
             \/ t.case = 0 /\ tx[v].case = 0
                /\ tx[v].request.session = t.request.session

\* No deadlock, whatever submissions and decisions are under way and with
\* whatever keys: among any workers there is one that waits for none of them.
NoDeadlock ==
    \A W \in (SUBSET Worker) \ {{}} : \E w \in W : \A v \in W : ~WaitsFor(w, v)

\* Every call that has begun ends: no order of the key, session and row locks
\* leaves workers waiting for each other, and no lock outlives its transaction.
EveryCallEnds == \A w \in Worker : tx[w] # Idle ~> tx[w] = Idle

\* What the repository's interface says of list_cases_for_session: the cases
\* come in creation order, so a case created later is not listed earlier.
\* (submit_case reads created_at before it waits for the session's lock.)
ListedInCreationOrder ==
    \A i, j \in DOMAIN cases :
        cases[i].session = cases[j].session /\ i < j =>
            cases[i].createdAt <= cases[j].createdAt
=============================================================================
