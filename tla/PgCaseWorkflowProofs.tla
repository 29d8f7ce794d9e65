------------------------ MODULE PgCaseWorkflowProofs ------------------------
(***************************************************************************)
(* Proofs about PgCaseWorkflow, for every number of workers, sessions,     *)
(* providers and keys.  The argument: a transaction owns the locks of what *)
(* it has read, two workers never hold the same lock, and a commit changes *)
(* only what its own locks cover.  So what a transaction has checked is    *)
(* still so when it commits, and its commit is the step CaseWorkflow would *)
(* take at that moment.                                                    *)
(***************************************************************************)
EXTENDS PgCaseWorkflow, SequenceTheorems, TLAPS

\* The theorems about the specification that is implemented.
Service == INSTANCE CaseWorkflowProofs WITH Lag <- MaxNow

\* What they assume of the constants is assumed here.
LEMMA ServiceAssumption == Service!ConstantsAssumption
BY PgAssumption
   DEF Service!ConstantsAssumption, Service!Record, Service!Request,
       Service!Submission, Service!Decision, Atomic!Record, Atomic!Request,
       Atomic!Submission, Atomic!Decision

\* Both instances speak of the same cases and answers.
LEMMA SameService ==
    /\ Service!Case = Atomic!Case /\ Service!Decision = Atomic!Decision
    /\ Service!Reply = Atomic!Reply
    /\ \A c, op, at : Service!Decided(c, op, at) = Atomic!Decided(c, op, at)
    /\ \A i, cs : Service!ConsumerView(i, cs) = Atomic!ConsumerView(i, cs)
    /\ \A i, cs : Service!ProviderDetail(i, cs) = Atomic!ProviderDetail(i, cs)
<1>1. Service!Case = Atomic!Case
  BY DEF Service!Case, Service!Status, Service!Order, Service!Event,
         Atomic!Case, Atomic!Status, Atomic!Order, Atomic!Event
<1>2. Service!Decision = Atomic!Decision
  BY DEF Service!Decision, Atomic!Decision
<1>3. Service!Reply = Atomic!Reply
  BY DEF Service!Reply, Service!NoReply, Service!Code, Service!Status, Service!Order,
         Service!Event, Service!Summary, Atomic!Reply, Atomic!NoReply, Atomic!Code,
         Atomic!Status, Atomic!Order, Atomic!Event, Atomic!Summary
<1>4. \A c, op, at : Service!Decided(c, op, at) = Atomic!Decided(c, op, at)
  BY DEF Service!Decided, Atomic!Decided
<1>5. \A i, cs : Service!ConsumerView(i, cs) = Atomic!ConsumerView(i, cs)
  BY DEF Service!ConsumerView, Service!RejectedBy, Service!CasesOf,
         Atomic!ConsumerView, Atomic!RejectedBy, Atomic!CasesOf
<1>6. \A i, cs : Service!ProviderDetail(i, cs) = Atomic!ProviderDetail(i, cs)
  BY DEF Service!ProviderDetail, Service!Access, Service!Image,
         Atomic!ProviderDetail, Atomic!Access, Atomic!Image
<1> QED BY <1>1, <1>2, <1>3, <1>4, <1>5, <1>6

Tx == {Idle} \cup Call \cup Writing \cup Read
Table == Seq(Atomic!Case)
Records == [Key -> Atomic!Record \cup {NoRecord}]

-----------------------------------------------------------------------------
(* What is known of a transaction t that holds the locks h, when the tables *)
(* are cs and ids and the clock is n.                                       *)

\* At a statement that may wait: once past its lock, the key is its own and
\* has no record.
CallOK(t, h, ids, n) ==
    /\ t \in Call /\ t.at <= n
    /\ t.pc # "lock_key" => <<"key", t.key>> \in h
    /\ t.pc \in {"lock_session", "lock_row"} => ids[t.key] = NoRecord
    /\ t.pc = "lock_session" => t.request \in Atomic!Submission
    /\ t.pc = "lock_row" => t.request \in Atomic!Decision

\* About to insert a case: the session is its own and every check holds.
CreateOK(t, h, cs, n) ==
    /\ t.case = 0 /\ t.request \in Atomic!Submission
    /\ <<"session", t.request.session>> \in h
    /\ t.row.createdAt \in 0..n
    /\ t.row = Atomic!NewCase(t.request, t.row.createdAt)
    /\ Atomic!SubmitRefusal(t.request, t.row.createdAt, cs) = "none"

\* About to update a case: the row is its own and every check holds.
DecideOK(t, h, cs, n) ==
    /\ t.case = t.request.case /\ t.case # 0 /\ t.request \in Atomic!Decision
    /\ <<"row", t.case>> \in h
    /\ t.row.updatedAt \in 0..n
    /\ t.row = Atomic!Decided(cs[t.case], t.request.op, t.row.updatedAt)
    /\ Atomic!DecideRefusal(t.request, cs) = "none"

WriteOK(t, h, cs, ids, n) ==
    /\ t \in Writing
    /\ <<"key", t.key>> \in h /\ ids[t.key] = NoRecord
    /\ CreateOK(t, h, cs, n) \/ DecideOK(t, h, cs, n)

\* Between the statements of a read: a decision seen is a decision for good.
ReadOK(t, cs) ==
    /\ t \in Read /\ t.case \in DOMAIN cs
    /\ t.row.status # "pending_provider" => cs[t.case].status = t.row.status

TxOK(t, h, cs, ids, n) ==
    \/ t = Idle /\ h = {}
    \/ CallOK(t, h, ids, n)
    \/ WriteOK(t, h, cs, ids, n)
    \/ ReadOK(t, cs)

\* The contact of an accepted case was disclosed on the record.
Disclosed(c) ==
    c.status = "accepted" => \E n \in DOMAIN c.audit : c.audit[n] = "contact_revealed"

TablesOK ==
    /\ cases \in Table /\ idempotency \in Records
    /\ \A k \in Key :
          idempotency[k] # NoRecord => idempotency[k].case \in DOMAIN cases
    /\ now \in 0..MaxNow
    /\ \A i \in DOMAIN cases : Disclosed(cases[i])

WorkersOK ==
    /\ tx \in [Worker -> Tx] /\ held \in [Worker -> SUBSET Lock]
    /\ \A v, w \in Worker : v # w => held[v] \cap held[w] = {}
    /\ \A w \in Worker : TxOK(tx[w], held[w], cases, idempotency, now)

\* The inductive invariant.
IInv == TablesOK /\ WorkersOK

-----------------------------------------------------------------------------
(* Transactions and tables. *)

\* The statement a transaction is at tells what kind it is.
LEMMA Kinds ==
    ASSUME NEW t
    PROVE  /\ t = Idle => t.pc = "idle"
           /\ t \in Call => t.pc \in {"lock_key", "read_key", "lock_session", "lock_row"}
           /\ t \in Writing => t.pc \in {"write", "commit"}
           /\ t \in Read => t.pc = "read_rest"
BY DEF Idle, Call, Writing, Read

\* A transaction at a waiting statement, ...
LEMMA AtCall ==
    ASSUME NEW t, NEW h, NEW cs, NEW ids, NEW n, TxOK(t, h, cs, ids, n),
           t.pc \in {"lock_key", "read_key", "lock_session", "lock_row"}
    PROVE  CallOK(t, h, ids, n)
BY Kinds DEF TxOK, WriteOK, ReadOK

\* ... at a write, ...
LEMMA AtWrite ==
    ASSUME NEW t, NEW h, NEW cs, NEW ids, NEW n, TxOK(t, h, cs, ids, n),
           t.pc \in {"write", "commit"}
    PROVE  WriteOK(t, h, cs, ids, n)
BY Kinds DEF TxOK, CallOK, ReadOK

\* ... and in the middle of a read.
LEMMA AtRead ==
    ASSUME NEW t, NEW h, NEW cs, NEW ids, NEW n, TxOK(t, h, cs, ids, n),
           t.pc = "read_rest"
    PROVE  ReadOK(t, cs)
BY Kinds DEF TxOK, CallOK, WriteOK

\* A submission that passed its checks found no active case.
LEMMA Checked ==
    ASSUME NEW t, NEW h, NEW cs, NEW n \in Nat, CreateOK(t, h, cs, n)
    PROVE  ~Atomic!HasActive(t.request.session, cs)
<1>1. /\ t.request \in Atomic!Submission /\ t.row.createdAt \in 0..n
      /\ Atomic!SubmitRefusal(t.request, t.row.createdAt, cs) = "none"
  BY DEF CreateOK
<1>2. t.request.start \in Start
  BY <1>1 DEF Atomic!Submission
<1>3. t.request.start \in Nat /\ t.row.createdAt \in Nat
  BY <1>1, <1>2, PgAssumption
<1> QED BY <1>1, <1>3 DEF Atomic!SubmitRefusal

\* The clock may advance under a transaction.
LEMMA LaterOK ==
    ASSUME NEW t, NEW h, NEW cs, NEW ids, NEW n \in Nat, NEW m \in Nat,
           n <= m, TxOK(t, h, cs, ids, n)
    PROVE  TxOK(t, h, cs, ids, m)
<1>1. CASE CallOK(t, h, ids, n)
  <2>1. t.at \in Nat
    BY <1>1 DEF CallOK, Call
  <2> QED BY <1>1, <2>1 DEF CallOK, TxOK
<1>2. CASE WriteOK(t, h, cs, ids, n)
  <2>1. 0..n \subseteq 0..m
    OBVIOUS
  <2>2. CreateOK(t, h, cs, n) => CreateOK(t, h, cs, m)
    BY <2>1 DEF CreateOK
  <2>3. DecideOK(t, h, cs, n) => DecideOK(t, h, cs, m)
    BY <2>1 DEF DecideOK
  <2> QED BY <1>2, <2>2, <2>3 DEF WriteOK, TxOK
<1> QED BY <1>1, <1>2 DEF TxOK

-----------------------------------------------------------------------------
(* What a commit does to the other transactions. *)

\* A new case in one session leaves the checks of the others as they were.
LEMMA OtherSession ==
    ASSUME NEW cs \in Table, NEW row \in Atomic!Case, NEW r, NEW at,
           r.session # row.session
    PROVE  Atomic!SubmitRefusal(r, at, Append(cs, row)) = Atomic!SubmitRefusal(r, at, cs)
<1> DEFINE cs2 == Append(cs, row)
<1>1. Atomic!CasesOf(r.session, cs2) = Atomic!CasesOf(r.session, cs)
  BY DEF Table, Atomic!CasesOf
<1>2. \A i \in Atomic!CasesOf(r.session, cs) : cs2[i] = cs[i]
  BY DEF Table, Atomic!CasesOf
<1> HIDE DEF cs2
<1>3. Atomic!HasActive(r.session, cs2) <=> Atomic!HasActive(r.session, cs)
  BY <1>1, <1>2 DEF Atomic!HasActive
<1>4. Atomic!WasRejected(r.session, r.provider, cs2)
        <=> Atomic!WasRejected(r.session, r.provider, cs)
  BY <1>1, <1>2 DEF Atomic!WasRejected
<1> QED BY <1>3, <1>4 DEF Atomic!SubmitRefusal, cs2

\* A record for one key leaves the other keys as they were.
LEMMA OtherKey ==
    ASSUME NEW ids \in Records, NEW k \in Key, NEW rec, NEW l \in Key, l # k
    PROVE  [ids EXCEPT ![k] = rec][l] = ids[l]
BY DEF Records

\* Another worker commits a new case.
LEMMA OthersCreate ==
    ASSUME NEW t, NEW h, NEW cs \in Table, NEW ids \in Records, NEW n \in Nat,
           TxOK(t, h, cs, ids, n),
           NEW k \in Key, NEW rec, NEW row \in Atomic!Case,
           <<"key", k>> \notin h, <<"session", row.session>> \notin h
    PROVE  TxOK(t, h, Append(cs, row), [ids EXCEPT ![k] = rec], n)
<1> DEFINE ids2 == [ids EXCEPT ![k] = rec]
           cs2 == Append(cs, row)
<1>1. \A l \in Key : l # k => ids2[l] = ids[l]
  BY OtherKey
<1>2. DOMAIN cs \subseteq DOMAIN cs2 /\ \A i \in DOMAIN cs : cs2[i] = cs[i]
  BY DEF Table
<1>3. CASE CallOK(t, h, ids, n)
  <2>1. t.key \in Key
    BY <1>3 DEF CallOK, Call
  <2> HIDE DEF ids2
  <2>2. t.pc \in {"lock_session", "lock_row"} => ids2[t.key] = NoRecord
    BY <1>1, <1>3, <2>1 DEF CallOK
  <2> QED BY <1>3, <2>2 DEF CallOK, TxOK, ids2
<1>4. CASE WriteOK(t, h, cs, ids, n)
  <2> HIDE DEF ids2
  <2>1. t.key \in Key
    BY <1>4 DEF WriteOK, Writing
  <2>2. ids2[t.key] = NoRecord
    BY <1>1, <1>4, <2>1 DEF WriteOK
  <2>3. CreateOK(t, h, cs, n) => CreateOK(t, h, cs2, n)
    BY OtherSession DEF CreateOK
  <2> HIDE DEF cs2
  <2>4. DecideOK(t, h, cs, n) => DecideOK(t, h, cs2, n)
    BY <1>2 DEF DecideOK, Atomic!DecideRefusal, Atomic!Authorized
  <2> QED BY <1>4, <2>2, <2>3, <2>4 DEF WriteOK, TxOK, ids2, cs2
<1>5. CASE ReadOK(t, cs)
  <2> HIDE DEF cs2
  <2> QED BY <1>2, <1>5 DEF ReadOK, TxOK, cs2
<1> QED BY <1>3, <1>4, <1>5 DEF TxOK

\* A decision keeps whose the case is.
LEMMA DecidedKeeps ==
    ASSUME NEW c \in Atomic!Case, NEW op, NEW at
    PROVE  /\ Atomic!Decided(c, op, at).session = c.session
           /\ Atomic!Decided(c, op, at).provider = c.provider
BY DEF Atomic!Decided, Atomic!Case

\* Another worker commits a decision on a waiting case.
LEMMA OthersDecide ==
    ASSUME NEW t, NEW h, NEW cs \in Table, NEW ids \in Records, NEW n \in Nat,
           TxOK(t, h, cs, ids, n),
           NEW k \in Key, NEW rec, NEW i \in DOMAIN cs, NEW row,
           row.session = cs[i].session, cs[i].status = "pending_provider",
           <<"key", k>> \notin h, <<"row", i>> \notin h
    PROVE  TxOK(t, h, [cs EXCEPT ![i] = row], [ids EXCEPT ![k] = rec], n)
<1> DEFINE ids2 == [ids EXCEPT ![k] = rec]
           cs2 == [cs EXCEPT ![i] = row]
<1>1. \A l \in Key : l # k => ids2[l] = ids[l]
  BY OtherKey
<1>2. DOMAIN cs2 = DOMAIN cs /\ \A j \in DOMAIN cs : j # i => cs2[j] = cs[j]
  BY DEF Table
<1>3. cs2[i] = row
  BY DEF Table
<1>4. CASE CallOK(t, h, ids, n)
  <2>1. t.key \in Key
    BY <1>4 DEF CallOK, Call
  <2> HIDE DEF ids2
  <2>2. t.pc \in {"lock_session", "lock_row"} => ids2[t.key] = NoRecord
    BY <1>1, <1>4, <2>1 DEF CallOK
  <2> QED BY <1>4, <2>2 DEF CallOK, TxOK, ids2
<1>5. CASE WriteOK(t, h, cs, ids, n)
  <2> HIDE DEF ids2, cs2
  <2>1. t.key \in Key
    BY <1>5 DEF WriteOK, Writing
  <2>2. ids2[t.key] = NoRecord
    BY <1>1, <1>5, <2>1 DEF WriteOK
  <2>3. ASSUME CreateOK(t, h, cs, n)
        PROVE  CreateOK(t, h, cs2, n)
    <3> DEFINE r == t.request
    <3>1. Atomic!SubmitRefusal(r, t.row.createdAt, cs) = "none"
      BY <2>3 DEF CreateOK
    <3>2. ~Atomic!HasActive(r.session, cs)
      BY <2>3, Checked
    <3>3. cs[i].session # r.session
      BY <3>2 DEF Atomic!HasActive, Atomic!CasesOf, Atomic!ActiveStatus
    <3>4. Atomic!CasesOf(r.session, cs2) = Atomic!CasesOf(r.session, cs)
      BY <1>2, <1>3, <3>3 DEF Atomic!CasesOf
    <3>5. \A j \in Atomic!CasesOf(r.session, cs) : cs2[j] = cs[j]
      BY <1>2, <3>3 DEF Atomic!CasesOf
    <3> HIDE DEF r
    <3>6. /\ Atomic!HasActive(r.session, cs2) <=> Atomic!HasActive(r.session, cs)
          /\ Atomic!WasRejected(r.session, r.provider, cs2)
               <=> Atomic!WasRejected(r.session, r.provider, cs)
      BY <3>4, <3>5 DEF Atomic!HasActive, Atomic!WasRejected
    <3>7. Atomic!SubmitRefusal(r, t.row.createdAt, cs2) = "none"
      BY <3>1, <3>6 DEF Atomic!SubmitRefusal
    <3> QED BY <2>3, <3>7 DEF CreateOK, r
  <2>4. ASSUME DecideOK(t, h, cs, n)
        PROVE  DecideOK(t, h, cs2, n)
    <3>1. t.case # i /\ t.case = t.request.case
      BY <2>4 DEF DecideOK
    <3>2. t.case \in DOMAIN cs
      BY <2>4, <3>1 DEF DecideOK, Atomic!DecideRefusal, Atomic!Authorized
    <3>3. cs2[t.case] = cs[t.case] /\ DOMAIN cs2 = DOMAIN cs
      BY <1>2, <3>1, <3>2
    <3> QED BY <2>4, <3>1, <3>3
         DEF DecideOK, Atomic!DecideRefusal, Atomic!Authorized
  <2> QED BY <1>5, <2>2, <2>3, <2>4 DEF WriteOK, TxOK, ids2, cs2
<1>6. CASE ReadOK(t, cs)
  <2> HIDE DEF cs2
  <2>1. t.row.status # "pending_provider" => cs2[t.case].status = t.row.status
    BY <1>2, <1>6 DEF ReadOK
  <2> QED BY <1>2, <1>6, <2>1 DEF ReadOK, TxOK, cs2
<1> QED BY <1>4, <1>5, <1>6 DEF TxOK

-----------------------------------------------------------------------------
(* One worker takes a step that changes no table. *)

\* It is enough that its own transaction is as it should be, and that it holds
\* nothing another worker holds.
LEMMA Frame ==
    ASSUME IInv, NEW w \in Worker, UNCHANGED <<stored, now>>,
           tx' = [tx EXCEPT ![w] = tx'[w]], tx'[w] \in Tx,
           held' = [held EXCEPT ![w] = held'[w]], held'[w] \in SUBSET Lock,
           TxOK(tx'[w], held'[w], cases, idempotency, now),
           \A v \in Worker \ {w} : held'[w] \cap held[v] = {}
    PROVE  IInv'
<1>1. /\ tx' \in [Worker -> Tx] /\ held' \in [Worker -> SUBSET Lock]
      /\ \A v \in Worker \ {w} : tx'[v] = tx[v] /\ held'[v] = held[v]
  BY DEF IInv, WorkersOK
<1>2. cases' = cases /\ idempotency' = idempotency /\ now' = now
  BY DEF stored
<1>3. TablesOK'
  BY <1>2 DEF IInv, TablesOK
<1>4. \A v \in Worker : TxOK(tx'[v], held'[v], cases', idempotency', now')
  BY <1>1, <1>2 DEF IInv, WorkersOK
<1>5. \A u, v \in Worker : u # v => held'[u] \cap held'[v] = {}
  BY <1>1 DEF IInv, WorkersOK
<1> QED BY <1>1, <1>3, <1>4, <1>5 DEF IInv, WorkersOK

\* The same for a step that takes no lock.
LEMMA FrameKeep ==
    ASSUME IInv, NEW w \in Worker, UNCHANGED <<stored, now, held>>,
           tx' = [tx EXCEPT ![w] = tx'[w]], tx'[w] \in Tx,
           TxOK(tx'[w], held[w], cases, idempotency, now)
    PROVE  IInv'
<1>1. held \in [Worker -> SUBSET Lock] /\ held' = held
  BY DEF IInv, WorkersOK
<1>2. held' = [held EXCEPT ![w] = held'[w]] /\ held'[w] \in SUBSET Lock
  BY <1>1
<1>3. \A v \in Worker \ {w} : held'[w] \cap held[v] = {}
  BY <1>1 DEF IInv, WorkersOK
<1> QED BY <1>1, <1>2, <1>3, Frame

\* A transaction that ends without a commit.
LEMMA Ends ==
    ASSUME IInv, NEW w \in Worker, End(w), UNCHANGED <<stored, now>>
    PROVE  IInv'
<1>1. /\ tx' = [tx EXCEPT ![w] = tx'[w]] /\ tx'[w] = Idle
      /\ held' = [held EXCEPT ![w] = held'[w]] /\ held'[w] = {}
  BY DEF End, IInv, WorkersOK
<1>2. TxOK(tx'[w], held'[w], cases, idempotency, now)
  BY <1>1 DEF TxOK
<1>3. tx'[w] \in Tx /\ held'[w] \in SUBSET Lock
  BY <1>1 DEF Tx
<1> QED BY <1>1, <1>2, <1>3, Frame

\* What the invariant says of one worker's transaction.
LEMMA Own ==
    ASSUME IInv, NEW w \in Worker
    PROVE  /\ tx[w] \in Tx /\ held[w] \in SUBSET Lock
           /\ TxOK(tx[w], held[w], cases, idempotency, now)
BY DEF IInv, WorkersOK

\* Going to another statement changes one transaction.
LEMMA GotoOne ==
    ASSUME IInv, NEW w \in Worker, NEW t, Goto(w, t)
    PROVE  tx' = [tx EXCEPT ![w] = tx'[w]] /\ tx'[w] = t
BY DEF Goto, IInv, WorkersOK

\* A call that begins has read nothing yet.
LEMMA BeginStep ==
    ASSUME IInv, NEW w \in Worker, NEW k \in Key, NEW r \in Atomic!Request,
           Begin(w, k, r)
    PROVE  IInv'
<1>1. tx' = [tx EXCEPT ![w] = tx'[w]] /\ tx'[w] = Waiting("lock_key", k, r, now)
  BY DEF Begin, Goto, IInv, WorkersOK
<1>2. now \in Nat
  BY PgAssumption DEF IInv, TablesOK
<1>3. tx'[w] \in Call /\ CallOK(tx'[w], held[w], idempotency, now)
  BY <1>1, <1>2 DEF Waiting, Call, CallOK
<1> QED BY <1>1, <1>3, FrameKeep DEF Begin, Tx, TxOK

\* The key's lock is granted.
LEMMA LockKeyStep ==
    ASSUME IInv, NEW w \in Worker, LockKey(w)
    PROVE  IInv'
<1> DEFINE t == tx[w]
<1>1. CallOK(t, held[w], idempotency, now)
  BY Own, AtCall DEF LockKey
<1>2. /\ tx' = [tx EXCEPT ![w] = tx'[w]] /\ tx'[w] = [t EXCEPT !.pc = "read_key"]
  BY DEF LockKey, Goto, IInv, WorkersOK
<1>3. /\ held' = [held EXCEPT ![w] = held'[w]]
      /\ held'[w] = held[w] \cup {<<"key", t.key>>}
  BY DEF LockKey, Take, IInv, WorkersOK
<1>4. tx'[w] \in Call /\ tx'[w].key = t.key /\ tx'[w].pc = "read_key" /\ tx'[w].at = t.at
  BY <1>1, <1>2 DEF CallOK, Call
<1>5. CallOK(tx'[w], held'[w], idempotency, now)
  BY <1>1, <1>3, <1>4 DEF CallOK
<1>6. held'[w] \in SUBSET Lock
  <2>1. t.key \in Key
    BY <1>1 DEF CallOK, Call
  <2> QED BY <1>3, <2>1, Own DEF Lock
<1>7. \A v \in Worker \ {w} : held'[w] \cap held[v] = {}
  BY <1>3 DEF LockKey, Free, IInv, WorkersOK
<1> QED BY <1>2, <1>3, <1>4, <1>5, <1>6, <1>7, Frame DEF LockKey, Tx, TxOK, stored

\* The key is looked up: refused, answered from the record, or new.
LEMMA ReadKeyStep ==
    ASSUME IInv, NEW w \in Worker, ReadKey(w)
    PROVE  IInv'
<1> DEFINE t == tx[w]
           rec == idempotency[t.key]
<1>1. CallOK(t, held[w], idempotency, now) /\ t.pc = "read_key"
  BY Own, AtCall DEF ReadKey
<1>2. /\ t.key \in Key /\ t.request \in Atomic!Request
      /\ <<"key", t.key>> \in held[w] /\ now \in Nat
  BY <1>1, PgAssumption DEF CallOK, Call, IInv, TablesOK
<1>3. ASSUME NEW code, Fail(w, code)
      PROVE  IInv'
  BY <1>3, Ends DEF Fail, ReadKey
<1>4. ASSUME NEW pc \in {"lock_session", "lock_row"}, rec = NoRecord,
             Goto(w, Waiting(pc, t.key, t.request, now)), UNCHANGED <<stored, held>>,
             pc = "lock_session" => t.request \in Atomic!Submission,
             pc = "lock_row" => t.request \in Atomic!Decision
      PROVE  IInv'
  <2>1. tx' = [tx EXCEPT ![w] = tx'[w]] /\ tx'[w] = Waiting(pc, t.key, t.request, now)
    BY <1>4 DEF Goto, IInv, WorkersOK
  <2> HIDE DEF t, rec
  <2>2. tx'[w] \in Call
    BY <1>2, <2>1 DEF Waiting, Call
  <2>3. CallOK(tx'[w], held[w], idempotency, now)
    BY <1>2, <1>4, <2>1, <2>2 DEF Waiting, CallOK, rec
  <2> QED BY <1>4, <2>1, <2>2, <2>3, FrameKeep DEF Tx, TxOK, ReadKey
<1>5. CASE rec = NoRecord /\ FirstUse(w)
  <2>1. t.request.op = "submit_case" => t.request \in Atomic!Submission
    BY <1>2 DEF Atomic!Request, Atomic!Decision
  <2>2. t.request.op # "submit_case" => t.request \in Atomic!Decision
    BY <1>2 DEF Atomic!Request, Atomic!Submission
  <2>3. CASE t.request.op # "submit_case"
    BY <1>4, <1>5, <2>2, <2>3 DEF FirstUse
  <2>4. CASE t.request.op = "submit_case" /\ t.request.start <= now
    BY <1>3, <1>5, <2>4 DEF FirstUse
  <2>5. CASE t.request.op = "submit_case" /\ ~(t.request.start <= now)
    BY <1>4, <1>5, <2>1, <2>5 DEF FirstUse
  <2> QED BY <2>3, <2>4, <2>5
<1>6. ASSUME NEW who \in {"consumer", "provider"}, rec # NoRecord,
             Goto(w, Reading(who, rec.case, cases[rec.case])), UNCHANGED <<stored, held>>
      PROVE  IInv'
  <2>1. /\ tx' = [tx EXCEPT ![w] = tx'[w]]
        /\ tx'[w] = Reading(who, rec.case, cases[rec.case])
    BY <1>6 DEF Goto, IInv, WorkersOK
  <2>2. rec.case \in DOMAIN cases /\ rec \in Atomic!Record
    BY <1>2, <1>6 DEF IInv, TablesOK, Records
  <2>3. rec.case \in Nat /\ cases[rec.case] \in Atomic!Case
    BY <2>2 DEF Atomic!Record, IInv, TablesOK, Table
  <2> HIDE DEF t, rec
  <2>4. tx'[w] \in Read /\ tx'[w].case = rec.case /\ tx'[w].row = cases[rec.case]
    <3>1. Reading(who, rec.case, cases[rec.case]) \in Read
      BY <2>3 DEF Reading, Read
    <3>2. tx'[w].case = rec.case /\ tx'[w].row = cases[rec.case]
      BY <2>1 DEF Reading
    <3> QED BY <2>1, <3>1, <3>2
  <2>5. ReadOK(tx'[w], cases)
    BY <2>2, <2>4 DEF ReadOK
  <2> QED BY <1>6, <2>1, <2>4, <2>5, FrameKeep DEF Tx, TxOK, ReadKey
<1>7. CASE rec # NoRecord /\ rec.request # t.request /\ Fail(w, "IDEMPOTENCY_KEY_REUSED")
  BY <1>3, <1>7
<1> QED BY <1>5, <1>6, <1>7 DEF ReadKey

\* Without the time window, a refusal of a submission is one of its checks.
LEMMA NewRow ==
    ASSUME NEW r \in Atomic!Submission, NEW at \in Nat
    PROVE  /\ Atomic!NewCase(r, at) \in Atomic!Case
           /\ Atomic!NewCase(r, at).createdAt = at
           /\ Atomic!NewCase(r, at).session = r.session
           /\ Atomic!NewCase(r, at).status = "pending_provider"
<1>1. Atomic!NewCase(r, at) \in Atomic!Case
  BY PgAssumption DEF Atomic!Submission, Atomic!NewCase, Atomic!Case,
                      Atomic!Status, Atomic!Order, Atomic!Event
<1> QED BY <1>1 DEF Atomic!NewCase

\* The session's lock is granted and its cases are listed.
LEMMA LockSessionStep ==
    ASSUME IInv, NEW w \in Worker, LockSession(w)
    PROVE  IInv'
<1> DEFINE t == tx[w]
           row == Atomic!NewCase(t.request, t.at)
           l == <<"session", t.request.session>>
<1>1. CallOK(t, held[w], idempotency, now) /\ t.pc = "lock_session"
  BY Own, AtCall DEF LockSession
<1>2. /\ t.key \in Key /\ t.request \in Atomic!Submission /\ t.at \in Nat /\ t.at <= now
      /\ <<"key", t.key>> \in held[w] /\ idempotency[t.key] = NoRecord
      /\ t.request \in Atomic!Request /\ now \in Nat
  BY <1>1, PgAssumption DEF CallOK, Call, IInv, TablesOK
<1>3. CASE Fail(w, Atomic!SubmitRefusal(t.request, t.at, cases))
  BY <1>3, Ends DEF Fail, LockSession
<1>4. CASE /\ Atomic!SubmitRefusal(t.request, t.at, cases) = "none"
           /\ Take(w, l) /\ Goto(w, Write("write", t.key, t.request, 0, row))
           /\ UNCHANGED <<stored, reply, view>>
  <2>1. tx' = [tx EXCEPT ![w] = tx'[w]] /\ tx'[w] = Write("write", t.key, t.request, 0, row)
    BY <1>4 DEF Goto, IInv, WorkersOK
  <2>2. held' = [held EXCEPT ![w] = held'[w]] /\ held'[w] = held[w] \cup {l}
    BY <1>4 DEF Take, IInv, WorkersOK
  <2>3. \A v \in Worker \ {w} : held'[w] \cap held[v] = {}
    BY <2>2 DEF LockSession, Free, IInv, WorkersOK
  <2>4. row \in Atomic!Case /\ row.createdAt = t.at
    BY <1>2, NewRow
  <2>5. l \in Lock
    BY <1>2 DEF Lock, Atomic!Submission
  <2>6. held'[w] \in SUBSET Lock
    BY <2>2, <2>5, Own
  <2> HIDE DEF t, row
  <2>7. /\ tx'[w] \in Writing /\ tx'[w].key = t.key /\ tx'[w].request = t.request
        /\ tx'[w].case = 0 /\ tx'[w].row = row
    BY <1>2, <2>1, <2>4 DEF Write, Writing
  <2>8. CreateOK(tx'[w], held'[w], cases, now)
    BY <1>2, <1>4, <2>2, <2>4, <2>7 DEF CreateOK, row
  <2>9. WriteOK(tx'[w], held'[w], cases, idempotency, now)
    BY <1>2, <2>2, <2>7, <2>8 DEF WriteOK
  <2> QED BY <1>4, <2>1, <2>2, <2>3, <2>6, <2>7, <2>9, Frame DEF Tx, TxOK, LockSession
<1> QED BY <1>3, <1>4 DEF LockSession

\* A decided case is a case, decided at the time given.
LEMMA DecidedRow ==
    ASSUME NEW c \in Atomic!Case, NEW r \in Atomic!Decision, NEW at \in Nat
    PROVE  /\ Atomic!Decided(c, r.op, at) \in Atomic!Case
           /\ Atomic!Decided(c, r.op, at).updatedAt = at
           /\ Disclosed(Atomic!Decided(c, r.op, at))
<1>1. Atomic!Decided(c, r.op, at) \in Atomic!Case
  BY SameService, ServiceAssumption, Service!DecidedType
<1>2. Atomic!Decided(c, r.op, at).updatedAt = at
  BY DEF Atomic!Decided, Atomic!Case
<1>3. Disclosed(Atomic!Decided(c, r.op, at))
  <2> DEFINE au == <<"provider_accepted", "contact_revealed">>
  <2>1. CASE r.op = "provider_accept"
    <3>1. Atomic!Decided(c, r.op, at).audit = c.audit \o au
      BY <2>1 DEF Atomic!Decided, Atomic!Case
    <3>2. c.audit \in Seq(Atomic!Event) /\ au \in Seq(Atomic!Event)
      BY DEF Atomic!Case, Atomic!Event
    <3>3. /\ Len(c.audit) + 2 \in DOMAIN (c.audit \o au)
          /\ (c.audit \o au)[Len(c.audit) + 2] = "contact_revealed"
      BY <3>2
    <3> QED BY <3>1, <3>3 DEF Disclosed
  <2>2. CASE r.op # "provider_accept"
    BY <2>2 DEF Disclosed, Atomic!Decided, Atomic!Case
  <2> QED BY <2>1, <2>2
<1> QED BY <1>1, <1>2, <1>3

\* The row's lock is granted and the row is checked.
LEMMA LockRowStep ==
    ASSUME IInv, NEW w \in Worker, LockRow(w)
    PROVE  IInv'
<1> DEFINE t == tx[w]
           i == t.request.case
           row == Atomic!Decided(cases[i], t.request.op, now)
           l == <<"row", i>>
<1>1. CallOK(t, held[w], idempotency, now) /\ t.pc = "lock_row"
  BY Own, AtCall DEF LockRow
<1>2. /\ t.key \in Key /\ t.request \in Atomic!Decision
      /\ <<"key", t.key>> \in held[w] /\ idempotency[t.key] = NoRecord
      /\ t.request \in Atomic!Request /\ now \in Nat
  BY <1>1, PgAssumption DEF CallOK, Call, IInv, TablesOK
<1>3. CASE Fail(w, Atomic!DecideRefusal(t.request, cases))
  BY <1>3, Ends DEF Fail, LockRow
<1>4. CASE /\ Atomic!DecideRefusal(t.request, cases) = "none"
           /\ Take(w, l) /\ Goto(w, Write("write", t.key, t.request, i, row))
           /\ UNCHANGED <<stored, reply, view>>
  <2>1. tx' = [tx EXCEPT ![w] = tx'[w]] /\ tx'[w] = Write("write", t.key, t.request, i, row)
    BY <1>4 DEF Goto, IInv, WorkersOK
  <2>2. held' = [held EXCEPT ![w] = held'[w]] /\ held'[w] = held[w] \cup {l}
    BY <1>4 DEF Take, IInv, WorkersOK
  <2>3. \A v \in Worker \ {w} : held'[w] \cap held[v] = {}
    BY <2>2 DEF LockRow, Free, IInv, WorkersOK
  <2>4. i \in DOMAIN cases /\ cases[i] \in Atomic!Case /\ i \in Nat /\ i # 0
    BY <1>4 DEF Atomic!DecideRefusal, Atomic!Authorized, IInv, TablesOK, Table
  <2>5. row \in Atomic!Case /\ row.updatedAt = now
    BY <1>2, <2>4, DecidedRow
  <2>6. i \in CaseId /\ l \in Lock
    BY <1>2 DEF Lock, Atomic!Decision
  <2>7. held'[w] \in SUBSET Lock
    BY <2>2, <2>6, Own
  <2> HIDE DEF t, i, row
  <2>8. /\ tx'[w] \in Writing /\ tx'[w].key = t.key /\ tx'[w].request = t.request
        /\ tx'[w].case = i /\ tx'[w].row = row
    BY <1>2, <2>1, <2>4, <2>5 DEF Write, Writing
  <2>9. DecideOK(tx'[w], held'[w], cases, now)
    BY <1>2, <1>4, <2>2, <2>4, <2>5, <2>8 DEF DecideOK, row, i
  <2>10. WriteOK(tx'[w], held'[w], cases, idempotency, now)
    BY <1>2, <2>2, <2>8, <2>9 DEF WriteOK
  <2> QED BY <1>4, <2>1, <2>2, <2>3, <2>7, <2>8, <2>10, Frame DEF Tx, TxOK, LockRow
<1> QED BY <1>3, <1>4 DEF LockRow

\* The rows are written, invisible to the others.
LEMMA SaveStep ==
    ASSUME IInv, NEW w \in Worker, Save(w)
    PROVE  IInv'
<1> DEFINE t == tx[w]
<1>1. WriteOK(t, held[w], cases, idempotency, now) /\ t.pc = "write"
  BY Own, AtWrite DEF Save
<1>2. CASE Fail(w, WriteConflict(t))
  BY <1>2, Ends DEF Fail, Save
<1>3. CASE Goto(w, [t EXCEPT !.pc = "commit"]) /\ UNCHANGED <<stored, reply, held, view>>
  <2>1. tx' = [tx EXCEPT ![w] = tx'[w]] /\ tx'[w] = [t EXCEPT !.pc = "commit"]
    BY <1>3 DEF Goto, IInv, WorkersOK
  <2>2. /\ tx'[w] \in Writing /\ tx'[w].key = t.key /\ tx'[w].request = t.request
        /\ tx'[w].case = t.case /\ tx'[w].row = t.row
    BY <1>1, <2>1 DEF WriteOK, Writing
  <2>3. WriteOK(tx'[w], held[w], cases, idempotency, now)
    BY <1>1, <2>2 DEF WriteOK, CreateOK, DecideOK
  <2> QED BY <1>3, <2>1, <2>2, <2>3, FrameKeep DEF Tx, TxOK, Save
<1> QED BY <1>2, <1>3 DEF Save

-----------------------------------------------------------------------------
(* The commit. *)

\* What a commit writes: the row of a new case or of the case decided, and the
\* record of the key.
LEMMA CommitWrites ==
    ASSUME IInv, NEW w \in Worker, Commit(w)
    PROVE  LET t == tx[w]
               i == IF t.case = 0 THEN Len(cases) + 1 ELSE t.case
           IN /\ t.key \in Key /\ t.row \in Atomic!Case /\ t.request \in Atomic!Request
              /\ idempotency[t.key] = NoRecord
              /\ <<"key", t.key>> \in held[w]
              /\ CreateOK(t, held[w], cases, now) \/ DecideOK(t, held[w], cases, now)
              /\ idempotency' = [idempotency EXCEPT ![t.key] =
                                    [request |-> t.request, case |-> i]]
              /\ i \in DOMAIN cases' /\ i \in Nat
<1> DEFINE t == tx[w]
<1>1. WriteOK(t, held[w], cases, idempotency, now)
  BY Own, AtWrite DEF Commit
<1>2. t.key \in Key /\ t.row \in Atomic!Case /\ t.request \in Atomic!Request
  BY <1>1 DEF WriteOK, Writing
<1>3. cases \in Table
  BY DEF IInv, TablesOK
<1>4. CASE CreateOK(t, held[w], cases, now)
  <2>1. t.case = 0 /\ cases' = Append(cases, t.row)
    BY <1>4 DEF CreateOK, Commit
  <2> HIDE DEF t
  <2>2. Len(cases) + 1 \in DOMAIN cases' /\ Len(cases) + 1 \in Nat
    BY <1>2, <1>3, <2>1 DEF Table
  <2> QED BY <1>1, <1>2, <1>4, <2>1, <2>2 DEF WriteOK, Commit, t
<1>5. CASE DecideOK(t, held[w], cases, now)
  <2>1. t.case # 0 /\ t.case \in DOMAIN cases
    BY <1>5 DEF DecideOK, Atomic!DecideRefusal, Atomic!Authorized
  <2>2. cases' = [cases EXCEPT ![t.case] = t.row]
    BY <2>1 DEF Commit
  <2> HIDE DEF t
  <2>3. t.case \in DOMAIN cases' /\ t.case \in Nat
    BY <1>3, <2>1, <2>2 DEF Table
  <2> QED BY <1>1, <1>2, <1>5, <2>1, <2>3 DEF WriteOK, Commit, t
<1> QED BY <1>1, <1>4, <1>5 DEF WriteOK

\* A record for a case that exists keeps the idempotency table typed.
LEMMA RecordsKept ==
    ASSUME TablesOK, NEW k \in Key, NEW r \in Atomic!Request, NEW i \in Nat,
           idempotency' = [idempotency EXCEPT ![k] = [request |-> r, case |-> i]],
           i \in DOMAIN cases', DOMAIN cases \subseteq DOMAIN cases'
    PROVE  /\ idempotency' \in Records
           /\ \A l \in Key : idempotency'[l] # NoRecord =>
                                 idempotency'[l].case \in DOMAIN cases'
<1>1. [request |-> r, case |-> i] \in Atomic!Record
  BY DEF Atomic!Record
<1> QED BY <1>1 DEF TablesOK, Records

\* A submission commits.
LEMMA CommitCreateStep ==
    ASSUME IInv, NEW w \in Worker, Commit(w), CreateOK(tx[w], held[w], cases, now)
    PROVE  IInv'
<1> DEFINE t == tx[w]
           rec == [request |-> t.request, case |-> Len(cases) + 1]
<1>1. /\ t.case = 0 /\ cases' = Append(cases, t.row)
      /\ <<"session", t.request.session>> \in held[w]
      /\ t.row = Atomic!NewCase(t.request, t.row.createdAt)
  BY DEF CreateOK, Commit
<1>2. /\ t.key \in Key /\ t.row \in Atomic!Case /\ t.request \in Atomic!Request
      /\ <<"key", t.key>> \in held[w] /\ idempotency' = [idempotency EXCEPT ![t.key] = rec]
      /\ Len(cases) + 1 \in DOMAIN cases' /\ Len(cases) + 1 \in Nat
  BY <1>1, CommitWrites
<1>3. t.row.session = t.request.session /\ t.row.status = "pending_provider"
  BY <1>1 DEF Atomic!NewCase
<1>4. /\ tx' = [tx EXCEPT ![w] = Idle] /\ held' = [held EXCEPT ![w] = {}]
      /\ now' = now
  BY DEF Commit, End
<1>5. /\ cases \in Table /\ idempotency \in Records /\ now \in Nat
      /\ now \in 0..MaxNow
  BY PgAssumption DEF IInv, TablesOK
<1> HIDE DEF t, rec
<1>6. /\ cases' \in Table /\ DOMAIN cases \subseteq DOMAIN cases'
      /\ \A j \in DOMAIN cases' : IF j \in DOMAIN cases THEN cases'[j] = cases[j]
                                  ELSE cases'[j] = t.row
  BY <1>1, <1>2, <1>5 DEF Table
<1>7. TablesOK'
  <2>1. /\ idempotency' \in Records
        /\ \A l \in Key : idempotency'[l] # NoRecord =>
                              idempotency'[l].case \in DOMAIN cases'
    BY <1>2, <1>6, RecordsKept DEF IInv, rec
  <2>2. Disclosed(t.row)
    BY <1>3 DEF Disclosed
  <2>3. \A j \in DOMAIN cases' : Disclosed(cases'[j])
    BY <1>6, <2>2 DEF IInv, TablesOK
  <2> QED BY <1>4, <1>5, <1>6, <2>1, <2>3 DEF TablesOK
<1>8. tx' \in [Worker -> Tx] /\ held' \in [Worker -> SUBSET Lock]
  BY <1>4 DEF IInv, WorkersOK, Tx
<1>9. \A u, v \in Worker : u # v => held'[u] \cap held'[v] = {}
  BY <1>4 DEF IInv, WorkersOK
<1>10. ASSUME NEW v \in Worker
       PROVE  TxOK(tx'[v], held'[v], cases', idempotency', now')
  <2>1. CASE v = w
    BY <1>4, <2>1 DEF TxOK, IInv, WorkersOK
  <2>2. CASE v # w
    <3>1. /\ <<"key", t.key>> \notin held[v]
          /\ <<"session", t.row.session>> \notin held[v]
      BY <1>1, <1>2, <1>3, <2>2 DEF IInv, WorkersOK, t
    <3>2. TxOK(tx[v], held[v], cases, idempotency, now)
      BY Own
    <3>3. TxOK(tx[v], held[v], cases', idempotency', now)
      BY <1>1, <1>2, <1>5, <3>1, <3>2, OthersCreate
    <3> QED BY <1>4, <2>2, <3>3 DEF IInv, WorkersOK
  <2> QED BY <2>1, <2>2
<1> QED BY <1>7, <1>8, <1>9, <1>10 DEF IInv, WorkersOK

\* A decision commits.
LEMMA CommitDecideStep ==
    ASSUME IInv, NEW w \in Worker, Commit(w), DecideOK(tx[w], held[w], cases, now)
    PROVE  IInv'
<1> DEFINE t == tx[w]
           rec == [request |-> t.request, case |-> t.case]
<1>1. /\ t.case # 0 /\ t.case = t.request.case
      /\ t.case \in DOMAIN cases /\ cases[t.case].status = "pending_provider"
      /\ <<"row", t.case>> \in held[w] /\ t.request \in Atomic!Decision
      /\ t.row.updatedAt \in 0..now
      /\ t.row = Atomic!Decided(cases[t.case], t.request.op, t.row.updatedAt)
  BY DEF DecideOK, Atomic!DecideRefusal, Atomic!Authorized
<1>2. /\ t.key \in Key /\ t.row \in Atomic!Case /\ t.request \in Atomic!Request
      /\ <<"key", t.key>> \in held[w] /\ idempotency' = [idempotency EXCEPT ![t.key] = rec]
      /\ t.case \in Nat
  BY <1>1, CommitWrites
<1>3. cases' = [cases EXCEPT ![t.case] = t.row]
  BY <1>1 DEF Commit
<1>4. /\ tx' = [tx EXCEPT ![w] = Idle] /\ held' = [held EXCEPT ![w] = {}]
      /\ now' = now
  BY DEF Commit, End
<1>5. /\ cases \in Table /\ idempotency \in Records /\ now \in Nat
      /\ now \in 0..MaxNow /\ cases[t.case] \in Atomic!Case
  BY <1>1, PgAssumption DEF IInv, TablesOK, Table
<1>6. t.row.session = cases[t.case].session /\ Disclosed(t.row)
  <2>1. t.row.updatedAt \in Nat
    BY <1>1, <1>5
  <2> HIDE DEF t
  <2>2. PICK at \in Nat : at = t.row.updatedAt
    BY <2>1
  <2>3. t.row = Atomic!Decided(cases[t.case], t.request.op, at)
    BY <1>1, <2>2
  <2>4. Disclosed(t.row)
    BY <1>1, <1>5, <2>3, DecidedRow
  <2> QED BY <1>5, <2>3, <2>4, DecidedKeeps
<1> HIDE DEF t, rec
<1>7. /\ cases' \in Table /\ DOMAIN cases' = DOMAIN cases
      /\ \A j \in DOMAIN cases : j # t.case => cases'[j] = cases[j]
      /\ cases'[t.case] = t.row
  BY <1>1, <1>2, <1>3, <1>5 DEF Table
<1>8. TablesOK'
  <2>1. /\ idempotency' \in Records
        /\ \A l \in Key : idempotency'[l] # NoRecord =>
                              idempotency'[l].case \in DOMAIN cases'
    BY <1>1, <1>2, <1>7, RecordsKept DEF IInv, rec
  <2>2. \A j \in DOMAIN cases' : Disclosed(cases'[j])
    BY <1>6, <1>7 DEF IInv, TablesOK
  <2> QED BY <1>4, <1>5, <1>7, <2>1, <2>2 DEF TablesOK
<1>9. tx' \in [Worker -> Tx] /\ held' \in [Worker -> SUBSET Lock]
  BY <1>4 DEF IInv, WorkersOK, Tx
<1>10. \A u, v \in Worker : u # v => held'[u] \cap held'[v] = {}
  BY <1>4 DEF IInv, WorkersOK
<1>11. ASSUME NEW v \in Worker
       PROVE  TxOK(tx'[v], held'[v], cases', idempotency', now')
  <2>1. CASE v = w
    BY <1>4, <2>1 DEF TxOK, IInv, WorkersOK
  <2>2. CASE v # w
    <3>1. <<"key", t.key>> \notin held[v] /\ <<"row", t.case>> \notin held[v]
      BY <1>1, <1>2, <2>2 DEF IInv, WorkersOK, t
    <3>2. TxOK(tx[v], held[v], cases, idempotency, now)
      BY Own
    <3>3. TxOK(tx[v], held[v], cases', idempotency', now)
      BY <1>1, <1>2, <1>3, <1>5, <1>6, <3>1, <3>2, OthersDecide
    <3> QED BY <1>4, <2>2, <3>3 DEF IInv, WorkersOK
  <2> QED BY <2>1, <2>2
<1> QED BY <1>8, <1>9, <1>10, <1>11 DEF IInv, WorkersOK

-----------------------------------------------------------------------------
(* Reads, the clock, and the invariant. *)

\* A provider's read begins with the row.
LEMMA BeginReadStep ==
    ASSUME IInv, NEW w \in Worker, NEW p \in Provider, NEW i \in CaseId,
           BeginGetProviderCase(w, p, i)
    PROVE  IInv'
<1>1. CASE Atomic!Authorized(p, i, cases)
  <2>1. i \in DOMAIN cases /\ cases[i] \in Atomic!Case /\ i \in Nat
    BY <1>1 DEF Atomic!Authorized, IInv, TablesOK, Table
  <2>2. /\ tx' = [tx EXCEPT ![w] = tx'[w]]
        /\ tx'[w] = Reading("provider", i, cases[i])
    BY <1>1 DEF BeginGetProviderCase, Goto, IInv, WorkersOK
  <2>3. tx'[w] \in Read /\ tx'[w].case = i /\ tx'[w].row = cases[i]
    BY <2>1, <2>2 DEF Reading, Read
  <2>4. ReadOK(tx'[w], cases)
    BY <2>1, <2>3 DEF ReadOK
  <2> QED BY <2>2, <2>3, <2>4, FrameKeep DEF Tx, TxOK, BeginGetProviderCase
<1>2. CASE ~Atomic!Authorized(p, i, cases)
  <2>1. UNCHANGED <<stored, now, tx, held>>
    BY <1>2 DEF BeginGetProviderCase
  <2> QED BY <2>1 DEF IInv, TablesOK, WorkersOK, stored
<1> QED BY <1>1, <1>2

\* The clock advances.
LEMMA TickStep ==
    ASSUME IInv, Tick
    PROVE  IInv'
<1>1. /\ now \in Nat /\ now' \in Nat /\ now <= now' /\ now' \in 0..MaxNow
      /\ UNCHANGED <<stored, tx, held>>
  BY PgAssumption DEF Tick, IInv, TablesOK
<1>2. \A w \in Worker : TxOK(tx[w], held[w], cases, idempotency, now')
  BY <1>1, LaterOK DEF IInv, WorkersOK
<1>3. WorkersOK'
  BY <1>1, <1>2 DEF IInv, WorkersOK, stored
<1>4. TablesOK'
  BY <1>1 DEF IInv, TablesOK, stored
<1> QED BY <1>3, <1>4 DEF IInv

\* Every step keeps the invariant.
LEMMA IInvStep ==
    ASSUME IInv, [Next]_vars
    PROVE  IInv'
<1>1. ASSUME NEW w \in Worker, NEW k \in Key, NEW r \in Atomic!Request, Begin(w, k, r)
      PROVE  IInv'
  BY <1>1, BeginStep
<1>2. ASSUME NEW w \in Worker, Step(w)
      PROVE  IInv'
  <2>1. CASE Commit(w)
    BY <2>1, CommitWrites, CommitCreateStep, CommitDecideStep
  <2>2. CASE FinishRead(w)
    BY <2>2, Ends DEF FinishRead
  <2> QED BY <1>2, <2>1, <2>2, LockKeyStep, ReadKeyStep, LockSessionStep,
             LockRowStep, SaveStep DEF Step
<1>3. ASSUME NEW w \in Worker, Abort(w)
      PROVE  IInv'
  BY <1>3, Ends DEF Abort
<1>4. ASSUME NEW w \in Worker, NEW p \in Provider, NEW i \in CaseId,
             BeginGetProviderCase(w, p, i)
      PROVE  IInv'
  BY <1>4, BeginReadStep
<1>5. CASE \/ \E w \in Worker, s \in Session : GetConsumerCase(w, s)
           \/ UNCHANGED vars
  <2>1. UNCHANGED <<stored, now, tx, held>>
    BY <1>5 DEF GetConsumerCase, vars, stored
  <2> QED BY <2>1 DEF IInv, TablesOK, WorkersOK, stored
<1> QED BY <1>1, <1>2, <1>3, <1>4, <1>5, TickStep DEF Next

\* Nothing is stored and every worker is idle.
LEMMA IInvInit == ASSUME Init PROVE IInv
<1>1. cases = << >> /\ idempotency = [k \in Key |-> NoRecord] /\ now = 0
  BY DEF Init, Atomic!Init
<1>2. TablesOK
  BY <1>1, PgAssumption DEF TablesOK, Table, Records
<1>3. WorkersOK
  BY DEF Init, WorkersOK, Tx, TxOK
<1> QED BY <1>2, <1>3 DEF IInv

\* The invariant holds in every reachable state.
THEOREM Invariant == Spec => []IInv
BY IInvInit, IInvStep, PTL DEF Spec

\* What a transaction checked under its locks is still so when it commits, so
\* the database's own constraints never have to refuse a row.
THEOREM ChecksHold == Spec => []ChecksHoldUntilCommit
<1>1. IInv => ChecksHoldUntilCommit
  <2> SUFFICES ASSUME IInv, NEW w \in Worker, tx[w].pc \in {"write", "commit"}
               PROVE  LET t == tx[w] IN
                      /\ idempotency[t.key] = NoRecord
                      /\ t.case = 0 =>
                            Atomic!SubmitRefusal(t.request, t.row.createdAt, cases) = "none"
                      /\ t.case # 0 =>
                            /\ Atomic!DecideRefusal(t.request, cases) = "none"
                            /\ t.row = Atomic!Decided(cases[t.case], t.request.op,
                                                      t.row.updatedAt)
    BY DEF ChecksHoldUntilCommit
  <2>1. WriteOK(tx[w], held[w], cases, idempotency, now)
    BY Own, AtWrite
  <2> QED BY <2>1 DEF WriteOK, CreateOK, DecideOK
<1> QED BY <1>1, Invariant, PTL

-----------------------------------------------------------------------------
(* The refinement. *)

\* A method that raises is the refusal of the same request.
LEMMA FailRefuses ==
    ASSUME NEW w \in Worker, NEW code, Fail(w, code), UNCHANGED now
    PROVE  Atomic!Refuse(code)
BY DEF Fail, Atomic!Refuse, stored

\* The lookup of the key.
LEMMA ReadKeyImplements ==
    ASSUME IInv, NEW w \in Worker, ReadKey(w)
    PROVE  Atomic!Next \/ UNCHANGED Atomic!vars
<1> DEFINE t == tx[w]
<1>1. CallOK(t, held[w], idempotency, now)
  BY Own, AtCall DEF ReadKey
<1>2. t.key \in Key /\ t.request \in Atomic!Request /\ now \in Atomic!Reading
  BY <1>1, PgAssumption DEF CallOK, Call, IInv, TablesOK, Atomic!Reading
<1>3. t.request \in Atomic!Submission \/ t.request \in Atomic!Decision
  BY <1>2 DEF Atomic!Request
<1>4. CASE /\ idempotency[t.key] # NoRecord /\ idempotency[t.key].request # t.request
           /\ Fail(w, "IDEMPOTENCY_KEY_REUSED")
  <2>1. Atomic!KeyReused(t.key, t.request)
    BY <1>4, FailRefuses DEF Atomic!KeyReused, ReadKey
  <2> HIDE DEF t
  <2> QED BY <1>2, <1>3, <2>1 DEF Atomic!Next, Atomic!Submit, Atomic!Decide
<1>5. CASE /\ idempotency[t.key] = NoRecord /\ t.request.op = "submit_case"
           /\ t.request.start <= now /\ Fail(w, "INVALID_TIME_WINDOW")
  <2>1. t.request \in Atomic!Submission
    BY <1>2, <1>5 DEF Atomic!Request, Atomic!Decision
  <2>2. Atomic!SubmitRefusal(t.request, now, cases) = "INVALID_TIME_WINDOW"
    BY <1>2, <1>5, <2>1, PgAssumption
       DEF Atomic!SubmitRefusal, Atomic!Submission, Atomic!Reading
  <2>3. Atomic!SubmitRefused(t.key, t.request, now)
    BY <1>5, <2>2, FailRefuses DEF Atomic!SubmitRefused, ReadKey
  <2> HIDE DEF t
  <2> QED BY <1>2, <2>1, <2>3 DEF Atomic!Next, Atomic!Submit
<1>6. CASE UNCHANGED <<stored, reply>>
  BY <1>6 DEF ReadKey, stored, Atomic!vars
<1> QED BY <1>4, <1>5, <1>6 DEF ReadKey, FirstUse

\* The list of the session's cases.
LEMMA LockSessionImplements ==
    ASSUME IInv, NEW w \in Worker, LockSession(w)
    PROVE  Atomic!Next \/ UNCHANGED Atomic!vars
<1> DEFINE t == tx[w]
<1>1. CallOK(t, held[w], idempotency, now) /\ t.pc = "lock_session"
  BY Own, AtCall DEF LockSession
<1>2. /\ t.key \in Key /\ t.request \in Atomic!Submission
      /\ idempotency[t.key] = NoRecord /\ t.at \in Atomic!Reading
  BY <1>1, PgAssumption DEF CallOK, Call, IInv, TablesOK, Atomic!Reading
<1>3. CASE /\ Atomic!SubmitRefusal(t.request, t.at, cases) # "none"
           /\ Fail(w, Atomic!SubmitRefusal(t.request, t.at, cases))
  <2>1. Atomic!SubmitRefused(t.key, t.request, t.at)
    BY <1>2, <1>3, FailRefuses DEF Atomic!SubmitRefused, LockSession
  <2> HIDE DEF t
  <2> QED BY <1>2, <2>1 DEF Atomic!Next, Atomic!Submit
<1>4. CASE UNCHANGED <<stored, reply>>
  BY <1>4 DEF LockSession, stored, Atomic!vars
<1> QED BY <1>3, <1>4 DEF LockSession

\* The row of the case to decide.
LEMMA LockRowImplements ==
    ASSUME IInv, NEW w \in Worker, LockRow(w)
    PROVE  Atomic!Next \/ UNCHANGED Atomic!vars
<1> DEFINE t == tx[w]
<1>1. CallOK(t, held[w], idempotency, now) /\ t.pc = "lock_row"
  BY Own, AtCall DEF LockRow
<1>2. /\ t.key \in Key /\ t.request \in Atomic!Decision
      /\ idempotency[t.key] = NoRecord
  BY <1>1 DEF CallOK, Call
<1>3. CASE /\ Atomic!DecideRefusal(t.request, cases) # "none"
           /\ Fail(w, Atomic!DecideRefusal(t.request, cases))
  <2>1. Atomic!DecideRefused(t.key, t.request)
    BY <1>2, <1>3, FailRefuses DEF Atomic!DecideRefused, LockRow
  <2> HIDE DEF t
  <2> QED BY <1>2, <2>1 DEF Atomic!Next, Atomic!Decide
<1>4. CASE UNCHANGED <<stored, reply>>
  BY <1>4 DEF LockRow, stored, Atomic!vars
<1> QED BY <1>3, <1>4 DEF LockRow

\* What was checked under the locks never conflicts when it is written.
LEMMA NoConflict ==
    ASSUME IInv, NEW w \in Worker, Save(w)
    PROVE  WriteConflict(tx[w]) = "none"
<1> DEFINE t == tx[w]
<1>1. WriteOK(t, held[w], cases, idempotency, now)
  BY Own, AtWrite DEF Save
<1>2. CASE CreateOK(t, held[w], cases, now)
  <2>1. ~Atomic!HasActive(t.request.session, cases)
    BY <1>2, PgAssumption, Checked DEF IInv, TablesOK
  <2> QED BY <1>1, <1>2, <2>1 DEF WriteConflict, WriteOK, CreateOK
<1>3. CASE DecideOK(t, held[w], cases, now)
  <2>1. t.case \in DOMAIN cases /\ t.case # 0
    BY <1>3 DEF DecideOK, Atomic!DecideRefusal, Atomic!Authorized
  <2>2. cases[t.case] \in Atomic!Case
    BY <2>1 DEF IInv, TablesOK, Table
  <2>3. t.row.version = cases[t.case].version + 1 /\ cases[t.case].version \in Nat
    BY <1>3, <2>2 DEF DecideOK, Atomic!Decided, Atomic!Case
  <2> QED BY <1>1, <2>1, <2>3 DEF WriteConflict, WriteOK
<1> QED BY <1>1, <1>2, <1>3 DEF WriteOK

\* The commit is the write of the atomic specification.
LEMMA CommitImplements ==
    ASSUME IInv, NEW w \in Worker, Commit(w)
    PROVE  Atomic!Next
<1> DEFINE t == tx[w]
<1>1. /\ t.key \in Key /\ idempotency[t.key] = NoRecord
      /\ CreateOK(t, held[w], cases, now) \/ DecideOK(t, held[w], cases, now)
  BY CommitWrites
<1>2. now \in 0..MaxNow /\ now \in Nat
  BY PgAssumption DEF IInv, TablesOK
<1>3. CASE CreateOK(t, held[w], cases, now)
  <2>1. t.row.createdAt \in Atomic!Reading /\ t.request \in Atomic!Submission
    BY <1>2, <1>3, PgAssumption DEF CreateOK, Atomic!Reading
  <2>2. Atomic!SubmitCreated(t.key, t.request, t.row.createdAt)
    BY <1>1, <1>3 DEF CreateOK, Commit, Atomic!SubmitCreated
  <2> HIDE DEF t
  <2> QED BY <1>1, <2>1, <2>2 DEF Atomic!Next, Atomic!Submit
<1>4. CASE DecideOK(t, held[w], cases, now)
  <2>1. t.row.updatedAt \in Atomic!Reading /\ t.request \in Atomic!Decision
    BY <1>2, <1>4, PgAssumption DEF DecideOK, Atomic!Reading
  <2>2. Atomic!DecideApplied(t.key, t.request, t.row.updatedAt)
    BY <1>1, <1>4 DEF DecideOK, Commit, Atomic!DecideApplied
  <2> HIDE DEF t
  <2> QED BY <1>1, <2>1, <2>2 DEF Atomic!Next, Atomic!Decide
<1> QED BY <1>1, <1>3, <1>4

\* Every step is a step of the atomic specification, or none.
LEMMA Implements ==
    ASSUME IInv, [Next]_vars
    PROVE  [Atomic!Next]_(Atomic!vars)
<1>1. ASSUME NEW w \in Worker, NEW k \in Key, NEW r \in Atomic!Request, Begin(w, k, r)
      PROVE  UNCHANGED Atomic!vars
  BY <1>1 DEF Begin, stored, Atomic!vars
<1>2. ASSUME NEW w \in Worker, LockKey(w) \/ FinishRead(w) \/ Abort(w)
      PROVE  UNCHANGED Atomic!vars
  BY <1>2 DEF LockKey, FinishRead, Abort, stored, Atomic!vars
<1>3. ASSUME NEW w \in Worker, Save(w)
      PROVE  UNCHANGED Atomic!vars
  BY <1>3, NoConflict DEF Save, stored, Atomic!vars
<1>4. ASSUME NEW w \in Worker, NEW p \in Provider, NEW i \in CaseId,
             BeginGetProviderCase(w, p, i)
      PROVE  Atomic!Next \/ UNCHANGED Atomic!vars
  <2>1. CASE Atomic!Authorized(p, i, cases)
    BY <1>4, <2>1 DEF BeginGetProviderCase, stored, Atomic!vars
  <2>2. CASE ~Atomic!Authorized(p, i, cases)
    <3>1. Atomic!GetProviderCase(p, i)
      BY <1>4, <2>2 DEF BeginGetProviderCase, stored, Atomic!GetProviderCase
    <3> QED BY <3>1 DEF Atomic!Next
  <2> QED BY <2>1, <2>2
<1>5. ASSUME NEW w \in Worker, NEW s \in Session, GetConsumerCase(w, s)
      PROVE  UNCHANGED Atomic!vars
  BY <1>5 DEF GetConsumerCase, stored, Atomic!vars
<1>6. CASE Tick
  <2>1. Atomic!Tick
    BY <1>6 DEF Tick, Atomic!Tick, stored
  <2> QED BY <2>1 DEF Atomic!Next
<1>7. CASE UNCHANGED vars
  BY <1>7 DEF vars, stored, Atomic!vars
<1> QED BY <1>1, <1>2, <1>3, <1>4, <1>5, <1>6, <1>7, ReadKeyImplements,
           LockSessionImplements, LockRowImplements, CommitImplements DEF Next, Step

\* Any number of workers over one database behave as one service does that
\* runs one method at a time.
THEOREM TransactionsAreAtomic == Spec => AtomicSpec
<1>1. Init => Atomic!Init
  BY DEF Init
<1>2. IInv /\ [Next]_vars => [Atomic!Next]_(Atomic!vars)
  BY Implements
<1> QED BY <1>1, <1>2, Invariant, PTL DEF Spec, AtomicSpec, Atomic!Spec

-----------------------------------------------------------------------------
(* What follows from the refinement and the proofs about CaseWorkflow.      *)

\* The two instances of the specification are one.
LEMMA SameSteps ==
    /\ Service!Init <=> Atomic!Init
    /\ Service!Next <=> Atomic!Next
    /\ Service!vars = Atomic!vars
<1>1. Service!Init <=> Atomic!Init
  BY DEF Service!Init, Atomic!Init, Service!NoReply, Atomic!NoReply
<1>2. Service!vars = Atomic!vars
  BY DEF Service!vars, Atomic!vars
<1>3. /\ Service!Submission = Atomic!Submission /\ Service!Decision = Atomic!Decision
      /\ Service!Reading = Atomic!Reading
      /\ \A code : Service!Refuse(code) <=> Atomic!Refuse(code)
  BY DEF Service!Submission, Service!Decision, Service!Reading, Service!Refuse,
         Service!Refusal, Atomic!Submission, Atomic!Decision, Atomic!Reading,
         Atomic!Refuse, Atomic!Refusal
<1>4. /\ \A r, at, cs : Service!SubmitRefusal(r, at, cs) = Atomic!SubmitRefusal(r, at, cs)
      /\ \A r, cs : Service!DecideRefusal(r, cs) = Atomic!DecideRefusal(r, cs)
      /\ \A r, at : Service!NewCase(r, at) = Atomic!NewCase(r, at)
  BY DEF Service!SubmitRefusal, Service!DecideRefusal, Service!NewCase,
         Service!HasActive, Service!WasRejected, Service!CasesOf, Service!ActiveStatus,
         Service!Authorized, Atomic!SubmitRefusal, Atomic!DecideRefusal,
         Atomic!NewCase, Atomic!HasActive, Atomic!WasRejected, Atomic!CasesOf,
         Atomic!ActiveStatus, Atomic!Authorized
<1>5. ASSUME NEW k, NEW r
      PROVE  /\ Service!Submit(k, r) <=> Atomic!Submit(k, r)
             /\ Service!Decide(k, r) <=> Atomic!Decide(k, r)
  BY <1>3, <1>4, SameService
     DEF Service!Submit, Service!Decide, Service!KeyReused, Service!SubmitReplayed,
         Service!SubmitRefused, Service!SubmitCreated, Service!DecideReplayed,
         Service!DecideRefused, Service!DecideApplied, Atomic!Submit, Atomic!Decide,
         Atomic!KeyReused, Atomic!SubmitReplayed, Atomic!SubmitRefused,
         Atomic!SubmitCreated, Atomic!DecideReplayed, Atomic!DecideRefused,
         Atomic!DecideApplied
<1>6. \A s : Service!GetConsumerCase(s) <=> Atomic!GetConsumerCase(s)
  BY SameService
     DEF Service!GetConsumerCase, Service!CasesOf, Service!IsLatest, Service!NoReply,
         Atomic!GetConsumerCase, Atomic!CasesOf, Atomic!IsLatest, Atomic!NoReply
<1>7. ASSUME NEW p, NEW i
      PROVE  Service!GetProviderCase(p, i) <=> Atomic!GetProviderCase(p, i)
  <2>1. Service!ProviderDetail(i, cases) = Atomic!ProviderDetail(i, cases)
    BY SameService
  <2> QED BY <2>1 DEF Service!GetProviderCase, Service!Authorized, Service!Refusal,
         Atomic!GetProviderCase, Atomic!Authorized, Atomic!Refusal
<1>8. \A p, f : Service!ListProviderCases(p, f) <=> Atomic!ListProviderCases(p, f)
  BY DEF Service!ListProviderCases, Service!ProviderSummary, Service!Image,
         Atomic!ListProviderCases, Atomic!ProviderSummary, Atomic!Image
<1>9. (Service!Tick <=> Atomic!Tick) /\ Service!Status = Atomic!Status
  BY DEF Service!Tick, Atomic!Tick, Service!Status, Atomic!Status
<1>10. Service!Next <=> Atomic!Next
  BY <1>3, <1>5, <1>6, <1>7, <1>8, <1>9 DEF Service!Next, Atomic!Next
<1> QED BY <1>1, <1>2, <1>10

\* So the workers together behave as the service whose invariants are proved.
LEMMA ServiceBehaviour == Spec => Service!Spec
<1>1. Atomic!Init => Service!Init
  BY SameSteps
<1>2. [Atomic!Next]_(Atomic!vars) => [Service!Next]_(Service!vars)
  BY SameSteps DEF Atomic!vars, Service!vars
<1> QED BY <1>1, <1>2, TransactionsAreAtomic, PTL DEF AtomicSpec, Atomic!Spec, Service!Spec

\* What the atomic service never lets happen, the workers never let happen: two
\* active cases of a session, a provider asked twice, an active case hidden
\* behind a newer one, a history that does not match the status, and a request
\* written twice.
SharedSafety ==
    /\ Atomic!OneActiveCasePerSession /\ Atomic!OneCasePerProvider
    /\ Atomic!ActiveCaseIsLatest /\ Atomic!HistoryMatchesStatus
    /\ Atomic!WrittenOnce

\* The invariants of the case workflow hold of the shared tables, for any number
\* of workers.
THEOREM SharedDatabaseIsSafe == Spec => []SharedSafety
<1>1. Service!CaseInv => SharedSafety
  <2> SUFFICES ASSUME Service!CaseInv PROVE SharedSafety
    OBVIOUS
  <2>1. Atomic!OneActiveCasePerSession /\ Atomic!OneCasePerProvider
    BY DEF Service!CaseInv, Service!OneActiveCasePerSession,
           Service!OneCasePerProvider, Service!ActiveStatus,
           Atomic!OneActiveCasePerSession, Atomic!OneCasePerProvider,
           Atomic!ActiveStatus
  <2>2. Atomic!ActiveCaseIsLatest
    BY DEF Service!CaseInv, Service!ActiveCaseIsLatest, Service!IsLatest,
           Service!CasesOf, Service!ActiveStatus, Atomic!ActiveCaseIsLatest,
           Atomic!IsLatest, Atomic!CasesOf, Atomic!ActiveStatus
  <2>3. Atomic!HistoryMatchesStatus
    BY DEF Service!CaseInv, Service!HistoryMatchesStatus, Service!AuditOf,
           Atomic!HistoryMatchesStatus, Atomic!AuditOf
  <2>4. Atomic!WrittenOnce
    BY DEF Service!CaseInv, Service!WrittenOnce, Service!Created, Service!Closed,
           Service!Submission, Service!Decision, Atomic!WrittenOnce,
           Atomic!Created, Atomic!Closed, Atomic!Submission, Atomic!Decision
  <2> QED BY <2>1, <2>2, <2>3, <2>4 DEF SharedSafety
<1>2. Service!Spec => []Service!CaseInv
  BY ServiceAssumption, Service!CaseInvCorrect
<1> QED BY <1>1, <1>2, ServiceBehaviour, PTL

-----------------------------------------------------------------------------
(* The answers of reads, and the type invariant. *)

\* A view of stored cases is an answer, torn or not, and never shows too much.
SafeView ==
    /\ view \in Atomic!Reply
    /\ TornReadsAreSafe

\* A read that has its row finds the rest.
LEMMA FinishReadView ==
    ASSUME IInv, NEW w \in Worker, FinishRead(w)
    PROVE  SafeView'
<1> DEFINE t == tx[w]
           i == t.case
           c == cases[i]
<1>1. ReadOK(t, cases)
  BY Own, AtRead DEF FinishRead
<1>2. /\ i \in DOMAIN cases /\ t.row \in Atomic!Case /\ t.as \in {"consumer", "provider"}
      /\ t.row.status # "pending_provider" => c.status = t.row.status
      /\ cases \in Table
  BY <1>1 DEF ReadOK, Read, IInv, TablesOK
<1>3. c \in Atomic!Case /\ i \in Nat
  BY <1>2 DEF Table
<1>4. view' = ViewAs(t.as, i, t.row, cases)
  BY DEF FinishRead
<1> DEFINE cv == Atomic!ConsumerView(i, cases)
           pd == Atomic!ProviderDetail(i, cases)
<1>5. cv \in Atomic!Reply /\ pd \in Atomic!Reply
  BY <1>2, SameService, ServiceAssumption, Service!ConsumerViewType,
     Service!ProviderDetailType DEF Table
<1>6. t.row.status \in Atomic!Status /\ t.row.order \in Atomic!Order
  BY <1>2 DEF Atomic!Case
<1>7. CASE t.as = "consumer"
  <2>1. view' = [kind |-> "consumer", case |-> i, provider |-> c.provider,
                 status |-> t.row.status, order |-> t.row.order,
                 rejected |-> Atomic!RejectedBy(c.session, cases)]
    BY <1>4, <1>7 DEF ViewAs, Atomic!ConsumerView
  <2>2. c.provider \in Provider
    BY <1>3 DEF Atomic!Case
  <2>3. Atomic!RejectedBy(c.session, cases) \in SUBSET Provider
    <3>1. \A j \in DOMAIN cases : cases[j] \in Atomic!Case
      BY <1>2 DEF Table
    <3>2. \A j \in DOMAIN cases : cases[j].provider \in Provider
      BY <3>1 DEF Atomic!Case
    <3> QED BY <3>2 DEF Atomic!RejectedBy, Atomic!CasesOf
  <2>4. t.row.status = "rejected" => c.provider \in Atomic!RejectedBy(c.session, cases)
    BY <1>2 DEF Atomic!RejectedBy, Atomic!CasesOf
  <2> HIDE DEF t, i, c
  <2>5. view' \in Atomic!Reply
    BY <1>3, <1>6, <2>1, <2>2, <2>3 DEF Atomic!Reply
  <2>6. TornReadsAreSafe'
    BY <2>1, <2>4 DEF TornReadsAreSafe
  <2> QED BY <2>5, <2>6 DEF SafeView
<1>8. CASE t.as = "provider"
  <2>1. view' = [kind |-> "provider", case |-> i, provider |-> c.provider,
                 status |-> t.row.status, order |-> t.row.order,
                 contact |-> Atomic!Access(t.row), image |-> Atomic!Image(t.row),
                 audit |-> c.audit]
    BY <1>4, <1>8 DEF ViewAs, Atomic!ProviderDetail
  <2>2. c.provider \in Provider /\ c.audit \in Seq(Atomic!Event)
    BY <1>3 DEF Atomic!Case
  <2>3. /\ Atomic!Access(t.row) \in {"full", "masked", "unavailable"}
        /\ Atomic!Image(t.row) \in {"visible", "hidden"}
        /\ Atomic!Access(t.row) = "full" => t.row.status = "accepted"
    BY <1>6 DEF Atomic!Access, Atomic!Image, Atomic!Status
  <2>4. t.row.status = "accepted" =>
           \E n \in DOMAIN c.audit : c.audit[n] = "contact_revealed"
    BY <1>2 DEF IInv, TablesOK, Disclosed
  <2> HIDE DEF t, i, c
  <2>5. view' \in Atomic!Reply
    BY <1>3, <1>6, <2>1, <2>2, <2>3 DEF Atomic!Reply
  <2>6. TornReadsAreSafe'
    BY <2>1, <2>3, <2>4 DEF TornReadsAreSafe
  <2> QED BY <2>5, <2>6 DEF SafeView
<1> QED BY <1>2, <1>7, <1>8

\* The latest case of a session is read under the session's present state.
LEMMA ConsumerCaseView ==
    ASSUME IInv, NEW w \in Worker, NEW s \in Session, GetConsumerCase(w, s)
    PROVE  SafeView'
<1>1. CASE view' = Atomic!NoReply
  BY <1>1 DEF SafeView, TornReadsAreSafe, Atomic!Reply, Atomic!NoReply
<1>2. ASSUME NEW i \in Atomic!CasesOf(s, cases), view' = Atomic!ConsumerView(i, cases)
      PROVE  SafeView'
  <2>1. i \in DOMAIN cases /\ cases \in Table
    BY DEF Atomic!CasesOf, IInv, TablesOK
  <2>2. view' \in Atomic!Reply
    BY <1>2, <2>1, SameService, ServiceAssumption, Service!ConsumerViewType DEF Table
  <2>3. cases[i].status = "rejected" =>
           cases[i].provider \in Atomic!RejectedBy(cases[i].session, cases)
    BY <2>1 DEF Atomic!RejectedBy, Atomic!CasesOf
  <2>4. TornReadsAreSafe'
    BY <1>2, <2>3 DEF TornReadsAreSafe, Atomic!ConsumerView
  <2> QED BY <2>2, <2>4 DEF SafeView
<1> QED BY <1>1, <1>2 DEF GetConsumerCase

\* Nothing else answers a read.
LEMMA ViewStep ==
    ASSUME IInv, SafeView, [Next]_vars
    PROVE  SafeView'
<1>1. CASE UNCHANGED view
  BY <1>1 DEF SafeView, TornReadsAreSafe
<1>2. \/ UNCHANGED view
      \/ \E w \in Worker : FinishRead(w)
      \/ \E w \in Worker, s \in Session : GetConsumerCase(w, s)
  <2>1. \A w \in Worker : Step(w) => UNCHANGED view \/ FinishRead(w)
    BY DEF Step, LockKey, ReadKey, FirstUse, LockSession, LockRow, Save, Commit, Fail
  <2> QED BY <2>1 DEF Next, vars, Begin, Abort, BeginGetProviderCase, Tick
<1> QED BY <1>1, <1>2, FinishReadView, ConsumerCaseView

\* Every answer to a read is well typed and shows no more than the case allows.
THEOREM ViewsAreSafe == Spec => []SafeView
<1>1. Init => SafeView
  BY DEF Init, SafeView, TornReadsAreSafe, Atomic!Reply, Atomic!NoReply
<1> QED BY <1>1, ViewStep, Invariant, PTL DEF Spec

\* An answer put together from two moments never shows a contact without its
\* disclosure on record, nor a rejection by a provider it would ask again.
THEOREM TornReads == Spec => []TornReadsAreSafe
<1>1. SafeView => TornReadsAreSafe
  BY DEF SafeView
<1> QED BY <1>1, ViewsAreSafe, PTL

-----------------------------------------------------------------------------
(* The order of the locks: the key first, then the session or the row.       *)

KeyLocks == {"key"} \X Key

\* A call that waits for its key holds nothing, one that waits for its session
\* or its row holds keys only.
LocksInOrder ==
    \A w \in Worker :
        /\ tx[w].pc \in {"idle", "lock_key"} => held[w] = {}
        /\ tx[w].pc \in {"read_key", "lock_session", "lock_row"} => held[w] \subseteq KeyLocks

\* A step of one worker leaves the others in order.
LEMMA OneInOrder ==
    ASSUME LocksInOrder, NEW w \in Worker,
           \A v \in Worker \ {w} : tx'[v] = tx[v] /\ held'[v] = held[v],
           tx'[w].pc \in {"idle", "lock_key"} => held'[w] = {},
           tx'[w].pc \in {"read_key", "lock_session", "lock_row"} => held'[w] \subseteq KeyLocks
    PROVE  LocksInOrder'
BY DEF LocksInOrder, KeyLocks

LEMMA StepInOrder ==
    ASSUME IInv, LocksInOrder, NEW w \in Worker, Step(w) \/ Abort(w)
    PROVE  LocksInOrder'
<1>1. tx \in [Worker -> Tx] /\ held \in [Worker -> SUBSET Lock]
  BY DEF IInv, WorkersOK
<1>2. CASE LockKey(w)
  <2>1. CallOK(tx[w], held[w], idempotency, now)
    BY <1>2, Own, AtCall DEF LockKey
  <2>2. tx[w].key \in Key /\ [tx[w] EXCEPT !.pc = "read_key"].pc = "read_key"
    BY <2>1 DEF CallOK, Call
  <2>3. tx'[w].pc = "read_key" /\ held'[w] = {<<"key", tx[w].key>>}
    BY <1>1, <1>2, <2>2 DEF LockKey, Take, Goto, LocksInOrder
  <2>4. \A v \in Worker \ {w} : tx'[v] = tx[v] /\ held'[v] = held[v]
    BY <1>1, <1>2 DEF LockKey, Take, Goto
  <2> QED BY <2>2, <2>3, <2>4, OneInOrder DEF KeyLocks
<1>3. CASE End(w)
  BY <1>1, <1>3, OneInOrder DEF End, Idle
<1>4. CASE ReadKey(w) /\ ~End(w)
  <2>1. held[w] \subseteq KeyLocks
    BY <1>4 DEF ReadKey, LocksInOrder
  <2>2. held' = held /\ tx' = [tx EXCEPT ![w] = tx'[w]]
        /\ tx'[w].pc \in {"lock_row", "lock_session", "read_rest"}
    BY <1>1, <1>4 DEF ReadKey, FirstUse, Fail, Goto, Waiting, Reading
  <2> QED BY <1>1, <2>1, <2>2, OneInOrder
<1>5. CASE (LockSession(w) \/ LockRow(w)) /\ ~End(w)
  <2>1. /\ tx'[w].pc = "write"
        /\ \A v \in Worker \ {w} : tx'[v] = tx[v] /\ held'[v] = held[v]
    BY <1>1, <1>5 DEF LockSession, LockRow, Fail, Goto, Take, Write
  <2> QED BY <2>1, OneInOrder
<1>6. CASE Save(w) /\ ~End(w)
  <2>1. WriteOK(tx[w], held[w], cases, idempotency, now)
    BY <1>6, Own, AtWrite DEF Save
  <2>2. [tx[w] EXCEPT !.pc = "commit"].pc = "commit"
    BY <2>1 DEF WriteOK, Writing
  <2>3. /\ tx'[w].pc = "commit"
        /\ \A v \in Worker \ {w} : tx'[v] = tx[v] /\ held'[v] = held[v]
    BY <1>1, <1>6, <2>2 DEF Save, Fail, Goto
  <2> QED BY <2>3, OneInOrder
<1> QED BY <1>2, <1>3, <1>4, <1>5, <1>6 DEF Step, Commit, FinishRead, Abort

LEMMA NextInOrder ==
    ASSUME IInv, LocksInOrder, [Next]_vars
    PROVE  LocksInOrder'
<1>1. tx \in [Worker -> Tx]
  BY DEF IInv, WorkersOK
<1>2. ASSUME NEW w \in Worker, NEW k \in Key, NEW r \in Atomic!Request, Begin(w, k, r)
      PROVE  LocksInOrder'
  <2>1. held' = held /\ held[w] = {} /\ tx' = [tx EXCEPT ![w] = tx'[w]]
    BY <1>1, <1>2 DEF Begin, Goto, Idle, LocksInOrder
  <2> QED BY <1>1, <2>1, OneInOrder
<1>3. ASSUME NEW w \in Worker, NEW p \in Provider, NEW i \in CaseId,
             BeginGetProviderCase(w, p, i)
      PROVE  LocksInOrder'
  <2>1. held' = held /\ held[w] = {} /\ tx' = [tx EXCEPT ![w] = tx'[w]]
    BY <1>1, <1>3 DEF BeginGetProviderCase, Goto, Idle, LocksInOrder
  <2> QED BY <1>1, <2>1, OneInOrder
<1>4. CASE \/ \E w \in Worker, s \in Session : GetConsumerCase(w, s)
           \/ Tick \/ UNCHANGED vars
  BY <1>4 DEF GetConsumerCase, Tick, vars, LocksInOrder
<1> QED BY <1>2, <1>3, <1>4, StepInOrder DEF Next

\* A worker that writes waits for nobody: what would conflict is under its locks.
LEMMA WriterGoesOn ==
    ASSUME IInv, NEW w \in Worker, NEW v \in Worker, tx[w].pc = "write"
    PROVE  ~WaitsFor(w, v)
<1> SUFFICES ASSUME v # w, tx[v].pc = "commit"
             PROVE  /\ tx[v].key # tx[w].key
                    /\ ~(tx[w].case # 0 /\ tx[v].case = tx[w].case)
                    /\ ~(tx[w].case = 0 /\ tx[v].case = 0
                          /\ tx[v].request.session = tx[w].request.session)
  BY DEF WaitsFor
<1>1. /\ WriteOK(tx[w], held[w], cases, idempotency, now)
      /\ WriteOK(tx[v], held[v], cases, idempotency, now)
  BY Own, AtWrite
<1>2. held[w] \cap held[v] = {}
  BY DEF IInv, WorkersOK
<1> QED BY <1>1, <1>2 DEF WriteOK, CreateOK, DecideOK

\* The repository's locks: however many workers submit and decide with whatever
\* keys, no set of them waits in a circle.
THEOREM NoCircularWait == Spec => []NoDeadlock
<1>1. IInv /\ LocksInOrder => NoDeadlock
  <2> SUFFICES ASSUME IInv, LocksInOrder, NEW W \in SUBSET Worker, W # {}
               PROVE  \E w \in W : \A v \in W : ~WaitsFor(w, v)
    BY DEF NoDeadlock
  <2>1. CASE \E w \in W : tx[w].pc = "write"
    BY <2>1, WriterGoesOn
  <2>2. CASE \E w \in W : tx[w].pc \notin {"lock_key", "lock_session", "lock_row", "write"}
    BY <2>2 DEF WaitsFor
  <2>3. CASE \A w \in W : tx[w].pc \in {"lock_key", "lock_session", "lock_row"}
    <3>1. \A v \in W : held[v] \subseteq KeyLocks
      BY <2>3 DEF LocksInOrder
    <3>2. \A v \in W : \A s : <<"session", s>> \notin held[v] /\ <<"row", s>> \notin held[v]
      BY <3>1 DEF KeyLocks
    <3>3. CASE \E w \in W : tx[w].pc # "lock_key"
      BY <2>3, <3>2, <3>3 DEF WaitsFor
    <3>4. CASE \A w \in W : tx[w].pc = "lock_key"
      BY <3>4 DEF WaitsFor, LocksInOrder
    <3> QED BY <3>3, <3>4
  <2> QED BY <2>1, <2>2, <2>3
<1>2. Init => LocksInOrder
  BY DEF Init, LocksInOrder, Idle
<1> QED BY <1>1, <1>2, Invariant, NextInOrder, PTL DEF Spec

-----------------------------------------------------------------------------
\* The number of calls stays within its bound.
CallsOK == calls \in 0..MaxCalls

\* Only a call that begins is counted, and only below the bound.
THEOREM CallsBounded == Spec => []CallsOK
<1>1. Init => CallsOK
  BY PgAssumption DEF Init, CallsOK
<1>2. ASSUME CallsOK, [Next]_vars
      PROVE  CallsOK'
  <2>1. ASSUME NEW w \in Worker, NEW k \in Key, NEW r \in Atomic!Request, Begin(w, k, r)
        PROVE  CallsOK'
    BY <1>2, <2>1, PgAssumption DEF Begin, CallsOK
  <2>2. \A w \in Worker : Step(w) \/ Abort(w) => UNCHANGED calls
    BY DEF Step, LockKey, ReadKey, LockSession, LockRow, Save, Commit, FinishRead, Abort
  <2>3. CASE UNCHANGED calls
    BY <1>2, <2>3 DEF CallsOK
  <2>4. ASSUME NEW w \in Worker, NEW p \in Provider, NEW i \in CaseId,
               BeginGetProviderCase(w, p, i)
        PROVE  UNCHANGED calls
    BY <2>4 DEF BeginGetProviderCase
  <2>5. ASSUME NEW w \in Worker, NEW s \in Session, GetConsumerCase(w, s)
        PROVE  UNCHANGED calls
    BY <2>5 DEF GetConsumerCase
  <2>6. Tick \/ UNCHANGED vars => UNCHANGED calls
    BY DEF Tick, vars
  <2>7. \/ UNCHANGED calls
        \/ \E w \in Worker, k \in Key, r \in Atomic!Request : Begin(w, k, r)
    BY <1>2, <2>2, <2>4, <2>5, <2>6 DEF Next
  <2> QED BY <2>1, <2>3, <2>7
<1> QED BY <1>1, <1>2, PTL DEF Spec

\* Every transaction is at a statement of a method, and an idle worker holds no
\* lock, for any number of workers.
THEOREM PgTypeCorrect == Spec => []TypeOK
<1>1. Service!Spec => []Service!TypeOK
  BY ServiceAssumption, Service!TypeCorrect
<1>2. Service!TypeOK => Atomic!TypeOK
  BY SameService
     DEF Service!TypeOK, Service!Record, Service!Request, Service!Submission,
         Service!Decision, Atomic!TypeOK, Atomic!Record, Atomic!Request,
         Atomic!Submission, Atomic!Decision
<1>3. IInv => /\ tx \in [Worker -> Tx] /\ held \in [Worker -> SUBSET Lock]
              /\ \A w \in Worker : tx[w] = Idle => held[w] = {}
  <2> SUFFICES ASSUME IInv, NEW w \in Worker, tx[w] = Idle
               PROVE  held[w] = {}
    BY DEF IInv, WorkersOK
  <2>1. TxOK(tx[w], held[w], cases, idempotency, now)
    BY Own
  <2> QED BY <2>1, Kinds DEF TxOK, CallOK, WriteOK, ReadOK
<1>4. Atomic!TypeOK /\ IInv /\ SafeView /\ CallsOK => TypeOK
  BY <1>3 DEF TypeOK, Tx, SafeView, CallsOK
<1> QED BY <1>1, <1>2, <1>4, Invariant, ViewsAreSafe, CallsBounded, ServiceBehaviour, PTL
=============================================================================
