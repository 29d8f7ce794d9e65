-------------------------- MODULE SessionPageProofs --------------------------
(***************************************************************************)
(* The type invariant of SessionPage and, for a consumer without images,   *)
(* that the coordinator never takes the page back and that a settled page  *)
(* is current, whatever the items and the bounds.                          *)
(*                                                                         *)
(* The argument: the operations of the page exclude one another, so that   *)
(* while one is in flight only polls and, for the checklist, other items   *)
(* are, and no change reaches the server behind the back of the request    *)
(* begun last.  Only that request may be accepted, and its answer is at    *)
(* least as new as anything the page has shown.                            *)
(***************************************************************************)
EXTENDS SessionPage, SequenceTheorems, FiniteSetTheorems, TLAPS

SessionType == [changes : 0..MaxEdits, status : Status]

\* Requests the server has yet to count as a change.
Unhandled(reqs) ==
    {n \in DOMAIN reqs : /\ reqs[n].answer = None
                         /\ reqs[n].kind \in {"edit", "dispatch", "checklist", "media"}}
Counted(ss, reqs, most) ==
    /\ Cardinality(Unhandled(reqs)) <= most
    /\ \A sid \in DOMAIN ss : ss[sid].changes + Cardinality(Unhandled(reqs)) <= most

\* Every request and answer is about a session there is.
Known(reqs, ss) ==
    \A n \in DOMAIN reqs :
        /\ reqs[n].kind = "create" <=> reqs[n].sid = 0
        /\ reqs[n].sid \in 0..Len(ss)
        /\ reqs[n].answer # None => reqs[n].answer.sid \in DOMAIN ss

\* The operations that block all others, one at a time.
Blocking == {"create", "edit", "dispatch"}
OneBlocking(reqs, b) ==
    /\ \A n \in DOMAIN reqs : reqs[n].kind \in Blocking => b
    /\ \A m, n \in DOMAIN reqs :
            reqs[m].kind \in Blocking /\ reqs[n].kind \in Blocking => m = n
RoomToCreate(reqs, ss) ==
    \A n \in DOMAIN reqs : reqs[n].kind = "create" /\ reqs[n].answer = None
        => Len(ss) < MaxSessions

\* The clauses of TypeOK on what is in flight.
InFlight(reqs, b, mb, boxes, sync) ==
    /\ b => \E n \in DOMAIN reqs : reqs[n].kind \in Blocking
    /\ mb => \E n \in DOMAIN reqs : reqs[n].kind \in {"media", "media_sync"}
    /\ \A i \in boxes : \E n \in DOMAIN reqs :
            reqs[n].kind = "checklist" /\ reqs[n].item = i
    /\ sync => \E n \in DOMAIN reqs : reqs[n].kind = "sync"

TInv ==
    /\ TypeOK
    /\ sessions \in Seq(SessionType) /\ Len(sessions) <= MaxSessions
    /\ edits \in 0..MaxEdits /\ images \in BOOLEAN
    /\ busy \in BOOLEAN /\ syncing \in BOOLEAN
    /\ page # None => page.sid \in DOMAIN sessions
    /\ Counted(sessions, requests, edits)
    /\ Known(requests, sessions)
    /\ OneBlocking(requests, busy)
    /\ RoomToCreate(requests, sessions)

-----------------------------------------------------------------------------
(***************************************************************************)
(* A consumer without images.                                              *)
(***************************************************************************)
\* View w of a session is as new as v.
AsNew(w, v) ==
    /\ w.changes >= v.changes
    /\ w.changes = v.changes => w.status = v.status \/ v.status = "pending_provider"

\* Operations whose controls exclude those of all the others.
Serial == Blocking \cup {"checklist", "sync"}

\* One request was begun last; the latest answer applied is older.
Latest(reqs, age) ==
    /\ \A n \in DOMAIN reqs : reqs[n].kind \notin {"media", "media_sync"}
    /\ \A m, n \in DOMAIN reqs : reqs[m].age = 0 /\ reqs[n].age = 0 => m = n
    /\ \A n \in DOMAIN reqs : reqs[n].age = 0 => age > 0

\* No view is ahead of the server's.
Behind(reqs, ss, pg) ==
    /\ pg # None => AsNew(ss[pg.sid], pg)
    /\ \A n \in DOMAIN reqs : reqs[n].answer # None =>
            AsNew(ss[reqs[n].answer.sid], reqs[n].answer)

\* A new session is one the page has not shown.
Onward(reqs, pg) ==
    \A n \in DOMAIN reqs :
        /\ reqs[n].kind # "create" =>
              /\ pg # None /\ reqs[n].sid <= pg.sid
              /\ reqs[n].answer # None => reqs[n].answer.sid = reqs[n].sid
        /\ reqs[n].kind = "create" /\ reqs[n].answer # None /\ pg # None =>
              pg.sid < reqs[n].answer.sid

\* What may still be accepted is as new as the page.
Fresh(reqs, pg) ==
    \A n \in DOMAIN reqs :
        /\ reqs[n].age = 0 /\ reqs[n].answer # None /\ pg # None
        /\ reqs[n].answer.sid = pg.sid
        => AsNew(reqs[n].answer, pg)

\* The controls: what is in flight shows in the page's flags, belongs to the
\* session shown, and unless it saves the checklist was begun last.
Controls(reqs, pg, boxes, sync) ==
    /\ \A n \in DOMAIN reqs : reqs[n].kind \in Serial \ {"create"} => reqs[n].sid = pg.sid
    /\ \A n \in DOMAIN reqs : reqs[n].kind \in Serial \ {"checklist"} =>
            reqs[n].age = 0 /\ ~reqs[n].replaced
    /\ \A n \in DOMAIN reqs : reqs[n].kind = "checklist" =>
            reqs[n].item \in boxes /\ reqs[n].item # None
    /\ \A n \in DOMAIN reqs : reqs[n].kind # "checklist" => reqs[n].item = None
    /\ \A m, n \in DOMAIN reqs : reqs[m].kind = "checklist" /\ reqs[n].kind = "checklist"
            /\ reqs[m].item = reqs[n].item => m = n
    /\ \A n \in DOMAIN reqs : reqs[n].kind = "sync" => sync

\* Beside the request begun last only polls are in flight, unless both save the
\* checklist; and its answer has all the changes there are.
Alone(reqs) ==
    \A m, n \in DOMAIN reqs :
        reqs[n].age = 0 /\ reqs[n].kind # "checklist" /\ reqs[m].kind \in Serial => m = n
Current(reqs, ss) ==
    \A n \in DOMAIN reqs :
        reqs[n].age = 0 /\ reqs[n].kind # "checklist" /\ reqs[n].answer # None =>
            reqs[n].answer.changes = ss[reqs[n].answer.sid].changes

\* A page that lags has an operation in flight or has shown a failure.
Explained(reqs, ss, pg, al) ==
    pg # None =>
        \/ pg.changes = ss[pg.sid].changes
        \/ al
        \/ \E n \in DOMAIN reqs : reqs[n].kind \in Serial

Parts(reqs, age, ss, pg, boxes, sync) ==
    /\ Latest(reqs, age)
    /\ Behind(reqs, ss, pg)
    /\ Onward(reqs, pg)
    /\ Fresh(reqs, pg)
    /\ Controls(reqs, pg, boxes, sync)
    /\ Alone(reqs)
    /\ Current(reqs, ss)
PInv ==
    /\ Parts(requests, appliedAge, sessions, page, checklistBusy, syncing)
    /\ Explained(requests, sessions, page, alerted)
IInv == TInv /\ (~images => PInv)

-----------------------------------------------------------------------------
(***************************************************************************)
(* The requests: one begun, several made obsolete, one settled.            *)
(***************************************************************************)
Kinds == {"create", "edit", "dispatch", "checklist", "media"} \cup Sync

LEMMA ReqFields ==
  ASSUME NEW q \in RequestType
  PROVE  /\ q.kind \in Kinds /\ q.item \in Item \cup {None} /\ q.sid \in 0..MaxSessions
         /\ q.age \in 0..MaxAge /\ q.replaced \in BOOLEAN
         /\ q.answer \in ViewType \cup {None}
  BY DEF RequestType, Kinds

LEMMA OlderAge ==
  ASSUME NEW age \in 0..MaxAge
  PROVE  Older(age) \in 0..MaxAge /\ Older(age) > 0
  BY SessionPageAssumption DEF Older

\* New is reqs with one more request at the end and every other one older.
Extends(new, reqs, kind, item, sid) ==
    /\ new \in Seq(RequestType)
    /\ DOMAIN reqs = 1..Len(reqs) /\ Len(reqs) \in Nat
    /\ DOMAIN new = 1..(Len(reqs) + 1) /\ Len(new) = Len(reqs) + 1
    /\ \A k \in DOMAIN reqs :
          /\ new[k].kind = reqs[k].kind /\ new[k].item = reqs[k].item
          /\ new[k].sid = reqs[k].sid /\ new[k].answer = reqs[k].answer
          /\ new[k].replaced = reqs[k].replaced
          /\ new[k].age = Older(reqs[k].age) /\ new[k].age > 0
    /\ LET q == new[Len(reqs) + 1] IN
          /\ q.kind = kind /\ q.item = item /\ q.sid = sid
          /\ q.age = 0 /\ q.replaced = FALSE /\ q.answer = None

\* The same, whatever the ages.
Longer(new, reqs, kind, item, sid) ==
    /\ new \in Seq(RequestType)
    /\ DOMAIN reqs = 1..Len(reqs) /\ Len(reqs) \in Nat
    /\ DOMAIN new = 1..(Len(reqs) + 1) /\ Len(new) = Len(reqs) + 1
    /\ \A k \in DOMAIN reqs :
          /\ new[k].kind = reqs[k].kind /\ new[k].item = reqs[k].item
          /\ new[k].sid = reqs[k].sid /\ new[k].answer = reqs[k].answer
    /\ LET q == new[Len(reqs) + 1] IN
          q.kind = kind /\ q.item = item /\ q.sid = sid /\ q.answer = None

LEMMA ExtendsLonger ==
  ASSUME NEW new, NEW reqs, NEW kind, NEW item, NEW sid,
         Extends(new, reqs, kind, item, sid)
  PROVE  Longer(new, reqs, kind, item, sid)
  BY DEF Extends, Longer

LEMMA SentExtends ==
  ASSUME NEW reqs \in Seq(RequestType), NEW kind \in Kinds,
         NEW item \in Item \cup {None}, NEW sid \in 0..MaxSessions
  PROVE  Extends(Sent(kind, item, sid, reqs), reqs, kind, item, sid)
<1> DEFINE aged == [n \in DOMAIN reqs |-> [reqs[n] EXCEPT !.age = Older(@)]]
           last == [kind |-> kind, item |-> item, sid |-> sid, age |-> 0,
                    replaced |-> FALSE, answer |-> None]
<1>1. /\ DOMAIN reqs = 1..Len(reqs) /\ Len(reqs) \in Nat
      /\ \A n \in DOMAIN reqs : reqs[n] \in RequestType
  OBVIOUS
<1>2. last \in RequestType
  BY SessionPageAssumption DEF RequestType, Kinds
<1>3. ASSUME NEW n \in DOMAIN reqs
      PROVE  /\ aged[n] = [reqs[n] EXCEPT !.age = Older(reqs[n].age)]
             /\ aged[n] \in RequestType
             /\ Older(reqs[n].age) > 0
  <2>1. reqs[n] \in RequestType
    BY <1>1
  <2>2. Older(reqs[n].age) \in 0..MaxAge /\ Older(reqs[n].age) > 0
    BY <2>1, ReqFields, OlderAge
  <2> QED BY <2>1, <2>2 DEF RequestType
<1>4. aged \in Seq(RequestType) /\ Len(aged) = Len(reqs) /\ DOMAIN aged = 1..Len(reqs)
  BY <1>1, <1>3
<1> HIDE DEF aged
<1>5. Sent(kind, item, sid, reqs) = Append(aged, last)
  BY DEF Sent, aged
<1> HIDE DEF last
<1>6. /\ Append(aged, last) \in Seq(RequestType)
      /\ Len(Append(aged, last)) = Len(reqs) + 1
      /\ DOMAIN Append(aged, last) = 1..(Len(reqs) + 1)
      /\ \A k \in 1..Len(reqs) : Append(aged, last)[k] = aged[k]
      /\ Append(aged, last)[Len(reqs) + 1] = last
  BY <1>1, <1>2, <1>4
<1>7. ASSUME NEW k \in DOMAIN reqs
      PROVE  /\ aged[k].kind = reqs[k].kind /\ aged[k].item = reqs[k].item
             /\ aged[k].sid = reqs[k].sid /\ aged[k].answer = reqs[k].answer
             /\ aged[k].replaced = reqs[k].replaced
             /\ aged[k].age = Older(reqs[k].age) /\ aged[k].age > 0
  <2>1. reqs[k] \in RequestType
    BY <1>1
  <2> QED BY <2>1, <1>3 DEF RequestType
<1>8. /\ last.kind = kind /\ last.item = item /\ last.sid = sid
      /\ last.age = 0 /\ last.replaced = FALSE /\ last.answer = None
  BY DEF last
<1> QED BY <1>1, <1>5, <1>6, <1>7, <1>8 DEF Extends

\* Old are the requests of an older generation.
Outdated(old, reqs) ==
    /\ old \in Seq(RequestType) /\ Len(old) = Len(reqs) /\ DOMAIN old = DOMAIN reqs
    /\ \A k \in DOMAIN reqs :
          /\ old[k].kind = reqs[k].kind /\ old[k].item = reqs[k].item
          /\ old[k].sid = reqs[k].sid /\ old[k].answer = reqs[k].answer
          /\ old[k].age = reqs[k].age
Replaced(reqs) == [n \in DOMAIN reqs |-> [reqs[n] EXCEPT !.replaced = TRUE]]

LEMMA ReplacedOutdated ==
  ASSUME NEW reqs \in Seq(RequestType)
  PROVE  Outdated(Replaced(reqs), reqs)
<1>1. /\ DOMAIN reqs = 1..Len(reqs) /\ Len(reqs) \in Nat
      /\ \A n \in DOMAIN reqs : reqs[n] \in RequestType
  OBVIOUS
<1>2. ASSUME NEW n \in DOMAIN reqs
      PROVE  /\ Replaced(reqs)[n] = [reqs[n] EXCEPT !.replaced = TRUE]
             /\ Replaced(reqs)[n] \in RequestType
  <2>1. reqs[n] \in RequestType
    BY <1>1
  <2> QED BY <2>1 DEF RequestType, Replaced
<1>3. /\ Replaced(reqs) \in Seq(RequestType) /\ Len(Replaced(reqs)) = Len(reqs)
      /\ DOMAIN Replaced(reqs) = DOMAIN reqs
  BY <1>1, <1>2 DEF Replaced
<1>4. ASSUME NEW k \in DOMAIN reqs
      PROVE  LET r == Replaced(reqs)[k] IN
             /\ r.kind = reqs[k].kind /\ r.item = reqs[k].item
             /\ r.sid = reqs[k].sid /\ r.answer = reqs[k].answer
             /\ r.age = reqs[k].age
  <2>1. reqs[k] \in RequestType
    BY <1>1
  <2> QED BY <2>1, <1>2 DEF RequestType
<1> QED BY <1>3, <1>4 DEF Outdated

\* Rest is reqs without its n-th request; its k-th was the At(n, k)-th.
At(n, k) == IF k < n THEN k ELSE k + 1
Without(rest, reqs, n) ==
    /\ rest \in Seq(RequestType)
    /\ \A k \in DOMAIN rest :
          /\ At(n, k) \in DOMAIN reqs \ {n}
          /\ rest[k] = reqs[At(n, k)]
    /\ \A j, k \in DOMAIN rest : At(n, j) = At(n, k) => j = k
    /\ \A m \in DOMAIN reqs \ {n} : \E k \in DOMAIN rest : rest[k] = reqs[m]

LEMMA RemovedWithout ==
  ASSUME NEW reqs \in Seq(RequestType), NEW n \in DOMAIN reqs
  PROVE  Without(RemoveAt(reqs, n), reqs, n)
<1> DEFINE rest == RemoveAt(reqs, n)
           front == SubSeq(reqs, 1, n - 1)
           back == SubSeq(reqs, n + 1, Len(reqs))
<1>1. DOMAIN reqs = 1..Len(reqs) /\ Len(reqs) \in Nat /\ n \in 1..Len(reqs)
  OBVIOUS
<1>2. /\ front \in Seq(RequestType) /\ Len(front) = n - 1
      /\ \A k \in 1..(n - 1) : front[k] = reqs[k]
  BY <1>1, SubSeqProperties
<1>3. /\ back \in Seq(RequestType) /\ Len(back) = Len(reqs) - n
      /\ \A k \in 1..(Len(reqs) - n) : back[k] = reqs[n + k]
  BY <1>1, SubSeqProperties
<1> HIDE DEF front, back
<1>4. /\ rest \in Seq(RequestType) /\ Len(rest) = Len(reqs) - 1
      /\ DOMAIN rest = 1..(Len(reqs) - 1)
      /\ \A k \in 1..(Len(reqs) - 1) :
            rest[k] = IF k <= n - 1 THEN front[k] ELSE back[k - (n - 1)]
  <2>1. rest = front \o back
    BY DEF RemoveAt, front, back
  <2> HIDE DEF rest
  <2>2. /\ rest \in Seq(RequestType) /\ Len(rest) = Len(front) + Len(back)
        /\ \A k \in 1..(Len(front) + Len(back)) :
              rest[k] = IF k <= Len(front) THEN front[k] ELSE back[k - Len(front)]
    <3>1. front \in Seq(RequestType) /\ back \in Seq(RequestType)
      BY <1>2, <1>3
    <3> QED BY ONLY <3>1, <2>1, ConcatProperties, Zenon
  <2>3. Len(front) + Len(back) = Len(reqs) - 1
    BY <1>1, <1>2, <1>3
  <2> QED BY <1>2, <2>2, <2>3
<1> HIDE DEF rest
<1>5. ASSUME NEW k \in DOMAIN rest
      PROVE  At(n, k) \in DOMAIN reqs \ {n} /\ rest[k] = reqs[At(n, k)]
  <2>1. k \in 1..(Len(reqs) - 1)
    BY <1>4
  <2>2. CASE k < n
    BY <1>1, <1>2, <1>4, <2>1, <2>2 DEF At
  <2>3. CASE ~(k < n)
    <3>1. k - (n - 1) \in 1..(Len(reqs) - n) /\ n + (k - (n - 1)) = k + 1
      BY <1>1, <2>1, <2>3
    <3>2. rest[k] = back[k - (n - 1)]
      BY <1>1, <1>4, <2>1, <2>3
    <3> QED BY <1>1, <1>3, <2>1, <2>3, <3>1, <3>2 DEF At
  <2> QED BY <2>2, <2>3
<1>6. \A j, k \in DOMAIN rest : At(n, j) = At(n, k) => j = k
  BY <1>1, <1>4 DEF At
<1>7. ASSUME NEW m \in DOMAIN reqs \ {n}
      PROVE  \E k \in DOMAIN rest : rest[k] = reqs[m]
  <2> DEFINE k == IF m < n THEN m ELSE m - 1
  <2>1. k \in DOMAIN rest /\ At(n, k) = m
    BY <1>1, <1>4 DEF At
  <2> QED BY <2>1, <1>5
<1> QED BY <1>4, <1>5, <1>6, <1>7 DEF Without, rest

-----------------------------------------------------------------------------
(***************************************************************************)
(* Counting the changes that the server has yet to make.                   *)
(***************************************************************************)
LEMMA UnhandledFinite ==
  ASSUME NEW reqs \in Seq(RequestType)
  PROVE  IsFiniteSet(Unhandled(reqs)) /\ Cardinality(Unhandled(reqs)) \in Nat
<1>1. IsFiniteSet(1..Len(reqs))
  BY FS_Interval
<1>2. Unhandled(reqs) \subseteq 1..Len(reqs)
  BY DEF Unhandled
<1> QED BY <1>1, <1>2, FS_Subset, FS_CardinalityType

LEMMA UnhandledLonger ==
  ASSUME NEW reqs \in Seq(RequestType), NEW new, NEW kind, NEW item, NEW sid,
         Longer(new, reqs, kind, item, sid)
  PROVE  /\ Cardinality(Unhandled(new)) <= Cardinality(Unhandled(reqs)) + 1
         /\ kind \in {"create", "poll", "sync"} =>
               Cardinality(Unhandled(new)) <= Cardinality(Unhandled(reqs))
<1> DEFINE U == Unhandled(reqs)
           last == Len(reqs) + 1
<1>1. IsFiniteSet(U) /\ Cardinality(U) \in Nat
  BY UnhandledFinite
<1>2. IsFiniteSet(U \cup {last}) /\ Cardinality(U \cup {last}) <= Cardinality(U) + 1
  <2> HIDE DEF U, last
  <2>1. /\ IsFiniteSet(U \cup {last})
        /\ Cardinality(U \cup {last}) =
              IF last \in U THEN Cardinality(U) ELSE Cardinality(U) + 1
    BY <1>1, FS_AddElement
  <2> QED BY <1>1, <2>1
<1>3. Unhandled(new) \subseteq U \cup {last}
  BY DEF Longer, Unhandled
<1>4. kind \in {"create", "poll", "sync"} => Unhandled(new) \subseteq U
  BY DEF Longer, Unhandled
<1>5. new \in Seq(RequestType)
  BY DEF Longer
<1>6. Cardinality(Unhandled(new)) \in Nat /\ Cardinality(U \cup {last}) \in Nat
  BY <1>2, <1>5, UnhandledFinite, FS_CardinalityType
<1> HIDE DEF U, last
<1>7. Cardinality(Unhandled(new)) <= Cardinality(U \cup {last})
  BY <1>2, <1>3, FS_Subset
<1>8. kind \in {"create", "poll", "sync"} => Cardinality(Unhandled(new)) <= Cardinality(U)
  BY <1>1, <1>4, FS_Subset
<1>9. Cardinality(Unhandled(new)) <= Cardinality(U) + 1
  BY <1>1, <1>2, <1>6, <1>7
<1> QED BY <1>8, <1>9 DEF U

LEMMA UnhandledWithout ==
  ASSUME NEW reqs \in Seq(RequestType), NEW n \in DOMAIN reqs, NEW rest,
         Without(rest, reqs, n)
  PROVE  Cardinality(Unhandled(rest)) <= Cardinality(Unhandled(reqs))
<1> DEFINE S == Unhandled(rest)
           T == Unhandled(reqs)
           f == [k \in S |-> At(n, k)]
<1>1. IsFiniteSet(T)
  BY UnhandledFinite
<1>2. \A k \in S : k \in DOMAIN rest /\ At(n, k) \in T
  BY DEF Without, Unhandled
<1>3. \A j, k \in S : At(n, j) = At(n, k) => j = k
  BY <1>2 DEF Without
<1> HIDE DEF S, T
<1>4. f \in Injection(S, T)
  BY <1>2, <1>3 DEF Injection, IsInjective
<1> HIDE DEF f
<1>5. Cardinality(S) <= Cardinality(T)
  BY <1>1, <1>4, FS_Injection
<1> QED BY <1>5 DEF S, T

LEMMA UnhandledHandled ==
  ASSUME NEW reqs \in Seq(RequestType), NEW n \in DOMAIN reqs, NEW new,
         DOMAIN new = DOMAIN reqs,
         \A m \in DOMAIN reqs \ {n} : new[m] = reqs[m],
         new[n].answer # None
  PROVE  /\ Cardinality(Unhandled(new)) <= Cardinality(Unhandled(reqs))
         /\ n \in Unhandled(reqs) =>
               Cardinality(Unhandled(new)) + 1 <= Cardinality(Unhandled(reqs))
<1> DEFINE U == Unhandled(reqs)
<1>1. IsFiniteSet(U) /\ Cardinality(U) \in Nat
  BY UnhandledFinite
<1>2. Unhandled(new) = U \ {n}
  BY DEF Unhandled
<1> HIDE DEF U
<1>3. Cardinality(U \ {n}) = IF n \in U THEN Cardinality(U) - 1 ELSE Cardinality(U)
  BY <1>1, FS_RemoveElement
<1> QED BY <1>1, <1>2, <1>3 DEF U

-----------------------------------------------------------------------------
(***************************************************************************)
(* The parts of TInv about the requests, and the parts about the rest.     *)
(***************************************************************************)
Flight(reqs, ss, e, b, mb, boxes, sync) ==
    /\ reqs \in Seq(RequestType)
    /\ InFlight(reqs, b, mb, boxes, sync)
    /\ Counted(ss, reqs, e)
    /\ Known(reqs, ss)
    /\ OneBlocking(reqs, b)
    /\ RoomToCreate(reqs, ss)
Held ==
    /\ page \in ViewType \cup {None} /\ checklistBusy \subseteq Item
    /\ appliedAge \in 0..MaxAge
    /\ sessions \in Seq(SessionType) /\ Len(sessions) <= MaxSessions
    /\ edits \in 0..MaxEdits /\ images \in BOOLEAN
    /\ busy \in BOOLEAN /\ syncing \in BOOLEAN
    /\ page # None => page.sid \in DOMAIN sessions

LEMMA TInvParts ==
  TInv <=> /\ Held
           /\ Flight(requests, sessions, edits, busy, mediaBusy, checklistBusy, syncing)
  BY Zenon DEF TInv, TypeOK, Held, Flight, InFlight, Blocking

LEMMA TInvPartsNext ==
  TInv' <=> /\ Held'
            /\ Flight(requests', sessions', edits', busy', mediaBusy', checklistBusy',
                      syncing')
  BY Zenon DEF TInv, TypeOK, Held, Flight, InFlight, Blocking

LEMMA SessionFields ==
  ASSUME NEW ss \in Seq(SessionType), NEW s \in DOMAIN ss
  PROVE  /\ ss[s] \in SessionType
         /\ ss[s].changes \in 0..MaxEdits /\ ss[s].changes \in Nat
         /\ ss[s].status \in Status
<1>1. ss[s] \in SessionType
  OBVIOUS
<1> QED BY <1>1, SessionPageAssumption DEF SessionType

\* A request that the page may begin, and what beginning it does to the flags.
MayBegin(kind, item, sid, ss) ==
    /\ sid \in 0..Len(ss)
    /\ kind = "create" <=> sid = 0
    /\ kind = "create" => Len(ss) < MaxSessions
Starts(kind, item, e, b, boxes, sync, e2, b2, boxes2, sync2) ==
    /\ e2 = IF kind \in {"create", "poll", "sync"} THEN e ELSE e + 1
    /\ kind \in Blocking => ~b /\ b2
    /\ kind \notin Blocking => (b2 <=> b)
    /\ \A i \in boxes2 : i \in boxes \/ (kind = "checklist" /\ i = item)
    /\ sync2 => sync \/ kind = "sync"

LEMMA BeginFlight ==
  ASSUME NEW reqs, NEW ss \in Seq(SessionType), NEW e \in Nat, NEW b \in BOOLEAN,
         NEW mb, NEW boxes, NEW sync,
         Flight(reqs, ss, e, b, mb, boxes, sync),
         NEW new, NEW kind, NEW item, NEW sid, Longer(new, reqs, kind, item, sid),
         NEW e2 \in Nat, NEW b2 \in BOOLEAN, NEW boxes2, NEW sync2,
         MayBegin(kind, item, sid, ss),
         Starts(kind, item, e, b, boxes, sync, e2, b2, boxes2, sync2)
  PROVE  Flight(new, ss, e2, b2, mb, boxes2, sync2)
<1> DEFINE last == Len(reqs) + 1
<1>1. /\ reqs \in Seq(RequestType) /\ InFlight(reqs, b, mb, boxes, sync)
      /\ Counted(ss, reqs, e) /\ Known(reqs, ss) /\ OneBlocking(reqs, b)
      /\ RoomToCreate(reqs, ss)
  BY Zenon DEF Flight
<1>0. /\ sid \in 0..Len(ss)
      /\ kind = "create" <=> sid = 0
      /\ kind = "create" => Len(ss) < MaxSessions
      /\ e2 = IF kind \in {"create", "poll", "sync"} THEN e ELSE e + 1
      /\ kind \in Blocking => ~b /\ b2
      /\ kind \notin Blocking => (b2 <=> b)
      /\ \A i \in boxes2 : i \in boxes \/ (kind = "checklist" /\ i = item)
      /\ sync2 => sync \/ kind = "sync"
  BY Zenon DEF MayBegin, Starts
<1>2. /\ DOMAIN new = DOMAIN reqs \cup {last} /\ last \notin DOMAIN reqs
      /\ new \in Seq(RequestType)
      /\ \A k \in DOMAIN reqs :
            /\ new[k].kind = reqs[k].kind /\ new[k].item = reqs[k].item
            /\ new[k].sid = reqs[k].sid /\ new[k].answer = reqs[k].answer
      /\ new[last].kind = kind /\ new[last].item = item /\ new[last].sid = sid
      /\ new[last].answer = None
  BY DEF Longer
<1>3. InFlight(new, b2, mb, boxes2, sync2)
  <2> HIDE DEF last
  <2>1. b2 => \E n \in DOMAIN new : new[n].kind \in Blocking
    BY <1>0, <1>1, <1>2 DEF InFlight
  <2>2. mb => \E n \in DOMAIN new : new[n].kind \in {"media", "media_sync"}
    BY <1>0, <1>1, <1>2 DEF InFlight
  <2>3. ASSUME NEW i \in boxes2
        PROVE  \E n \in DOMAIN new : new[n].kind = "checklist" /\ new[n].item = i
    BY <1>0, <1>1, <1>2 DEF InFlight
  <2>4. sync2 => \E n \in DOMAIN new : new[n].kind = "sync"
    BY <1>0, <1>1, <1>2 DEF InFlight
  <2> QED BY <2>1, <2>2, <2>3, <2>4 DEF InFlight
<1>4. Counted(ss, new, e2)
  <2>1. /\ Cardinality(Unhandled(new)) <= Cardinality(Unhandled(reqs)) + 1
        /\ kind \in {"create", "poll", "sync"} =>
              Cardinality(Unhandled(new)) <= Cardinality(Unhandled(reqs))
    BY <1>1, UnhandledLonger
  <2>2. Cardinality(Unhandled(new)) \in Nat /\ Cardinality(Unhandled(reqs)) \in Nat
    BY <1>1, <1>2, UnhandledFinite
  <2>3. \A s \in DOMAIN ss : ss[s].changes \in Nat
    BY SessionFields
  <2> QED BY <1>0, <1>1, <2>1, <2>2, <2>3 DEF Counted
<1>5. Known(new, ss)
  <2> HIDE DEF last
  <2> QED BY <1>0, <1>1, <1>2 DEF Known
<1>6. OneBlocking(new, b2)
  <2> HIDE DEF last
  <2> QED BY <1>0, <1>1, <1>2 DEF OneBlocking
<1>7. RoomToCreate(new, ss)
  <2> HIDE DEF last
  <2> QED BY <1>0, <1>1, <1>2 DEF RoomToCreate
<1> QED BY <1>2, <1>3, <1>4, <1>5, <1>6, <1>7 DEF Flight

LEMMA SettleFlight ==
  ASSUME NEW reqs \in Seq(RequestType), NEW ss \in Seq(SessionType), NEW e \in Nat,
         NEW b \in BOOLEAN, NEW mb, NEW boxes, NEW sync,
         Flight(reqs, ss, e, b, mb, boxes, sync),
         NEW n \in DOMAIN reqs, NEW rest, Without(rest, reqs, n),
         NEW b2, b2 <=> b /\ reqs[n].kind \notin Blocking,
         NEW mb2, mb2 <=> mb /\ reqs[n].kind \notin {"media", "media_sync"},
         NEW sync2, sync2 <=> sync /\ reqs[n].kind # "sync"
  PROVE  Flight(rest, ss, e, b2, mb2, boxes \ {reqs[n].item}, sync2)
<1> DEFINE q == reqs[n]
<1>1. /\ InFlight(reqs, b, mb, boxes, sync)
      /\ Counted(ss, reqs, e) /\ Known(reqs, ss) /\ OneBlocking(reqs, b)
      /\ RoomToCreate(reqs, ss)
  BY Zenon DEF Flight
<1>2. /\ rest \in Seq(RequestType)
      /\ \A k \in DOMAIN rest :
            At(n, k) \in DOMAIN reqs \ {n} /\ rest[k] = reqs[At(n, k)]
      /\ \A j, k \in DOMAIN rest : At(n, j) = At(n, k) => j = k
      /\ \A m \in DOMAIN reqs \ {n} : \E k \in DOMAIN rest : rest[k] = reqs[m]
  BY Zenon DEF Without
<1>3. InFlight(rest, b2, mb2, boxes \ {q.item}, sync2)
  <2>1. b2 => \E k \in DOMAIN rest : rest[k].kind \in Blocking
    BY <1>1, <1>2 DEF InFlight
  <2>2. mb2 => \E k \in DOMAIN rest : rest[k].kind \in {"media", "media_sync"}
    BY <1>1, <1>2 DEF InFlight
  <2>3. ASSUME NEW i \in boxes \ {q.item}
        PROVE  \E k \in DOMAIN rest : rest[k].kind = "checklist" /\ rest[k].item = i
    <3>1. PICK m \in DOMAIN reqs : reqs[m].kind = "checklist" /\ reqs[m].item = i
      BY <1>1, <2>3 DEF InFlight
    <3>2. m # n
      BY <2>3, <3>1
    <3>3. PICK k \in DOMAIN rest : rest[k] = reqs[m]
      BY <1>2, <3>2
    <3> QED BY <3>1, <3>3
  <2>4. sync2 => \E k \in DOMAIN rest : rest[k].kind = "sync"
    BY <1>1, <1>2 DEF InFlight
  <2> QED BY <2>1, <2>2, <2>3, <2>4 DEF InFlight
<1>4. Counted(ss, rest, e)
  <2>1. Cardinality(Unhandled(rest)) <= Cardinality(Unhandled(reqs))
    BY UnhandledWithout
  <2>2. Cardinality(Unhandled(rest)) \in Nat /\ Cardinality(Unhandled(reqs)) \in Nat
    BY <1>2, UnhandledFinite
  <2>3. \A s \in DOMAIN ss : ss[s].changes \in Nat
    BY SessionFields
  <2> QED BY <1>1, <2>1, <2>2, <2>3 DEF Counted
<1>5. Known(rest, ss)
  <2>1. ASSUME NEW k \in DOMAIN rest
        PROVE  \E m \in DOMAIN reqs : rest[k] = reqs[m]
    BY <1>2
  <2> HIDE DEF q
  <2> QED BY <1>1, <2>1 DEF Known
<1>6. OneBlocking(rest, b2)
  <2>1. \A k \in DOMAIN rest : rest[k].kind \in Blocking => b2
    BY <1>1, <1>2 DEF OneBlocking
  <2>2. \A j, k \in DOMAIN rest :
            rest[j].kind \in Blocking /\ rest[k].kind \in Blocking => j = k
    BY <1>1, <1>2 DEF OneBlocking
  <2> QED BY <2>1, <2>2 DEF OneBlocking
<1>7. RoomToCreate(rest, ss)
  BY <1>1, <1>2 DEF RoomToCreate
<1> QED BY <1>2, <1>3, <1>4, <1>5, <1>6, <1>7 DEF Flight

-----------------------------------------------------------------------------
(***************************************************************************)
(* What the server does to its sessions.                                   *)
(***************************************************************************)
Changing == {"edit", "dispatch", "checklist", "media"}

\* The server turns ss into ss2 for q and answers with its view of session sid.
Served(q, sid, ss, ss2) ==
    /\ ss2 \in Seq(SessionType)
    /\ IF q.kind = "create"
       THEN /\ sid = Len(ss) + 1 /\ Len(ss2) = Len(ss) + 1
            /\ ss2[sid].changes = 0
       ELSE sid = q.sid /\ Len(ss2) = Len(ss)
    /\ \A s \in DOMAIN ss :
          /\ AsNew(ss2[s], ss[s])
          /\ \/ ss2[s].changes = ss[s].changes
             \/ q.kind \in Changing /\ ss2[s].changes = ss[s].changes + 1

Answers(new, reqs, n, v) ==
    /\ new \in Seq(RequestType) /\ DOMAIN new = DOMAIN reqs
    /\ \A k \in DOMAIN reqs \ {n} : new[k] = reqs[k]
    /\ new[n].kind = reqs[n].kind /\ new[n].item = reqs[n].item
    /\ new[n].sid = reqs[n].sid /\ new[n].age = reqs[n].age
    /\ new[n].replaced = reqs[n].replaced
    /\ new[n].answer = v

LEMMA AnswerAnswers ==
  ASSUME NEW reqs \in Seq(RequestType), NEW n \in DOMAIN reqs, NEW v \in ViewType
  PROVE  Answers([reqs EXCEPT ![n].answer = v], reqs, n, v)
<1> DEFINE new == [reqs EXCEPT ![n].answer = v]
<1>1. \A k \in DOMAIN reqs : reqs[k] \in RequestType
  OBVIOUS
<1>2. new[n] = [reqs[n] EXCEPT !.answer = v] /\ new[n] \in RequestType
  <2>1. reqs[n] \in RequestType
    BY <1>1
  <2> QED BY <2>1 DEF RequestType
<1>3. \A k \in DOMAIN reqs \ {n} : new[k] = reqs[k]
  OBVIOUS
<1>4. DOMAIN new = DOMAIN reqs /\ Len(new) = Len(reqs)
  OBVIOUS
<1>5. new \in Seq(RequestType)
  BY <1>1, <1>2
<1>6. /\ new[n].kind = reqs[n].kind /\ new[n].item = reqs[n].item
      /\ new[n].sid = reqs[n].sid /\ new[n].age = reqs[n].age
      /\ new[n].replaced = reqs[n].replaced /\ new[n].answer = v
  <2>1. reqs[n] \in RequestType
    BY <1>1
  <2> QED BY <2>1, <1>2 DEF RequestType
<1> QED BY <1>3, <1>4, <1>5, <1>6 DEF Answers

LEMMA ViewFields ==
  ASSUME NEW ss \in Seq(SessionType), NEW sid \in DOMAIN ss, Len(ss) <= MaxSessions
  PROVE  /\ View(sid, ss) \in ViewType /\ View(sid, ss) # None
         /\ View(sid, ss).sid = sid
         /\ View(sid, ss).changes = ss[sid].changes
         /\ View(sid, ss).status = ss[sid].status
<1>1. ss[sid].changes \in 0..MaxEdits /\ ss[sid].status \in Status
  BY SessionFields
<1>2. sid \in 1..MaxSessions /\ sid \in Nat
  BY SessionPageAssumption
<1>3. View(sid, ss) \in ViewType
  BY <1>1, <1>2 DEF View, ViewType
<1>4. View(sid, ss) \in [sid : Nat, changes : Nat, status : Status]
  <2>1. ss[sid].changes \in Nat
    BY <1>1, SessionPageAssumption
  <2> QED BY <1>1, <1>2, <2>1 DEF View
<1>5. View(sid, ss) # None
  BY <1>4, SessionPageAssumption
<1> QED BY <1>3, <1>5 DEF View

\* One more change of a session, and perhaps another status.
LEMMA ChangeServes ==
  ASSUME NEW ss \in Seq(SessionType), NEW q, q.kind \in Changing,
         NEW sid \in DOMAIN ss, sid = q.sid, ss[sid].changes + 1 <= MaxEdits,
         NEW st \in Status
  PROVE  /\ Served(q, sid, ss, [ss EXCEPT ![sid].changes = @ + 1])
         /\ Served(q, sid, ss, [[ss EXCEPT ![sid].changes = @ + 1]
                                  EXCEPT ![sid].status = st])
<1> DEFINE t == [ss EXCEPT ![sid].changes = @ + 1]
           u == [t EXCEPT ![sid].status = st]
<1>1. /\ \A s \in DOMAIN ss : ss[s] \in SessionType /\ ss[s].changes \in Nat
      /\ DOMAIN ss = 1..Len(ss) /\ Len(ss) \in Nat
  BY SessionFields
<1>2. /\ t[sid] = [ss[sid] EXCEPT !.changes = @ + 1]
      /\ \A s \in DOMAIN ss \ {sid} : t[s] = ss[s]
      /\ DOMAIN t = DOMAIN ss
  BY <1>1
<1>3. ss[sid] \in SessionType /\ ss[sid].changes + 1 \in 0..MaxEdits
  BY <1>1, SessionPageAssumption
<1>4. t[sid] \in SessionType /\ t[sid].changes = ss[sid].changes + 1
  BY <1>2, <1>3 DEF SessionType
<1>5. t \in Seq(SessionType) /\ Len(t) = Len(ss)
  BY <1>1, <1>2, <1>4
<1> HIDE DEF t
<1>6. /\ u[sid] = [t[sid] EXCEPT !.status = st]
      /\ \A s \in DOMAIN ss \ {sid} : u[s] = ss[s]
      /\ DOMAIN u = DOMAIN ss
  BY <1>2
<1>7. u[sid] \in SessionType /\ u[sid].changes = ss[sid].changes + 1
  BY <1>4, <1>6 DEF SessionType
<1>8. u \in Seq(SessionType) /\ Len(u) = Len(ss)
  BY <1>1, <1>2, <1>5, <1>6, <1>7
<1> HIDE DEF u
<1>9. ASSUME NEW s \in DOMAIN ss PROVE AsNew(t[s], ss[s]) /\ AsNew(u[s], ss[s])
  <2>1. CASE s = sid
    BY <1>1, <1>4, <1>7, <2>1 DEF AsNew
  <2>2. CASE s # sid
    BY <1>1, <1>2, <1>6, <2>2 DEF AsNew
  <2> QED BY <2>1, <2>2
<1>10. q.kind # "create"
  BY DEF Changing
<1>11. Served(q, sid, ss, t)
  BY <1>1, <1>2, <1>4, <1>5, <1>9, <1>10 DEF Served
<1>12. Served(q, sid, ss, u)
  BY <1>1, <1>6, <1>7, <1>8, <1>9, <1>10 DEF Served
<1> QED BY <1>11, <1>12 DEF t, u

LEMMA HandleServes ==
  ASSUME TInv, NEW n \in DOMAIN requests, Handle(n)
  PROVE  /\ requests[n].answer = None
         /\ \E sid \in DOMAIN sessions' :
               /\ Served(requests[n], sid, sessions, sessions')
               /\ requests' = [requests EXCEPT ![n].answer = View(sid, sessions')]
<1> DEFINE q == requests[n]
           answerFrom(sid) ==
               requests' = [requests EXCEPT ![n].answer = View(sid, sessions')]
<1>1. /\ q.answer = None
      /\ \/ /\ q.kind = "create"
            /\ sessions' = Append(sessions, [changes |-> 0, status |-> "none"])
            /\ answerFrom(Len(sessions) + 1)
         \/ /\ \/ q.kind \in {"edit", "media"} /\ sessions[q.sid].status = "none"
               \/ q.kind = "checklist"
            /\ sessions' = Changed(q.sid)
            /\ answerFrom(q.sid)
         \/ /\ q.kind = "dispatch"
            /\ sessions' = IF sessions[q.sid].status \in {"none", "rejected"}
                           THEN [Changed(q.sid) EXCEPT
                                    ![q.sid].status = "pending_provider"]
                           ELSE sessions
            /\ answerFrom(q.sid)
         \/ /\ q.kind \in Sync
            /\ UNCHANGED sessions
            /\ answerFrom(q.sid)
  BY Zenon DEF Handle
<1>2. /\ requests \in Seq(RequestType) /\ sessions \in Seq(SessionType)
      /\ Known(requests, sessions) /\ Counted(sessions, requests, edits)
      /\ edits \in 0..MaxEdits
  BY Zenon DEF TInv, TypeOK
<1>3. /\ Len(sessions) \in Nat /\ DOMAIN sessions = 1..Len(sessions)
      /\ q \in RequestType /\ q.kind \in Kinds
      /\ \A s \in DOMAIN sessions :
            sessions[s] \in SessionType /\ sessions[s].changes \in Nat
  <2>1. q \in RequestType
    BY <1>2
  <2> QED BY <1>2, <2>1, SessionFields, ReqFields
<1>4. q.kind # "create" => q.sid \in DOMAIN sessions
  BY <1>2, <1>3 DEF Known
<1>5. q.kind \in Changing => sessions[q.sid].changes + 1 <= MaxEdits
  <2> SUFFICES ASSUME q.kind \in Changing PROVE sessions[q.sid].changes + 1 <= MaxEdits
    OBVIOUS
  <2>1. n \in Unhandled(requests)
    BY <1>1 DEF Unhandled, Changing
  <2>2. Cardinality(Unhandled(requests)) # 0
    BY <1>2, <2>1, UnhandledFinite, FS_EmptySet
  <2>3. q.sid \in DOMAIN sessions
    BY <1>4 DEF Changing
  <2>4. Cardinality(Unhandled(requests)) \in Nat
    BY <1>2, UnhandledFinite
  <2>5. sessions[q.sid].changes + Cardinality(Unhandled(requests)) <= edits
    BY <1>2, <2>3 DEF Counted
  <2>6. edits <= MaxEdits /\ edits \in Nat
    BY <1>2, SessionPageAssumption
  <2> QED BY <1>3, <2>2, <2>3, <2>4, <2>5, <2>6, SessionPageAssumption
<1> HIDE DEF q
<1>6. CASE /\ q.kind = "create"
           /\ sessions' = Append(sessions, [changes |-> 0, status |-> "none"])
           /\ answerFrom(Len(sessions) + 1)
  <2> DEFINE new == [changes |-> 0, status |-> "none"]
             sid == Len(sessions) + 1
  <2>1. new \in SessionType /\ new.changes = 0
    BY SessionPageAssumption DEF SessionType, Status
  <2> HIDE DEF new
  <2>2. /\ sessions' \in Seq(SessionType) /\ Len(sessions') = sid
        /\ sessions'[sid] = new /\ DOMAIN sessions' = 1..sid
        /\ \A s \in DOMAIN sessions : sessions'[s] = sessions[s]
    BY <1>2, <1>3, <1>6, <2>1 DEF new
  <2>3. \A s \in DOMAIN sessions : AsNew(sessions'[s], sessions[s])
    BY <1>3, <2>2 DEF AsNew
  <2>4. Served(q, sid, sessions, sessions')
    BY <1>6, <2>1, <2>2, <2>3 DEF Served
  <2>5. sid \in DOMAIN sessions'
    BY <1>3, <2>2
  <2> QED BY <1>1, <1>6, <2>4, <2>5 DEF q
<1>7. CASE /\ \/ q.kind \in {"edit", "media"} /\ sessions[q.sid].status = "none"
              \/ q.kind = "checklist"
           /\ sessions' = Changed(q.sid)
           /\ answerFrom(q.sid)
  <2>1. q.kind \in Changing /\ q.kind # "create"
    BY <1>7 DEF Changing
  <2>2. Served(q, q.sid, sessions, sessions')
    BY <1>2, <1>4, <1>5, <1>7, <2>1, ChangeServes DEF Changed, Status
  <2>3. q.sid \in DOMAIN sessions'
    BY <1>3, <1>4, <2>1, <2>2 DEF Served
  <2> QED BY <1>1, <1>7, <2>2, <2>3 DEF q
<1>8. ASSUME q.kind # "create", q.kind \notin Changing \/ q.kind = "dispatch",
             sessions' = sessions
      PROVE  Served(q, q.sid, sessions, sessions')
  BY <1>2, <1>3, <1>8 DEF Served, AsNew
<1>9. CASE /\ q.kind = "dispatch"
           /\ sessions' = IF sessions[q.sid].status \in {"none", "rejected"}
                          THEN [Changed(q.sid) EXCEPT
                                   ![q.sid].status = "pending_provider"]
                          ELSE sessions
           /\ answerFrom(q.sid)
  <2>1. q.kind \in Changing /\ q.kind # "create"
    BY <1>9 DEF Changing
  <2>2. Served(q, q.sid, sessions, sessions')
    <3>1. CASE sessions[q.sid].status \in {"none", "rejected"}
      <4>1. sessions' = [Changed(q.sid) EXCEPT ![q.sid].status = "pending_provider"]
        BY <1>9, <3>1
      <4>2. "pending_provider" \in Status
        BY DEF Status
      <4> QED BY <1>2, <1>4, <1>5, <2>1, <4>1, <4>2, ChangeServes DEF Changed
    <3>2. CASE ~(sessions[q.sid].status \in {"none", "rejected"})
      BY <1>8, <1>9, <2>1, <3>2
    <3> QED BY <3>1, <3>2
  <2>3. q.sid \in DOMAIN sessions'
    BY <1>3, <1>4, <2>1, <2>2 DEF Served
  <2> QED BY <1>1, <1>9, <2>2, <2>3 DEF q
<1>10. CASE q.kind \in Sync /\ UNCHANGED sessions /\ answerFrom(q.sid)
  <2>1. q.kind \notin Changing /\ q.kind # "create"
    BY <1>10 DEF Changing, Sync
  <2>2. Served(q, q.sid, sessions, sessions')
    BY <1>8, <1>10, <2>1
  <2>3. q.sid \in DOMAIN sessions'
    BY <1>4, <1>10, <2>1
  <2> QED BY <1>1, <1>10, <2>2, <2>3 DEF q
<1> QED BY <1>1, <1>6, <1>7, <1>9, <1>10

-----------------------------------------------------------------------------
(***************************************************************************)
(* The type invariant.                                                     *)
(***************************************************************************)
LEMMA TInvFacts ==
  ASSUME TInv
  PROVE  /\ Held
         /\ Flight(requests, sessions, edits, busy, mediaBusy, checklistBusy, syncing)
         /\ requests \in Seq(RequestType) /\ DOMAIN requests = 1..Len(requests)
         /\ Len(requests) \in Nat
         /\ \A n \in DOMAIN requests : requests[n] \in RequestType
         /\ sessions \in Seq(SessionType) /\ DOMAIN sessions = 1..Len(sessions)
         /\ Len(sessions) \in Nat /\ Len(sessions) <= MaxSessions
         /\ edits \in Nat /\ busy \in BOOLEAN /\ syncing \in BOOLEAN
         /\ appliedAge \in 0..MaxAge
         /\ page # None => page \in ViewType /\ page.sid \in 1..Len(sessions)
<1>1. /\ Held
      /\ Flight(requests, sessions, edits, busy, mediaBusy, checklistBusy, syncing)
  BY TInvParts
<1>2. requests \in Seq(RequestType)
  BY <1>1 DEF Flight
<1>3. DOMAIN sessions = 1..Len(sessions) /\ Len(sessions) \in Nat
  BY <1>1 DEF Held
<1> QED BY <1>1, <1>2, <1>3, SessionPageAssumption DEF Held

LEMMA HandleTInv ==
  ASSUME TInv, NEW n \in DOMAIN requests, Handle(n), UNCHANGED images
  PROVE  TInv'
<1> DEFINE q == requests[n]
<1>1. PICK sid \in DOMAIN sessions' :
        /\ Served(q, sid, sessions, sessions')
        /\ requests' = [requests EXCEPT ![n].answer = View(sid, sessions')]
  BY HandleServes
<1>2. /\ UNCHANGED <<page, local, appliedAge, edits, images>>
      /\ q.answer = None
  BY HandleServes DEF Handle
<1>3. /\ Held
      /\ Flight(requests, sessions, edits, busy, mediaBusy, checklistBusy, syncing)
      /\ requests \in Seq(RequestType) /\ q \in RequestType
      /\ sessions \in Seq(SessionType) /\ DOMAIN sessions = 1..Len(sessions)
      /\ Len(sessions) \in Nat
      /\ edits \in Nat
  BY TInvFacts
<1>4. /\ InFlight(requests, busy, mediaBusy, checklistBusy, syncing)
      /\ Counted(sessions, requests, edits) /\ Known(requests, sessions)
      /\ OneBlocking(requests, busy) /\ RoomToCreate(requests, sessions)
      /\ Len(sessions) <= MaxSessions
  BY <1>3 DEF Flight, Held
<1> HIDE DEF q
<1>5. /\ sessions' \in Seq(SessionType) /\ Len(sessions') <= MaxSessions
      /\ Len(sessions) <= Len(sessions') /\ DOMAIN sessions' = 1..Len(sessions')
      /\ Len(sessions') \in Nat
  <2>1. sessions' \in Seq(SessionType)
    BY <1>1 DEF Served
  <2>2. Len(sessions') \in Nat /\ DOMAIN sessions' = 1..Len(sessions')
    BY <2>1
  <2>3. CASE q.kind = "create"
    <3>1. Len(sessions) < MaxSessions
      BY <1>2, <1>4, <2>3 DEF RoomToCreate, q
    <3>2. Len(sessions') = Len(sessions) + 1
      BY <1>1, <2>3 DEF Served
    <3> QED BY <1>3, <2>1, <2>2, <3>1, <3>2, SessionPageAssumption
  <2>4. CASE q.kind # "create"
    BY <1>1, <1>3, <1>4, <2>1, <2>2, <2>4 DEF Served
  <2> QED BY <2>3, <2>4
<1>6. /\ View(sid, sessions') \in ViewType /\ View(sid, sessions') # None
      /\ View(sid, sessions').sid = sid
  BY <1>5, ViewFields
<1>7. Answers(requests', requests, n, View(sid, sessions'))
  BY <1>1, <1>3, <1>6, AnswerAnswers
<1>8. Held'
  BY <1>2, <1>3, <1>5 DEF Held, local
<1>9. /\ requests' \in Seq(RequestType) /\ DOMAIN requests' = DOMAIN requests
      /\ \A k \in DOMAIN requests :
            /\ requests'[k].kind = requests[k].kind /\ requests'[k].item = requests[k].item
            /\ requests'[k].sid = requests[k].sid
            /\ k # n => requests'[k].answer = requests[k].answer
      /\ requests'[n].answer = View(sid, sessions')
      /\ \A k \in DOMAIN requests \ {n} : requests'[k] = requests[k]
  BY <1>7 DEF Answers
<1>10. InFlight(requests', busy', mediaBusy', checklistBusy', syncing')
  BY <1>2, <1>4, <1>9 DEF InFlight, local
<1>11. Known(requests', sessions')
  BY <1>3, <1>4, <1>5, <1>6, <1>9 DEF Known
<1>12. OneBlocking(requests', busy')
  BY <1>2, <1>4, <1>9 DEF OneBlocking, local
<1>13. RoomToCreate(requests', sessions')
  <2>1. CASE q.kind = "create"
    BY <1>4, <1>6, <1>9, <2>1 DEF OneBlocking, RoomToCreate, Blocking, q
  <2>2. CASE q.kind # "create"
    <3>1. Len(sessions') = Len(sessions)
      BY <1>1, <2>2 DEF Served
    <3> QED BY <1>4, <1>6, <1>9, <3>1 DEF RoomToCreate
  <2> QED BY <2>1, <2>2
<1>14. Counted(sessions', requests', edits')
  <2>1. /\ Cardinality(Unhandled(requests')) <= Cardinality(Unhandled(requests))
        /\ n \in Unhandled(requests) =>
              Cardinality(Unhandled(requests')) + 1 <= Cardinality(Unhandled(requests))
    BY <1>3, <1>6, <1>9, UnhandledHandled
  <2>2. /\ Cardinality(Unhandled(requests)) \in Nat
        /\ Cardinality(Unhandled(requests')) \in Nat
    BY <1>3, <1>9, UnhandledFinite
  <2>3. q.kind \in Changing => n \in Unhandled(requests)
    BY <1>2 DEF Unhandled, Changing, q
  <2>4. /\ \A s \in DOMAIN sessions : sessions[s].changes \in Nat
        /\ \A s \in DOMAIN sessions' : sessions'[s].changes \in Nat
    BY <1>3, <1>5, SessionFields
  <2>5. ASSUME NEW s \in DOMAIN sessions'
        PROVE  sessions'[s].changes + Cardinality(Unhandled(requests')) <= edits
    <3>1. CASE s \in DOMAIN sessions
      <4>1. sessions[s].changes + Cardinality(Unhandled(requests)) <= edits
        BY <1>4, <3>1 DEF Counted
      <4>2. \/ sessions'[s].changes = sessions[s].changes
            \/ q.kind \in Changing /\ sessions'[s].changes = sessions[s].changes + 1
        BY <1>1, <3>1 DEF Served
      <4>3. /\ sessions[s].changes \in Nat /\ sessions'[s].changes \in Nat
            /\ edits \in Nat
        BY <1>3, <2>4, <3>1
      <4> QED BY <2>1, <2>2, <2>3, <4>1, <4>2, <4>3
    <3>2. CASE s \notin DOMAIN sessions
      <4>1. s = sid /\ sessions'[s].changes = 0
        <5>1. s \in 1..Len(sessions') /\ s \notin 1..Len(sessions)
          BY <1>3, <1>5, <3>2
        <5>2. Len(sessions') # Len(sessions)
          BY <5>1
        <5>3. /\ sid = Len(sessions) + 1 /\ Len(sessions') = Len(sessions) + 1
              /\ sessions'[sid].changes = 0
          BY <1>1, <5>2 DEF Served
        <5> QED BY <1>3, <5>1, <5>3
      <4>2. Cardinality(Unhandled(requests)) <= edits
        BY <1>4 DEF Counted
      <4> QED BY <1>3, <2>1, <2>2, <4>1, <4>2
    <3> QED BY <3>1, <3>2
  <2> QED BY <1>2, <1>3, <1>4, <2>1, <2>2, <2>5 DEF Counted
<1> QED BY <1>8, <1>9, <1>10, <1>11, <1>12, <1>13, <1>14, TInvPartsNext DEF Flight

\* The finally blocks and what follows them.
LEMMA FinishTInv ==
  ASSUME TInv, NEW n \in DOMAIN requests, NEW age \in 0..MaxAge,
         Finish(requests[n], Others(n), age),
         page' \in ViewType \cup {None}, page' # None => page'.sid \in DOMAIN sessions,
         UNCHANGED <<sessions, edits, images>>
  PROVE  TInv'
<1> DEFINE q == requests[n]
           rest == Others(n)
           b2 == busy /\ q.kind \notin Blocking
           mb2 == mediaBusy /\ q.kind \notin {"media", "media_sync"}
           sync2 == syncing /\ q.kind # "sync"
<1>1. /\ Held
      /\ Flight(requests, sessions, edits, busy, mediaBusy, checklistBusy, syncing)
      /\ requests \in Seq(RequestType) /\ q \in RequestType
      /\ sessions \in Seq(SessionType) /\ DOMAIN sessions = 1..Len(sessions)
      /\ Len(sessions) \in Nat
      /\ edits \in Nat /\ busy \in BOOLEAN /\ syncing \in BOOLEAN
  BY TInvFacts
<1>2. Without(rest, requests, n)
  BY <1>1, RemovedWithout DEF Others
<1>3. /\ busy' = b2 /\ mediaBusy' = mb2 /\ checklistBusy' = checklistBusy \ {q.item}
      /\ \/ /\ SyncDue(q) /\ syncing' = TRUE
            /\ requests' = Sent("sync", None, q.sid, rest)
            /\ appliedAge' = Older(age)
         \/ /\ syncing' = sync2 /\ requests' = rest /\ appliedAge' = age
  BY Zenon DEF Finish, Blocking
<1>4. /\ b2 <=> busy /\ q.kind \notin Blocking
      /\ mb2 <=> mediaBusy /\ q.kind \notin {"media", "media_sync"}
      /\ sync2 <=> syncing /\ q.kind # "sync"
      /\ b2 \in BOOLEAN /\ sync2 \in BOOLEAN
  BY <1>1
<1> HIDE DEF b2, mb2, sync2, rest
<1>5. Flight(rest, sessions, edits, b2, mb2, checklistBusy \ {q.item}, sync2)
  BY <1>1, <1>2, <1>4, SettleFlight
<1>6. Held'
  <2>1. Older(age) \in 0..MaxAge
    BY OlderAge
  <2> QED BY <1>1, <1>3, <1>4, <2>1 DEF Held
<1>7. CASE requests' = rest /\ syncing' = sync2
  BY <1>1, <1>3, <1>5, <1>6, <1>7, TInvPartsNext
<1>8. CASE /\ SyncDue(q) /\ syncing' = TRUE
           /\ requests' = Sent("sync", None, q.sid, rest)
  <2>1. q.kind = "checklist"
    BY <1>8 DEF SyncDue
  <2>2. q.sid \in 1..Len(sessions) /\ q.sid \in 0..MaxSessions /\ q.sid # 0
    BY <1>1, <2>1 DEF Flight, Known, RequestType
  <2>3. rest \in Seq(RequestType)
    BY <1>5 DEF Flight
  <2>4. Extends(requests', rest, "sync", None, q.sid)
    BY <1>8, <2>2, <2>3, SentExtends DEF Kinds, Sync
  <2>5. Longer(requests', rest, "sync", None, q.sid)
    BY <2>4, ExtendsLonger
  <2>6. Flight(requests', sessions, edits, b2, mb2, checklistBusy \ {q.item}, syncing')
    <3>1. "sync" \notin Blocking /\ "sync" # "create"
      BY DEF Blocking
    <3>2. MayBegin("sync", None, q.sid, sessions)
      BY <2>2, <3>1 DEF MayBegin
    <3>3. Starts("sync", None, edits, b2, checklistBusy \ {q.item}, sync2,
                 edits, b2, checklistBusy \ {q.item}, syncing')
      BY <3>1 DEF Starts
    <3> QED BY <1>1, <1>4, <1>5, <2>5, <3>2, <3>3, BeginFlight
  <2> QED BY <1>3, <1>6, <1>8, <2>6, TInvPartsNext
<1> QED BY <1>3, <1>7, <1>8

LEMMA SettledTInv ==
  ASSUME TInv, NEW n \in DOMAIN requests, Settle(n) \/ Failed(n), UNCHANGED images
  PROVE  TInv'
<1> DEFINE q == requests[n]
<1>1. /\ q \in RequestType /\ appliedAge \in 0..MaxAge /\ q.age \in 0..MaxAge
      /\ DOMAIN sessions = 1..Len(sessions)
      /\ Known(requests, sessions)
      /\ page \in ViewType \cup {None}
      /\ page # None => page.sid \in DOMAIN sessions
  <2>1. q \in RequestType /\ appliedAge \in 0..MaxAge /\ DOMAIN sessions = 1..Len(sessions)
    BY TInvFacts
  <2>2. /\ Known(requests, sessions)
        /\ page \in ViewType \cup {None}
        /\ page # None => page.sid \in DOMAIN sessions
    BY TInvFacts DEF Flight, Held
  <2> QED BY <2>1, <2>2, ReqFields
<1>2. q.answer # None => q.answer \in ViewType /\ q.answer.sid \in DOMAIN sessions
  BY <1>1, ReqFields DEF Known
<1>3. CASE Applied(n)
  <2>1. /\ q.answer # None /\ page' = q.answer /\ Finish(q, Others(n), q.age)
        /\ UNCHANGED <<sessions, edits, failures>>
    BY <1>3, Zenon DEF Applied
  <2> QED BY <1>1, <1>2, <2>1, FinishTInv
<1>4. CASE Dropped(n)
  <2>1. /\ UNCHANGED <<sessions, page, polling, alerted, edits, failures>>
        /\ Finish(q, Others(n), appliedAge)
    BY <1>4, Zenon DEF Dropped
  <2>2. page' \in ViewType \cup {None} /\ (page' # None => page'.sid \in DOMAIN sessions)
    BY <1>1, <2>1
  <2>3. UNCHANGED <<sessions, edits, images>>
    BY <2>1
  <2> QED BY <1>1, <2>1, <2>2, <2>3, FinishTInv
<1>5. CASE ApplyMediaResponse(n)
  <2>1. /\ q.answer # None /\ page' = q.answer /\ Finish(q, Others(n), appliedAge)
        /\ UNCHANGED <<sessions, polling, alerted, edits, failures>>
    BY <1>5, Zenon DEF ApplyMediaResponse
  <2> QED BY <1>1, <1>2, <2>1, FinishTInv
<1>6. CASE Failed(n)
  <2>1. page' = page /\ Finish(q, Others(n), appliedAge) /\ UNCHANGED <<sessions, edits>>
    BY <1>6, Zenon DEF Failed
  <2>2. page' \in ViewType \cup {None} /\ (page' # None => page'.sid \in DOMAIN sessions)
    BY <1>1, <2>1
  <2>3. UNCHANGED <<sessions, edits, images>>
    BY <2>1
  <2> QED BY <1>1, <2>1, <2>2, <2>3, FinishTInv
<1> QED BY <1>3, <1>4, <1>5, <1>6 DEF Settle

\* Whatever the page starts: only the requests and the flags change.
LEMMA BegunTInv ==
  ASSUME TInv, NEW kind, NEW item, NEW sid, Longer(requests', requests, kind, item, sid),
         MayBegin(kind, item, sid, sessions),
         Starts(kind, item, edits, busy, checklistBusy, syncing,
                edits', busy', checklistBusy', syncing'),
         busy' \in BOOLEAN, syncing' \in BOOLEAN, checklistBusy' \subseteq Item,
         edits' \in 0..MaxEdits, appliedAge' \in 0..MaxAge,
         UNCHANGED <<sessions, page, images>>,
         mediaBusy' => mediaBusy \/ kind = "media"
  PROVE  TInv'
<1>1. /\ Held
      /\ Flight(requests, sessions, edits, busy, mediaBusy, checklistBusy, syncing)
      /\ sessions \in Seq(SessionType) /\ edits \in Nat /\ edits' \in Nat
      /\ busy \in BOOLEAN /\ syncing \in BOOLEAN
  BY TInvFacts, SessionPageAssumption
<1>2. Held'
  BY <1>1 DEF Held
<1>3. Flight(requests', sessions, edits', busy', mediaBusy, checklistBusy', syncing')
  BY <1>1, BeginFlight
<1>4. Flight(requests', sessions, edits', busy', mediaBusy', checklistBusy', syncing')
  <2>1. InFlight(requests', busy', mediaBusy, checklistBusy', syncing')
    BY <1>3 DEF Flight
  <2>2. mediaBusy' => \E n \in DOMAIN requests' : requests'[n].kind \in {"media", "media_sync"}
    <3>1. CASE mediaBusy
      BY <2>1, <3>1 DEF InFlight
    <3>2. CASE kind = "media"
      <4>1. /\ Len(requests) + 1 \in DOMAIN requests'
            /\ requests'[Len(requests) + 1].kind = kind
        BY DEF Longer
      <4> QED BY <3>2, <4>1
    <3> QED BY <3>1, <3>2
  <2>3. InFlight(requests', busy', mediaBusy', checklistBusy', syncing')
    BY <2>1, <2>2 DEF InFlight
  <2> QED BY <1>3, <2>3 DEF Flight
<1> QED BY <1>2, <1>4, TInvPartsNext

\* Begin, for a session the page shows.
LEMMA BeginLonger ==
  ASSUME TInv, NEW kind \in Kinds, kind # "create", NEW item \in Item \cup {None},
         page # None, Begin(kind, item, page.sid)
  PROVE  /\ Extends(requests', requests, kind, item, page.sid)
         /\ Longer(requests', requests, kind, item, page.sid)
         /\ MayBegin(kind, item, page.sid, sessions)
         /\ appliedAge' = Older(appliedAge) /\ appliedAge' \in 0..MaxAge
<1>1. /\ requests \in Seq(RequestType) /\ appliedAge \in 0..MaxAge
      /\ page.sid \in 1..Len(sessions) /\ Len(sessions) \in Nat
      /\ Len(sessions) <= MaxSessions
  BY TInvFacts
<1>2. page.sid \in 0..MaxSessions /\ page.sid \in 0..Len(sessions) /\ page.sid # 0
  BY <1>1, SessionPageAssumption
<1>3. /\ requests' = Sent(kind, item, page.sid, requests)
      /\ appliedAge' = Older(appliedAge)
  BY Zenon DEF Begin
<1>4. Extends(requests', requests, kind, item, page.sid)
  BY <1>1, <1>2, <1>3, SentExtends
<1> QED BY <1>1, <1>2, <1>3, <1>4, ExtendsLonger, OlderAge DEF MayBegin

LEMMA BeginReplacementLonger ==
  ASSUME TInv, BeginReplacement, Len(sessions) < MaxSessions
  PROVE  /\ Outdated(Replaced(requests), requests)
         /\ Extends(requests', Replaced(requests), "create", None, 0)
         /\ Longer(requests', requests, "create", None, 0)
         /\ MayBegin("create", None, 0, sessions)
         /\ appliedAge' = Older(appliedAge) /\ appliedAge' \in 0..MaxAge
<1>1. /\ requests \in Seq(RequestType) /\ appliedAge \in 0..MaxAge
      /\ Len(sessions) \in Nat
  BY TInvFacts
<1>2. /\ requests' = Sent("create", None, 0, Replaced(requests))
      /\ appliedAge' = Older(appliedAge)
  BY Zenon DEF BeginReplacement, Replaced
<1>3. Outdated(Replaced(requests), requests)
  BY <1>1, ReplacedOutdated
<1>4. Replaced(requests) \in Seq(RequestType)
  BY <1>3 DEF Outdated
<1>5. 0 \in 0..MaxSessions /\ 0 \in 0..Len(sessions) /\ "create" \in Kinds
  BY <1>1, SessionPageAssumption DEF Kinds
<1>6. Extends(requests', Replaced(requests), "create", None, 0)
  BY <1>2, <1>4, <1>5, SentExtends
<1>7. Longer(requests', Replaced(requests), "create", None, 0)
  BY <1>6, ExtendsLonger
<1>8. Longer(requests', requests, "create", None, 0)
  BY <1>3, <1>7 DEF Longer, Outdated
<1> QED BY <1>1, <1>2, <1>3, <1>5, <1>6, <1>8, OlderAge DEF MayBegin

LEMMA EditType ==
  ASSUME TInv, Edit
  PROVE  edits' = edits + 1 /\ edits' \in 0..MaxEdits
<1>1. edits \in 0..MaxEdits
  BY TInvFacts DEF Held
<1> QED BY <1>1, SessionPageAssumption DEF Edit

LEMMA StartTInv ==
  ASSUME TInv, UNCHANGED images,
         \/ StartOver \/ StartEdit \/ ConfirmDispatch \/ StartMedia \/ RefreshSession
         \/ \E i \in Item : UpdateChecklistItem(i)
  PROVE  TInv'
<1>1. /\ busy \in BOOLEAN /\ syncing \in BOOLEAN /\ checklistBusy \subseteq Item
      /\ edits \in 0..MaxEdits /\ requests \in Seq(RequestType)
      /\ DOMAIN requests = 1..Len(requests) /\ Len(requests) \in Nat
      /\ appliedAge \in 0..MaxAge
  BY TInvFacts DEF Held
<1>2. CASE StartOver
  <2>1. /\ ~Blocked /\ Len(sessions) < MaxSessions /\ BeginReplacement
        /\ busy' = TRUE /\ checklistBusy' = {}
        /\ UNCHANGED <<sessions, page, mediaBusy, syncing, alerted, edits, failures>>
    BY <1>2, Zenon DEF StartOver
  <2>2. /\ Longer(requests', requests, "create", None, 0)
        /\ MayBegin("create", None, 0, sessions) /\ appliedAge' \in 0..MaxAge
    BY <2>1, BeginReplacementLonger
  <2>3. Starts("create", None, edits, busy, checklistBusy, syncing,
               edits', busy', checklistBusy', syncing')
    BY <2>1 DEF Starts, Blocked, Blocking
  <2> QED BY <1>1, <2>1, <2>2, <2>3, BegunTInv
<1>3. ASSUME page # None, ~Blocked, Edit, NEW kind \in {"edit", "dispatch"},
             Begin(kind, None, page.sid), busy' = TRUE,
             UNCHANGED <<sessions, page, mediaBusy, checklistBusy, syncing>>
      PROVE  TInv'
  <2>1. kind \in Kinds /\ kind # "create"
    BY DEF Kinds
  <2>2. /\ Longer(requests', requests, kind, None, page.sid)
        /\ MayBegin(kind, None, page.sid, sessions) /\ appliedAge' \in 0..MaxAge
    BY <1>3, <2>1, BeginLonger
  <2>3. edits' = edits + 1 /\ edits' \in 0..MaxEdits
    BY <1>3, EditType
  <2>4. Starts(kind, None, edits, busy, checklistBusy, syncing,
               edits', busy', checklistBusy', syncing')
    BY <1>3, <2>3 DEF Starts, Blocked, Blocking
  <2> QED BY <1>1, <1>3, <2>2, <2>3, <2>4, BegunTInv
<1>4. CASE StartEdit
  BY <1>3, <1>4, Zenon DEF StartEdit
<1>5. CASE ConfirmDispatch
  BY <1>3, <1>5, Zenon DEF ConfirmDispatch
<1>6. CASE StartMedia
  <2> DEFINE q == [kind |-> "media", item |-> None, sid |-> page.sid, age |-> 0,
                   replaced |-> FALSE, answer |-> None]
  <2>1. /\ page # None /\ Edit
        /\ requests' = Append(requests, q)
        /\ UNCHANGED <<sessions, page, busy, checklistBusy, syncing, polling,
                       appliedAge, alerted, failures>>
    BY <1>6, Zenon DEF StartMedia
  <2>2. /\ page.sid \in 1..Len(sessions) /\ Len(sessions) \in Nat
        /\ Len(sessions) <= MaxSessions
    BY <2>1, TInvFacts
  <2>3. page.sid \in 0..MaxSessions /\ page.sid \in 0..Len(sessions) /\ page.sid # 0
    BY <2>2, SessionPageAssumption
  <2>4. q \in RequestType
    BY <2>3, SessionPageAssumption DEF RequestType
  <2>5. /\ q.kind = "media" /\ q.item = None /\ q.sid = page.sid /\ q.answer = None
    OBVIOUS
  <2> HIDE DEF q
  <2>6. Longer(requests', requests, "media", None, page.sid)
    BY <1>1, <2>1, <2>4, <2>5 DEF Longer
  <2>7. MayBegin("media", None, page.sid, sessions)
    BY <2>3 DEF MayBegin
  <2>8. edits' = edits + 1 /\ edits' \in 0..MaxEdits
    BY <2>1, EditType
  <2>9. Starts("media", None, edits, busy, checklistBusy, syncing,
               edits', busy', checklistBusy', syncing')
    BY <2>1, <2>8 DEF Starts, Blocking
  <2> QED BY <1>1, <2>1, <2>6, <2>7, <2>8, <2>9, BegunTInv
<1>7. CASE RefreshSession
  <2>1. /\ page # None /\ Begin("poll", None, page.sid)
        /\ UNCHANGED <<sessions, page, local, alerted, edits, failures>>
    BY <1>7, Zenon DEF RefreshSession
  <2>2. "poll" \in Kinds
    BY DEF Kinds, Sync
  <2>3. /\ Longer(requests', requests, "poll", None, page.sid)
        /\ MayBegin("poll", None, page.sid, sessions) /\ appliedAge' \in 0..MaxAge
    BY <2>1, <2>2, BeginLonger
  <2>4. UNCHANGED <<busy, mediaBusy, checklistBusy, syncing>>
    BY <2>1 DEF local
  <2>5. Starts("poll", None, edits, busy, checklistBusy, syncing,
               edits', busy', checklistBusy', syncing')
    BY <2>1, <2>4 DEF Starts, Blocking
  <2> QED BY <1>1, <2>1, <2>3, <2>4, <2>5, BegunTInv
<1>8. ASSUME NEW i \in Item, UpdateChecklistItem(i) PROVE TInv'
  <2>1. /\ page # None /\ Edit /\ Begin("checklist", i, page.sid)
        /\ checklistBusy' = checklistBusy \cup {i}
        /\ UNCHANGED <<sessions, page, busy, mediaBusy, syncing, polling,
                       alerted, failures>>
    BY <1>8, Zenon DEF UpdateChecklistItem
  <2>2. "checklist" \in Kinds
    BY DEF Kinds
  <2>3. /\ Longer(requests', requests, "checklist", i, page.sid)
        /\ MayBegin("checklist", i, page.sid, sessions) /\ appliedAge' \in 0..MaxAge
    BY <2>1, <2>2, BeginLonger
  <2>4. edits' = edits + 1 /\ edits' \in 0..MaxEdits
    BY <2>1, EditType
  <2>5. Starts("checklist", i, edits, busy, checklistBusy, syncing,
               edits', busy', checklistBusy', syncing')
    BY <2>1, <2>4 DEF Starts, Blocking
  <2> QED BY <1>1, <2>1, <2>3, <2>4, <2>5, BegunTInv
<1> QED BY <1>2, <1>4, <1>5, <1>6, <1>7, <1>8

LEMMA MediaStaleTInv ==
  ASSUME TInv, NEW n \in DOMAIN requests, MediaStale(n), UNCHANGED images
  PROVE  TInv'
<1> DEFINE new == [requests EXCEPT ![n].kind = "media_sync"]
<1>1. /\ Held
      /\ Flight(requests, sessions, edits, busy, mediaBusy, checklistBusy, syncing)
      /\ requests \in Seq(RequestType)
      /\ \A k \in DOMAIN requests : requests[k] \in RequestType
      /\ sessions \in Seq(SessionType) /\ edits \in Nat
  BY TInvFacts
<1>2. /\ requests[n].kind = "media" /\ requests[n].answer = None /\ requests' = new
      /\ UNCHANGED <<sessions, page, busy, mediaBusy, checklistBusy, syncing, polling,
                     appliedAge, alerted, edits, failures>>
  BY DEF MediaStale, local
<1>3. /\ DOMAIN new = DOMAIN requests /\ Len(new) = Len(requests)
      /\ \A k \in DOMAIN requests \ {n} : new[k] = requests[k]
      /\ new[n] = [requests[n] EXCEPT !.kind = "media_sync"]
  BY <1>1
<1>4. /\ new[n] \in RequestType /\ new[n].kind = "media_sync"
      /\ new[n].sid = requests[n].sid /\ new[n].item = requests[n].item
      /\ new[n].answer = None
  <2>1. requests[n] \in RequestType
    BY <1>1
  <2>2. "media_sync" \in Kinds
    BY DEF Kinds, Sync
  <2> QED BY <1>2, <1>3, <2>1, <2>2 DEF RequestType, Kinds
<1>5. new \in Seq(RequestType)
  BY <1>1, <1>3, <1>4
<1> HIDE DEF new
<1>6. /\ InFlight(requests, busy, mediaBusy, checklistBusy, syncing)
      /\ Counted(sessions, requests, edits) /\ Known(requests, sessions)
      /\ OneBlocking(requests, busy) /\ RoomToCreate(requests, sessions)
  BY <1>1 DEF Flight
<1>7. InFlight(new, busy, mediaBusy, checklistBusy, syncing)
  <2>1. ASSUME NEW k \in DOMAIN requests, requests[k].kind \notin {"media", "media_sync"}
        PROVE  k \in DOMAIN new /\ new[k] = requests[k]
    BY <1>2, <1>3, <2>1
  <2>2. /\ busy => \E k \in DOMAIN new : new[k].kind \in Blocking
        /\ syncing => \E k \in DOMAIN new : new[k].kind = "sync"
        /\ \E k \in DOMAIN new : new[k].kind \in {"media", "media_sync"}
    <3>1. \E k \in DOMAIN new : new[k].kind \in {"media", "media_sync"}
      BY <1>3, <1>4
    <3>2. ASSUME busy PROVE \E k \in DOMAIN new : new[k].kind \in Blocking
      <4>1. PICK k \in DOMAIN requests : requests[k].kind \in Blocking
        BY <1>6, <3>2 DEF InFlight
      <4>2. requests[k].kind \notin {"media", "media_sync"}
        BY <4>1 DEF Blocking
      <4> QED BY <2>1, <4>1, <4>2
    <3>3. ASSUME syncing PROVE \E k \in DOMAIN new : new[k].kind = "sync"
      <4>1. PICK k \in DOMAIN requests : requests[k].kind = "sync"
        BY <1>6, <3>3 DEF InFlight
      <4> QED BY <2>1, <4>1
    <3> QED BY <3>1, <3>2, <3>3
  <2>3. ASSUME NEW i \in checklistBusy
        PROVE  \E k \in DOMAIN new : new[k].kind = "checklist" /\ new[k].item = i
    <3>1. PICK k \in DOMAIN requests : requests[k].kind = "checklist" /\ requests[k].item = i
      BY <1>6 DEF InFlight
    <3> QED BY <2>1, <3>1
  <2> QED BY <2>2, <2>3 DEF InFlight
<1>8. Counted(sessions, new, edits)
  <2>1. Unhandled(new) \subseteq Unhandled(requests)
    BY <1>3, <1>4 DEF Unhandled
  <2>2. /\ IsFiniteSet(Unhandled(requests)) /\ Cardinality(Unhandled(requests)) \in Nat
        /\ Cardinality(Unhandled(new)) \in Nat
    BY <1>1, <1>5, UnhandledFinite
  <2>3. Cardinality(Unhandled(new)) <= Cardinality(Unhandled(requests))
    BY <2>1, <2>2, FS_Subset
  <2>4. \A s \in DOMAIN sessions : sessions[s].changes \in Nat
    BY <1>1, SessionFields
  <2> QED BY <1>1, <1>6, <2>2, <2>3, <2>4 DEF Counted
<1>9. Known(new, sessions)
  <2>1. ASSUME NEW k \in DOMAIN requests
        PROVE  /\ new[k].kind = "create" <=> requests[k].kind = "create"
               /\ new[k].sid = requests[k].sid /\ new[k].answer = requests[k].answer
    <3>1. CASE k = n
      BY <1>2, <1>4, <3>1
    <3>2. CASE k # n
      BY <1>3, <3>2
    <3> QED BY <3>1, <3>2
  <2> QED BY <1>3, <1>6, <2>1 DEF Known
<1>10. OneBlocking(new, busy)
  BY <1>3, <1>4, <1>6 DEF OneBlocking, Blocking
<1>11. RoomToCreate(new, sessions)
  BY <1>3, <1>4, <1>6 DEF RoomToCreate
<1>12. Flight(requests', sessions', edits', busy', mediaBusy', checklistBusy', syncing')
  BY <1>2, <1>5, <1>7, <1>8, <1>9, <1>10, <1>11 DEF Flight
<1>13. Held'
  BY <1>1, <1>2 DEF Held
<1> QED BY <1>12, <1>13, TInvPartsNext

\* The provider decides: no session has changed for the consumer.
LEMMA DecisionServes ==
  ASSUME TInv, NEW sid \in DOMAIN sessions, ProviderDecides(sid)
  PROVE  /\ sessions' \in Seq(SessionType) /\ Len(sessions') = Len(sessions)
         /\ \A s \in DOMAIN sessions :
               /\ AsNew(sessions'[s], sessions[s])
               /\ sessions'[s].changes = sessions[s].changes
         /\ UNCHANGED <<page, busy, mediaBusy, checklistBusy, syncing, polling,
                        requests, appliedAge, alerted, edits, failures>>
<1>1. /\ sessions \in Seq(SessionType)
      /\ \A s \in DOMAIN sessions :
            sessions[s] \in SessionType /\ sessions[s].changes \in Nat
  BY TInvFacts, SessionFields
<1>2. PICK st \in {"accepted", "rejected"} :
        sessions' = [sessions EXCEPT ![sid].status = st]
  BY DEF ProviderDecides
<1>3. /\ sessions'[sid] = [sessions[sid] EXCEPT !.status = st]
      /\ \A s \in DOMAIN sessions \ {sid} : sessions'[s] = sessions[s]
      /\ DOMAIN sessions' = DOMAIN sessions /\ Len(sessions') = Len(sessions)
  BY <1>1, <1>2
<1>4. /\ sessions'[sid] \in SessionType
      /\ sessions'[sid].changes = sessions[sid].changes
  BY <1>1, <1>3 DEF SessionType, Status
<1>5. sessions' \in Seq(SessionType)
  BY <1>1, <1>2, <1>3, <1>4
<1>6. sessions[sid].status = "pending_provider"
  BY DEF ProviderDecides
<1>7. ASSUME NEW s \in DOMAIN sessions
      PROVE  /\ AsNew(sessions'[s], sessions[s])
             /\ sessions'[s].changes = sessions[s].changes
  <2>1. CASE s = sid
    BY <1>1, <1>4, <1>6, <2>1 DEF AsNew
  <2>2. CASE s # sid
    BY <1>1, <1>3, <2>2 DEF AsNew
  <2> QED BY <2>1, <2>2
<1> QED BY <1>3, <1>5, <1>7 DEF ProviderDecides, local

LEMMA DecisionTInv ==
  ASSUME TInv, NEW sid \in DOMAIN sessions, ProviderDecides(sid), UNCHANGED images
  PROVE  TInv'
<1>1. /\ sessions' \in Seq(SessionType) /\ Len(sessions') = Len(sessions)
      /\ \A s \in DOMAIN sessions : sessions'[s].changes = sessions[s].changes
      /\ UNCHANGED <<page, busy, mediaBusy, checklistBusy, syncing, polling,
                     requests, appliedAge, alerted, edits, failures>>
  BY DecisionServes
<1>2. /\ Held
      /\ Flight(requests, sessions, edits, busy, mediaBusy, checklistBusy, syncing)
      /\ sessions \in Seq(SessionType)
  BY TInvFacts
<1>3. DOMAIN sessions' = DOMAIN sessions
  BY <1>1, <1>2
<1>4. Held'
  BY <1>1, <1>2, <1>3 DEF Held
<1>5. /\ Counted(sessions', requests, edits) /\ Known(requests, sessions')
      /\ RoomToCreate(requests, sessions')
  BY <1>1, <1>2, <1>3 DEF Flight, Counted, Known, RoomToCreate
<1>6. Flight(requests', sessions', edits', busy', mediaBusy', checklistBusy', syncing')
  BY <1>1, <1>2, <1>5 DEF Flight
<1> QED BY <1>4, <1>6, TInvPartsNext

\* The only request of a page just loaded creates its session.
LEMMA InitFacts ==
  ASSUME Init
  PROVE  /\ requests \in Seq(RequestType) /\ DOMAIN requests = {1}
         /\ requests[1].kind = "create" /\ requests[1].item = None
         /\ requests[1].sid = 0 /\ requests[1].answer = None
         /\ requests[1].age = 0 /\ requests[1].replaced = FALSE
<1>1. Extends(Sent("create", None, 0, << >>), << >>, "create", None, 0)
  <2>1. << >> \in Seq(RequestType)
    OBVIOUS
  <2>2. "create" \in Kinds /\ None \in Item \cup {None} /\ 0 \in 0..MaxSessions
    BY SessionPageAssumption DEF Kinds
  <2> QED BY <2>1, <2>2, SentExtends
<1>2. Extends(requests, << >>, "create", None, 0)
  BY <1>1 DEF Init
<1>3. Len(<< >>) = 0 /\ 1..(0 + 1) = {1}
  OBVIOUS
<1> QED BY <1>2, <1>3 DEF Extends

LEMMA InitTInv == Init => TInv
<1> SUFFICES ASSUME Init PROVE TInv
  OBVIOUS
<1>1. /\ requests \in Seq(RequestType) /\ DOMAIN requests = {1}
      /\ requests[1].kind = "create" /\ requests[1].item = None
      /\ requests[1].sid = 0 /\ requests[1].answer = None
  BY InitFacts
<1>2. /\ sessions = << >> /\ page = None /\ busy = TRUE /\ mediaBusy = FALSE
      /\ checklistBusy = {} /\ syncing = FALSE /\ appliedAge = 1 /\ edits = 0
      /\ images \in Media
  BY DEF Init
<1>3. << >> \in Seq(SessionType) /\ Len(<< >>) = 0 /\ DOMAIN << >> = {}
  OBVIOUS
<1>4. Held
  <2>1. 0 \in 0..MaxEdits /\ 1 \in 0..MaxAge /\ images \in BOOLEAN /\ 0 <= MaxSessions
    BY <1>2, SessionPageAssumption
  <2>2. sessions \in Seq(SessionType) /\ Len(sessions) <= MaxSessions
    BY <1>2, <1>3, <2>1
  <2> QED BY <1>2, <2>1, <2>2 DEF Held
<1>5. Unhandled(requests) = {}
  BY <1>1 DEF Unhandled
<1>6. Counted(sessions, requests, edits)
  BY <1>2, <1>3, <1>5, FS_EmptySet DEF Counted
<1>7. /\ InFlight(requests, busy, mediaBusy, checklistBusy, syncing)
      /\ Known(requests, sessions) /\ OneBlocking(requests, busy)
      /\ RoomToCreate(requests, sessions)
  BY <1>1, <1>2, <1>3, SessionPageAssumption
     DEF InFlight, Known, OneBlocking, RoomToCreate, Blocking
<1>8. Flight(requests, sessions, edits, busy, mediaBusy, checklistBusy, syncing)
  BY <1>1, <1>6, <1>7 DEF Flight
<1> QED BY <1>4, <1>8, TInvParts

LEMMA NextTInv == TInv /\ [Next]_vars => TInv'
<1> SUFFICES ASSUME TInv, [Next]_vars PROVE TInv'
  OBVIOUS
<1>1. CASE UNCHANGED vars
  <2>1. UNCHANGED <<sessions, page, busy, mediaBusy, checklistBusy, syncing, requests,
                    appliedAge, edits, images>>
    BY <1>1 DEF vars, local
  <2>2. /\ Held
        /\ Flight(requests, sessions, edits, busy, mediaBusy, checklistBusy, syncing)
    BY TInvFacts
  <2>3. Held'
    BY <2>1, <2>2 DEF Held
  <2>4. Flight(requests', sessions', edits', busy', mediaBusy', checklistBusy', syncing')
    BY <2>1, <2>2
  <2> QED BY <2>3, <2>4, TInvPartsNext
<1>2. CASE Next
  <2>1. /\ UNCHANGED images
        /\ \/ StartOver \/ StartEdit \/ ConfirmDispatch \/ StartMedia \/ RefreshSession
           \/ \E i \in Item : UpdateChecklistItem(i)
           \/ \E n \in DOMAIN requests : Handle(n)
           \/ \E n \in DOMAIN requests : Settle(n)
           \/ \E n \in DOMAIN requests : Failed(n)
           \/ \E n \in DOMAIN requests : MediaStale(n)
           \/ \E sid \in DOMAIN sessions : ProviderDecides(sid)
    BY <1>2, Zenon DEF Next, Step
  <2> QED BY <2>1, StartTInv, HandleTInv, SettledTInv, MediaStaleTInv, DecisionTInv
<1> QED BY <1>1, <1>2

\* Every request, answer and view is about a session there is and a change that
\* was asked for, and an operation that blocks the page has its request in
\* flight: whichever way a request of app.js settles, its finally block releases
\* what it had blocked.
THEOREM TypeCorrect == Spec => []TypeOK
<1>1. TInv => TypeOK
  BY DEF TInv
<1> QED BY <1>1, InitTInv, NextTInv, PTL DEF Spec

-----------------------------------------------------------------------------
(***************************************************************************)
(* A consumer without images: what the page begins.                        *)
(***************************************************************************)
\* The page may begin the request beside those in flight.
Clear(reqs, kind, item, sid, pg, boxes, sync) ==
    /\ kind \notin {"media", "media_sync"}
    /\ kind # "create" => pg # None /\ sid = pg.sid /\ pg.sid \in Nat
    /\ kind = "checklist" =>
          /\ item # None /\ item \in boxes
          /\ \A n \in DOMAIN reqs : reqs[n].kind \in Serial =>
                reqs[n].kind = "checklist" /\ reqs[n].item # item
    /\ kind # "checklist" =>
          item = None /\ \A n \in DOMAIN reqs : reqs[n].kind \notin Serial
    /\ \A n \in DOMAIN reqs : reqs[n].kind = "checklist" => reqs[n].item \in boxes
    /\ kind = "sync" => sync
    /\ \A n \in DOMAIN reqs : reqs[n].kind = "sync" => sync

LEMMA BeginParts ==
  ASSUME NEW reqs, NEW age \in 0..MaxAge, NEW ss, NEW pg, NEW boxes, NEW sync,
         Parts(reqs, age, ss, pg, boxes, sync),
         NEW new, NEW kind, NEW item, NEW sid, Extends(new, reqs, kind, item, sid),
         NEW boxes2, NEW sync2, Clear(reqs, kind, item, sid, pg, boxes2, sync2)
  PROVE  Parts(new, Older(age), ss, pg, boxes2, sync2)
<1> DEFINE last == Len(reqs) + 1
<1>1. /\ Latest(reqs, age) /\ Behind(reqs, ss, pg) /\ Onward(reqs, pg) /\ Fresh(reqs, pg)
      /\ Controls(reqs, pg, boxes, sync) /\ Alone(reqs) /\ Current(reqs, ss)
  BY Zenon DEF Parts
<1>2. /\ DOMAIN new = DOMAIN reqs \cup {last} /\ last \notin DOMAIN reqs
      /\ \A k \in DOMAIN reqs :
            /\ new[k].kind = reqs[k].kind /\ new[k].item = reqs[k].item
            /\ new[k].sid = reqs[k].sid /\ new[k].answer = reqs[k].answer
            /\ new[k].replaced = reqs[k].replaced
            /\ new[k].age # 0
      /\ new[last].kind = kind /\ new[last].item = item /\ new[last].sid = sid
      /\ new[last].age = 0 /\ new[last].replaced = FALSE /\ new[last].answer = None
  BY DEF Extends
<1> HIDE DEF last
<1>3. Latest(new, Older(age))
  <2>1. Older(age) > 0
    BY OlderAge
  <2>2. \A n \in DOMAIN new : new[n].kind \notin {"media", "media_sync"}
    BY <1>1, <1>2 DEF Latest, Clear
  <2>3. \A m, n \in DOMAIN new : new[m].age = 0 /\ new[n].age = 0 => m = n
    BY <1>2
  <2> QED BY <2>1, <2>2, <2>3 DEF Latest
<1>4. Behind(new, ss, pg)
  BY <1>1, <1>2 DEF Behind
<1>5. Onward(new, pg)
  <2>1. kind # "create" => pg # None /\ sid <= pg.sid
    BY DEF Clear
  <2> QED BY <1>1, <1>2, <2>1 DEF Onward
<1>6. Fresh(new, pg)
  BY <1>2 DEF Fresh
<1>7. Controls(new, pg, boxes2, sync2)
  <2>1. \A n \in DOMAIN new : new[n].kind \in Serial \ {"create"} => new[n].sid = pg.sid
    BY <1>1, <1>2 DEF Controls, Clear
  <2>2. \A n \in DOMAIN new : new[n].kind \in Serial \ {"checklist"} =>
            new[n].age = 0 /\ ~new[n].replaced
    BY <1>2 DEF Clear
  <2>3. \A n \in DOMAIN new : new[n].kind = "checklist" =>
            new[n].item \in boxes2 /\ new[n].item # None
    BY <1>1, <1>2 DEF Controls, Clear
  <2>4. \A n \in DOMAIN new : new[n].kind # "checklist" => new[n].item = None
    BY <1>1, <1>2 DEF Controls, Clear
  <2>5. \A m, n \in DOMAIN new : new[m].kind = "checklist" /\ new[n].kind = "checklist"
            /\ new[m].item = new[n].item => m = n
    BY <1>1, <1>2 DEF Controls, Clear, Serial
  <2>6. \A n \in DOMAIN new : new[n].kind = "sync" => sync2
    BY <1>2 DEF Clear
  <2> QED BY <2>1, <2>2, <2>3, <2>4, <2>5, <2>6 DEF Controls
<1>8. Alone(new)
  BY <1>2 DEF Alone, Clear
<1>9. Current(new, ss)
  BY <1>2 DEF Current
<1> QED BY <1>3, <1>4, <1>5, <1>6, <1>7, <1>8, <1>9 DEF Parts

LEMMA OutdatedParts ==
  ASSUME NEW reqs, NEW age, NEW ss, NEW pg, NEW boxes, NEW sync,
         Parts(reqs, age, ss, pg, boxes, sync), NEW old, Outdated(old, reqs),
         \A n \in DOMAIN reqs : reqs[n].kind \notin Serial
  PROVE  Parts(old, age, ss, pg, boxes, sync)
<1>1. /\ Latest(reqs, age) /\ Behind(reqs, ss, pg) /\ Onward(reqs, pg) /\ Fresh(reqs, pg)
      /\ Controls(reqs, pg, boxes, sync) /\ Alone(reqs) /\ Current(reqs, ss)
  BY Zenon DEF Parts
<1>2. /\ DOMAIN old = DOMAIN reqs
      /\ \A k \in DOMAIN reqs :
            /\ old[k].kind = reqs[k].kind /\ old[k].item = reqs[k].item
            /\ old[k].sid = reqs[k].sid /\ old[k].answer = reqs[k].answer
            /\ old[k].age = reqs[k].age
  BY Zenon DEF Outdated
<1>3. Latest(old, age)
  BY <1>1, <1>2 DEF Latest
<1>4. Behind(old, ss, pg) /\ Current(old, ss)
  BY <1>1, <1>2 DEF Behind, Current
<1>5. Onward(old, pg) /\ Fresh(old, pg)
  BY <1>1, <1>2 DEF Onward, Fresh
<1>6. Controls(old, pg, boxes, sync)
  BY <1>1, <1>2 DEF Controls, Serial
<1>7. Alone(old)
  BY <1>1, <1>2 DEF Alone
<1> QED BY <1>3, <1>4, <1>5, <1>6, <1>7 DEF Parts

\* What is in flight shows: an enabled control finds only polls.
LEMMA QuietUnlessBlocked ==
  ASSUME TInv, PInv, ~Blocked
  PROVE  \A n \in DOMAIN requests : requests[n].kind \notin Serial
<1>1. OneBlocking(requests, busy)
  BY TInvFacts DEF Flight
<1>2. Controls(requests, page, checklistBusy, syncing)
  BY DEF PInv, Parts
<1>3. ~busy /\ checklistBusy = {} /\ ~syncing
  BY DEF Blocked, ChecklistMutation
<1> QED BY <1>1, <1>2, <1>3 DEF OneBlocking, Controls, Serial

\* A lagging page stays explained while requests are only added.
LEMMA LongerExplained ==
  ASSUME Explained(requests, sessions, page, alerted), NEW kind, NEW item, NEW sid,
         Longer(requests', requests, kind, item, sid),
         UNCHANGED <<sessions, page, alerted>>
  PROVE  Explained(requests', sessions', page', alerted')
<1>1. \A n \in DOMAIN requests : n \in DOMAIN requests' /\ requests'[n].kind = requests[n].kind
  BY DEF Longer
<1> QED BY <1>1 DEF Explained

LEMMA PInvNextIs ==
  PInv' <=> /\ Parts(requests', appliedAge', sessions', page', checklistBusy', syncing')
            /\ Explained(requests', sessions', page', alerted')
  BY Zenon DEF PInv

LEMMA StartPInv ==
  ASSUME TInv, PInv, ~images,
         \/ StartOver \/ StartEdit \/ ConfirmDispatch \/ StartMedia \/ RefreshSession
         \/ \E i \in Item : UpdateChecklistItem(i)
  PROVE  PInv' /\ UNCHANGED page
<1>1. /\ Parts(requests, appliedAge, sessions, page, checklistBusy, syncing)
      /\ Explained(requests, sessions, page, alerted)
      /\ appliedAge \in 0..MaxAge
      /\ page # None => page.sid \in Nat
  BY TInvFacts DEF PInv
<1>2. CASE StartOver
  <2>1. /\ ~Blocked /\ Len(sessions) < MaxSessions /\ BeginReplacement
        /\ checklistBusy' = {}
        /\ UNCHANGED <<sessions, page, mediaBusy, syncing, alerted, edits, failures>>
    BY <1>2, Zenon DEF StartOver
  <2>2. /\ Outdated(Replaced(requests), requests)
        /\ Extends(requests', Replaced(requests), "create", None, 0)
        /\ Longer(requests', requests, "create", None, 0)
        /\ appliedAge' = Older(appliedAge)
    BY <2>1, BeginReplacementLonger
  <2>3. \A n \in DOMAIN requests : requests[n].kind \notin Serial
    BY <2>1, QuietUnlessBlocked
  <2>4. Parts(Replaced(requests), appliedAge, sessions, page, checklistBusy, syncing)
    BY <1>1, <2>2, <2>3, OutdatedParts
  <2>5. Clear(Replaced(requests), "create", None, 0, page, checklistBusy', syncing')
    BY <2>2, <2>3 DEF Clear, Outdated, Serial
  <2>6. Parts(requests', Older(appliedAge), sessions, page, checklistBusy', syncing')
    BY <1>1, <2>2, <2>4, <2>5, BeginParts
  <2>7. Explained(requests', sessions', page', alerted')
    BY <1>1, <2>1, <2>2, LongerExplained
  <2> QED BY <2>1, <2>2, <2>6, <2>7, PInvNextIs
<1>3. ASSUME page # None, NEW kind \in Kinds, kind # "create", NEW item \in Item \cup {None},
             Begin(kind, item, page.sid),
             Clear(requests, kind, item, page.sid, page, checklistBusy', syncing'),
             UNCHANGED <<sessions, page, alerted>>
      PROVE  PInv' /\ UNCHANGED page
  <2>1. /\ Extends(requests', requests, kind, item, page.sid)
        /\ Longer(requests', requests, kind, item, page.sid)
        /\ appliedAge' = Older(appliedAge)
    BY <1>3, BeginLonger
  <2>2. Parts(requests', Older(appliedAge), sessions, page, checklistBusy', syncing')
    BY <1>1, <1>3, <2>1, BeginParts
  <2>3. Explained(requests', sessions', page', alerted')
    BY <1>1, <1>3, <2>1, LongerExplained
  <2> QED BY <1>3, <2>1, <2>2, <2>3, PInvNextIs
<1>4. ASSUME page # None, ~Blocked, NEW kind \in {"edit", "dispatch", "poll"},
             UNCHANGED <<checklistBusy, syncing>>
      PROVE  /\ Clear(requests, kind, None, page.sid, page, checklistBusy', syncing')
             /\ kind \in Kinds /\ kind # "create"
  <2>1. \A n \in DOMAIN requests : requests[n].kind \notin Serial
    BY <1>4, QuietUnlessBlocked
  <2>2. /\ kind \notin {"media", "media_sync", "create", "checklist", "sync"}
        /\ kind \in Kinds
    BY DEF Kinds, Sync
  <2> QED BY <1>1, <1>4, <2>1, <2>2 DEF Clear, Serial
<1>5. CASE StartEdit
  <2>1. /\ page # None /\ ~Blocked /\ Begin("edit", None, page.sid)
        /\ UNCHANGED <<sessions, page, mediaBusy, checklistBusy, syncing, polling,
                       alerted, failures>>
    BY <1>5, Zenon DEF StartEdit
  <2> QED BY <2>1, <1>3, <1>4
<1>6. CASE ConfirmDispatch
  <2>1. /\ page # None /\ ~Blocked /\ Begin("dispatch", None, page.sid)
        /\ UNCHANGED <<sessions, page, mediaBusy, checklistBusy, syncing, polling,
                       alerted, failures>>
    BY <1>6, Zenon DEF ConfirmDispatch
  <2> QED BY <2>1, <1>3, <1>4
<1>7. CASE StartMedia
  BY <1>7 DEF StartMedia
<1>8. CASE RefreshSession
  <2>1. /\ page # None /\ ~Blocked /\ Begin("poll", None, page.sid)
        /\ UNCHANGED <<sessions, page, local, alerted, edits, failures>>
    BY <1>8, Zenon DEF RefreshSession
  <2>2. UNCHANGED <<checklistBusy, syncing>>
    BY <2>1 DEF local
  <2> QED BY <2>1, <2>2, <1>3, <1>4
<1>9. ASSUME NEW i \in Item, UpdateChecklistItem(i) PROVE PInv' /\ UNCHANGED page
  <2>1. /\ page # None /\ ~busy /\ ~syncing /\ i \notin checklistBusy
        /\ Begin("checklist", i, page.sid)
        /\ checklistBusy' = checklistBusy \cup {i}
        /\ UNCHANGED <<sessions, page, busy, mediaBusy, syncing, polling,
                       alerted, failures>>
    BY <1>9, Zenon DEF UpdateChecklistItem
  <2>2. OneBlocking(requests, busy) /\ Controls(requests, page, checklistBusy, syncing)
    BY <1>1, TInvFacts DEF Flight, Parts
  <2>3. \A n \in DOMAIN requests : requests[n].kind \in Serial =>
            requests[n].kind = "checklist" /\ requests[n].item # i
    BY <2>1, <2>2 DEF OneBlocking, Controls, Serial
  <2>4. \A n \in DOMAIN requests : requests[n].kind = "checklist" =>
            requests[n].item \in checklistBusy'
    BY <2>1, <2>2 DEF Controls
  <2>5. \A n \in DOMAIN requests : requests[n].kind # "sync"
    BY <2>3 DEF Serial
  <2>6. i # None
    BY SessionPageAssumption
  <2>7. Clear(requests, "checklist", i, page.sid, page, checklistBusy', syncing')
    BY <1>1, <2>1, <2>3, <2>4, <2>5, <2>6 DEF Clear
  <2>8. "checklist" \in Kinds
    BY DEF Kinds
  <2> QED BY <1>3, <2>1, <2>7, <2>8
<1> QED BY <1>2, <1>5, <1>6, <1>7, <1>8, <1>9

-----------------------------------------------------------------------------
(***************************************************************************)
(* What the server answers and the provider decides.                       *)
(***************************************************************************)
LEMMA AsNewTransitive ==
  ASSUME NEW u, NEW v, NEW w, u.changes \in Nat, v.changes \in Nat, w.changes \in Nat,
         AsNew(w, v), AsNew(v, u)
  PROVE  AsNew(w, u)
  BY DEF AsNew

\* The page and every answer have a number of changes.
LEMMA ViewChanges ==
  ASSUME TInv
  PROVE  /\ page # None => page.changes \in Nat /\ page.sid \in DOMAIN sessions
         /\ \A n \in DOMAIN requests : requests[n].answer # None =>
               /\ requests[n].answer.changes \in Nat
               /\ requests[n].answer.sid \in DOMAIN sessions
               /\ requests[n].answer.sid \in Nat
<1>1. /\ page # None => page \in ViewType
      /\ page # None => page.sid \in DOMAIN sessions
      /\ \A n \in DOMAIN requests : requests[n] \in RequestType
      /\ Known(requests, sessions)
      /\ DOMAIN sessions = 1..Len(sessions) /\ Len(sessions) \in Nat
  BY TInvFacts DEF Flight
<1>2. \A v \in ViewType : v.changes \in Nat /\ v.sid \in Nat
  BY SessionPageAssumption DEF ViewType
<1>3. \A n \in DOMAIN requests : requests[n].answer \in ViewType \cup {None}
  BY <1>1, ReqFields
<1> QED BY <1>1, <1>2, <1>3 DEF Known

\* Sessions that only move on leave every view behind.
LEMMA ServerMovesOn ==
  ASSUME TInv, Behind(requests, sessions, page),
         NEW ss \in Seq(SessionType), Len(sessions) <= Len(ss),
         \A s \in DOMAIN sessions : AsNew(ss[s], sessions[s])
  PROVE  Behind(requests, ss, page)
<1>1. /\ sessions \in Seq(SessionType) /\ DOMAIN sessions = 1..Len(sessions)
      /\ Len(sessions) \in Nat /\ DOMAIN ss = 1..Len(ss) /\ Len(ss) \in Nat
  BY TInvFacts
<1>2. ASSUME NEW s \in DOMAIN sessions
      PROVE  sessions[s].changes \in Nat /\ ss[s].changes \in Nat /\ AsNew(ss[s], sessions[s])
  BY <1>1, SessionFields
<1>3. page # None => AsNew(ss[page.sid], page)
  BY <1>2, ViewChanges, AsNewTransitive DEF Behind
<1>4. ASSUME NEW n \in DOMAIN requests, requests[n].answer # None
      PROVE  AsNew(ss[requests[n].answer.sid], requests[n].answer)
  BY <1>2, <1>4, ViewChanges, AsNewTransitive DEF Behind
<1> QED BY <1>3, <1>4 DEF Behind

LEMMA HandlePInv ==
  ASSUME TInv, TInv', PInv, NEW n \in DOMAIN requests, Handle(n)
  PROVE  PInv' /\ UNCHANGED page
<1> DEFINE q == requests[n]
<1>1. PICK sid \in DOMAIN sessions' :
        /\ Served(q, sid, sessions, sessions')
        /\ requests' = [requests EXCEPT ![n].answer = View(sid, sessions')]
  BY HandleServes
<1> DEFINE v == View(sid, sessions')
<1>2. /\ UNCHANGED <<page, appliedAge, alerted, checklistBusy, syncing>>
      /\ q.answer = None
  BY HandleServes DEF Handle, local
<1>3. /\ requests \in Seq(RequestType)
      /\ sessions \in Seq(SessionType) /\ DOMAIN sessions = 1..Len(sessions)
      /\ Len(sessions) \in Nat
      /\ page # None => page.sid \in 1..Len(sessions)
  BY TInvFacts
<1>4. /\ sessions' \in Seq(SessionType) /\ DOMAIN sessions' = 1..Len(sessions')
      /\ Len(sessions') \in Nat /\ Len(sessions) <= Len(sessions')
      /\ Len(sessions') <= MaxSessions
  <2>1. sessions' \in Seq(SessionType) /\ Len(sessions') <= MaxSessions
    BY TInvPartsNext DEF Held
  <2> QED BY <1>1, <1>3, <2>1 DEF Served
<1>5. /\ v \in ViewType /\ v # None /\ v.sid = sid
      /\ v.changes = sessions'[sid].changes /\ v.status = sessions'[sid].status
      /\ v.changes \in Nat
  BY <1>4, ViewFields, SessionFields
<1>6. Answers(requests', requests, n, v)
  BY <1>1, <1>3, <1>5, AnswerAnswers
<1> HIDE DEF v
<1>7. /\ DOMAIN requests' = DOMAIN requests
      /\ \A k \in DOMAIN requests :
            /\ requests'[k].kind = requests[k].kind /\ requests'[k].item = requests[k].item
            /\ requests'[k].sid = requests[k].sid /\ requests'[k].age = requests[k].age
            /\ requests'[k].replaced = requests[k].replaced
            /\ k # n => requests'[k].answer = requests[k].answer
      /\ requests'[n].answer = v
  BY <1>6 DEF Answers
<1>8. /\ Latest(requests, appliedAge) /\ Behind(requests, sessions, page)
      /\ Onward(requests, page) /\ Fresh(requests, page)
      /\ Controls(requests, page, checklistBusy, syncing)
      /\ Alone(requests) /\ Current(requests, sessions)
      /\ Explained(requests, sessions, page, alerted)
  BY DEF PInv, Parts
<1>9. \A s \in DOMAIN sessions :
        /\ AsNew(sessions'[s], sessions[s])
        /\ \/ sessions'[s].changes = sessions[s].changes
           \/ q.kind \in Changing
  BY <1>1 DEF Served
<1>10. q.kind \in Changing => q.kind \in Serial
  BY <1>8 DEF Latest, Changing, Serial, Blocking
<1>11. Behind(requests, sessions', page)
  BY <1>4, <1>8, <1>9, ServerMovesOn
<1>12. Latest(requests', appliedAge)
  BY <1>7, <1>8 DEF Latest
<1>13. Behind(requests', sessions', page)
  <2>1. AsNew(sessions'[sid], v)
    BY <1>5 DEF AsNew
  <2> QED BY <1>5, <1>7, <1>11, <2>1 DEF Behind
<1>14. Onward(requests', page)
  <2>1. q.kind # "create" => v.sid = q.sid
    BY <1>1, <1>5 DEF Served
  <2>2. q.kind = "create" /\ page # None => page.sid < v.sid
    BY <1>1, <1>3, <1>5 DEF Served
  <2>3. ASSUME NEW k \in DOMAIN requests, k # n
        PROVE  requests'[k].answer = requests[k].answer
    BY <1>7, <2>3
  <2> QED BY <1>7, <1>8, <2>1, <2>2, <2>3 DEF Onward
<1>15. Fresh(requests', page)
  <2>1. page # None /\ v.sid = page.sid => AsNew(v, page)
    BY <1>5, <1>11 DEF Behind, AsNew
  <2> QED BY <1>7, <1>8, <2>1 DEF Fresh
<1>16. Controls(requests', page, checklistBusy, syncing)
  BY <1>7, <1>8 DEF Controls
<1>17. Alone(requests')
  BY <1>7, <1>8 DEF Alone
<1>18. Current(requests', sessions')
  <2> SUFFICES ASSUME NEW k \in DOMAIN requests, requests[k].age = 0,
                      requests[k].kind # "checklist", requests'[k].answer # None
               PROVE  requests'[k].answer.changes = sessions'[requests'[k].answer.sid].changes
    BY <1>7 DEF Current
  <2>1. CASE k = n
    BY <1>5, <1>7, <2>1
  <2>2. CASE k # n
    <3>1. requests'[k].answer = requests[k].answer
      BY <1>7, <2>2
    <3>2. q.kind \notin Serial
      BY <1>8, <2>2 DEF Alone
    <3>3. requests[k].answer.changes = sessions[requests[k].answer.sid].changes
      BY <1>8, <3>1 DEF Current
    <3>4. requests[k].answer.sid \in DOMAIN sessions
      BY <3>1, ViewChanges
    <3> QED BY <1>9, <1>10, <3>1, <3>2, <3>3, <3>4
  <2> QED BY <2>1, <2>2
<1>19. Explained(requests', sessions', page, alerted)
  <2>1. CASE q.kind \in Serial
    BY <1>7, <2>1 DEF Explained
  <2>2. CASE q.kind \notin Serial
    <3>1. page # None => sessions'[page.sid].changes = sessions[page.sid].changes
      BY <1>3, <1>9, <1>10, <2>2
    <3> QED BY <1>7, <1>8, <3>1 DEF Explained
  <2> QED BY <2>1, <2>2
<1>20. Parts(requests', appliedAge, sessions', page, checklistBusy, syncing)
  BY <1>12, <1>13, <1>14, <1>15, <1>16, <1>17, <1>18 DEF Parts
<1> QED BY <1>2, <1>19, <1>20, PInvNextIs

LEMMA DecisionPInv ==
  ASSUME TInv, PInv, NEW sid \in DOMAIN sessions, ProviderDecides(sid)
  PROVE  PInv' /\ UNCHANGED page
<1>1. /\ sessions' \in Seq(SessionType) /\ Len(sessions') = Len(sessions)
      /\ \A s \in DOMAIN sessions :
            /\ AsNew(sessions'[s], sessions[s])
            /\ sessions'[s].changes = sessions[s].changes
      /\ UNCHANGED <<page, busy, mediaBusy, checklistBusy, syncing, polling,
                     requests, appliedAge, alerted, edits, failures>>
  BY DecisionServes
<1>2. /\ Latest(requests, appliedAge) /\ Behind(requests, sessions, page)
      /\ Onward(requests, page) /\ Fresh(requests, page)
      /\ Controls(requests, page, checklistBusy, syncing)
      /\ Alone(requests) /\ Current(requests, sessions)
      /\ Explained(requests, sessions, page, alerted)
  BY DEF PInv, Parts
<1>3. Len(sessions) <= Len(sessions')
  BY <1>1, TInvFacts
<1>4. Behind(requests, sessions', page)
  BY <1>1, <1>2, <1>3, ServerMovesOn
<1>5. Current(requests, sessions') /\ Explained(requests, sessions', page, alerted)
  BY <1>1, <1>2, ViewChanges DEF Current, Explained
<1>6. Parts(requests, appliedAge, sessions', page, checklistBusy, syncing)
  BY <1>2, <1>4, <1>5 DEF Parts
<1> QED BY <1>1, <1>5, <1>6, PInvNextIs

-----------------------------------------------------------------------------
(***************************************************************************)
(* Settling.                                                               *)
(***************************************************************************)
\* The rest, whether the page stays or shows the answer of q, begun last.
LEMMA SettleParts ==
  ASSUME TInv, Parts(requests, appliedAge, sessions, page, checklistBusy, syncing),
         NEW n \in DOMAIN requests, NEW rest, Without(rest, requests, n),
         NEW pg, NEW age,
         \/ pg = page /\ age = appliedAge
         \/ /\ requests[n].answer # None /\ Accept(requests[n])
            /\ pg = requests[n].answer /\ age = requests[n].age,
         NEW sync, sync <=> syncing /\ requests[n].kind # "sync"
  PROVE  Parts(rest, age, sessions, pg, checklistBusy \ {requests[n].item}, sync)
<1> DEFINE q == requests[n]
           boxes == checklistBusy \ {q.item}
<1>1. /\ Latest(requests, appliedAge) /\ Behind(requests, sessions, page)
      /\ Onward(requests, page) /\ Fresh(requests, page)
      /\ Controls(requests, page, checklistBusy, syncing)
      /\ Alone(requests) /\ Current(requests, sessions)
  BY Zenon DEF Parts
<1>2. /\ \A k \in DOMAIN rest :
            /\ At(n, k) \in DOMAIN requests /\ At(n, k) # n
            /\ rest[k] = requests[At(n, k)]
      /\ \A j, k \in DOMAIN rest : At(n, j) = At(n, k) => j = k
  BY DEF Without
<1>3. OneBlocking(requests, busy) /\ Known(requests, sessions)
  BY TInvFacts DEF Flight
<1>4. CASE pg = page /\ age = appliedAge
  <2>1. Latest(rest, age)
    BY <1>1, <1>2, <1>4 DEF Latest
  <2>2. Behind(rest, sessions, pg) /\ Current(rest, sessions)
    BY <1>1, <1>2, <1>4 DEF Behind, Current
  <2>3. Onward(rest, pg) /\ Fresh(rest, pg)
    BY <1>1, <1>2, <1>4 DEF Onward, Fresh
  <2>4. Alone(rest)
    BY <1>1, <1>2 DEF Alone
  <2>5. Controls(rest, pg, boxes, sync)
    <3>1. ASSUME NEW k \in DOMAIN rest, rest[k].kind = "checklist"
          PROVE  rest[k].item \in boxes
      BY <1>1, <1>2, <3>1 DEF Controls
    <3>2. ASSUME NEW k \in DOMAIN rest, rest[k].kind = "sync" PROVE sync
      <4>1. q.kind # "sync"
        BY <1>1, <1>2, <3>2 DEF Controls, Latest, Serial
      <4> QED BY <1>1, <1>2, <3>2, <4>1 DEF Controls
    <3>3. \A j, k \in DOMAIN rest : rest[j].kind = "checklist" /\ rest[k].kind = "checklist"
              /\ rest[j].item = rest[k].item => j = k
      BY <1>1, <1>2 DEF Controls
    <3>4. \A k \in DOMAIN rest : rest[k].kind \in Serial \ {"create"} => rest[k].sid = pg.sid
      BY <1>1, <1>2, <1>4 DEF Controls
    <3>5. \A k \in DOMAIN rest :
            /\ rest[k].kind \in Serial \ {"checklist"} => rest[k].age = 0 /\ ~rest[k].replaced
            /\ rest[k].kind = "checklist" => rest[k].item # None
            /\ rest[k].kind # "checklist" => rest[k].item = None
      BY <1>1, <1>2 DEF Controls
    <3> HIDE DEF boxes
    <3> QED BY <3>1, <3>2, <3>3, <3>4, <3>5 DEF Controls
  <2> QED BY <2>1, <2>2, <2>3, <2>4, <2>5 DEF Parts
<1>5. CASE /\ q.answer # None /\ Accept(q) /\ pg = q.answer /\ age = q.age
  <2>1. /\ q.age = 0 /\ (q.sid # 0 => page # None /\ q.sid = page.sid /\ q.sid = pg.sid)
    BY <1>5 DEF Accept
  <2>2. pg # None /\ pg.sid \in Nat
    BY <1>5, ViewChanges
  <2>3. page # None => page.sid \in Nat /\ page.sid <= pg.sid
    <3>1. page # None => page.sid \in Nat
      BY TInvFacts
    <3>2. CASE q.sid = 0
      <4>1. q.kind = "create"
        BY <1>3, <3>2 DEF Known
      <4>2. page # None => page.sid < pg.sid
        BY <1>1, <1>5, <4>1 DEF Onward
      <4> QED BY <2>2, <3>1, <4>2
    <3>3. CASE q.sid # 0
      BY <2>1, <2>2, <3>1, <3>3
    <3> QED BY <3>2, <3>3
  <2>4. \A k \in DOMAIN rest : rest[k].age # 0
    BY <1>1, <1>2, <2>1 DEF Latest
  <2>5. Latest(rest, age)
    BY <1>1, <1>2, <2>4 DEF Latest
  <2>6. Behind(rest, sessions, pg)
    BY <1>1, <1>2, <1>5 DEF Behind
  <2>7. Fresh(rest, pg) /\ Alone(rest) /\ Current(rest, sessions)
    BY <2>4 DEF Fresh, Alone, Current
  <2>8. Onward(rest, pg)
    <3>1. ASSUME NEW k \in DOMAIN rest, rest[k].kind # "create"
          PROVE  /\ rest[k].sid <= pg.sid
                 /\ rest[k].answer # None => rest[k].answer.sid = rest[k].sid
      <4>1. page # None /\ rest[k].sid <= page.sid
        BY <1>1, <1>2, <3>1 DEF Onward
      <4>2. rest[k].sid \in Nat
        BY <1>2, <1>3, TInvFacts DEF Known
      <4> QED BY <1>1, <1>2, <2>2, <2>3, <3>1, <4>1, <4>2 DEF Onward
    <3>2. ASSUME NEW k \in DOMAIN rest, rest[k].kind = "create", rest[k].answer # None
          PROVE  pg.sid < rest[k].answer.sid
      <4>1. q.kind # "create"
        BY <1>2, <1>3, <3>2 DEF OneBlocking, Blocking
      <4>2. page # None /\ pg.sid = page.sid
        BY <1>3, <2>1, <4>1 DEF Known
      <4> QED BY <1>1, <1>2, <3>2, <4>2 DEF Onward
    <3> QED BY <2>2, <3>1, <3>2 DEF Onward
  <2>9. Controls(rest, pg, boxes, sync)
    <3>1. ASSUME NEW k \in DOMAIN rest, rest[k].kind \in Serial
          PROVE  /\ rest[k].kind = "checklist" /\ q.kind = "checklist"
                 /\ rest[k].item \in boxes /\ rest[k].item # None
                 /\ rest[k].sid = pg.sid
      <4>1. rest[k].kind = "checklist"
        BY <1>1, <1>2, <2>4, <3>1 DEF Controls
      <4>2. q.kind = "checklist"
        BY <1>1, <1>2, <2>1, <3>1 DEF Alone
      <4>3. q.sid # 0
        BY <1>3, <4>2 DEF Known
      <4>4. rest[k].sid = page.sid
        BY <1>1, <1>2, <3>1, <4>1 DEF Controls
      <4>5. rest[k].item # q.item /\ rest[k].item \in checklistBusy /\ rest[k].item # None
        BY <1>1, <1>2, <4>1, <4>2 DEF Controls
      <4> QED BY <2>1, <4>1, <4>2, <4>3, <4>4, <4>5
    <3>2. /\ "checklist" \in Serial /\ "sync" \in Serial
      BY DEF Serial
    <3>3. \A j, k \in DOMAIN rest : rest[j].kind = "checklist" /\ rest[k].kind = "checklist"
              /\ rest[j].item = rest[k].item => j = k
      BY <1>1, <1>2 DEF Controls
    <3>4. \A k \in DOMAIN rest : rest[k].kind # "checklist" => rest[k].item = None
      BY <1>1, <1>2 DEF Controls
    <3> HIDE DEF boxes, q
    <3> QED BY <3>1, <3>2, <3>3, <3>4 DEF Controls
  <2> QED BY <2>5, <2>6, <2>7, <2>8, <2>9 DEF Parts
<1> QED BY <1>4, <1>5

\* The checklist is read again when its last item has settled.
LEMMA FinishParts ==
  ASSUME TInv, Parts(requests, appliedAge, sessions, page, checklistBusy, syncing),
         NEW n \in DOMAIN requests, NEW age \in 0..MaxAge,
         Finish(requests[n], Others(n), age),
         \/ page' = page /\ age = appliedAge
         \/ /\ requests[n].answer # None /\ Accept(requests[n])
            /\ page' = requests[n].answer /\ age = requests[n].age
  PROVE  Parts(requests', appliedAge', sessions, page', checklistBusy', syncing')
<1> DEFINE q == requests[n]
           rest == Others(n)
           sync2 == syncing /\ q.kind # "sync"
<1>1. /\ requests \in Seq(RequestType) /\ q \in RequestType
      /\ DOMAIN sessions = 1..Len(sessions) /\ Len(sessions) \in Nat
      /\ Len(sessions) <= MaxSessions
  BY TInvFacts
<1>2. Without(rest, requests, n)
  BY <1>1, RemovedWithout DEF Others
<1>3. /\ checklistBusy' = checklistBusy \ {q.item}
      /\ \/ /\ SyncDue(q) /\ syncing' = TRUE
            /\ requests' = Sent("sync", None, q.sid, rest)
            /\ appliedAge' = Older(age)
         \/ /\ syncing' = sync2 /\ requests' = rest /\ appliedAge' = age
  BY Zenon DEF Finish
<1>4. sync2 <=> syncing /\ q.kind # "sync"
  OBVIOUS
<1> HIDE DEF sync2, rest
<1>5. Parts(rest, age, sessions, page', checklistBusy', sync2)
  BY <1>2, <1>3, <1>4, SettleParts
<1>6. CASE requests' = rest /\ syncing' = sync2 /\ appliedAge' = age
  BY <1>5, <1>6
<1>7. CASE /\ SyncDue(q) /\ syncing' = TRUE /\ appliedAge' = Older(age)
           /\ requests' = Sent("sync", None, q.sid, rest)
  <2>1. /\ q.kind = "checklist" /\ checklistBusy' = {}
        /\ page' # None /\ page'.sid = q.sid
    BY <1>7 DEF SyncDue
  <2>2. /\ Known(requests, sessions) /\ Controls(requests, page, checklistBusy, syncing)
        /\ Alone(requests)
    BY TInvFacts DEF Flight, Parts
  <2>3. q.sid \in 0..Len(sessions) /\ q.sid \in Nat /\ q.sid \in 0..MaxSessions
    BY <1>1, <2>2, SessionPageAssumption DEF Known
  <2>4. rest \in Seq(RequestType)
    BY <1>2 DEF Without
  <2>5. Extends(requests', rest, "sync", None, q.sid)
    BY <1>7, <2>3, <2>4, SentExtends DEF Kinds, Sync
  <2>6. Controls(rest, page', checklistBusy', sync2)
    BY <1>5 DEF Parts
  <2>7. ASSUME NEW k \in DOMAIN rest, rest[k].kind \in Serial PROVE FALSE
    <3>1. /\ At(n, k) \in DOMAIN requests /\ At(n, k) # n
          /\ rest[k] = requests[At(n, k)]
      BY <1>2 DEF Without
    <3>2. rest[k].kind # "checklist"
      BY <2>1, <2>6 DEF Controls
    <3>3. rest[k].age = 0
      BY <2>2, <2>7, <3>1, <3>2 DEF Controls
    <3>4. q.kind \in Serial
      BY <2>1 DEF Serial
    <3> QED BY <2>2, <3>1, <3>2, <3>3, <3>4 DEF Alone
  <2>8. Clear(rest, "sync", None, q.sid, page', checklistBusy', syncing')
    BY <1>7, <2>1, <2>3, <2>7 DEF Clear, Serial
  <2> QED BY <1>5, <1>7, <2>5, <2>8, BeginParts
<1> QED BY <1>3, <1>6, <1>7

\* An operation other than saving the checklist was begun last: its answer is
\* accepted.
LEMMA SerialAccepted ==
  ASSUME TInv, PInv, NEW n \in DOMAIN requests, requests[n].answer # None,
         requests[n].kind \in Serial \ {"checklist"}
  PROVE  Accept(requests[n])
<1> DEFINE q == requests[n]
<1>1. /\ Latest(requests, appliedAge) /\ Onward(requests, page)
      /\ Controls(requests, page, checklistBusy, syncing)
      /\ Known(requests, sessions)
  BY TInvFacts DEF PInv, Parts, Flight
<1>2. q.age = 0 /\ ~q.replaced
  BY <1>1 DEF Controls
<1>3. q.age < appliedAge
  BY <1>1, <1>2 DEF Latest
<1>4. q.sid # 0 => page # None /\ q.sid = page.sid /\ q.sid = q.answer.sid
  BY <1>1 DEF Onward, Controls, Known
<1> QED BY <1>2, <1>3, <1>4 DEF Accept

\* After the checklist is saved, either other items are being saved or the
\* session is read again.
LEMMA ChecklistGoesOn ==
  ASSUME TInv, TInv', PInv, NEW n \in DOMAIN requests, NEW age,
         Finish(requests[n], Others(n), age), requests[n].kind = "checklist",
         \/ page' = page
         \/ /\ requests[n].answer # None /\ Accept(requests[n])
            /\ page' = requests[n].answer
  PROVE  \E k \in DOMAIN requests' : requests'[k].kind \in Serial
<1> DEFINE q == requests[n]
<1>1. InFlight(requests', busy', mediaBusy', checklistBusy', syncing')
  BY TInvPartsNext DEF Flight
<1>2. CASE checklistBusy' # {}
  <2>1. "checklist" \in Serial
    BY DEF Serial
  <2> QED BY <1>1, <1>2, <2>1 DEF InFlight
<1>3. CASE checklistBusy' = {}
  <2>1. /\ Onward(requests, page) /\ Known(requests, sessions)
        /\ Controls(requests, page, checklistBusy, syncing)
    BY TInvFacts DEF PInv, Parts, Flight
  <2>2. "checklist" \in Serial /\ "sync" \in Serial
    BY DEF Serial
  <2>3. page # None /\ q.sid = page.sid /\ q.sid # 0
    BY <2>1, <2>2 DEF Onward, Controls, Known
  <2>4. page' # None /\ page'.sid = q.sid
    BY <2>3 DEF Accept
  <2>5. SyncDue(q)
    BY <1>3, <2>4 DEF SyncDue
  <2>6. syncing'
    BY <2>5, Zenon DEF Finish
  <2> QED BY <1>1, <2>2, <2>6 DEF InFlight
<1> QED BY <1>2, <1>3

\* What an accepted answer shows is at least as new as what the page showed.
LEMMA AcceptedForward ==
  ASSUME TInv, PInv, NEW n \in DOMAIN requests, requests[n].answer # None,
         Accept(requests[n]), page' = requests[n].answer
  PROVE  Forward
<1> DEFINE q == requests[n]
<1> SUFFICES ASSUME page # None PROVE Forward
  BY DEF Forward
<1>1. /\ Onward(requests, page) /\ Fresh(requests, page) /\ Known(requests, sessions)
  BY TInvFacts DEF PInv, Parts, Flight
<1>2. q.age = 0 /\ (q.sid # 0 => q.sid = page.sid /\ q.sid = q.answer.sid)
  BY DEF Accept
<1>3. page.sid \in Nat /\ q.answer.sid \in Nat
  BY TInvFacts, ViewChanges
<1>4. CASE q.sid = 0
  <2>1. page.sid < q.answer.sid
    BY <1>1, <1>4 DEF Onward, Known
  <2> QED BY <1>3, <2>1 DEF Forward
<1>5. CASE q.sid # 0
  <2>1. q.answer.sid = page.sid
    BY <1>2, <1>5
  <2>2. AsNew(q.answer, page)
    BY <1>1, <1>2, <2>1 DEF Fresh
  <2> QED BY <1>3, <2>1, <2>2 DEF Forward, AsNew
<1> QED BY <1>4, <1>5

LEMMA StillForward ==
  ASSUME TInv, UNCHANGED page
  PROVE  Forward
<1>1. page # None => page.sid \in Nat /\ page.changes \in Nat
  BY TInvFacts, ViewChanges
<1> QED BY <1>1 DEF Forward

LEMMA SettledPInv ==
  ASSUME TInv, TInv', PInv, NEW n \in DOMAIN requests, Settle(n) \/ Failed(n)
  PROVE  PInv' /\ Forward
<1> DEFINE q == requests[n]
<1>1. /\ Parts(requests, appliedAge, sessions, page, checklistBusy, syncing)
      /\ Explained(requests, sessions, page, alerted)
      /\ appliedAge \in 0..MaxAge /\ q \in RequestType /\ q.age \in 0..MaxAge
      /\ q.kind \in Kinds /\ requests \in Seq(RequestType)
  <2>1. q \in RequestType /\ appliedAge \in 0..MaxAge /\ requests \in Seq(RequestType)
    BY TInvFacts
  <2> QED BY <2>1, ReqFields DEF PInv
<1>2. CASE Applied(n)
  <2>1. /\ q.answer # None /\ Accept(q) /\ page' = q.answer
        /\ alerted' = (alerted /\ q.kind = "checklist")
        /\ Finish(q, Others(n), q.age) /\ UNCHANGED <<sessions, edits, failures>>
    BY <1>2, Zenon DEF Applied
  <2>2. Parts(requests', appliedAge', sessions, page', checklistBusy', syncing')
    BY <1>1, <2>1, FinishParts
  <2>3. Forward
    BY <2>1, AcceptedForward
  <2>4. Explained(requests', sessions', page', alerted')
    <3>1. CASE q.kind = "checklist"
      BY <2>1, <3>1, ChecklistGoesOn DEF Explained
    <3>2. CASE q.kind # "checklist"
      <4>1. Current(requests, sessions) /\ q.age = 0
        BY <1>1, <2>1 DEF Parts, Accept
      <4>2. q.answer.changes = sessions[q.answer.sid].changes
        BY <2>1, <3>2, <4>1 DEF Current
      <4> QED BY <2>1, <4>2 DEF Explained
    <3> QED BY <3>1, <3>2
  <2> QED BY <2>1, <2>2, <2>3, <2>4, PInvNextIs
<1>3. CASE Dropped(n)
  <2>1. /\ q.answer # None /\ ~Accept(q)
        /\ UNCHANGED <<sessions, page, polling, alerted, edits, failures>>
        /\ Finish(q, Others(n), appliedAge)
    BY <1>3, Zenon DEF Dropped
  <2>2. Parts(requests', appliedAge', sessions, page', checklistBusy', syncing')
    BY <1>1, <2>1, FinishParts
  <2>3. Forward
    BY <2>1, StillForward
  <2>4. Explained(requests', sessions', page', alerted')
    <3>1. CASE q.kind = "checklist"
      BY <2>1, <3>1, ChecklistGoesOn DEF Explained
    <3>2. CASE q.kind # "checklist"
      <4>1. q.kind \notin Serial
        BY <2>1, <3>2, SerialAccepted
      <4>2. Without(Others(n), requests, n)
        BY <1>1, RemovedWithout DEF Others
      <4>3. requests' = Others(n)
        BY <2>1, <3>2, Zenon DEF Finish, SyncDue
      <4>4. ASSUME NEW m \in DOMAIN requests, requests[m].kind \in Serial
            PROVE  \E k \in DOMAIN requests' : requests'[k].kind \in Serial
        <5>1. m \in DOMAIN requests \ {n}
          BY <4>1, <4>4
        <5>2. PICK k \in DOMAIN Others(n) : Others(n)[k] = requests[m]
          BY <4>2, <5>1 DEF Without
        <5> QED BY <4>3, <4>4, <5>2
      <4> QED BY <1>1, <2>1, <4>4 DEF Explained
    <3> QED BY <3>1, <3>2
  <2> QED BY <2>1, <2>2, <2>3, <2>4, PInvNextIs
<1>4. CASE ApplyMediaResponse(n)
  BY <1>1, <1>4 DEF ApplyMediaResponse, Parts, Latest
<1>5. CASE Failed(n)
  <2>1. /\ page' = page /\ alerted' = TRUE /\ Finish(q, Others(n), appliedAge)
        /\ UNCHANGED <<sessions, edits>>
    BY <1>5, Zenon DEF Failed
  <2>2. Parts(requests', appliedAge', sessions, page', checklistBusy', syncing')
    BY <1>1, <2>1, FinishParts
  <2>3. Forward
    BY <2>1, StillForward
  <2>4. Explained(requests', sessions', page', alerted')
    BY <2>1 DEF Explained
  <2> QED BY <2>1, <2>2, <2>3, <2>4, PInvNextIs
<1> QED BY <1>2, <1>3, <1>4, <1>5 DEF Settle

LEMMA InitIInv == Init => IInv
<1> SUFFICES ASSUME Init PROVE IInv
  OBVIOUS
<1>1. /\ DOMAIN requests = {1} /\ requests[1].kind = "create" /\ requests[1].item = None
      /\ requests[1].sid = 0 /\ requests[1].answer = None
      /\ requests[1].age = 0 /\ requests[1].replaced = FALSE
  BY InitFacts
<1>2. page = None /\ appliedAge = 1
  BY DEF Init
<1>3. /\ Latest(requests, appliedAge) /\ Behind(requests, sessions, page)
      /\ Onward(requests, page) /\ Fresh(requests, page)
  BY <1>1, <1>2 DEF Latest, Behind, Onward, Fresh
<1>4. /\ Controls(requests, page, checklistBusy, syncing)
      /\ Alone(requests) /\ Current(requests, sessions)
      /\ Explained(requests, sessions, page, alerted)
  BY <1>1, <1>2 DEF Controls, Alone, Current, Explained, Serial
<1> QED BY <1>3, <1>4, InitTInv DEF IInv, PInv, Parts

LEMMA NextIInv ==
  ASSUME IInv, [Next]_vars
  PROVE  IInv' /\ (~images => Forward)
<1>1. TInv /\ TInv'
  BY NextTInv DEF IInv
<1>2. CASE UNCHANGED vars
  <2>1. UNCHANGED <<sessions, page, checklistBusy, syncing, requests, appliedAge,
                    alerted, images>>
    BY <1>2 DEF vars, local
  <2>2. ASSUME ~images PROVE PInv'
    <3>1. /\ Parts(requests, appliedAge, sessions, page, checklistBusy, syncing)
          /\ Explained(requests, sessions, page, alerted)
      BY <2>2 DEF IInv, PInv
    <3> QED BY <2>1, <3>1, PInvNextIs
  <2> QED BY <1>1, <2>1, <2>2, StillForward DEF IInv
<1>3. CASE Next
  <2>1. /\ UNCHANGED images
        /\ \/ StartOver \/ StartEdit \/ ConfirmDispatch \/ StartMedia \/ RefreshSession
           \/ \E i \in Item : UpdateChecklistItem(i)
           \/ \E n \in DOMAIN requests : Handle(n)
           \/ \E n \in DOMAIN requests : Settle(n)
           \/ \E n \in DOMAIN requests : Failed(n)
           \/ \E n \in DOMAIN requests : MediaStale(n)
           \/ \E sid \in DOMAIN sessions : ProviderDecides(sid)
    BY <1>3, Zenon DEF Next, Step
  <2>2. ASSUME ~images PROVE PInv' /\ Forward
    <3>1. PInv
      BY <2>2 DEF IInv
    <3>2. ASSUME NEW n \in DOMAIN requests, MediaStale(n) PROVE FALSE
      BY <3>1, <3>2 DEF MediaStale, PInv, Parts, Latest
    <3>3. CASE \/ StartOver \/ StartEdit \/ ConfirmDispatch \/ StartMedia \/ RefreshSession
               \/ \E i \in Item : UpdateChecklistItem(i)
      BY <1>1, <2>2, <3>1, <3>3, StartPInv, StillForward
    <3>4. CASE \E n \in DOMAIN requests : Handle(n)
      BY <1>1, <3>1, <3>4, HandlePInv, StillForward
    <3>5. CASE \E n \in DOMAIN requests : Settle(n) \/ Failed(n)
      BY <1>1, <3>1, <3>5, SettledPInv
    <3>6. CASE \E sid \in DOMAIN sessions : ProviderDecides(sid)
      BY <1>1, <3>1, <3>6, DecisionPInv, StillForward
    <3> QED BY <2>1, <3>2, <3>3, <3>4, <3>5, <3>6
  <2> QED BY <1>1, <2>1, <2>2 DEF IInv
<1> QED BY <1>2, <1>3

LEMMA Inductive == Spec => []IInv
<1>1. IInv /\ [Next]_vars => IInv'
  BY NextIInv
<1> QED BY <1>1, InitIInv, PTL DEF Spec

\* SessionResponseCoordinator, as long as the consumer uses no image: no answer,
\* however late, takes the page back to a replaced session, to before a change
\* it has shown or from a decision to the wait for it.
THEOREM CoordinatedCorrect == Spec => CoordinatedNeverOlder
<1>1. IInv /\ [Next]_vars => [~images => Forward]_vars
  BY NextIInv
<1> QED BY <1>1, Inductive, PTL DEF Spec, CoordinatedNeverOlder

\* The page that has no request in flight and has shown no failure shows every
\* change the server made for the consumer: the answer of the last operation is
\* never dropped, and the session is read again after items of the checklist
\* were saved side by side.
THEOREM SettledCorrect == Spec => []SettledPageIsCurrent
<1>1. IInv => SettledPageIsCurrent
  <2> SUFFICES ASSUME IInv, requests = << >>, ~alerted, ~images, page # None
               PROVE  page.changes = sessions[page.sid].changes
    BY DEF SettledPageIsCurrent
  <2>1. Explained(requests, sessions, page, alerted)
    BY DEF IInv, PInv
  <2>2. DOMAIN requests = {}
    OBVIOUS
  <2> QED BY <2>1, <2>2 DEF Explained
<1> QED BY <1>1, Inductive, PTL
=============================================================================
