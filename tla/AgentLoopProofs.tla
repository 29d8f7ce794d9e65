-------------------------- MODULE AgentLoopProofs --------------------------
(***************************************************************************)
(* What a turn of the agent may do to a session, for any texts, any bound  *)
(* on the steps and calls of a turn and any window of texts.               *)
(*                                                                         *)
(* The argument: a turn collects what the tools found beside the record,   *)
(* and beside the conversation a mark of where it began.  The mark agrees  *)
(* with the record, which nobody else changes, and the conversation with   *)
(* what was collected as long as every entry was good; the end of the turn *)
(* takes one pair or the other.  The texts the provenance check looks at   *)
(* are the last ones captured, so what it finds in them is what the        *)
(* captured texts say last; a text put aside joins them only if its branch *)
(* is confirmed, and is kept for exactly as long as that is open.          *)
(***************************************************************************)
EXTENDS AgentLoop, SequenceTheorems, FiniteSetTheorems, TLAPS

IsMemory(mem) == mem = [place |-> mem.place, form |-> mem.form, failed |-> mem.failed]
IsTurn(t) ==
    t = [at |-> t.at, steps |-> t.steps, left |-> t.left, verdict |-> t.verdict,
         evidence |-> t.evidence, location |-> t.location, source |-> t.source,
         mark |-> t.mark]
IsRecord(r) == DOMAIN r = DOMAIN W!NewRecord(1) /\ r = [f \in DOMAIN r |-> r[f]]

\* A conversation and the facts of a session agree.
Agrees(mem, place, source) ==
    /\ ~mem.failed
    /\ mem.place \in {None, place}
    /\ mem.place = None => place = None
    /\ mem.form => source
MemoryInv ==
    /\ IsRecord(rec) /\ IsMemory(memory)
    /\ Idle => Agrees(memory, rec.location, rec.source)
    /\ IsTurn(turn) /\ turn.verdict \in {"ok", "recoverable", "fatal"}
    /\ ~Idle =>
         /\ IsMemory(turn.mark)
         /\ Agrees(turn.mark, rec.location, rec.source)
         /\ turn.verdict = "ok" => Agrees(memory, turn.location, turn.source)

-----------------------------------------------------------------------------
(***************************************************************************)
(* The operators of WebSession keep the shape of a record.                 *)
(***************************************************************************)
Field == {"branch", "location", "source", "form", "state", "evidence",
          "routing", "pending", "place"}
LEMMA Fields == ASSUME NEW r, IsRecord(r) PROVE Field \subseteq DOMAIN r
  BY DEF IsRecord, Field, W!NewRecord

LEMMA StartKeeps ==
    ASSUME NEW r, IsRecord(r)
    PROVE  /\ IsRecord(W!StartGuided(W!Derived(r)))
           /\ W!StartGuided(W!Derived(r)).location = r.location
           /\ W!StartGuided(W!Derived(r)).source = r.source
           /\ W!StartGuided(W!Derived(r)).pending = r.pending
<1>1. IsRecord(W!Derived(r)) /\ W!Derived(r).location = r.location
      /\ W!Derived(r).source = r.source /\ W!Derived(r).pending = r.pending
  BY Fields DEF Field, IsRecord, W!Derived
<1>2. ASSUME NEW q, IsRecord(q)
      PROVE  /\ IsRecord(W!StartGuided(q)) /\ W!StartGuided(q).location = q.location
             /\ W!StartGuided(q).source = q.source
             /\ W!StartGuided(q).pending = q.pending
  BY <1>2, Fields DEF Field, IsRecord, W!StartGuided
<1> QED
  BY <1>1, <1>2

LEMMA WithdrawnKeeps ==
    ASSUME NEW r, IsRecord(r)
    PROVE  /\ IsRecord(Withdrawn(r)) /\ Withdrawn(r).location = r.location
           /\ Withdrawn(r).source = r.source /\ Withdrawn(r).pending = FALSE
<1> DEFINE q == [r EXCEPT !.routing = {}, !.pending = FALSE, !.place = FALSE]
<1>1. IsRecord(q)
  BY Fields DEF Field, IsRecord
<1>2. q.location = r.location /\ q.source = r.source /\ q.pending = FALSE
  BY Fields DEF Field, IsRecord
<1>3. Withdrawn(r) = W!Derived(q)
  BY Zenon DEF Withdrawn
<1> HIDE DEF q
<1> QED
  BY <1>1, <1>2, <1>3, Fields DEF Field, IsRecord, W!Derived

LEMMA ConfirmedKeeps ==
    ASSUME NEW r, NEW b, IsRecord(r)
    PROVE  /\ IsRecord(W!Confirmed(r, b)) /\ W!Confirmed(r, b).location = r.location
           /\ W!Confirmed(r, b).source = TRUE /\ W!Confirmed(r, b).pending = FALSE
  BY Fields DEF Field, IsRecord, W!Confirmed

LEMMA ReplacedKeeps ==
    ASSUME IsRecord(rec), NEW b, NEW clear \in BOOLEAN
    PROVE  /\ IsRecord(W!Replaced(b, clear))
           /\ ~clear => W!Replaced(b, clear).location = rec.location
           /\ clear => W!Replaced(b, clear).location = None
<1>1. IsRecord(W!NewVersion(rec)) /\ W!NewVersion(rec).location = rec.location
  BY Fields DEF Field, IsRecord, W!NewVersion
<1> DEFINE flagged(v, w) ==
             [W!NewVersion(rec) EXCEPT
                !.branch = b, !.evidence = {}, !.started = FALSE,
                !.active = FALSE, !.own = None, !.media = 0,
                !.mediaBranch = None, !.mediaOk = FALSE, !.recheck = v,
                !.checklist = @ \ {"consultation"}, !.form = w]
           cleared(r) == [r EXCEPT !.location = None, !.source = FALSE, !.form = None,
                                   !.checklist = @ \ {"location"}]
<1>2. ASSUME NEW v, NEW w
      PROVE  IsRecord(flagged(v, w)) /\ flagged(v, w).location = rec.location
  BY <1>1, Fields DEF Field, IsRecord
<1>3. ASSUME NEW r, IsRecord(r) PROVE IsRecord(cleared(r)) /\ cleared(r).location = None
  BY <1>3, Fields DEF Field, IsRecord
<1> DEFINE v0 == \/ rec.location # None \/ rec.start # 0
                  \/ rec.shared \/ clear
           w0 == IF rec.source THEN b ELSE None
           r0 == flagged(v0, w0)
<1>4. W!Replaced(b, clear) = IF clear THEN cleared(r0) ELSE r0
  BY Zenon DEF W!Replaced
<1>5. IsRecord(r0) /\ r0.location = rec.location
  <2> HIDE DEF v0, w0
  <2> QED
    BY <1>2
<1> HIDE DEF r0
<1> QED
  BY <1>3, <1>4, <1>5

LEMMA CorrectionKeeps ==
    LET r == W!Invalidate(W!LocationCleared(rec)) IN
    IsRecord(rec) => /\ IsRecord(r) /\ r.location = None /\ r.source = FALSE
                     /\ r.pending = rec.pending
<1> SUFFICES ASSUME IsRecord(rec)
             PROVE  LET r == W!Invalidate(W!LocationCleared(rec)) IN
                    /\ IsRecord(r) /\ r.location = None /\ r.source = FALSE
                    /\ r.pending = rec.pending
  OBVIOUS
<1>1. IsRecord(W!LocationCleared(rec)) /\ W!LocationCleared(rec).location = None
      /\ W!LocationCleared(rec).source = FALSE
      /\ W!LocationCleared(rec).pending = rec.pending
  BY Fields DEF Field, IsRecord, W!LocationCleared
<1>2. ASSUME NEW q, IsRecord(q)
      PROVE  /\ IsRecord(W!Invalidate(q)) /\ W!Invalidate(q).location = q.location
             /\ W!Invalidate(q).source = q.source
             /\ W!Invalidate(q).pending = q.pending
  BY <1>2, Fields DEF Field, IsRecord, W!Invalidate, W!NewVersion
<1> QED
  BY <1>1, <1>2

LEMMA NewMemoryAgrees == Agrees(NewMemory, None, FALSE) /\ IsMemory(NewMemory)
  BY DEF Agrees, NewMemory, IsMemory

-----------------------------------------------------------------------------
(***************************************************************************)
(* The conversation agrees with the record.                                *)
(***************************************************************************)
LEMMA BeginKeepsMemory ==
    ASSUME NEW r, NEW mem, IsRecord(r), IsMemory(mem), Agrees(mem, r.location, r.source),
           BeginTurn(r, mem)
    PROVE  MemoryInv'
<1>1. IsTurn(turn') /\ turn'.mark = mem /\ turn'.location = r.location
      /\ turn'.source = r.source /\ turn'.verdict = "ok" /\ ~Idle'
  BY DEF BeginTurn, IsTurn, Idle
<1> QED
  BY <1>1 DEF BeginTurn, MemoryInv

LEMMA EndKeepsMemory ==
    ASSUME MemoryInv, ~Idle, NEW stop, EndTurn(stop) PROVE MemoryInv'
<1>1. Idle' /\ IsTurn(turn') /\ turn'.verdict = "ok" /\ memory' = Remembered(stop)
  BY DEF EndTurn, NoTurn, Idle, IsTurn
<1>2. CASE stop # "completed" \/ turn.verdict = "fatal"
  <2>1. rec' = [rec EXCEPT !.state = "error"] /\ memory' = turn.mark
    BY <1>1, <1>2 DEF EndTurn, Remembered, Good
  <2>2. IsRecord(rec') /\ rec'.location = rec.location /\ rec'.source = rec.source
    BY <2>1, Fields DEF Field, MemoryInv, IsRecord
  <2> QED
    BY <1>1, <2>1, <2>2 DEF MemoryInv
<1>3. CASE ~Good(stop) /\ ~(stop # "completed" \/ turn.verdict = "fatal")
  <2>1. rec' = W!StartGuided(W!Derived(rec)) /\ memory' = turn.mark
    BY <1>1, <1>3 DEF EndTurn, Remembered
  <2>2. IsRecord(rec') /\ rec'.location = rec.location /\ rec'.source = rec.source
    BY <2>1, StartKeeps DEF MemoryInv
  <2> QED
    BY <1>1, <2>1, <2>2 DEF MemoryInv
<1>4. CASE Good(stop)
  <2>1. rec' = W!StartGuided(W!Derived(Committed(rec))) /\ memory' = memory
    BY <1>1, <1>4 DEF EndTurn, Remembered, Good
  <2>2. IsRecord(Committed(rec)) /\ Committed(rec).location = turn.location
        /\ Committed(rec).source = turn.source
    BY Fields DEF Field, MemoryInv, IsRecord, Committed
  <2>3. IsRecord(rec') /\ rec'.location = turn.location /\ rec'.source = turn.source
    BY <2>1, <2>2, StartKeeps
  <2> QED
    BY <1>1, <1>4, <2>1, <2>3 DEF MemoryInv, Good
<1> QED
  BY <1>2, <1>3, <1>4

\* An entry that leaves the turn no longer good leaves the conversation as it
\* may; a good one must leave it in agreement with the turn.
LEMMA ResultKeepsMemory ==
    ASSUME MemoryInv, ~Idle, NEW mem, NEW t, NEW verdict, Result(mem, t, verdict),
           IsMemory(mem), IsTurn(t), t.mark = turn.mark,
           t.verdict = turn.verdict, t.at = turn.at,
           verdict = "ok" /\ turn.verdict = "ok" => Agrees(mem, t.location, t.source),
           verdict \in {"ok", "recoverable", "fatal"}
    PROVE  MemoryInv'
<1>1. rec' = rec /\ memory' = mem
  BY DEF Result, InTurn
<1>2. IsTurn(turn') /\ turn'.mark = turn.mark /\ turn'.location = t.location
      /\ turn'.source = t.source /\ turn'.verdict = Worst(turn.verdict, verdict)
  BY DEF Result, IsTurn
<1>3. turn'.verdict \in {"ok", "recoverable", "fatal"} /\ ~Idle'
  BY <1>2 DEF Worst, MemoryInv, Result, IsTurn, Idle
<1>4. turn'.verdict = "ok" => turn.verdict = "ok" /\ verdict = "ok"
  BY <1>2 DEF Worst, MemoryInv
<1> QED
  BY <1>1, <1>2, <1>3, <1>4 DEF MemoryInv

LEMMA QuietKeepsMemory ==
    ASSUME MemoryInv, Idle, NoNewTurn, IsRecord(rec'),
           rec'.location = rec.location, rec'.source = rec.source
    PROVE  MemoryInv'
  BY DEF MemoryInv, NoNewTurn, Idle

LEMMA DescribeKeepsMemory ==
    ASSUME MemoryInv, NEW t, NEW c, Describe(t, c) \/ PutAside(t, c) PROVE MemoryInv'
<1>1. Idle /\ NoNewTurn
  BY DEF Describe, PutAside, Say
<1>2. \E v, w, x : rec' = [rec EXCEPT !.routing = c, !.pending = v, !.place = w, !.state = x]
  BY DEF Describe, PutAside
<1>3. IsRecord(rec')
  BY <1>2, Fields DEF Field, MemoryInv, IsRecord
<1>4. rec'.location = rec.location /\ rec'.source = rec.source
  BY <1>2, Fields DEF Field, MemoryInv
<1> QED
  BY <1>1, <1>3, <1>4, QuietKeepsMemory

LEMMA WithdrawKeepsMemory ==
    ASSUME MemoryInv, NonTarget \/ \E b \in Branch : RejectProposal(b) PROVE MemoryInv'
<1>1. Idle /\ NoNewTurn /\ rec' = Withdrawn(rec)
  BY DEF NonTarget, RejectProposal, Say, Proposed
<1> QED
  BY <1>1, WithdrawnKeeps, QuietKeepsMemory DEF MemoryInv

\* What the confirmation of b makes of the record, and whether the old place goes.
Moved(b) == rec.branch # None /\ b # rec.branch /\ HasPlace(proposal)
Taken(b) == W!Confirmed(IF rec.branch # None /\ b # rec.branch
                        THEN W!Replaced(b, Moved(b)) ELSE rec, b)
LEMMA ConfirmSteps ==
    ASSUME NEW b, Confirm(b)
    PROVE  /\ Idle /\ proposal' = None
           /\ \/ Taken(b).location # None /\ NoNewTurn
                 /\ rec' = W!StartGuided(W!Derived(Taken(b)))
              \/ BeginTurn(Taken(b), IF Moved(b) THEN NewMemory ELSE memory)
  BY Zenon DEF Confirm, Proposed, Taken, Moved

LEMMA TakenKeeps ==
    ASSUME IsRecord(rec), NEW b
    PROVE  /\ IsRecord(Taken(b)) /\ Taken(b).source = TRUE /\ Taken(b).pending = FALSE
           /\ ~Moved(b) => Taken(b).location = rec.location
           /\ Moved(b) => Taken(b).location = None
<1> DEFINE q == IF rec.branch # None /\ b # rec.branch
                THEN W!Replaced(b, Moved(b)) ELSE rec
<1>1. Moved(b) \in BOOLEAN /\ (Moved(b) => rec.branch # None /\ b # rec.branch)
  BY DEF Moved, HasPlace
<1>2. IsRecord(q) /\ (~Moved(b) => q.location = rec.location)
      /\ (Moved(b) => q.location = None)
  BY <1>1, ReplacedKeeps
<1>3. Taken(b) = W!Confirmed(q, b)
  BY Zenon DEF Taken
<1> HIDE DEF q
<1> QED
  BY <1>2, <1>3, ConfirmedKeeps

LEMMA ConfirmKeepsMemory == ASSUME MemoryInv, NEW b, Confirm(b) PROVE MemoryInv'
<1> DEFINE r == Taken(b)
           mem == IF Moved(b) THEN NewMemory ELSE memory
<1>1. IsRecord(r) /\ r.source = TRUE /\ (~Moved(b) => r.location = rec.location)
      /\ (Moved(b) => r.location = None)
  BY TakenKeeps DEF MemoryInv
<1>2. Idle
  BY ConfirmSteps
<1>3. IsMemory(mem) /\ Agrees(mem, r.location, TRUE)
  BY <1>1, <1>2, NewMemoryAgrees DEF MemoryInv, Agrees
<1>4. CASE r.location # None /\ NoNewTurn /\ rec' = W!StartGuided(W!Derived(r))
  <2>1. ~Moved(b)
    BY <1>1, <1>4
  <2>2. IsRecord(rec') /\ rec'.location = r.location /\ rec'.source = TRUE
    BY <1>1, <1>4, StartKeeps
  <2>3. Agrees(memory, r.location, TRUE)
    BY <1>3, <2>1
  <2> HIDE DEF r
  <2> QED
    BY <1>2, <1>4, <2>2, <2>3 DEF MemoryInv, NoNewTurn, Idle
<1>5. CASE BeginTurn(r, mem)
  <2> HIDE DEF r, mem
  <2> QED
    BY <1>1, <1>3, <1>5, BeginKeepsMemory
<1> QED
  BY <1>4, <1>5, ConfirmSteps

LEMMA TextKeepsMemory ==
    ASSUME MemoryInv, NEW t, Chat(t) \/ CorrectLocation(t) PROVE MemoryInv'
<1>1. CASE Chat(t)
  <2>1. IsRecord(rec) /\ IsMemory(memory) /\ Agrees(memory, rec.location, rec.source)
    BY <1>1 DEF MemoryInv, Chat, Say
  <2> QED
    BY <1>1, <2>1, BeginKeepsMemory DEF Chat
<1>2. CASE CorrectLocation(t)
  <2> DEFINE r == W!Invalidate(W!LocationCleared(rec))
  <2>1. IsRecord(r) /\ r.location = None /\ r.source = FALSE
    BY CorrectionKeeps DEF MemoryInv
  <2>2. BeginTurn(r, NewMemory)
    BY <1>2 DEF CorrectLocation
  <2> HIDE DEF r
  <2> QED
    BY <2>1, <2>2, NewMemoryAgrees, BeginKeepsMemory
<1> QED
  BY <1>1, <1>2

LEMMA ResetKeepsMemory == ASSUME MemoryInv, Reset PROVE MemoryInv'
<1>1. rec' = W!NewRecord(1) /\ memory' = NewMemory /\ turn' = turn /\ Idle
  BY DEF Reset
<1>2. IsRecord(rec') /\ rec'.location = None /\ rec'.source = FALSE
  BY <1>1 DEF IsRecord, W!NewRecord
<1> QED
  BY <1>1, <1>2, NewMemoryAgrees DEF MemoryInv, Idle

LEMMA ModelKeepsMemory == ASSUME MemoryInv, ListTools \/ Model PROVE MemoryInv'
<1>1. ~Idle
  BY DEF ListTools, Model, Running, Idle
<1>2. ASSUME NEW stop, EndTurn(stop) PROVE MemoryInv'
  BY <1>1, <1>2, EndKeepsMemory
<1>3. ASSUME UNCHANGED memory, InTurn, IsTurn(turn'), turn'.mark = turn.mark,
             turn'.verdict = turn.verdict, turn'.location = turn.location,
             turn'.source = turn.source, ~Idle'
      PROVE  MemoryInv'
  BY <1>1, <1>3 DEF MemoryInv, InTurn
<1>4. CASE turn' = [turn EXCEPT !.at = "model"] /\ UNCHANGED memory /\ InTurn
  BY <1>3, <1>4 DEF MemoryInv, IsTurn, Idle
<1>5. CASE /\ \E n \in 1..MaxCalls :
                turn' = [turn EXCEPT !.at = "tools", !.left = n, !.steps = @ + 1]
           /\ UNCHANGED memory
           /\ InTurn
  BY <1>3, <1>5 DEF MemoryInv, IsTurn, Idle
<1> QED
  BY <1>2, <1>4, <1>5 DEF ListTools, Model

LEMMA SetFailed ==
    ASSUME NEW m, IsMemory(m), NEW v PROVE IsMemory([m EXCEPT !.failed = v])
  BY DEF IsMemory
LEMMA SetForm ==
    ASSUME NEW m, IsMemory(m), NEW v, NEW n, n = [m EXCEPT !.form = v]
    PROVE  IsMemory(n) /\ n.place = m.place /\ n.failed = m.failed
  BY DEF IsMemory
LEMMA SetSource ==
    ASSUME NEW t, IsTurn(t), NEW v, NEW u, u = [t EXCEPT !.source = v]
    PROVE  /\ IsTurn(u) /\ u.mark = t.mark /\ u.verdict = t.verdict /\ u.at = t.at
           /\ u.evidence = t.evidence /\ u.location = t.location /\ u.source = v
           /\ u.left = t.left /\ u.steps = t.steps
  BY DEF IsTurn

LEMMA ToolsKeepMemory ==
    ASSUME MemoryInv, Running("tools"),
           \/ SearchServices \/ UnknownTool
           \/ \E p, q \in Place : ResolveLocation(p, q)
           \/ \E ours \in BOOLEAN : GetConsultationForm(ours)
    PROVE  MemoryInv'
<1>1. ~Idle
  BY DEF Running, Idle
<1>2. IsMemory(memory) /\ IsTurn(turn)
      /\ (turn.verdict = "ok" => Agrees(memory, turn.location, turn.source))
  BY <1>1 DEF MemoryInv
<1>3. IsMemory(FailedMemory)
  BY <1>2, SetFailed, Zenon DEF FailedMemory
\* An entry that is refused
<1>4. ASSUME NEW mem, IsMemory(mem), NEW verdict \in {"recoverable", "fatal"},
             Result(mem, turn, verdict)
      PROVE  MemoryInv'
  BY <1>1, <1>2, <1>4, ResultKeepsMemory
<1>5. CASE SearchServices
  <2>1. CASE Result(FailedMemory, turn, "fatal") \/ Result(memory, turn, "fatal")
    BY <1>2, <1>3, <1>4, <2>1
  <2>2. CASE Result(memory, [turn EXCEPT !.evidence = @ \cup {W!Text}], "ok")
    <3> DEFINE t == [turn EXCEPT !.evidence = @ \cup {W!Text}]
    <3>1. IsTurn(t) /\ t.mark = turn.mark /\ t.verdict = turn.verdict /\ t.at = turn.at
          /\ t.location = turn.location /\ t.source = turn.source
      BY <1>2 DEF IsTurn
    <3> HIDE DEF t
    <3> QED
      BY <1>1, <1>2, <2>2, <3>1, ResultKeepsMemory DEF t
  <2> QED
    BY <1>5, <2>1, <2>2 DEF SearchServices
<1>6. CASE UnknownTool
  BY <1>3, <1>4, <1>6 DEF UnknownTool
<1>7. ASSUME NEW p \in Place, NEW q \in Place, ResolveLocation(p, q) PROVE MemoryInv'
  <2> DEFINE mem == [memory EXCEPT !.place = q]
             t == [turn EXCEPT !.location = q]
  <2>1. IsMemory(mem) /\ mem.place = q /\ mem.form = memory.form /\ mem.failed = memory.failed
    BY <1>2 DEF IsMemory
  <2>2. IsTurn(t) /\ t.mark = turn.mark /\ t.verdict = turn.verdict /\ t.at = turn.at
        /\ t.location = q /\ t.source = turn.source
    BY <1>2 DEF IsTurn
  <2>3. turn.verdict = "ok" => Agrees(mem, t.location, t.source)
    <3>1. q # None
      BY AgentLoopAssumption
    <3> HIDE DEF mem, t
    <3> QED
      BY <1>2, <2>1, <2>2, <3>1 DEF Agrees
  <2>4. CASE Result(mem, t, "ok")
    <3> HIDE DEF mem, t
    <3> QED
      BY <1>1, <2>1, <2>2, <2>3, <2>4, ResultKeepsMemory
  <2>5. CASE \E verdict \in {"recoverable", "fatal"} :
               Result(FailedMemory, turn, verdict) \/ Result(mem, turn, verdict)
    BY <1>3, <1>4, <2>1, <2>5
  <2> QED
    BY <1>7, <2>4, <2>5 DEF ResolveLocation
<1>8. ASSUME NEW ours \in BOOLEAN, GetConsultationForm(ours) PROVE MemoryInv'
  <2> DEFINE mem == [memory EXCEPT !.form = TRUE]
             t == [turn EXCEPT !.source = TRUE]
  <2>0. mem = [memory EXCEPT !.form = TRUE] /\ t = [turn EXCEPT !.source = TRUE]
    OBVIOUS
  <2> HIDE DEF mem, t
  <2>1. IsMemory(mem) /\ mem.place = memory.place /\ mem.failed = memory.failed
    BY <1>2, <2>0, SetForm, Zenon
  <2>2. IsTurn(t) /\ t.mark = turn.mark /\ t.verdict = turn.verdict /\ t.at = turn.at
        /\ t.location = turn.location /\ t.source = TRUE
    BY <1>2, <2>0, SetSource
  <2>3. turn.verdict = "ok" => Agrees(mem, t.location, t.source)
    BY <1>2, <2>1, <2>2 DEF Agrees
  <2>4. CASE Result(mem, t, "ok")
    BY <1>1, <2>1, <2>2, <2>3, <2>4, ResultKeepsMemory
  <2>5. CASE \E verdict \in {"recoverable", "fatal"} :
               Result(FailedMemory, turn, verdict) \/ Result(mem, turn, verdict)
    BY <1>3, <1>4, <2>1, <2>5
  <2> QED
    BY <1>8, <2>4, <2>5 DEF GetConsultationForm, mem, t
<1> QED
  BY <1>5, <1>6, <1>7, <1>8

-----------------------------------------------------------------------------
(***************************************************************************)
(* What a turn has collected, judged by the record it began from.          *)
(***************************************************************************)
TurnInv ==
    ~Idle =>
        /\ turn.evidence \in {rec.evidence, rec.evidence \cup {W!Text}}
        /\ turn.location \in {rec.location} \cup Place
        /\ turn.source \in {rec.source, TRUE}
        /\ turn.location # rec.location => turn.evidence # {}
        /\ turn.source # rec.source => turn.evidence # {} /\ turn.location # None

LEMMA BeginTurnInv == ASSUME NEW r, NEW mem, BeginTurn(r, mem) PROVE TurnInv'
<1>1. turn'.evidence = rec'.evidence /\ turn'.location = rec'.location
      /\ turn'.source = rec'.source
  BY DEF BeginTurn
<1> QED
  BY <1>1 DEF TurnInv

\* A step within a turn that collects nothing.
LEMMA SameTurnInv ==
    ASSUME TurnInv, ~Idle, rec' = rec, turn'.evidence = turn.evidence,
           turn'.location = turn.location, turn'.source = turn.source
    PROVE  TurnInv'
  BY DEF TurnInv

LEMMA ResultTurn ==
    ASSUME NEW mem, NEW t, NEW verdict, IsTurn(t), Result(mem, t, verdict)
    PROVE  /\ rec' = rec /\ turn'.evidence = t.evidence
           /\ turn'.location = t.location /\ turn'.source = t.source
  BY DEF Result, InTurn, IsTurn

LEMMA ToolsTurnInv ==
    ASSUME TurnInv, IsTurn(turn), Running("tools"),
           \/ SearchServices \/ UnknownTool
           \/ \E p, q \in Place : ResolveLocation(p, q)
           \/ \E ours \in BOOLEAN : GetConsultationForm(ours)
    PROVE  TurnInv'
<1>1. ~Idle
  BY DEF Running, Idle
<1>2. ASSUME NEW mem, NEW verdict, Result(mem, turn, verdict) PROVE TurnInv'
  BY <1>1, <1>2, ResultTurn, SameTurnInv
<1>3. CASE Result(memory, [turn EXCEPT !.evidence = @ \cup {W!Text}], "ok")
  <2> DEFINE t == [turn EXCEPT !.evidence = @ \cup {W!Text}]
  <2>1. IsTurn(t) /\ t.evidence = turn.evidence \cup {W!Text}
        /\ t.location = turn.location /\ t.source = turn.source
    BY DEF IsTurn
  <2> HIDE DEF t
  <2>2. rec' = rec /\ turn'.evidence = turn.evidence \cup {W!Text}
        /\ turn'.location = turn.location /\ turn'.source = turn.source
    BY <1>3, <2>1, ResultTurn DEF t
  <2> QED
    BY <1>1, <2>2 DEF TurnInv
<1>4. ASSUME NEW p \in Place, NEW q \in Place, ResolveLocation(p, q) PROVE TurnInv'
  <2> DEFINE t == [turn EXCEPT !.location = q]
             mem == [memory EXCEPT !.place = q]
  <2>1. IsTurn(t) /\ t.evidence = turn.evidence /\ t.location = q
        /\ t.source = turn.source
    BY DEF IsTurn
  <2> HIDE DEF t, mem
  <2>2. CASE turn.evidence # {} /\ Result(mem, t, "ok")
    <3>1. rec' = rec /\ turn'.evidence = turn.evidence
          /\ turn'.location = q /\ turn'.source = turn.source
      BY <2>1, <2>2, ResultTurn
    <3>2. q # None
      BY AgentLoopAssumption
    <3> QED
      BY <1>1, <2>2, <3>1, <3>2 DEF TurnInv
  <2>3. CASE \E m, verdict : Result(m, turn, verdict)
    BY <1>2, <2>3
  <2> QED
    BY <1>4, <2>2, <2>3 DEF ResolveLocation, t, mem
<1>5. ASSUME NEW ours \in BOOLEAN, GetConsultationForm(ours) PROVE TurnInv'
  <2> DEFINE t == [turn EXCEPT !.source = TRUE]
             mem == [memory EXCEPT !.form = TRUE]
  <2>0. t = [turn EXCEPT !.source = TRUE]
    OBVIOUS
  <2> HIDE DEF t, mem
  <2>1. IsTurn(t) /\ t.evidence = turn.evidence /\ t.location = turn.location
        /\ t.source = TRUE
    BY <2>0, SetSource
  <2>2. CASE turn.evidence # {} /\ turn.location # None /\ Result(mem, t, "ok")
    <3>1. rec' = rec /\ turn'.evidence = turn.evidence
          /\ turn'.location = turn.location /\ turn'.source = TRUE
      BY <2>1, <2>2, ResultTurn
    <3> QED
      BY <1>1, <2>2, <3>1 DEF TurnInv
  <2>3. CASE \E m, verdict : Result(m, turn, verdict)
    BY <1>2, <2>3
  <2> QED
    BY <1>5, <2>2, <2>3 DEF GetConsultationForm, t, mem
<1> QED
  BY <1>2, <1>3, <1>4, <1>5 DEF SearchServices, UnknownTool

\* What a completed turn makes of the record is what WebSession's step takes a
\* verified turn to find.
LEMMA CommittedIsFound ==
    ASSUME TurnInv, ~Idle PROVE Committed(rec) \in W!Found(rec)
<1> DEFINE Facts == [evidence : {rec.evidence, rec.evidence \cup {W!Text}},
                     location : {rec.location} \cup Place,
                     source   : {rec.source, TRUE}]
           t == [evidence |-> turn.evidence, location |-> turn.location,
                 source |-> turn.source]
<1>1. t \in Facts
  BY DEF TurnInv
<1>2. t.evidence = turn.evidence /\ t.location = turn.location /\ t.source = turn.source
  OBVIOUS
<1>3. /\ t.location # rec.location => t.evidence # {}
      /\ t.source # rec.source => t.evidence # {} /\ t.location # None
  BY <1>2 DEF TurnInv
<1>4. Committed(rec) = [rec EXCEPT !.evidence = t.evidence, !.location = t.location,
                  !.source = t.source,
                  !.form = IF t.location # None /\ t.source THEN rec.branch ELSE @]
  BY <1>2 DEF Committed
<1> HIDE DEF t
<1> QED
  BY <1>1, <1>3, <1>4, Zenon DEF W!Found

LEMMA EndIsPromised ==
    ASSUME TurnInv, ~Idle, NEW stop, EndTurn(stop) PROVE rec' \in W!AgentTurn(rec)
<1>1. CASE stop # "completed" \/ turn.verdict = "fatal"
  BY <1>1 DEF EndTurn, W!AgentTurn
<1>2. CASE ~(stop # "completed" \/ turn.verdict = "fatal") /\ Good(stop)
  BY <1>2, CommittedIsFound DEF EndTurn, W!AgentTurn
<1>3. CASE ~(stop # "completed" \/ turn.verdict = "fatal") /\ ~Good(stop)
  BY <1>3 DEF EndTurn, W!AgentTurn
<1> QED
  BY <1>1, <1>2, <1>3

-----------------------------------------------------------------------------
(***************************************************************************)
(* The texts held are the last ones captured.                              *)
(***************************************************************************)
SaidOf(t, d) == IF d \in t.yes THEN "yes" ELSE "no"
\* What a sequence of texts says of a district last, and affirms last, is what
\* all the texts captured so far do.
Tells(s, h) ==
    /\ \A i \in 1..Len(s) : \A d \in Mentions(s[i]) :
          (\A j \in i+1 .. Len(s) : d \notin Mentions(s[j]))
             => h.last[d] = SaidOf(s[i], d)
    /\ \A i \in 1..Len(s) :
          s[i].yes # {} => /\ h.yes # {}
                           /\ \E j \in i..Len(s) : s[j].yes = h.yes
TextsInv ==
    /\ inputs \in Seq(Utterance)
    /\ Tells(inputs, heard)
\* A district that a turn has resolved is the one the captured texts mean.
Meant(p) == heard.last[p[2]] = "yes" /\ heard.yes = {p[2]}
AdoptInv == ~Idle => turn.location \in {None, rec.location} \/ Meant(turn.location)

LEMMA AppendTells ==
    ASSUME NEW t \in Utterance, NEW s \in Seq(Utterance), Tells(s, heard),
           NEW c, NEW held, Capture(c, held, t)
    PROVE  Append(s, t) \in Seq(Utterance) /\ Tells(Append(s, t), heard')
<1> DEFINE z == Append(s, t)
<1>1. z \in Seq(Utterance) /\ Len(z) = Len(s) + 1 /\ z[Len(s) + 1] = t
      /\ \A i \in 1..Len(s) : z[i] = s[i]
  BY AppendProperties
<1>2. heard'.yes = IF t.yes # {} THEN t.yes ELSE heard.yes
  BY DEF Capture
<1>3. \A d \in District : heard'.last[d] = IF d \in Mentions(t) THEN SaidOf(t, d)
                                           ELSE heard.last[d]
  <2> TAKE d \in District
  <2>1. heard'.last[d] = CASE d \in t.yes -> "yes"
                           [] d \in t.no  -> "no"
                           [] OTHER       -> heard.last[d]
    BY DEF Capture
  <2>2. d \in t.no => d \notin t.yes
    BY AgentLoopAssumption
  <2>3. CASE d \in t.yes
    BY <2>1, <2>2, <2>3 DEF SaidOf, Mentions
  <2>4. CASE d \in t.no
    BY <2>1, <2>2, <2>4 DEF SaidOf, Mentions
  <2>5. CASE d \notin t.yes /\ d \notin t.no
    BY <2>1, <2>5 DEF Mentions
  <2> QED
    BY <2>3, <2>4, <2>5
<1>4. \A i \in 1..Len(z) : z[i] \in Utterance
  BY <1>1
<1>5. \A x \in Utterance : Mentions(x) \subseteq District
  BY AgentLoopAssumption DEF Mentions
<1>6. Len(s) \in Nat
  OBVIOUS
<1> HIDE DEF z
<1>7. ASSUME NEW i \in 1..Len(z), NEW d \in Mentions(z[i]),
             \A j \in i+1 .. Len(z) : d \notin Mentions(z[j])
      PROVE  heard'.last[d] = SaidOf(z[i], d)
  <2>1. d \in District
    BY <1>4, <1>5
  <2>2. CASE i = Len(s) + 1
    BY <1>1, <1>3, <2>1, <2>2
  <2>3. CASE i \in 1..Len(s)
    <3>1. d \notin Mentions(t)
      BY <1>1, <1>6, <1>7, <2>3
    <3>2. \A j \in i+1 .. Len(s) : d \notin Mentions(s[j])
      BY <1>1, <1>6, <1>7, <2>3
    <3>3. heard.last[d] = SaidOf(s[i], d)
      BY <1>1, <2>3, <3>2 DEF Tells
    <3> QED
      BY <1>1, <1>3, <2>1, <2>3, <3>1, <3>3
  <2> QED
    BY <1>1, <1>6, <2>2, <2>3
<1>8. ASSUME NEW i \in 1..Len(z), z[i].yes # {}
      PROVE  heard'.yes # {} /\ \E j \in i..Len(z) : z[j].yes = heard'.yes
  <2>1. CASE t.yes # {}
    BY <1>1, <1>2, <1>6, <2>1
  <2>2. CASE t.yes = {}
    <3>1. i \in 1..Len(s)
      BY <1>1, <1>6, <1>8, <2>2
    <3>2. heard.yes # {} /\ \E j \in i..Len(s) : s[j].yes = heard.yes
      BY <1>1, <1>8, <3>1 DEF Tells
    <3> QED
      BY <1>1, <1>2, <1>6, <2>2, <3>1, <3>2
  <2> QED
    BY <2>1, <2>2
<1>9. Tells(z, heard')
  BY <1>7, <1>8 DEF Tells
<1> QED
  BY <1>1, <1>9 DEF z

LEMMA LastTextsTell ==
    ASSUME NEW h, NEW s \in Seq(Utterance), Tells(s, h)
    PROVE  LastTexts(s) \in Seq(Utterance) /\ Tells(LastTexts(s), h)
<1>1. CASE ~(Len(s) > Window)
  BY <1>1 DEF LastTexts
<1>2. CASE Len(s) > Window
  <2> DEFINE z == Tail(s)
  <2>1. Len(s) \in Nat /\ Len(s) > 0 /\ s # << >>
    BY <1>2, AgentLoopAssumption
  <2>2. z \in Seq(Utterance) /\ Len(z) = Len(s) - 1 /\ \A i \in 1..Len(z) : z[i] = s[i+1]
    BY <2>1, HeadTailProperties
  <2> HIDE DEF z
  <2>3. ASSUME NEW i \in 1..Len(z), NEW d \in Mentions(z[i]),
               \A j \in i+1 .. Len(z) : d \notin Mentions(z[j])
        PROVE  h.last[d] = SaidOf(z[i], d)
    <3>1. i+1 \in 1..Len(s) /\ d \in Mentions(s[i+1])
      BY <2>1, <2>2
    <3>2. ASSUME NEW j \in (i+1)+1 .. Len(s) PROVE d \notin Mentions(s[j])
      <4>1. j-1 \in i+1 .. Len(z) /\ z[j-1] = s[j]
        BY <2>1, <2>2
      <4> QED
        BY <2>3, <4>1
    <3> QED
      BY <2>2, <3>1, <3>2 DEF Tells
  <2>4. ASSUME NEW i \in 1..Len(z), z[i].yes # {}
        PROVE  h.yes # {} /\ \E j \in i..Len(z) : z[j].yes = h.yes
    <3>1. i+1 \in 1..Len(s) /\ s[i+1].yes # {}
      BY <2>1, <2>2, <2>4
    <3>2. h.yes # {} /\ \E j \in i+1 .. Len(s) : s[j].yes = h.yes
      BY <3>1 DEF Tells
    <3>3. PICK j \in i+1 .. Len(s) : s[j].yes = h.yes
      BY <3>2
    <3>4. j-1 \in i..Len(z) /\ z[j-1] = s[j]
      BY <2>1, <2>2
    <3> QED
      BY <3>2, <3>3, <3>4
  <2>5. Tells(z, h)
    BY <2>3, <2>4 DEF Tells
  <2> QED
    BY <1>2, <2>2, <2>5 DEF LastTexts, z
<1> QED
  BY <1>1, <1>2

LEMMA EmptyTells == << >> \in Seq(Utterance) /\ \A h : Tells(<< >>, h)
  BY DEF Tells

\* The texts after one is captured: it joins those held, or starts anew.
LEMMA CapturedTextsInv ==
    ASSUME TextsInv, NEW t \in Utterance, NEW c, NEW s \in {inputs, << >>}, Capture(c, s, t)
    PROVE  TextsInv'
<1>1. PICK z \in {inputs, << >>} : inputs' = LastTexts(Append(z, t))
  BY DEF Capture, Captured
<1>2. z \in Seq(Utterance) /\ Tells(z, heard)
  BY <1>1, EmptyTells DEF TextsInv
<1>3. Append(z, t) \in Seq(Utterance) /\ Tells(Append(z, t), heard')
  BY <1>2, AppendTells
<1>4. inputs' \in Seq(Utterance) /\ Tells(inputs', heard')
  BY <1>1, <1>3, LastTextsTell
<1> QED
  BY <1>4 DEF TextsInv

\* What the provenance check finds in the texts held is what the captured texts
\* mean.
LEMMA ProvenanceIsMeant == ASSUME TextsInv, NEW p, Provenance(p) PROVE Meant(p)
<1> DEFINE d == p[2]
           n == Len(inputs)
<1>1. n \in Nat /\ DOMAIN inputs = 1..n /\ \A i \in 1..n : inputs[i] \in Utterance
  BY DEF TextsInv
<1>2. PICK i \in 1..n : d \in inputs[i].yes
                        /\ \A j \in i+1 .. n : d \notin Mentions(inputs[j])
  BY <1>1 DEF Provenance
<1>3. \A j \in 1..n : inputs[j].yes \subseteq {d}
  BY <1>1 DEF Provenance
<1>4. heard.last[d] = "yes"
  BY <1>2 DEF TextsInv, Tells, Mentions, SaidOf
<1>5. heard.yes # {} /\ \E j \in i..n : inputs[j].yes = heard.yes
  BY <1>2 DEF TextsInv, Tells
<1>6. heard.yes \subseteq {d}
  BY <1>1, <1>2, <1>3, <1>5
<1> QED
  BY <1>4, <1>5, <1>6 DEF Meant

-----------------------------------------------------------------------------
(***************************************************************************)
(* The invariant.                                                          *)
(***************************************************************************)
\* A text is put aside exactly while a replacement is pending.
ProposalInv ==
    /\ proposal \in Utterance \cup {None}
    /\ rec.pending <=> proposal # None
IInv == MemoryInv /\ TurnInv /\ TextsInv /\ AdoptInv /\ ProposalInv

LEMMA InitIInv == Init => IInv
<1> SUFFICES ASSUME Init PROVE IInv
  OBVIOUS
<1>1. IsRecord(rec) /\ rec.location = None /\ rec.source = FALSE
  BY DEF Init, IsRecord, W!NewRecord
<1>2. Idle /\ IsTurn(turn) /\ turn.verdict = "ok"
  BY DEF Init, Idle, NoTurn, IsTurn
<1>3. MemoryInv
  BY <1>1, <1>2, NewMemoryAgrees DEF Init, MemoryInv
<1>4. TextsInv
  BY EmptyTells DEF Init, TextsInv
<1>5. ProposalInv
  BY DEF Init, ProposalInv, W!NewRecord
<1> QED
  BY <1>2, <1>3, <1>4, <1>5 DEF IInv, TurnInv, AdoptInv

\* What the consumer says and does between turns.
Spoken(t) == \/ \E c \in SUBSET Branch : Describe(t, c) \/ PutAside(t, c)
             \/ Chat(t) \/ CorrectLocation(t)
Decided == NonTarget \/ \E b \in Branch : RejectProposal(b) \/ Confirm(b)

\* A text joins the ones held, now or when its branch is confirmed, or none does.
LEMMA ConfirmCaptures ==
    ASSUME ProposalInv, NEW b, Confirm(b)
    PROVE  \/ UNCHANGED location
           \/ /\ proposal \in Utterance
              /\ \E c \in {county, None}, s \in {inputs, << >>} : Capture(c, s, proposal)
<1>1. CASE rec.branch = None
  BY <1>1 DEF Confirm
<1>2. CASE rec.branch # None
  <2>1. proposal \in Utterance
    BY <1>2 DEF Confirm, Proposed, ProposalInv
  <2>2. Capture(None, << >>, proposal) \/ Capture(county, inputs, proposal)
    BY <1>2 DEF Confirm
  <2> QED
    BY <2>1, <2>2
<1> QED
  BY <1>1, <1>2

LEMMA SpokenCaptures ==
    ASSUME NEW t, Spoken(t)
    PROVE  \/ UNCHANGED location
           \/ \E c \in {county, None}, s \in {inputs, << >>} : Capture(c, s, t)
  BY DEF Spoken, Describe, PutAside, Chat, CorrectLocation

LEMMA SameTexts == ASSUME TextsInv, UNCHANGED location PROVE TextsInv'
  BY DEF TextsInv, location

LEMMA SpokenTexts ==
    ASSUME TextsInv, ProposalInv, Decided \/ \E t \in Utterance : Spoken(t) PROVE TextsInv'
<1>1. ASSUME NEW t \in Utterance, Spoken(t) PROVE TextsInv'
  BY <1>1, SpokenCaptures, SameTexts, CapturedTextsInv
<1>2. ASSUME NEW b \in Branch, Confirm(b) PROVE TextsInv'
  BY <1>2, ConfirmCaptures, SameTexts, CapturedTextsInv
<1>3. CASE NonTarget \/ \E b \in Branch : RejectProposal(b)
  BY <1>3, SameTexts DEF NonTarget, RejectProposal
<1> QED
  BY <1>1, <1>2, <1>3 DEF Decided

LEMMA SpokenTurn ==
    ASSUME Decided \/ \E t \in Utterance : Spoken(t)
    PROVE  /\ Idle /\ TurnInv' /\ AdoptInv'
<1>1. Idle
  BY DEF Decided, Spoken, Describe, PutAside, Chat, CorrectLocation, Say, Confirm,
         NonTarget, RejectProposal, Proposed
<1>2. turn' = turn \/ \E r, mem : BeginTurn(r, mem)
  <2>1. ASSUME NEW b, Confirm(b) PROVE turn' = turn \/ \E r, mem : BeginTurn(r, mem)
    BY <2>1, ConfirmSteps DEF NoNewTurn
  <2> QED
    BY <2>1, Zenon DEF Decided, Spoken, Describe, PutAside, Chat, CorrectLocation,
         NonTarget, RejectProposal, NoNewTurn
<1>3. CASE turn' = turn
  BY <1>1, <1>3 DEF Idle, TurnInv, AdoptInv
<1>4. ASSUME NEW r, NEW mem, BeginTurn(r, mem) PROVE TurnInv' /\ AdoptInv'
  <2>1. turn'.location = rec'.location
    BY <1>4 DEF BeginTurn
  <2> QED
    BY <1>4, <2>1, BeginTurnInv DEF AdoptInv
<1> QED
  BY <1>1, <1>2, <1>3, <1>4

\* Between turns the record's location may only be cleared, and a text is put
\* aside as long as the record says so.
LEMMA SpokenRecord ==
    ASSUME MemoryInv, ProposalInv, Decided \/ \E t \in Utterance : Spoken(t)
    PROVE  rec'.location \in {None, rec.location} /\ ProposalInv'
<1> USE Fields DEF MemoryInv
<1>1. ASSUME NEW t \in Utterance, NEW c, Describe(t, c)
      PROVE  rec'.location = rec.location /\ ProposalInv'
  BY <1>1 DEF Describe, Field, ProposalInv
<1>2. ASSUME NEW t \in Utterance, NEW c, PutAside(t, c)
      PROVE  rec'.location = rec.location /\ ProposalInv'
  BY <1>2, AgentLoopAssumption DEF PutAside, Field, ProposalInv
<1>3. CASE NonTarget \/ \E b \in Branch : RejectProposal(b)
  <2>1. rec' = Withdrawn(rec) /\ proposal' = None
    BY <1>3 DEF NonTarget, RejectProposal
  <2> QED
    BY <2>1, WithdrawnKeeps DEF ProposalInv
<1>4. ASSUME NEW b \in Branch, Confirm(b)
      PROVE  rec'.location \in {None, rec.location} /\ ProposalInv'
  <2>1. IsRecord(Taken(b)) /\ Taken(b).pending = FALSE
        /\ Taken(b).location \in {None, rec.location}
    BY TakenKeeps
  <2>2. rec' = Taken(b) \/ rec' = W!StartGuided(W!Derived(Taken(b)))
    BY <1>4, ConfirmSteps DEF BeginTurn
  <2>3. rec'.pending = FALSE /\ rec'.location \in {None, rec.location}
    BY <2>1, <2>2, StartKeeps
  <2> QED
    BY <1>4, <2>3, ConfirmSteps DEF ProposalInv
<1>5. ASSUME NEW t, Chat(t) PROVE rec'.location = rec.location /\ ProposalInv'
  BY <1>5 DEF Chat, BeginTurn, ProposalInv
<1>6. ASSUME NEW t, CorrectLocation(t) PROVE rec'.location = None /\ ProposalInv'
  BY <1>6, CorrectionKeeps DEF CorrectLocation, BeginTurn, ProposalInv
<1> QED
  BY <1>1, <1>2, <1>3, <1>4, <1>5, <1>6 DEF Spoken, Decided

\* A step within a turn: the record stays, or the turn ends.
LEMMA LoopSteps ==
    ASSUME IInv, Loop
    PROVE  /\ ~Idle
           /\ UNCHANGED <<inputs, heard, proposal>>
           /\ TurnInv' /\ AdoptInv'
           /\ (\E stop : EndTurn(stop)) \/ (rec' = rec /\ ~Idle')
<1> USE DEF IInv
<1>1. ~Idle
  BY DEF Loop, ListTools, Model, Running, Idle
<1>2. IsTurn(turn)
  BY DEF MemoryInv
<1>3. ASSUME NEW stop, EndTurn(stop)
      PROVE  UNCHANGED <<inputs, heard, proposal>> /\ TurnInv' /\ AdoptInv'
  BY <1>3 DEF EndTurn, NoTurn, Idle, TurnInv, AdoptInv
\* A step that asks the model, or that the model takes
<1>4. ASSUME InTurn, turn'.evidence = turn.evidence, turn'.location = turn.location,
             turn'.source = turn.source, turn'.at # "idle"
      PROVE  UNCHANGED <<inputs, heard, proposal>> /\ TurnInv' /\ AdoptInv' /\ rec' = rec /\ ~Idle'
  <2>1. rec' = rec /\ heard' = heard /\ UNCHANGED <<inputs, heard, proposal>>
    BY <1>4 DEF InTurn, location
  <2>2. TurnInv'
    BY <1>1, <1>4, <2>1, SameTurnInv
  <2>3. AdoptInv'
    BY <1>1, <1>4, <2>1 DEF AdoptInv, Meant
  <2> QED
    BY <1>4, <2>1, <2>2, <2>3 DEF Idle
<1>5. CASE turn' = [turn EXCEPT !.at = "model"] /\ InTurn
  BY <1>1, <1>2, <1>4, <1>5 DEF IsTurn
<1>6. CASE InTurn /\ \E n \in 1..MaxCalls :
               turn' = [turn EXCEPT !.at = "tools", !.left = n, !.steps = @ + 1]
  BY <1>1, <1>2, <1>4, <1>6 DEF IsTurn
<1>7. CASE ListTools \/ Model
  <2>1. (\E stop : EndTurn(stop)) \/ InTurn
    BY <1>7 DEF ListTools, Model
  <2> QED
    BY <1>1, <1>3, <1>5, <1>6, <1>7, <2>1 DEF ListTools, Model
<1> DEFINE Tool == /\ Running("tools")
                   /\ \/ SearchServices \/ UnknownTool
                      \/ \E p, q \in Place : ResolveLocation(p, q)
                      \/ \E ours \in BOOLEAN : GetConsultationForm(ours)
<1>8. CASE Tool
  <2>1. TurnInv'
    BY <1>2, <1>8, ToolsTurnInv
  <2>2. PICK mem, t, verdict : /\ Result(mem, t, verdict)
                               /\ IsTurn(t) /\ t.at = turn.at
                               /\ t.location = turn.location \/ Meant(t.location)
    <3> DEFINE Collects == \E mem, t, verdict :
                  /\ Result(mem, t, verdict)
                  /\ IsTurn(t) /\ t.at = turn.at
                  /\ t.location = turn.location \/ Meant(t.location)
    <3>1. ASSUME NEW p \in Place, NEW q \in Place, ResolveLocation(p, q)
          PROVE  Collects
      <4> DEFINE t == [turn EXCEPT !.location = q]
      <4>1. IsTurn(t) /\ t.at = turn.at /\ t.location = q
        BY <1>2 DEF IsTurn
      <4>2. Provenance(p) => Meant(p)
        BY ProvenanceIsMeant
      <4> HIDE DEF t
      <4> QED
        BY <1>2, <3>1, <4>1, <4>2 DEF ResolveLocation, t
    <3>2. ASSUME NEW ours \in BOOLEAN, GetConsultationForm(ours)
          PROVE  Collects
      <4> DEFINE t == [turn EXCEPT !.source = TRUE]
      <4>0. t = [turn EXCEPT !.source = TRUE]
        OBVIOUS
      <4> HIDE DEF t
      <4>1. IsTurn(t) /\ t.at = turn.at /\ t.location = turn.location
        BY <1>2, <4>0, SetSource
      <4>2. \E mem, verdict : Result(mem, turn, verdict) \/ Result(mem, t, verdict)
        BY <3>2 DEF GetConsultationForm, t
      <4> QED
        BY <1>2, <4>1, <4>2
    <3>3. ASSUME SearchServices
          PROVE  Collects
      <4> DEFINE t == [turn EXCEPT !.evidence = @ \cup {W!Text}]
      <4>1. IsTurn(t) /\ t.at = turn.at /\ t.location = turn.location
        BY <1>2 DEF IsTurn
      <4> HIDE DEF t
      <4>2. \E mem, verdict : Result(mem, turn, verdict) \/ Result(mem, t, verdict)
        BY <3>3 DEF SearchServices, t
      <4> QED
        BY <1>2, <4>1, <4>2
    <3>4. ASSUME UnknownTool PROVE Collects
      <4>1. Result(FailedMemory, turn, "fatal") /\ IsTurn(turn)
        BY <1>2, <3>4 DEF UnknownTool
      <4> QED
        BY <4>1, Zenon
    <3>5. Collects
      <4> HIDE DEF Collects
      <4> QED
        BY <1>8, <3>1, <3>2, <3>3, <3>4
    <3> QED
      BY <3>5
  <2>3. InTurn /\ turn'.at # "idle" /\ turn'.location = t.location
    BY <1>1, <2>2 DEF Result, IsTurn, Idle
  <2>4. rec' = rec /\ heard' = heard /\ UNCHANGED <<inputs, heard, proposal>>
    BY <2>3 DEF InTurn, location
  <2>5. AdoptInv'
    BY <1>1, <2>2, <2>3, <2>4 DEF AdoptInv, Meant
  <2> QED
    BY <1>1, <2>1, <2>3, <2>4, <2>5 DEF Idle
<1> QED
  BY <1>7, <1>8 DEF Loop

LEMMA LoopMemory == ASSUME MemoryInv, Loop PROVE MemoryInv'
  BY ModelKeepsMemory, ToolsKeepMemory DEF Loop

LEMMA EndPending ==
    ASSUME MemoryInv, NEW stop, EndTurn(stop) PROVE rec'.pending = rec.pending
<1>1. CASE rec' = [rec EXCEPT !.state = "error"]
  BY <1>1, Fields DEF MemoryInv, Field
<1>2. CASE rec' = W!StartGuided(W!Derived(rec))
  BY <1>2, StartKeeps DEF MemoryInv
<1>3. CASE rec' = W!StartGuided(W!Derived(Committed(rec)))
  <2>1. IsRecord(Committed(rec)) /\ Committed(rec).pending = rec.pending
    BY Fields DEF Field, MemoryInv, IsRecord, Committed
  <2> QED
    BY <1>3, <2>1, StartKeeps
<1> QED
  BY <1>1, <1>2, <1>3 DEF EndTurn

LEMMA NextIInv == ASSUME IInv, [Next]_vars PROVE IInv'
<1> USE DEF IInv
<1>1. ASSUME NEW t \in Utterance, Spoken(t) PROVE IInv'
  <2>1. MemoryInv'
    BY <1>1, DescribeKeepsMemory, TextKeepsMemory DEF Spoken
  <2> QED
    BY <1>1, <2>1, SpokenTexts, SpokenTurn, SpokenRecord
<1>2. CASE Decided
  <2>1. MemoryInv'
    BY <1>2, WithdrawKeepsMemory, ConfirmKeepsMemory DEF Decided
  <2> QED
    BY <1>2, <2>1, SpokenTexts, SpokenTurn, SpokenRecord
<1>3. CASE Loop
  <2>1. UNCHANGED <<inputs, heard, proposal>> /\ TurnInv' /\ AdoptInv'
    BY <1>3, LoopSteps
  <2>2. TextsInv'
    BY <2>1 DEF TextsInv
  <2>3. rec'.pending = rec.pending
    BY <1>3, LoopSteps, EndPending
  <2>4. ProposalInv'
    BY <2>1, <2>3 DEF ProposalInv
  <2> QED
    BY <1>3, <2>1, <2>2, <2>4, LoopMemory
<1>4. CASE Reset
  <2>1. TextsInv' /\ TurnInv' /\ AdoptInv'
    BY <1>4, EmptyTells DEF Reset, TextsInv, Idle, TurnInv, AdoptInv
  <2>2. ProposalInv'
    BY <1>4 DEF Reset, ProposalInv, W!NewRecord
  <2> QED
    BY <1>4, <2>1, <2>2, ResetKeepsMemory
<1>5. CASE UNCHANGED vars
  BY <1>5 DEF vars, MemoryInv, TurnInv, TextsInv, AdoptInv, ProposalInv, Idle, Meant
<1> QED
  BY <1>1, <1>2, <1>3, <1>4, <1>5 DEF Next, Spoken, Decided

LEMMA Invariant == Spec => []IInv
<1>1. IInv /\ [Next]_vars => IInv'
  BY NextIInv
<1> QED
  BY <1>1, InitIInv, PTL DEF Spec

-----------------------------------------------------------------------------
(***************************************************************************)
(* The theorems.                                                           *)
(***************************************************************************)
\* Between turns the conversation the model is shown and the record agree, however
\* many turns were refused, and wherever.
THEOREM ConversationMatches == Spec => []MemoryMatchesRecord
<1>1. IInv => MemoryMatchesRecord
  BY DEF IInv, MemoryInv, MemoryMatchesRecord, Agrees
<1> QED
  BY <1>1, Invariant, PTL

LEMMA EndLocation ==
    ASSUME MemoryInv, NEW stop, EndTurn(stop)
    PROVE  rec'.location \in {rec.location, turn.location}
<1>1. CASE rec' = [rec EXCEPT !.state = "error"]
  BY <1>1, Fields DEF MemoryInv, Field
<1>2. CASE rec' = W!StartGuided(W!Derived(rec))
  BY <1>2, StartKeeps DEF MemoryInv
<1>3. CASE rec' = W!StartGuided(W!Derived(Committed(rec)))
  <2>1. IsRecord(Committed(rec)) /\ Committed(rec).location = turn.location
    BY Fields DEF Field, MemoryInv, IsRecord, Committed
  <2> QED
    BY <1>3, <2>1, StartKeeps
<1> QED
  BY <1>1, <1>2, <1>3 DEF EndTurn

LEMMA AdoptStep ==
    ASSUME IInv, [Next]_vars PROVE rec'.location \in {None, rec.location} \/ Meant(rec'.location)
<1> USE DEF IInv
<1>1. CASE Decided \/ \E t \in Utterance : Spoken(t)
  BY <1>1, SpokenRecord
<1>2. CASE Loop
  <2>1. CASE rec' = rec
    BY <2>1
  <2>2. ASSUME NEW stop, EndTurn(stop)
        PROVE  rec'.location \in {None, rec.location} \/ Meant(rec'.location)
    <3>1. rec'.location \in {rec.location, turn.location}
      BY <2>2, EndLocation
    <3>2. turn.location \in {None, rec.location} \/ Meant(turn.location)
      BY <1>2, LoopSteps DEF AdoptInv
    <3> QED
      BY <3>1, <3>2
  <2> QED
    BY <1>2, <2>1, <2>2, LoopSteps
<1>3. CASE Reset
  BY <1>3 DEF Reset, W!NewRecord
<1>4. CASE UNCHANGED vars
  BY <1>4 DEF vars
<1> QED
  BY <1>1, <1>2, <1>3, <1>4 DEF Next, Spoken, Decided

\* A district is adopted only as the one the texts captured in the session mean:
\* the last of them that mentions it affirms it, and the last that affirms any
\* affirms no other; whatever the model asked for, however few texts are held and
\* however long one was put aside.
THEOREM AdoptedIsLastCaptured == Spec => AdoptedDistrictIsTheLastCaptured
<1>1. IInv /\ [Next]_vars =>
        [rec'.location \notin {None, rec.location} =>
           /\ heard.last[rec'.location[2]] = "yes"
           /\ heard.yes = {rec'.location[2]}]_vars
  BY AdoptStep DEF Meant
<1> QED
  BY <1>1, Invariant, PTL DEF Spec, AdoptedDistrictIsTheLastCaptured

\* Step by step, the loop does to the record no more than WebSession's AgentTurn,
\* and does it in the step that ends the turn.
THEOREM LoopImplementsAgentTurn == Spec => TurnAsPromised
<1> DEFINE P == ~Idle => IF Idle' THEN rec' \in W!AgentTurn(rec) ELSE rec' = rec
<1>1. ASSUME IInv, [Next]_vars PROVE P
  <2>1. CASE Idle
    BY <2>1
  <2>2. CASE ~Idle /\ UNCHANGED vars
    BY <2>2 DEF vars, Idle
  <2>3. CASE ~Idle /\ Loop
    <3>1. ASSUME NEW stop, EndTurn(stop) PROVE Idle' /\ rec' \in W!AgentTurn(rec)
      BY <1>1, <2>3, <3>1, EndIsPromised DEF IInv, EndTurn, NoTurn, Idle
    <3> QED
      BY <1>1, <2>3, <3>1, LoopSteps
  <2>4. Next => Idle \/ Loop
    BY DEF Next, Describe, PutAside, NonTarget, RejectProposal, Chat, CorrectLocation,
           Say, Proposed, Confirm, Reset
  <2> QED
    BY <1>1, <2>1, <2>2, <2>3, <2>4
<1>2. IInv /\ [Next]_vars => [P]_vars
  BY <1>1
<1> QED
  BY <1>2, Invariant, PTL DEF Spec, TurnAsPromised

-----------------------------------------------------------------------------
(***************************************************************************)
(* The type invariant.  What the turn may still find is typed with what    *)
(* was found, and a tool runs only while a call is left.                   *)
(***************************************************************************)
MemoryType == [place : Place \cup {None}, form : BOOLEAN, failed : BOOLEAN]
RecordOK(r) ==
    /\ r.branch \in Branch \cup {None}
    /\ r.location \in Place \cup {None}
    /\ r.form \in {None, r.branch}
    /\ r.form # None => r.location # None /\ r.source
    /\ r.evidence \subseteq {W!Text}
TurnOK(t) ==
    /\ t.at \in {"idle", "list", "model", "tools"}
    /\ t.left \in 0..MaxCalls /\ t.steps \in 0..MaxSteps
    /\ t.verdict \in {"ok", "recoverable", "fatal"}
    /\ t.at = "tools" => t.left # 0
    /\ t.mark \in MemoryType
HeardOK(h) == h \in [last : [District -> {"none", "yes", "no"}], yes : SUBSET District]
HeldOK ==
    /\ county \in County \cup {None}
    /\ inputs \in Seq(Utterance) /\ Len(inputs) <= Window
    /\ HeardOK(heard)
SaidOK == HeldOK /\ texts \in 0..MaxTexts
TypeInv == RecordOK(rec) /\ TurnOK(turn) /\ memory \in MemoryType /\ SaidOK

LEMMA TypeInvIsType == TypeInv /\ IInv => TypeOK
  BY DEF TypeInv, TypeOK, RecordOK, TurnOK, MemoryType, SaidOK, HeldOK, HeardOK,
         IInv, ProposalInv

LEMMA MemoryFields ==
    ASSUME NEW m \in MemoryType
    PROVE  /\ \A q \in Place : [m EXCEPT !.place = q] \in MemoryType
           /\ [m EXCEPT !.form = TRUE] \in MemoryType
           /\ [m EXCEPT !.failed = TRUE] \in MemoryType
  BY DEF MemoryType

LEMMA NewMemoryOK == NewMemory \in MemoryType
  BY DEF NewMemory, MemoryType

-----------------------------------------------------------------------------
\* The operators of WebSession.
LEMMA StartIsOK ==
    ASSUME NEW r, IsRecord(r), RecordOK(r) PROVE RecordOK(W!StartGuided(W!Derived(r)))
<1>1. IsRecord(W!Derived(r)) /\ RecordOK(W!Derived(r))
  BY Fields DEF Field, IsRecord, RecordOK, W!Derived
<1>2. ASSUME NEW q, IsRecord(q), RecordOK(q) PROVE RecordOK(W!StartGuided(q))
  BY <1>2, Fields DEF Field, IsRecord, RecordOK, W!StartGuided
<1> QED
  BY <1>1, <1>2

LEMMA ConfirmedIsOK ==
    ASSUME NEW r, NEW b \in Branch, IsRecord(r), r.location \in Place \cup {None},
           r.evidence \subseteq {W!Text}
    PROVE  RecordOK(W!Confirmed(r, b))
  BY Fields DEF Field, IsRecord, RecordOK, W!Confirmed

LEMMA ReplacedIsBare ==
    ASSUME IsRecord(rec), NEW b, NEW clear \in BOOLEAN PROVE W!Replaced(b, clear).evidence = {}
<1>1. IsRecord(W!NewVersion(rec))
  BY Fields DEF Field, IsRecord, W!NewVersion
<1> DEFINE flagged(v, w) ==
             [W!NewVersion(rec) EXCEPT
                !.branch = b, !.evidence = {}, !.started = FALSE,
                !.active = FALSE, !.own = None, !.media = 0,
                !.mediaBranch = None, !.mediaOk = FALSE, !.recheck = v,
                !.checklist = @ \ {"consultation"}, !.form = w]
           cleared(r) == [r EXCEPT !.location = None, !.source = FALSE, !.form = None,
                                   !.checklist = @ \ {"location"}]
<1>2. ASSUME NEW v, NEW w PROVE IsRecord(flagged(v, w)) /\ flagged(v, w).evidence = {}
  BY <1>1, Fields DEF Field, IsRecord
<1>3. ASSUME NEW r, IsRecord(r) PROVE cleared(r).evidence = r.evidence
  BY <1>3, Fields DEF Field, IsRecord
<1> DEFINE v0 == \/ rec.location # None \/ rec.start # 0
                  \/ rec.shared \/ clear
           w0 == IF rec.source THEN b ELSE None
           r0 == flagged(v0, w0)
<1>4. W!Replaced(b, clear) = IF clear THEN cleared(r0) ELSE r0
  BY Zenon DEF W!Replaced
<1>5. IsRecord(r0) /\ r0.evidence = {}
  <2> HIDE DEF v0, w0
  <2> QED
    BY <1>2
<1> HIDE DEF r0
<1> QED
  BY <1>3, <1>4, <1>5

LEMMA CorrectionIsOK ==
    ASSUME IsRecord(rec), RecordOK(rec)
    PROVE  RecordOK(W!Invalidate(W!LocationCleared(rec)))
<1>1. IsRecord(W!LocationCleared(rec)) /\ RecordOK(W!LocationCleared(rec))
  BY Fields DEF Field, IsRecord, RecordOK, W!LocationCleared
<1>2. ASSUME NEW q, IsRecord(q), RecordOK(q) PROVE RecordOK(W!Invalidate(q))
  BY <1>2, Fields DEF Field, IsRecord, RecordOK, W!Invalidate, W!NewVersion
<1> QED
  BY <1>1, <1>2

LEMMA CommittedIsOK ==
    ASSUME IsRecord(rec), RecordOK(rec), TurnInv, ~Idle PROVE RecordOK(Committed(rec))
<1>1. /\ Committed(rec).branch = rec.branch /\ Committed(rec).evidence = turn.evidence
      /\ Committed(rec).location = turn.location /\ Committed(rec).source = turn.source
      /\ Committed(rec).form = IF turn.location # None /\ turn.source THEN rec.branch
                               ELSE rec.form
  BY Fields DEF Field, IsRecord, Committed
<1> QED
  BY <1>1, AgentLoopAssumption DEF RecordOK, TurnInv

-----------------------------------------------------------------------------
(***************************************************************************)
(* The steps.                                                              *)
(***************************************************************************)
LEMMA BeginIsOK ==
    ASSUME NEW r, NEW mem \in MemoryType, BeginTurn(r, mem), RecordOK(r)
    PROVE  RecordOK(rec') /\ TurnOK(turn') /\ memory' \in MemoryType
  BY AgentLoopAssumption DEF BeginTurn, TurnOK

\* A text that is captured, and what is held of it.
LEMMA CaptureIsOK ==
    ASSUME HeldOK, NEW t \in Utterance, NEW c \in County \cup {None},
           NEW s \in {inputs, << >>}, Capture(c, s, t)
    PROVE  HeldOK'
<1>1. t.counties \subseteq County /\ t.yes \subseteq District /\ t.no \subseteq District
  BY AgentLoopAssumption
<1>2. HeardOK(heard')
  <2>1. \A d \in District : (CASE d \in t.yes -> "yes"
                               [] d \in t.no  -> "no"
                               [] OTHER       -> heard.last[d]) \in {"none", "yes", "no"}
    BY AgentLoopAssumption DEF HeldOK, HeardOK
  <2>2. (IF t.yes # {} THEN t.yes ELSE heard.yes) \in SUBSET District
    BY <1>1 DEF HeldOK, HeardOK
  <2>3. heard' = [last |-> [d \in District |-> CASE d \in t.yes -> "yes"
                                                [] d \in t.no  -> "no"
                                                [] OTHER       -> heard.last[d]],
                  yes |-> IF t.yes # {} THEN t.yes ELSE heard.yes]
    BY DEF Capture
  <2> QED
    BY <2>1, <2>2, <2>3 DEF HeardOK
<1>3. county' \in County \cup {None}
  <2> DEFINE c0 == IF t.corrects THEN None ELSE c
  <2>1. c0 \in County \cup {None}
    OBVIOUS
  <2>2. county' = CASE t.counties = {} -> c0
                    [] Cardinality(t.counties) = 1 -> CHOOSE x \in t.counties : TRUE
                    [] OTHER -> None
    BY DEF Capture, Captured
  <2> HIDE DEF c0
  <2>3. t.counties = {} => Cardinality(t.counties) # 1
    BY FS_EmptySet
  <2>4. t.counties # {} => (CHOOSE x \in t.counties : TRUE) \in County
    BY <1>1
  <2>5. CASE t.counties = {}
    BY <2>1, <2>2, <2>3, <2>5
  <2>6. CASE t.counties # {} /\ Cardinality(t.counties) = 1
    BY <2>2, <2>4, <2>6
  <2>7. CASE t.counties # {} /\ Cardinality(t.counties) # 1
    BY <2>2, <2>7
  <2> QED
    BY <2>5, <2>6, <2>7
<1>4. PICK z \in {inputs, << >>} : inputs' = LastTexts(Append(z, t))
  BY DEF Capture, Captured
<1>5. z \in Seq(Utterance) /\ Len(z) <= Window /\ Len(z) \in Nat
  <2>1. CASE z = inputs
    BY <2>1 DEF HeldOK
  <2>2. CASE z = << >>
    BY <2>2, EmptyTells, EmptySeq, AgentLoopAssumption
  <2> QED
    BY <2>1, <2>2
<1> DEFINE y == Append(z, t)
<1>6. y \in Seq(Utterance) /\ Len(y) = Len(z) + 1
  BY <1>5, AppendProperties
<1> HIDE DEF y
<1>7. LastTexts(y) \in Seq(Utterance) /\ Len(LastTexts(y)) <= Window
  <2>1. CASE ~(Len(y) > Window)
    BY <1>5, <1>6, <2>1, AgentLoopAssumption DEF LastTexts
  <2>2. CASE Len(y) > Window
    <3>1. Tail(y) \in Seq(Utterance) /\ Len(Tail(y)) = Len(y) - 1
      BY <1>6, <2>2, HeadTailProperties, AgentLoopAssumption
    <3> QED
      BY <1>5, <1>6, <2>2, <3>1, AgentLoopAssumption DEF LastTexts
  <2> QED
    BY <2>1, <2>2
<1> QED
  BY <1>2, <1>3, <1>4, <1>7 DEF HeldOK, y

\* A text put aside or not captured leaves the texts held, and what was said.
LEMMA SameLocationOK == ASSUME HeldOK, UNCHANGED location PROVE HeldOK'
  BY DEF HeldOK, HeardOK, location

LEMMA SpokenSaidOK ==
    ASSUME IInv, TypeInv, Decided \/ \E t \in Utterance : Spoken(t) PROVE SaidOK'
<1>1. {county, None} \subseteq County \cup {None} /\ HeldOK
  BY DEF TypeInv, SaidOK, HeldOK
<1>2. HeldOK'
  <2>1. ASSUME NEW t \in Utterance, Spoken(t) PROVE HeldOK'
    BY <1>1, <2>1, SpokenCaptures, SameLocationOK, CaptureIsOK
  <2>2. ASSUME NEW b \in Branch, Confirm(b) PROVE HeldOK'
    BY <1>1, <2>2, ConfirmCaptures, SameLocationOK, CaptureIsOK DEF IInv
  <2>3. CASE NonTarget \/ \E b \in Branch : RejectProposal(b)
    BY <1>1, <2>3, SameLocationOK DEF NonTarget, RejectProposal
  <2> QED
    BY <2>1, <2>2, <2>3 DEF Decided
<1>3. texts' \in 0..MaxTexts
  <2>1. texts' = texts \/ Say
    BY DEF Decided, Spoken, Describe, PutAside, Chat, CorrectLocation, NonTarget,
           RejectProposal, Confirm
  <2> QED
    BY <2>1, AgentLoopAssumption DEF Say, TypeInv, SaidOK
<1> QED
  BY <1>2, <1>3 DEF SaidOK

LEMMA WithdrawnIsOK ==
    ASSUME NEW r, IsRecord(r), RecordOK(r) PROVE RecordOK(Withdrawn(r))
<1> DEFINE q == [r EXCEPT !.routing = {}, !.pending = FALSE, !.place = FALSE]
<1>1. IsRecord(q)
  BY Fields DEF Field, IsRecord
<1>2. RecordOK(q)
  BY Fields DEF Field, IsRecord, RecordOK
<1>3. Withdrawn(r) = W!Derived(q)
  BY Zenon DEF Withdrawn
<1> HIDE DEF q
<1> QED
  BY <1>1, <1>2, <1>3, Fields DEF Field, IsRecord, RecordOK, W!Derived

LEMMA TakenIsOK ==
    ASSUME IsRecord(rec), RecordOK(rec), NEW b \in Branch PROVE RecordOK(Taken(b))
<1> DEFINE q == IF rec.branch # None /\ b # rec.branch
                THEN W!Replaced(b, Moved(b)) ELSE rec
<1>1. Moved(b) \in BOOLEAN
  BY DEF Moved, HasPlace
<1>2. /\ IsRecord(q) /\ q.location \in {rec.location, None}
      /\ q.evidence \in {rec.evidence, {}}
  BY <1>1, ReplacedKeeps, ReplacedIsBare
<1>3. q.location \in Place \cup {None} /\ q.evidence \subseteq {W!Text}
  <2> HIDE DEF q
  <2> QED
    BY <1>2 DEF RecordOK
<1>4. Taken(b) = W!Confirmed(q, b)
  BY Zenon DEF Taken
<1> HIDE DEF q
<1> QED
  BY <1>2, <1>3, <1>4, ConfirmedIsOK

LEMMA SpokenIsOK ==
    ASSUME IInv, TypeInv, Decided \/ \E t \in Utterance : Spoken(t) PROVE TypeInv'
<1> USE DEF IInv, MemoryInv, TypeInv
<1>1. SaidOK'
  BY SpokenSaidOK
<1>2. ASSUME NEW t, NEW c, Describe(t, c) \/ PutAside(t, c) PROVE TypeInv'
  <2>1. \E v, w, x : rec' = [rec EXCEPT !.routing = c, !.pending = v, !.place = w, !.state = x]
    BY <1>2 DEF Describe, PutAside
  <2>2. RecordOK(rec')
    BY <2>1, Fields DEF Field, IsRecord, RecordOK
  <2> QED
    BY <1>1, <1>2, <2>2 DEF Describe, PutAside, NoNewTurn
<1>3. CASE NonTarget \/ \E b \in Branch : RejectProposal(b)
  <2>1. rec' = Withdrawn(rec) /\ NoNewTurn
    BY <1>3 DEF NonTarget, RejectProposal
  <2> QED
    BY <1>1, <2>1, WithdrawnIsOK DEF NoNewTurn
<1>4. ASSUME NEW b \in Branch, Confirm(b) PROVE TypeInv'
  <2> DEFINE mem == IF Moved(b) THEN NewMemory ELSE memory
  <2>1. IsRecord(Taken(b)) /\ RecordOK(Taken(b))
    BY TakenIsOK, TakenKeeps
  <2>2. mem \in MemoryType
    BY NewMemoryOK
  <2> HIDE DEF mem
  <2>3. CASE rec' = W!StartGuided(W!Derived(Taken(b))) /\ NoNewTurn
    BY <1>1, <2>1, <2>3, StartIsOK DEF NoNewTurn
  <2>4. CASE BeginTurn(Taken(b), mem)
    BY <1>1, <2>1, <2>2, <2>4, BeginIsOK
  <2> QED
    BY <1>4, <2>3, <2>4, ConfirmSteps DEF mem
<1>5. ASSUME NEW t, Chat(t) PROVE TypeInv'
  BY <1>1, <1>5, BeginIsOK DEF Chat
<1>6. ASSUME NEW t, CorrectLocation(t) PROVE TypeInv'
  <2> DEFINE r == W!Invalidate(W!LocationCleared(rec))
  <2>1. RecordOK(r)
    BY CorrectionIsOK
  <2>2. BeginTurn(r, NewMemory)
    BY <1>6 DEF CorrectLocation
  <2> HIDE DEF r
  <2> QED
    BY <1>1, <2>1, <2>2, NewMemoryOK, BeginIsOK
<1> QED
  BY <1>2, <1>3, <1>4, <1>5, <1>6 DEF Spoken, Decided

LEMMA EndIsOK == ASSUME IInv, TypeInv, ~Idle, NEW stop, EndTurn(stop) PROVE TypeInv'
<1> USE DEF IInv, MemoryInv, TypeInv
<1>1. TurnOK(turn') /\ memory' \in MemoryType
  BY NewMemoryOK, AgentLoopAssumption DEF EndTurn, NoTurn, TurnOK, Remembered
<1>2. RecordOK(rec')
  <2>1. CASE rec' = [rec EXCEPT !.state = "error"]
    BY <2>1, Fields DEF Field, IsRecord, RecordOK
  <2>2. CASE rec' = W!StartGuided(W!Derived(rec))
    BY <2>2, StartIsOK
  <2>3. CASE rec' = W!StartGuided(W!Derived(Committed(rec)))
    <3>1. IsRecord(Committed(rec)) /\ RecordOK(Committed(rec))
      BY Fields, CommittedIsOK DEF Field, IsRecord, Committed
    <3> QED
      BY <2>3, <3>1, StartIsOK
  <2> QED
    BY <2>1, <2>2, <2>3 DEF EndTurn
<1>3. county' \in County \cup {None}
  <2>1. turn.location \in Place \cup {None}
    BY DEF TurnInv, RecordOK
  <2>2. turn.location \in Place => turn.location[1] \in County
    BY DEF Place
  <2> QED
    BY <2>1, <2>2 DEF EndTurn, SaidOK, HeldOK
<1>4. SaidOK'
  BY <1>3 DEF EndTurn, SaidOK, HeldOK, HeardOK
<1> QED
  BY <1>1, <1>2, <1>4

\* A tool's result: the turn loses a call and may have found something.
LEMMA ResultIsOK ==
    ASSUME TypeInv, NEW mem \in MemoryType, NEW t, NEW verdict \in {"ok", "recoverable", "fatal"},
           IsTurn(t), t.at = turn.at, t.left = turn.left, t.steps = turn.steps,
           t.verdict = turn.verdict, t.mark = turn.mark, Result(mem, t, verdict)
    PROVE  TypeInv'
<1>1. turn' = [t EXCEPT !.verdict = Worst(@, verdict), !.left = @ - 1,
                        !.at = IF turn.left = 1 THEN "model" ELSE @]
      /\ turn.at = "tools"
  BY DEF Result, Running
<1>2. /\ turn'.verdict = Worst(t.verdict, verdict) /\ turn'.left = turn.left - 1
      /\ turn'.at = (IF turn.left = 1 THEN "model" ELSE turn.at)
      /\ turn'.steps = turn.steps /\ turn'.mark = turn.mark
  BY <1>1 DEF IsTurn
<1>3. TurnOK(turn')
  BY <1>1, <1>2, AgentLoopAssumption DEF TypeInv, TurnOK, Worst
<1>4. memory' = mem /\ rec' = rec /\ SaidOK'
  BY DEF Result, InTurn, location, TypeInv, SaidOK, HeldOK, HeardOK
<1> QED
  BY <1>3, <1>4 DEF TypeInv

LEMMA ToolsAreOK ==
    ASSUME IInv, TypeInv, Running("tools"),
           \/ SearchServices \/ UnknownTool
           \/ \E p, q \in Place : ResolveLocation(p, q)
           \/ \E ours \in BOOLEAN : GetConsultationForm(ours)
    PROVE  TypeInv'
<1> USE DEF IInv, MemoryInv
<1>1. memory \in MemoryType /\ IsTurn(turn)
  BY DEF TypeInv
<1>2. FailedMemory \in MemoryType
  BY <1>1, MemoryFields DEF FailedMemory
<1>3. ASSUME NEW mem \in MemoryType, NEW verdict \in {"ok", "recoverable", "fatal"},
             Result(mem, turn, verdict)
      PROVE  TypeInv'
  BY <1>1, <1>3, ResultIsOK
<1>4. CASE SearchServices
  <2> DEFINE t == [turn EXCEPT !.evidence = @ \cup {W!Text}]
  <2>1. /\ IsTurn(t) /\ t.at = turn.at /\ t.left = turn.left /\ t.steps = turn.steps
        /\ t.verdict = turn.verdict /\ t.mark = turn.mark
    BY <1>1 DEF IsTurn
  <2>2. \/ \E mem \in {memory, FailedMemory} : Result(mem, turn, "fatal")
        \/ Result(memory, t, "ok")
    BY <1>4 DEF SearchServices
  <2> HIDE DEF t
  <2> QED
    BY <1>1, <1>2, <1>3, <2>1, <2>2, ResultIsOK
<1>5. CASE UnknownTool
  BY <1>2, <1>3, <1>5 DEF UnknownTool
<1>6. ASSUME NEW p \in Place, NEW q \in Place, ResolveLocation(p, q) PROVE TypeInv'
  <2> DEFINE mem == [memory EXCEPT !.place = q]
             t == [turn EXCEPT !.location = q]
  <2>1. /\ IsTurn(t) /\ t.at = turn.at /\ t.left = turn.left /\ t.steps = turn.steps
        /\ t.verdict = turn.verdict /\ t.mark = turn.mark
    BY <1>1 DEF IsTurn
  <2>2. mem \in MemoryType
    BY <1>1, MemoryFields
  <2> HIDE DEF mem, t
  <2>3. \/ \E m \in {mem, FailedMemory}, verdict \in {"recoverable", "fatal"} :
              Result(m, turn, verdict)
        \/ Result(mem, t, "ok")
    BY <1>6 DEF ResolveLocation, mem, t
  <2> QED
    BY <1>2, <1>3, <2>1, <2>2, <2>3, ResultIsOK
<1>7. ASSUME NEW ours \in BOOLEAN, GetConsultationForm(ours) PROVE TypeInv'
  <2> DEFINE mem == [memory EXCEPT !.form = TRUE]
             t == [turn EXCEPT !.source = TRUE]
  <2>0. t = [turn EXCEPT !.source = TRUE]
    OBVIOUS
  <2>2. mem \in MemoryType
    BY <1>1, MemoryFields
  <2> HIDE DEF mem, t
  <2>1. /\ IsTurn(t) /\ t.at = turn.at /\ t.left = turn.left /\ t.steps = turn.steps
        /\ t.verdict = turn.verdict /\ t.mark = turn.mark
    BY <1>1, <2>0, SetSource
  <2>3. \/ \E m \in {mem, FailedMemory}, verdict \in {"recoverable", "fatal"} :
              Result(m, turn, verdict)
        \/ Result(mem, t, "ok")
    BY <1>7 DEF GetConsultationForm, mem, t
  <2> QED
    BY <1>2, <1>3, <2>1, <2>2, <2>3, ResultIsOK
<1> QED
  BY <1>4, <1>5, <1>6, <1>7

LEMMA ModelIsOK == ASSUME IInv, TypeInv, ListTools \/ Model PROVE TypeInv'
<1>1. ~Idle /\ IsTurn(turn)
  BY DEF ListTools, Model, Running, Idle, IInv, MemoryInv
<1>2. ASSUME NEW stop, EndTurn(stop) PROVE TypeInv'
  BY <1>1, <1>2, EndIsOK
<1>3. ASSUME InTurn, UNCHANGED memory, TurnOK(turn') PROVE TypeInv'
  BY <1>3 DEF InTurn, location, TypeInv, SaidOK, HeldOK, HeardOK
<1>4. CASE turn' = [turn EXCEPT !.at = "model"] /\ UNCHANGED memory /\ InTurn
  <2>1. TurnOK(turn')
    BY <1>1, <1>4 DEF IsTurn, TypeInv, TurnOK
  <2> QED
    BY <1>3, <1>4, <2>1
<1>5. CASE /\ turn.steps # MaxSteps
           /\ \E n \in 1..MaxCalls :
                turn' = [turn EXCEPT !.at = "tools", !.left = n, !.steps = @ + 1]
           /\ UNCHANGED memory /\ InTurn
  <2>1. PICK n \in 1..MaxCalls :
                turn' = [turn EXCEPT !.at = "tools", !.left = n, !.steps = @ + 1]
    BY <1>5
  <2>2. /\ turn'.at = "tools" /\ turn'.left = n /\ turn'.steps = turn.steps + 1
        /\ turn'.verdict = turn.verdict /\ turn'.mark = turn.mark
    BY <1>1, <2>1 DEF IsTurn
  <2>3. TurnOK(turn')
    BY <1>5, <2>2, AgentLoopAssumption DEF TypeInv, TurnOK
  <2> QED
    BY <1>3, <1>5, <2>3
<1> QED
  BY <1>2, <1>4, <1>5 DEF ListTools, Model

LEMMA ResetIsOK ==
    ASSUME rec' = W!NewRecord(1), county' = None, inputs' = << >>, memory' = NewMemory,
           heard' = [last |-> [d \in District |-> "none"], yes |-> {}],
           TurnOK(turn'), texts' \in 0..MaxTexts
    PROVE  TypeInv'
<1>1. RecordOK(rec')
  BY DEF RecordOK, W!NewRecord
<1>2. inputs' \in Seq(Utterance) /\ Len(inputs') <= Window
  BY EmptyTells, EmptySeq, AgentLoopAssumption
<1>3. HeardOK(heard')
  BY DEF HeardOK
<1> QED
  BY <1>1, <1>2, <1>3, NewMemoryOK DEF TypeInv, SaidOK, HeldOK

LEMMA InitTypeInv == Init => TypeInv
<1> SUFFICES ASSUME Init PROVE TypeInv
  OBVIOUS
<1>1. RecordOK(rec)
  BY DEF Init, RecordOK, W!NewRecord
<1>2. TurnOK(turn) /\ memory \in MemoryType
  BY NewMemoryOK, AgentLoopAssumption DEF Init, NoTurn, TurnOK
<1>3. inputs \in Seq(Utterance) /\ Len(inputs) <= Window
  BY EmptyTells, EmptySeq, AgentLoopAssumption DEF Init
<1>4. HeardOK(heard)
  BY DEF HeardOK, Init
<1> QED
  BY <1>1, <1>2, <1>3, <1>4, AgentLoopAssumption DEF Init, TypeInv, SaidOK, HeldOK

LEMMA NextTypeInv == ASSUME IInv, TypeInv, [Next]_vars PROVE TypeInv'
<1>1. ASSUME NEW t \in Utterance, Spoken(t) PROVE TypeInv'
  BY <1>1, SpokenIsOK
<1>2. CASE Decided
  BY <1>2, SpokenIsOK
<1>3. CASE Loop
  BY <1>3, ModelIsOK, ToolsAreOK DEF Loop
<1>4. CASE Reset
  BY <1>4, ResetIsOK DEF Reset, TypeInv, SaidOK
<1>5. CASE UNCHANGED vars
  BY <1>5 DEF vars, TypeInv, SaidOK, HeldOK, HeardOK
<1> QED
  BY <1>1, <1>2, <1>3, <1>4, <1>5 DEF Next, Spoken, Decided

\* However the model and the tools behave, a form is open only when the record
\* has a location and a form to project, the turn keeps its budgets, and no more
\* texts are held than the window takes.
THEOREM TypeCorrect == Spec => []TypeOK
<1>1. IInv /\ TypeInv /\ [Next]_vars => TypeInv'
  BY NextTypeInv
<1> QED
  BY <1>1, InitTypeInv, TypeInvIsType, Invariant, PTL DEF Spec
=============================================================================
