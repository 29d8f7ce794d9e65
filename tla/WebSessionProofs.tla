-------------------------- MODULE WebSessionProofs --------------------------
(***************************************************************************)
(* What a session may do between the form the consumer saves and the case  *)
(* a provider is sent, for any branches, places, answers and texts.        *)
(*                                                                         *)
(* The argument: every handler either keeps the summary (its id, its       *)
(* approval and what it says) or renews it, which takes a fresh id and     *)
(* drops the approval; a record that must be checked again shows no        *)
(* summary until the form is saved.  So what a page holds for the present  *)
(* id, and what was approved under it, is what the record says.  Once a    *)
(* case exists few handlers still run, and none of them touches the form   *)
(* or the files.                                                           *)
(***************************************************************************)
EXTENDS WebSession, SequenceTheorems, TLAPS

\* The case workflow's own theorems.
Service == INSTANCE CaseWorkflowProofs WITH Session <- {Me}, Lag <- 0

-----------------------------------------------------------------------------
(* One record. *)

IsRecord(r) == DOMAIN r = DOMAIN NewRecord(1) /\ r = [f \in DOMAIN r |-> r[f]]

\* A summary was made and nothing has to be checked again.
Fixed(r) == r.version > 0 /\ ~r.recheck
\* Nothing is left to be asked.
Settled(r) ==
    /\ ~r.active /\ r.branch # None /\ r.location # None /\ r.form # None
    /\ r.own \in Answer /\ r.start # 0

RecOK(r) ==
    /\ IsRecord(r)
    /\ r.branch \in Branch \cup {None} /\ r.location \in Location \cup {None}
    /\ r.form \in {None, r.branch}
    /\ r.own \in Answer \cup {None, "some"} /\ r.start \in Start \cup {0}
    /\ r.task \in Nat /\ r.version \in Nat /\ r.id \in Nat
    /\ r.media \in 0..MaxMedia
    /\ r.id # 0 <=> r.version > 0
    /\ r.version > 0 => r.shared
    /\ r.mediaOk => r.mediaBranch # None
    /\ Fixed(r) => Settled(r)

\* The summary is the same in q as in r, and so is what it says.
SameSummary(r, q) ==
    /\ q.task = r.task /\ q.version = r.version /\ q.id = r.id
    /\ q.okVersion = r.okVersion /\ q.okId = r.okId /\ q.approved = r.approved
    /\ q.recheck = r.recheck /\ q.shared = r.shared
Keeps(r, q) ==
    /\ SameSummary(r, q)
    /\ Fixed(r) => /\ Form(q) = Form(r)
                   /\ Image(q) = Image(r)
                   /\ MediaConfirmed(r) => MediaConfirmed(q)

\* q has a new summary, if r had one, and no approval; it has to be checked
\* again unless the form is as it was.
Renews(r, q, n) ==
    /\ q.task = r.task /\ q.okVersion = 0 /\ q.okId = 0
    /\ q.version = IF r.version > 0 THEN r.version + 1 ELSE 0
    /\ q.id = IF r.version > 0 THEN n + 1 ELSE 0
    /\ Fixed(q) => Fixed(r) /\ Form(q) = Form(r)

\* What was approved is what the record says.
Approved(r) ==
    r.okId # 0 => /\ r.okId = r.id /\ r.okVersion = r.version
                  /\ Fixed(r) /\ MediaConfirmed(r)
                  /\ r.approved = Content(r)
\* A page that holds the present summary shows what the record says.
OnScreen(sc, r, n) ==
    sc # None =>
        /\ sc.task \in Nat /\ sc.task <= r.task
        /\ sc.id \in Nat /\ sc.id # 0 /\ sc.id <= n
        /\ sc.task = r.task /\ sc.id = r.id => Fixed(r) /\ sc.content = Content(r)

\* A record, with the last id issued, the page and the form as saved.
Good(r, n, sc, sv) ==
    /\ RecOK(r) /\ n \in Nat /\ r.id <= n
    /\ Fixed(r) => Form(r) = sv
    /\ Approved(r)
    /\ OnScreen(sc, r, n)

\* A handler that keeps the summary keeps all that is known of it.
LEMMA GoodKept ==
    ASSUME NEW r, NEW q, NEW n, NEW sc, NEW sv, Good(r, n, sc, sv), RecOK(q), Keeps(r, q)
    PROVE  Good(q, n, sc, sv)
<1>1. Fixed(q) <=> Fixed(r)
  BY DEF Keeps, SameSummary, Fixed
<1>2. Fixed(r) => Content(q) = Content(r)
  BY DEF Keeps, Content
<1>3. Approved(q)
  BY <1>1, <1>2 DEF Good, Keeps, SameSummary, Approved
<1>4. OnScreen(sc, q, n)
  BY <1>1, <1>2 DEF Good, Keeps, SameSummary, OnScreen
<1> QED BY <1>1, <1>3, <1>4 DEF Good, Keeps, SameSummary

\* A handler that renews it starts again.
LEMMA GoodRenewed ==
    ASSUME NEW r, NEW q, NEW n, NEW sc, NEW sv, Good(r, n, sc, sv), RecOK(q),
           Renews(r, q, n)
    PROVE  Good(q, IF q.id > n THEN q.id ELSE n, sc, sv)
<1>1. Approved(q)
  BY DEF Renews, Approved
<1>2. /\ n \in Nat /\ r.id \in Nat /\ r.version \in Nat /\ q.id \in Nat
      /\ q.id = IF r.version > 0 THEN n + 1 ELSE 0
  BY DEF Good, RecOK, Renews
<1>3. OnScreen(sc, q, IF q.id > n THEN q.id ELSE n)
  BY <1>2 DEF Good, Renews, OnScreen
<1> QED BY <1>1, <1>2, <1>3 DEF Good, Renews

\* Keeping, and renewing and then keeping.
LEMMA KeepsTwice ==
    ASSUME NEW r, NEW p, NEW q, Keeps(r, p), Keeps(p, q)
    PROVE  Keeps(r, q)
BY DEF Keeps, SameSummary, Fixed
LEMMA RenewsThenKeeps ==
    ASSUME NEW r, NEW p, NEW q, NEW n, Renews(r, p, n), Keeps(p, q)
    PROVE  Renews(r, q, n)
BY DEF Keeps, SameSummary, Renews, Fixed

-----------------------------------------------------------------------------
(* The operators on records. *)

\* The fields a record has.
Field == {"task", "state", "routing", "branch", "pending", "place", "stopped",
          "evidence", "location", "source", "form", "started", "active", "own",
          "shared", "start", "version", "id", "okVersion", "okId", "approved",
          "recheck", "candidates", "media", "mediaBranch", "mediaOk", "checklist"}
LEMMA Fields == ASSUME NEW r, IsRecord(r) PROVE DOMAIN r = Field
  BY DEF IsRecord, Field, NewRecord

\* q differs from r in nothing the summary is about, except the image.
Mild(r, q) ==
    /\ IsRecord(q)
    /\ SameSummary(r, q)
    /\ q.branch = r.branch /\ q.location = r.location /\ q.form = r.form
    /\ q.own = r.own /\ q.start = r.start
    /\ q.active = r.active
    /\ r.stopped => q.stopped
\* Nor in the image.
Milder(r, q) ==
    /\ Mild(r, q)
    /\ q.media = r.media /\ q.mediaBranch = r.mediaBranch /\ q.mediaOk = r.mediaOk

\* What a handler may do to the record, when n is the last id issued.
Steps(r, q, n) ==
    /\ RecOK(q)
    /\ r.stopped => q.stopped
    /\ Keeps(r, q) \/ Renews(r, q, n)

LEMMA MilderSteps ==
    ASSUME NEW r, NEW q, NEW n, RecOK(r), Milder(r, q)
    PROVE  RecOK(q) /\ Keeps(r, q) /\ Steps(r, q, n)
BY DEF Milder, Mild, RecOK, Keeps, SameSummary, Fixed, Settled, Form, Image, MediaConfirmed,
       Steps

\* Without a summary in force, only the summary has to be kept.
LEMMA UnfixedKeeps ==
    ASSUME NEW r, NEW q, ~Fixed(r), SameSummary(r, q)
    PROVE  Keeps(r, q) /\ ~Fixed(q)
BY DEF Keeps, SameSummary, Fixed

LEMMA StepsThenMilder ==
    ASSUME NEW r, NEW p, NEW q, NEW n, Steps(r, p, n), Milder(p, q)
    PROVE  Steps(r, q, n)
<1>1. RecOK(p) /\ RecOK(q) /\ Keeps(p, q) /\ (p.stopped => q.stopped)
  BY MilderSteps DEF Steps, Milder, Mild
<1>2. CASE Keeps(r, p)
  BY <1>1, <1>2, KeepsTwice DEF Steps
<1>3. CASE Renews(r, p, n)
  BY <1>1, <1>3, RenewsThenKeeps DEF Steps
<1> QED BY <1>2, <1>3 DEF Steps

\* The state is none of the summary's business.
LEMMA StateMilder ==
    ASSUME NEW r, IsRecord(r), NEW st
    PROVE  Milder(r, [r EXCEPT !.state = st])
BY Fields DEF Field, IsRecord, Milder, Mild, SameSummary
LEMMA DerivedMilder == ASSUME NEW r, IsRecord(r) PROVE Milder(r, Derived(r))
BY StateMilder DEF Derived
LEMMA ViewedMilder == ASSUME NEW r, NEW cs, IsRecord(r) PROVE Milder(r, Viewed(r, cs))
<1>1. CASE cs = << >>
  BY <1>1 DEF Viewed, Milder, Mild, SameSummary
<1>2. CASE cs # << >>
  BY <1>2, StateMilder DEF Viewed
<1> QED BY <1>1, <1>2
\* Nor are what the consumer is asked and how the conversation goes on.
LEMMA TalkMilder ==
    ASSUME NEW r, IsRecord(r), NEW ro, NEW st
    PROVE  /\ Milder(r, [r EXCEPT !.routing = ro, !.pending = FALSE, !.place = FALSE])
           /\ Milder(r, [r EXCEPT !.routing = ro, !.pending = FALSE, !.place = FALSE,
                                  !.state = st])
           /\ \A pl : Milder(r, [r EXCEPT !.routing = ro, !.pending = TRUE,
                                          !.place = pl, !.state = st])
           /\ Milder(r, [r EXCEPT !.routing = ro])
           /\ Milder(r, [r EXCEPT !.pending = FALSE, !.place = FALSE, !.stopped = TRUE])
           /\ Milder(r, [r EXCEPT !.routing = ro, !.pending = FALSE, !.place = FALSE,
                                  !.stopped = TRUE])
           /\ \A li : Milder(r, [r EXCEPT !.checklist = li])
BY Fields DEF Field, IsRecord, Milder, Mild, SameSummary
LEMMA DropImageMild ==
    ASSUME NEW r, IsRecord(r)
    PROVE  LET q == DropImage(r) IN
           Mild(r, q) /\ q.media = 0 /\ q.mediaBranch = None /\ q.mediaOk = FALSE
BY Fields DEF Field, IsRecord, Mild, SameSummary, DropImage

\* A new version of q, which is r or what a handler has made of it.
LEMMA NewVersionRenews ==
    ASSUME NEW r, NEW q, RecOK(q), ids \in Nat,
           q.task = r.task, q.version = r.version, q.id = r.id,
           Fixed(q) => Fixed(r) /\ Form(q) = Form(r),
           r.stopped => q.stopped
    PROVE  LET v == NewVersion(q) IN
           /\ RecOK(v) /\ Renews(r, v, ids) /\ Steps(r, v, ids)
           /\ v.version = IF r.version > 0 THEN r.version + 1 ELSE 0
           /\ v.recheck = q.recheck /\ v.shared = q.shared
           /\ Fixed(v) <=> Fixed(q)
           /\ Form(v) = Form(q)
           /\ v.media = q.media /\ v.pending = q.pending /\ v.stopped = q.stopped
<1> DEFINE v == NewVersion(q)
<1>1. IsRecord(q) /\ DOMAIN q = Field
  BY Fields DEF RecOK
<1>2. /\ IsRecord(v)
      /\ v.version = (IF q.version > 0 THEN q.version + 1 ELSE 0)
      /\ v.id = (IF q.version > 0 THEN ids + 1 ELSE 0)
      /\ v.okVersion = 0 /\ v.okId = 0 /\ v.candidates = {}
      /\ v.recheck = q.recheck /\ v.shared = q.shared /\ v.task = q.task
  BY <1>1, Fields DEF IsRecord, NewVersion, Field
<1>3. /\ v.branch = q.branch /\ v.location = q.location /\ v.form = q.form
      /\ v.own = q.own /\ v.start = q.start /\ v.active = q.active
      /\ v.media = q.media /\ v.mediaBranch = q.mediaBranch /\ v.mediaOk = q.mediaOk
      /\ v.pending = q.pending /\ v.stopped = q.stopped
  BY <1>1 DEF NewVersion, Field
<1> HIDE DEF v
<1>4. q.version \in Nat
  BY DEF RecOK
<1>5. Fixed(v) <=> Fixed(q)
  BY <1>2, <1>4 DEF Fixed
<1>6. Form(v) = Form(q)
  BY <1>3 DEF Form
<1>7. RecOK(v)
  BY <1>2, <1>3, <1>4, <1>5 DEF RecOK, Settled
<1>8. Renews(r, v, ids)
  BY <1>2, <1>4, <1>5, <1>6 DEF Renews
<1>9. Steps(r, v, ids)
  BY <1>3, <1>7, <1>8 DEF Steps
<1> QED BY <1>2, <1>3, <1>4, <1>5, <1>6, <1>7, <1>8, <1>9 DEF v

LEMMA InvalidateRenews ==
    ASSUME NEW r, NEW q, RecOK(q), ids \in Nat,
           q.task = r.task, q.version = r.version, q.id = r.id,
           Fixed(q) => Fixed(r) /\ Form(q) = Form(r),
           r.stopped => q.stopped
    PROVE  LET v == Invalidate(q) IN
           /\ RecOK(v) /\ Renews(r, v, ids) /\ Steps(r, v, ids)
           /\ Fixed(v) <=> Fixed(q)
           /\ Form(v) = Form(q)
           /\ v.media = q.media /\ v.pending = q.pending /\ v.stopped = q.stopped
<1> DEFINE v == NewVersion(q)
           st == IF HasAnswers(q) THEN "awaiting_summary_confirmation" ELSE v.state
           w == [v EXCEPT !.state = st]
<1>1. /\ RecOK(v) /\ Renews(r, v, ids) /\ Steps(r, v, ids)
      /\ Fixed(v) <=> Fixed(q)
      /\ Form(v) = Form(q)
      /\ v.media = q.media /\ v.pending = q.pending /\ v.stopped = q.stopped
      /\ IsRecord(v)
  BY NewVersionRenews DEF RecOK
<1>2. Invalidate(q) = w
  BY Zenon DEF Invalidate
<1>3. w.pending = v.pending /\ w.stopped = v.stopped
  BY <1>1, Fields DEF Field
<1> HIDE DEF v, st
<1>4. Milder(v, w)
  BY <1>1, StateMilder
<1> HIDE DEF w
<1>5. Fixed(w) <=> Fixed(v)
  BY <1>4 DEF Milder, Mild, SameSummary, Fixed
<1>6. Form(w) = Form(v) /\ w.media = v.media
  BY <1>4 DEF Milder, Mild, Form
<1>7. RecOK(w) /\ Renews(r, w, ids) /\ Steps(r, w, ids)
  BY <1>1, <1>4, MilderSteps, RenewsThenKeeps, StepsThenMilder
<1> QED BY <1>1, <1>2, <1>3, <1>5, <1>6, <1>7

\* The same of a record that has been changed mildly.
LEMMA MildInvalidate ==
    ASSUME NEW r, NEW q, RecOK(r), Mild(r, q), ids \in Nat,
           q.media \in 0..MaxMedia, q.mediaOk => q.mediaBranch # None
    PROVE  LET v == Invalidate(q) IN
           /\ RecOK(v) /\ Steps(r, v, ids)
           /\ Fixed(v) <=> Fixed(r)
           /\ v.media = q.media /\ v.pending = q.pending /\ v.stopped = q.stopped
<1>1. Fixed(q) <=> Fixed(r)
  BY DEF Mild, SameSummary, Fixed
<1>2. Form(q) = Form(r)
  BY DEF Mild, Form
<1>3. RecOK(q)
  BY <1>1 DEF RecOK, Mild, SameSummary, Settled
<1> QED BY <1>1, <1>2, <1>3, InvalidateRenews DEF Mild, SameSummary

\* A safety stop.
LEMMA SafetyStopSteps ==
    ASSUME NEW r, RecOK(r), ids \in Nat
    PROVE  LET q == SafetyStop(r) IN
           /\ Steps(r, q, ids) /\ q.stopped /\ ~q.pending
           /\ q.media = r.media
           /\ Fixed(q) <=> Fixed(r)
<1> DEFINE s == [r EXCEPT !.pending = FALSE, !.place = FALSE, !.stopped = TRUE]
           v == Invalidate(s)
           q == [v EXCEPT !.state = "error"]
<1>1. IsRecord(r)
  BY DEF RecOK
<1>2. Milder(r, s)
  BY <1>1, TalkMilder
<1>3. s.pending = FALSE /\ s.stopped = TRUE
  BY <1>1, Fields DEF Field
<1> HIDE DEF s
<1>4. s.media \in 0..MaxMedia /\ (s.mediaOk => s.mediaBranch # None) /\ s.media = r.media
  BY <1>2 DEF Milder, RecOK
<1>5. /\ RecOK(v) /\ Steps(r, v, ids)
      /\ Fixed(v) <=> Fixed(r)
      /\ v.media = s.media /\ v.pending = s.pending /\ v.stopped = s.stopped
  BY <1>2, <1>4, MildInvalidate DEF Milder
<1> HIDE DEF v
<1>6. IsRecord(v)
  BY <1>5 DEF RecOK
<1>7. Milder(v, q)
  BY <1>6, StateMilder
<1>8. q.pending = v.pending /\ q.stopped = v.stopped
  BY <1>6, Fields DEF Field
<1> HIDE DEF q
<1>9. Steps(r, q, ids) /\ q.media = v.media
  BY <1>5, <1>7, StepsThenMilder DEF Milder
<1>10. Fixed(q) <=> Fixed(v)
  BY <1>7 DEF Milder, Mild, SameSummary, Fixed
<1>11. SafetyStop(r) = q
  BY Zenon DEF SafetyStop, q, v, s
<1> QED BY <1>3, <1>4, <1>5, <1>8, <1>9, <1>10, <1>11

\* q keeps the summary and the image of r.
Kept(r, q) ==
    /\ RecOK(q) /\ Keeps(r, q)
    /\ r.stopped => q.stopped
    /\ q.media = r.media
LEMMA KeptTwice ==
    ASSUME NEW r, NEW p, NEW q, Kept(r, p), Kept(p, q)
    PROVE  Kept(r, q)
BY KeepsTwice DEF Kept
LEMMA MilderKept ==
    ASSUME NEW r, NEW q, RecOK(r), Milder(r, q)
    PROVE  Kept(r, q)
BY MilderSteps DEF Kept, Milder, Mild
LEMMA StepsThenKept ==
    ASSUME NEW r, NEW p, NEW q, NEW n, Steps(r, p, n), Kept(p, q)
    PROVE  Steps(r, q, n) /\ q.media = p.media
BY KeepsTwice, RenewsThenKeeps DEF Steps, Kept
LEMMA KeptSteps ==
    ASSUME NEW r, NEW q, NEW n, Kept(r, q)
    PROVE  Steps(r, q, n) /\ q.media = r.media
BY DEF Steps, Kept

\* The guided questions start only when something is left to be asked.
LEMMA StartGuidedKept == ASSUME NEW r, RecOK(r) PROVE Kept(r, StartGuided(r))
<1>1. IsRecord(r)
  BY DEF RecOK
<1>2. CASE StartGuided(r) = r
  BY <1>1, <1>2 DEF Kept, Keeps, SameSummary
<1>3. CASE StartGuided(r) # r
  <2> DEFINE ac == r.own \notin Answer \/ r.start = 0
             q == [r EXCEPT !.started = TRUE, !.active = ac]
  <2>1. StartGuided(r) = q
    BY <1>3, Zenon DEF StartGuided
  <2>2. Fixed(r) => (ac <=> FALSE)
    BY DEF RecOK, Settled
  <2> HIDE DEF ac
  <2>3. /\ IsRecord(q) /\ SameSummary(r, q) /\ q.stopped = r.stopped
        /\ q.branch = r.branch /\ q.location = r.location /\ q.form = r.form
        /\ q.own = r.own /\ q.start = r.start
        /\ q.media = r.media /\ q.mediaBranch = r.mediaBranch /\ q.mediaOk = r.mediaOk
    BY <1>1, Fields DEF Field, IsRecord, SameSummary
  <2>4. q.active = ac
    BY <1>1, Fields DEF Field
  <2> HIDE DEF q
  <2>5. Fixed(q) <=> Fixed(r)
    BY <2>3 DEF SameSummary, Fixed
  <2>6. Keeps(r, q)
    BY <2>3 DEF Keeps, Form, Image, MediaConfirmed
  <2>7. Fixed(q) => Settled(q)
    BY <2>2, <2>3, <2>4, <2>5 DEF RecOK, Settled
  <2>8. RecOK(q)
    BY <2>3, <2>7 DEF RecOK, SameSummary
  <2> QED BY <2>1, <2>3, <2>6, <2>8 DEF Kept
<1> QED BY <1>2, <1>3

\* What the tools found goes into a record that has no summary in force.
LEMMA FoundKept ==
    ASSUME NEW r, RecOK(r), ~Fixed(r), NEW f \in Found(r)
    PROVE  Kept(r, f)
<1> DEFINE F(t) == [r EXCEPT !.evidence = t.evidence, !.location = t.location,
                            !.source = t.source,
                            !.form = IF t.location # None /\ t.source THEN r.branch ELSE @]
           Facts == [evidence : {r.evidence, r.evidence \cup {Text}},
                     location : {r.location} \cup Location,
                     source   : {r.source, TRUE}]
<1>0. PICK t \in Facts : f = F(t)
  BY Zenon DEF Found
<1> DEFINE lo == t.location
           fo == IF t.location # None /\ t.source THEN r.branch ELSE r.form
<1>1. /\ f = [r EXCEPT !.evidence = t.evidence, !.location = lo, !.source = t.source,
                       !.form = fo]
      /\ lo \in {r.location} \cup Location /\ fo \in {r.form, r.branch}
  BY <1>0, Fields DEF RecOK, Field
<1> HIDE DEF lo, fo
<1>2. IsRecord(r)
  BY DEF RecOK
<1>3. /\ IsRecord(f) /\ SameSummary(r, f) /\ f.stopped = r.stopped
      /\ f.branch = r.branch /\ f.location = lo /\ f.form \in {r.form, r.branch}
      /\ f.own = r.own /\ f.start = r.start /\ f.active = r.active
      /\ f.media = r.media /\ f.mediaBranch = r.mediaBranch /\ f.mediaOk = r.mediaOk
  BY <1>1, <1>2, Fields DEF Field, IsRecord, SameSummary
<1>4. Keeps(r, f) /\ ~Fixed(f)
  BY <1>3, UnfixedKeeps
<1>5. RecOK(f)
  BY <1>1, <1>3, <1>4 DEF RecOK, SameSummary
<1> QED BY <1>3, <1>4, <1>5 DEF Kept

LEMMA AgentTurnKept ==
    ASSUME NEW r, RecOK(r), ~Fixed(r), NEW q \in AgentTurn(r)
    PROVE  Kept(r, q)
<1>1. ASSUME NEW p, Kept(r, p)
      PROVE  Kept(r, StartGuided(Derived(p)))
  <2>1. IsRecord(p) /\ RecOK(p)
    BY <1>1 DEF Kept, RecOK
  <2>2. Kept(p, Derived(p))
    BY <2>1, DerivedMilder, MilderKept
  <2>3. Kept(Derived(p), StartGuided(Derived(p)))
    BY <2>2, StartGuidedKept DEF Kept
  <2> QED BY <1>1, <2>2, <2>3, KeptTwice
<1>2. Kept(r, r)
  BY DEF Kept, Keeps, SameSummary
<1>3. Kept(r, [r EXCEPT !.state = "error"])
  BY StateMilder, MilderKept DEF RecOK
<1>4. CASE q \in {r, [r EXCEPT !.state = "error"], StartGuided(Derived(r))}
  BY <1>1, <1>2, <1>3, <1>4
<1>5. CASE q \in {StartGuided(Derived(f)) : f \in Found(r)}
  BY <1>1, <1>5, FoundKept
<1> QED BY <1>4, <1>5 DEF AgentTurn

\* A guided answer is taken only while questions are open.
LEMMA GuidedKept ==
    ASSUME NEW r, RecOK(r), ~Fixed(r), NEW q \in GuidedAnswers(r)
    PROVE  Kept(r, q)
<1>1. IsRecord(r)
  BY DEF RecOK
<1> DEFINE noted == [r EXCEPT !.candidates = {}, !.checklist = @ \ {"consultation"}]
<1> DEFINE asked == IF r.own = None THEN {[noted EXCEPT !.own = "some"]}
                    ELSE IF r.start = 0
                    THEN {[noted EXCEPT !.start = t] : t \in {u \in Start : u > now}}
                    ELSE {[noted EXCEPT !.own = a] : a \in Answer}
<1>2. PICK p \in asked : q = [Derived(p) EXCEPT !.active = p.own \notin Answer \/ p.start = 0]
  BY Zenon DEF GuidedAnswers
<1>3. Milder(r, noted) /\ IsRecord(noted)
  BY <1>1, Fields DEF Field, IsRecord, Milder, Mild, SameSummary
<1> HIDE DEF noted
<1>0. \/ p = [noted EXCEPT !.own = "some"]
      \/ \E t \in Start : p = [noted EXCEPT !.start = t]
      \/ \E a \in Answer : p = [noted EXCEPT !.own = a]
  BY <1>2
<1> HIDE DEF asked
<1>4. /\ IsRecord(p) /\ SameSummary(noted, p) /\ p.stopped = noted.stopped
      /\ p.branch = noted.branch /\ p.location = noted.location /\ p.form = noted.form
      /\ p.own \in Answer \cup {"some", noted.own} /\ p.start \in Start \cup {noted.start}
      /\ p.media = noted.media /\ p.mediaBranch = noted.mediaBranch
      /\ p.mediaOk = noted.mediaOk
  BY <1>0, <1>3, Fields DEF Field, IsRecord, SameSummary
<1>5. Milder(p, Derived(p))
  BY <1>4, DerivedMilder
<1> DEFINE d == Derived(p)
<1>6. IsRecord(d) /\ \A ac : LET e == [d EXCEPT !.active = ac] IN
         /\ IsRecord(e) /\ SameSummary(d, e) /\ e.stopped = d.stopped
         /\ e.branch = d.branch /\ e.location = d.location /\ e.form = d.form
         /\ e.own = d.own /\ e.start = d.start
         /\ e.media = d.media /\ e.mediaBranch = d.mediaBranch /\ e.mediaOk = d.mediaOk
  BY <1>5, Fields DEF Field, IsRecord, SameSummary, Milder, Mild
<1>7. /\ IsRecord(q) /\ SameSummary(r, q) /\ (r.stopped => q.stopped)
      /\ q.branch = r.branch /\ q.location = r.location /\ q.form = r.form
      /\ q.own \in Answer \cup {"some", r.own} /\ q.start \in Start \cup {r.start}
      /\ q.media = r.media /\ q.mediaBranch = r.mediaBranch /\ q.mediaOk = r.mediaOk
  BY <1>2, <1>3, <1>4, <1>5, <1>6 DEF SameSummary, Milder, Mild
<1>8. Keeps(r, q) /\ ~Fixed(q)
  BY <1>7, UnfixedKeeps
<1>9. RecOK(q)
  BY <1>7, <1>8 DEF RecOK, SameSummary
<1> QED BY <1>7, <1>8, <1>9 DEF Kept

\* A location that is cleared has to be checked again, if there is a summary.
LEMMA LocationClearedSteps ==
    ASSUME NEW r, RecOK(r), ids \in Nat
    PROVE  LET v == Invalidate(LocationCleared(r)) IN
           Steps(r, v, ids) /\ ~Fixed(v) /\ v.media = r.media
<1> DEFINE re == HasAnswers(r) \/ r.start # 0
           q == LocationCleared(r)
<1>1. IsRecord(r)
  BY DEF RecOK
<1>2. r.version > 0 => re
  BY DEF RecOK, HasAnswers
<1>3. q = [r EXCEPT !.location = None, !.source = FALSE, !.form = None, !.recheck = re,
                    !.checklist = @ \ {"location", "consultation"}]
  BY Zenon DEF LocationCleared
<1> HIDE DEF re, q
<1>4. /\ IsRecord(q) /\ q.stopped = r.stopped
      /\ q.branch = r.branch /\ q.location = None /\ q.form = None
      /\ q.own = r.own /\ q.start = r.start /\ q.active = r.active
      /\ q.media = r.media /\ q.mediaBranch = r.mediaBranch /\ q.mediaOk = r.mediaOk
      /\ q.task = r.task /\ q.version = r.version /\ q.id = r.id
      /\ q.okVersion = r.okVersion /\ q.okId = r.okId /\ q.approved = r.approved
      /\ q.shared = r.shared /\ q.recheck = re
  BY <1>1, <1>3, Fields DEF Field, IsRecord
<1>5. ~Fixed(q)
  BY <1>2, <1>4 DEF Fixed
<1>6. RecOK(q)
  BY <1>4, <1>5 DEF RecOK
<1> QED BY <1>4, <1>5, <1>6, InvalidateRenews DEF q

\* A branch that is replaced leaves answers and places to check.
LEMMA ReplacedSteps ==
    ASSUME NEW r, RecOK(r), ids \in Nat, NEW b \in Branch, NEW clear
    PROVE  LET q == Replaced(b, clear) IN
           rec = r => Steps(r, q, ids) /\ ~Fixed(q) /\ q.media = 0 /\ q.branch = b
<1> SUFFICES ASSUME rec = r
             PROVE  /\ Steps(rec, Replaced(b, clear), ids) /\ ~Fixed(Replaced(b, clear))
                    /\ Replaced(b, clear).media = 0 /\ Replaced(b, clear).branch = b
  OBVIOUS
<1> DEFINE re == \/ rec.location # None \/ rec.start # 0 \/ rec.shared \/ clear
           v == NewVersion(rec)
           fo == IF rec.source THEN b ELSE None
           p == [v EXCEPT
                !.branch = b, !.evidence = {}, !.started = FALSE,
                !.active = FALSE, !.own = None, !.media = 0,
                !.mediaBranch = None, !.mediaOk = FALSE,
                !.recheck = re,
                !.checklist = @ \ {"consultation"},
                !.form = fo]
           q == IF clear
                THEN [p EXCEPT !.location = None, !.source = FALSE, !.form = None,
                               !.checklist = @ \ {"location"}]
                ELSE p
<1>1. /\ RecOK(v) /\ Renews(rec, v, ids) /\ Steps(rec, v, ids)
      /\ v.version = (IF rec.version > 0 THEN rec.version + 1 ELSE 0)
      /\ v.shared = rec.shared /\ v.stopped = rec.stopped
  BY NewVersionRenews
<1>2. Replaced(b, clear) = q
  BY Zenon DEF Replaced
<1>3. v.version > 0 => re
  BY <1>1 DEF RecOK
<1>4. fo \in {None, b}
  OBVIOUS
<1>5. IsRecord(v)
  BY <1>1 DEF RecOK
<1> HIDE DEF v, re, fo
<1>6. /\ IsRecord(p) /\ p.stopped = v.stopped /\ p.location = v.location
      /\ p.branch = b /\ p.form = fo /\ p.own = None /\ p.start = v.start
      /\ p.media = 0 /\ p.mediaOk = FALSE
      /\ p.task = v.task /\ p.version = v.version /\ p.id = v.id
      /\ p.okVersion = v.okVersion /\ p.okId = v.okId /\ p.shared = v.shared
      /\ p.recheck = re
  BY <1>5, Fields DEF Field, IsRecord
<1> HIDE DEF p
<1>7. /\ IsRecord(q) /\ q.stopped = v.stopped /\ q.location \in {v.location, None}
      /\ q.branch = b /\ q.form \in {None, b} /\ q.own = None /\ q.start = v.start
      /\ q.media = 0 /\ q.mediaOk = FALSE
      /\ q.task = v.task /\ q.version = v.version /\ q.id = v.id
      /\ q.okVersion = v.okVersion /\ q.okId = v.okId /\ q.shared = v.shared
      /\ q.recheck = re
  <2>1. CASE clear
    BY <1>4, <1>6, <2>1, Fields DEF Field, IsRecord
  <2>2. CASE ~clear
    BY <1>4, <1>6, <2>2
  <2> QED BY <2>1, <2>2
<1> HIDE DEF q
<1>8. ~Fixed(q)
  BY <1>3, <1>7 DEF Fixed
<1>9. RecOK(q)
  BY <1>1, <1>7, <1>8, WebSessionAssumption DEF RecOK
<1>10. Renews(rec, q, ids)
  BY <1>1, <1>7, <1>8 DEF Renews
<1> QED BY <1>1, <1>2, <1>7, <1>8, <1>9, <1>10 DEF Steps

\* The branch in force is confirmed.
LEMMA ConfirmedKept ==
    ASSUME NEW r, RecOK(r), NEW b \in Branch, r.branch \in {None, b}
    PROVE  Kept(r, Confirmed(r, b))
<1> DEFINE fo == IF r.location # None THEN b ELSE None
           mb == IF r.media # 0 /\ r.mediaBranch = None THEN b ELSE r.mediaBranch
           q == [r EXCEPT !.branch = b, !.evidence = @ \cup {Text}, !.source = TRUE,
                          !.form = fo, !.mediaBranch = mb,
                          !.pending = FALSE, !.place = FALSE]
<1>1. IsRecord(r)
  BY DEF RecOK
<1>2. Confirmed(r, b) = q
  BY <1>1, Zenon, Fields DEF Confirmed, Field
<1>3. fo \in {None, b} /\ (r.location # None => fo = b)
  OBVIOUS
<1>4. mb \in {b, r.mediaBranch} /\ (r.mediaBranch # None => mb = r.mediaBranch)
  OBVIOUS
<1> HIDE DEF fo, mb
<1>5. /\ IsRecord(q) /\ SameSummary(r, q) /\ q.stopped = r.stopped
      /\ q.branch = b /\ q.location = r.location /\ q.form = fo
      /\ q.own = r.own /\ q.start = r.start /\ q.active = r.active
      /\ q.media = r.media /\ q.mediaBranch = mb /\ q.mediaOk = r.mediaOk
  BY <1>1, Fields DEF Field, IsRecord, SameSummary
<1> HIDE DEF q
<1>6. b # None
  BY WebSessionAssumption
<1>7. Fixed(q) <=> Fixed(r)
  BY <1>5 DEF SameSummary, Fixed
<1>8. ASSUME Fixed(r)
      PROVE  Form(q) = Form(r) /\ Settled(q) /\ (MediaConfirmed(q) <=> MediaConfirmed(r))
  <2>1. r.branch = b /\ r.form = b /\ r.location # None
    BY <1>8 DEF RecOK, Settled
  <2>2. Form(q) = Form(r)
    BY <1>3, <1>5, <2>1 DEF Form
  <2>3. Settled(q)
    BY <1>3, <1>5, <1>6, <1>8, <2>1 DEF RecOK, Settled
  <2>4. MediaConfirmed(q) <=> MediaConfirmed(r)
    BY <1>4, <1>5, <2>1 DEF RecOK, MediaConfirmed
  <2> QED BY <2>2, <2>3, <2>4
<1>9. Keeps(r, q)
  BY <1>5, <1>8 DEF Keeps, Image
<1>10. RecOK(q)
  BY <1>3, <1>4, <1>5, <1>6, <1>7, <1>8 DEF RecOK, SameSummary
<1> QED BY <1>2, <1>5, <1>9, <1>10 DEF Kept

-----------------------------------------------------------------------------
(* The session with its files and cases. *)

Sent == [content : ContentType, approved : ContentType]
\* Once there is a case, only what no longer changes the form is possible.
Late(r) == Fixed(r) /\ ~r.pending /\ (r.stopped \/ r.state \in Dispatched)

IInv ==
    /\ Good(rec, ids, screen, saved)
    /\ uploads \in 0..MaxMedia
    /\ rec.media \in files \cup staged \cup {0}
    /\ Service!TypeOK
    /\ sent \in Seq(Sent) /\ Len(sent) = Len(cases)
    /\ SentAsApproved
    /\ CaseImageKept
    /\ cases # << >> => Late(rec)

\* What the instances call the same.
LEMMA ServiceAssumption == Service!ConstantsAssumption
BY WebSessionAssumption
   DEF Service!ConstantsAssumption, Service!Record, Service!Request,
       Service!Submission, Service!Decision, Cases!Record, Cases!Request,
       Cases!Submission, Cases!Decision

LEMMA Facts ==
    ASSUME IInv
    PROVE  /\ RecOK(rec) /\ IsRecord(rec) /\ ids \in Nat
           /\ rec.id \in Nat /\ rec.id <= ids
           /\ rec.media \in 0..MaxMedia /\ rec.media \in files \cup staged \cup {0}
           /\ rec.mediaOk => rec.mediaBranch # None
           /\ cases \in Seq(Service!Case) /\ now \in Nat
           /\ sent \in Seq(Sent) /\ Len(sent) = Len(cases)
BY DEF IInv, Good, RecOK, Service!TypeOK

\* What is closed once there is a case.
LEMMA Closed ==
    ASSUME IInv, cases # << >>
    PROVE  /\ ~CanSay /\ ~IntakeOpen(rec) /\ ~FormOpen
           /\ rec.stopped \/ (rec.branch # None /\ ~rec.pending)
<1>1. Late(rec)
  BY DEF IInv
<1>2. rec.branch # None
  BY <1>1, Facts DEF Late, RecOK, Settled
<1> QED BY <1>1, <1>2 DEF Late, CanSay, IntakeOpen, FormOpen, Dispatched, Locked

\* The state of a session that has cases is that of the last one.
LEMMA ViewedState ==
    ASSUME NEW r, IsRecord(r), NEW cs \in Seq(Service!Case), cs # << >>
    PROVE  Viewed(r, cs).state \in Dispatched
<1>1. cs[Len(cs)] \in Service!Case
  OBVIOUS
<1>2. cs[Len(cs)].status \in {"pending_provider", "accepted", "rejected"}
  BY <1>1 DEF Service!Case, Service!Status
<1> DEFINE st == CASE cs[Len(cs)].status = "pending_provider" -> "dispatch_pending"
                   [] cs[Len(cs)].status = "accepted"         -> "provider_accepted"
                   [] cs[Len(cs)].status = "rejected"         -> "provider_rejected"
<1>3. st \in Dispatched
  BY <1>2 DEF Dispatched
<1>4. Viewed(r, cs) = [r EXCEPT !.state = st]
  BY Zenon DEF Viewed
<1> HIDE DEF st
<1>5. [r EXCEPT !.state = st].state = st
  BY Fields DEF Field
<1> QED BY <1>3, <1>4, <1>5

LEMMA ViewedFields ==
    ASSUME NEW r, IsRecord(r), NEW cs
    PROVE  /\ Viewed(r, cs).pending = r.pending /\ Viewed(r, cs).stopped = r.stopped
           /\ Viewed(r, cs).candidates = r.candidates
           /\ Fixed(Viewed(r, cs)) <=> Fixed(r)
           /\ Form(Viewed(r, cs)) = Form(r)
           /\ Content(Viewed(r, cs)) = Content(r)
<1> DEFINE v == Viewed(r, cs)
<1>1. v.pending = r.pending /\ v.stopped = r.stopped /\ v.candidates = r.candidates
  <2>1. CASE cs = << >>
    BY <2>1 DEF Viewed
  <2>2. ASSUME NEW st
        PROVE  LET q == [r EXCEPT !.state = st] IN
               q.pending = r.pending /\ q.stopped = r.stopped /\ q.candidates = r.candidates
    BY Fields DEF Field
  <2>3. CASE cs # << >>
    BY <2>2, <2>3 DEF Viewed
  <2> QED BY <2>1, <2>3
<1>2. Milder(r, v)
  BY ViewedMilder
<1> HIDE DEF v
<1>3. Fixed(v) <=> Fixed(r)
  BY <1>2 DEF Milder, Mild, SameSummary, Fixed
<1>4. Form(v) = Form(r) /\ Image(v) = Image(r)
  BY <1>2 DEF Milder, Mild, Form, Image, MediaConfirmed
<1> QED BY <1>1, <1>3, <1>4 DEF v, Content

\* What most handlers do.
Turn ==
    /\ Steps(rec, rec', ids)
    /\ ids' = IF rec'.id > ids THEN rec'.id ELSE ids
    /\ uploads' \in 0..MaxMedia
    /\ rec'.media \in files' \cup staged' \cup {0}
    /\ cases # << >> => Late(rec') /\ files' \cup staged' = files \cup staged
    /\ UNCHANGED <<screen, saved, sent, caseVars>>

\* An answer, and one that is given without a look at the cases.
LEMMA AnsweredSteps ==
    ASSUME IInv, NEW q, Steps(rec, q, ids), Answered(q)
    PROVE  /\ Steps(rec, rec', ids)
           /\ ids' = IF rec'.id > ids THEN rec'.id ELSE ids
           /\ rec'.media = q.media
           /\ cases # << >> /\ Fixed(q) /\ ~q.pending => Late(rec')
<1>1. IsRecord(q) /\ rec' = Viewed(q, cases)
  BY DEF Steps, RecOK, Answered, Becomes
<1>2. Milder(q, rec')
  BY <1>1, ViewedMilder
<1>3. Steps(rec, rec', ids) /\ rec'.media = q.media
  BY <1>2, StepsThenMilder DEF Milder
<1>4. cases # << >> => rec'.state \in Dispatched
  BY <1>1, Facts, ViewedState
<1> QED BY <1>1, <1>3, <1>4, ViewedFields DEF Answered, Becomes, Late

\* A handler that leaves the files alone.
LEMMA KeepTurn ==
    ASSUME IInv, NEW q, Steps(rec, q, ids), q.media = rec.media, Answered(q), Keep,
           cases # << >> => Fixed(q) /\ ~q.pending
    PROVE  Turn
BY AnsweredSteps, Facts DEF Turn, Keep, IInv
LEMMA KeepTurnUnseen ==
    ASSUME IInv, NEW q, Steps(rec, q, ids), q.media = rec.media, Becomes(q), Keep,
           cases # << >> => Late(q)
    PROVE  Turn
BY Facts DEF Turn, Keep, Becomes, IInv

-----------------------------------------------------------------------------
(* The handlers. *)

LEMMA KeptThenSteps ==
    ASSUME NEW r, NEW p, NEW q, NEW n, Kept(r, p), Steps(p, q, n)
    PROVE  Steps(r, q, n)
<1>1. Keeps(p, q) => Keeps(r, q)
  BY KeepsTwice DEF Kept
<1>2. Renews(p, q, n) => Renews(r, q, n)
  BY DEF Kept, Keeps, SameSummary, Renews, Fixed
<1> QED BY <1>1, <1>2 DEF Kept, Steps
LEMMA KeptFixed == ASSUME NEW r, NEW q, Kept(r, q) PROVE Fixed(q) <=> Fixed(r)
BY DEF Kept, Keeps, SameSummary, Fixed
LEMMA SelfKept == ASSUME NEW r, RecOK(r) PROVE Kept(r, r)
BY DEF Kept, Keeps, SameSummary

\* A handler of a session without cases that leaves the files alone.
LEMMA OpenTurn ==
    ASSUME IInv, cases = << >>, NEW q, Kept(rec, q), Answered(q), Keep
    PROVE  Turn
BY KeptSteps, KeepTurn

LEMMA SafetyTurn == ASSUME IInv, Becomes(SafetyStop(rec)), Keep PROVE Turn
<1> DEFINE q == SafetyStop(rec)
<1>1. /\ Steps(rec, q, ids) /\ q.stopped /\ ~q.pending /\ q.media = rec.media
      /\ Fixed(q) <=> Fixed(rec)
  BY Facts, SafetyStopSteps
<1>2. cases # << >> => Late(q)
  BY <1>1 DEF Late, IInv
<1> HIDE DEF q
<1>3. Becomes(q)
  BY DEF q
<1> QED BY <1>1, <1>2, <1>3, KeepTurnUnseen

LEMMA HazardTurn == ASSUME IInv, Hazard PROVE Turn
<1> DEFINE p == [rec EXCEPT !.routing = {}]
           q == SafetyStop(p)
<1>1. Kept(rec, p)
  BY Facts, TalkMilder, MilderKept
<1>2. Answered(q) /\ Keep
  BY Zenon DEF Hazard
<1> HIDE DEF p
<1>3. /\ Steps(p, q, ids) /\ q.stopped /\ ~q.pending /\ q.media = p.media
      /\ Fixed(q) <=> Fixed(p)
  BY <1>1, Facts, SafetyStopSteps DEF Kept
<1> HIDE DEF q
<1>4. Steps(rec, q, ids) /\ q.media = rec.media /\ (Fixed(q) <=> Fixed(rec))
  BY <1>1, <1>3, KeptThenSteps, KeptFixed DEF Kept
<1>5. cases # << >> => Fixed(q)
  BY <1>4 DEF IInv, Late
<1> QED BY <1>2, <1>3, <1>4, <1>5, KeepTurn

LEMMA DescribeTurn == ASSUME IInv, NEW c, Describe(c) PROVE Turn
<1> DEFINE st == IF c # {} THEN "routing_pending" ELSE "collecting_need"
           q == [rec EXCEPT !.routing = c, !.pending = FALSE, !.place = FALSE,
                            !.state = st]
<1>1. Answered(q) /\ Keep /\ CanSay
  BY Zenon DEF Describe
<1> HIDE DEF st
<1>2. Kept(rec, q)
  BY Facts, TalkMilder, MilderKept
<1> HIDE DEF q
<1> QED BY <1>1, <1>2, Closed, OpenTurn

LEMMA NonTargetTurn == ASSUME IInv, NonTarget PROVE Turn
<1> DEFINE r == [rec EXCEPT !.routing = {}, !.pending = FALSE, !.place = FALSE]
           s == [r EXCEPT !.stopped = TRUE]
           v == Invalidate(s)
           w == [v EXCEPT !.state = "error"]
<1>1. cases = << >> /\ Keep /\ (Answered(w) \/ Answered(Derived(r)))
  <2>1. Keep /\ CanSay /\ Answered(IF rec.branch = None THEN w ELSE Derived(r))
    BY Zenon DEF NonTarget
  <2> HIDE DEF w, r
  <2> QED BY <2>1, Closed
<1>2. Kept(rec, r)
  BY Facts, TalkMilder, MilderKept
<1> HIDE DEF r
<1>3. RecOK(r) /\ IsRecord(r)
  BY <1>2 DEF Kept, RecOK
<1>4. Milder(r, s)
  BY <1>3, Fields DEF Field, IsRecord, Milder, Mild, SameSummary
<1> HIDE DEF s
<1>5. Steps(r, v, ids) /\ v.media = r.media /\ IsRecord(v)
  BY <1>3, <1>4, Facts, MildInvalidate DEF Milder, RecOK
<1> HIDE DEF v
<1>6. Steps(r, w, ids) /\ w.media = r.media
  BY <1>5, StateMilder, StepsThenMilder DEF Milder
<1> HIDE DEF w
<1>7. Steps(rec, w, ids) /\ w.media = rec.media
  BY <1>2, <1>6, KeptThenSteps DEF Kept
<1>8. Kept(rec, Derived(r))
  BY <1>2, <1>3, DerivedMilder, MilderKept, KeptTwice
<1> QED BY <1>1, <1>7, <1>8, OpenTurn, KeepTurn

LEMMA AskReplacementTurn ==
    ASSUME IInv, NEW c, NEW pl, AskReplacement(c, pl) PROVE Turn
<1> DEFINE q == [rec EXCEPT !.routing = c, !.pending = TRUE, !.place = pl,
                            !.state = "replacement_pending"]
<1>1. Answered(q) /\ Keep /\ CanSay
  BY Zenon DEF AskReplacement
<1>2. Kept(rec, q)
  BY Facts, TalkMilder, MilderKept
<1> HIDE DEF q
<1> QED BY <1>1, <1>2, Closed, OpenTurn

LEMMA CorrectLocationTurn == ASSUME IInv, CorrectLocation PROVE Turn
<1> DEFINE v == Invalidate(LocationCleared(rec))
<1>1. Keep /\ CanSay /\ \E q \in AgentTurn(v) : Answered(q)
  BY Zenon DEF CorrectLocation
<1>2. Steps(rec, v, ids) /\ ~Fixed(v) /\ v.media = rec.media
  BY Facts, LocationClearedSteps
<1> HIDE DEF v
<1>3. PICK q \in AgentTurn(v) : Answered(q)
  BY <1>1
<1>4. Kept(v, q)
  BY <1>2, AgentTurnKept DEF Steps
<1>5. Steps(rec, q, ids) /\ q.media = rec.media
  BY <1>2, <1>4, StepsThenKept
<1> QED BY <1>1, <1>3, <1>5, Closed, KeepTurn

LEMMA GuidedAnswerTurn == ASSUME IInv, GuidedAnswer PROVE Turn
<1> DEFINE p == [rec EXCEPT !.active = FALSE]
<1>1. /\ Keep /\ CanSay /\ rec.active
      /\ Answered(Derived(p)) \/ \E q \in GuidedAnswers(rec) : Answered(q)
  BY Zenon DEF GuidedAnswer
<1>2. cases = << >> /\ ~Fixed(rec) /\ RecOK(rec)
  BY <1>1, Facts, Closed DEF RecOK, Settled
<1>3. Kept(rec, Derived(p))
  <2>1. /\ IsRecord(p) /\ SameSummary(rec, p) /\ p.stopped = rec.stopped
        /\ p.branch = rec.branch /\ p.location = rec.location /\ p.form = rec.form
        /\ p.own = rec.own /\ p.start = rec.start
        /\ p.media = rec.media /\ p.mediaBranch = rec.mediaBranch
        /\ p.mediaOk = rec.mediaOk
    BY Facts, Fields DEF Field, IsRecord, SameSummary
  <2> HIDE DEF p
  <2>2. Keeps(rec, p) /\ ~Fixed(p)
    BY <1>2, <2>1, UnfixedKeeps
  <2>3. Kept(rec, p)
    BY <1>2, <2>1, <2>2 DEF Kept, RecOK, SameSummary
  <2>4. Kept(p, Derived(p))
    BY <2>1, <2>3, DerivedMilder, MilderKept DEF Kept
  <2> QED BY <2>3, <2>4, KeptTwice
<1> HIDE DEF p
<1>4. CASE Answered(Derived(p))
  BY <1>1, <1>2, <1>3, <1>4, OpenTurn
<1>5. ASSUME NEW q \in GuidedAnswers(rec), Answered(q)
      PROVE  Turn
  BY <1>1, <1>2, <1>5, GuidedKept, OpenTurn
<1> QED BY <1>1, <1>4, <1>5

LEMMA ChatTurn == ASSUME IInv, Chat PROVE Turn
<1>1. Keep /\ CanSay /\ rec.form = None
  BY DEF Chat
<1>2. PICK q \in AgentTurn(rec) : Answered(q)
  BY DEF Chat
<1>3. cases = << >> /\ ~Fixed(rec)
  BY <1>1, Facts, Closed DEF RecOK, Settled
<1>4. Kept(rec, q)
  BY <1>3, Facts, AgentTurnKept
<1> QED BY <1>1, <1>2, <1>3, <1>4, OpenTurn

LEMMA SendMessageTurn == ASSUME IInv, SendMessage PROVE Turn
BY HazardTurn, DescribeTurn, NonTargetTurn, AskReplacementTurn, CorrectLocationTurn,
   GuidedAnswerTurn, ChatTurn DEF SendMessage

LEMMA UpdateChecklistItemTurn ==
    ASSUME IInv, NEW item, NEW checked, UpdateChecklistItem(item, checked)
    PROVE  Turn
<1> DEFINE li == IF checked THEN rec.checklist \cup {item} ELSE rec.checklist \ {item}
           q == [rec EXCEPT !.checklist = li]
<1>1. Answered(q) /\ Keep
  BY Zenon DEF UpdateChecklistItem
<1> HIDE DEF li
<1>2. Kept(rec, q)
  BY Facts, TalkMilder, MilderKept
<1>3. q.pending = rec.pending
  BY Facts, Fields DEF Field
<1> HIDE DEF q
<1>4. cases # << >> => Fixed(q) /\ ~q.pending
  BY <1>2, <1>3, KeptFixed DEF IInv, Late
<1> QED BY <1>1, <1>2, <1>4, KeptSteps, KeepTurn

\* A handler that may remove or store an image.
LEMMA FileTurn ==
    ASSUME IInv, cases = << >>, NEW q, Steps(rec, q, ids), Answered(q),
           q.media \in files' \cup staged' \cup {0}, uploads' \in 0..MaxMedia,
           UNCHANGED <<screen, saved, sent, caseVars>>
    PROVE  Turn
BY AnsweredSteps DEF Turn
\* An image that is not deleted stays.
LEMMA NothingDeleted ==
    ASSUME IInv, DeleteImage(0, {})
    PROVE  rec.media \in files' \cup staged' \cup {0}
BY Facts DEF DeleteImage
LEMMA DropImageOK ==
    ASSUME NEW r, RecOK(r)
    PROVE  /\ RecOK(DropImage(r)) /\ Mild(r, DropImage(r)) /\ DropImage(r).media = 0
           /\ DropImage(r).mediaBranch = None /\ DropImage(r).mediaOk = FALSE
           /\ r.stopped => DropImage(r).stopped
           /\ ~Fixed(r) => Keeps(r, DropImage(r))
<1> DEFINE q == DropImage(r)
<1>1. Mild(r, q) /\ q.media = 0 /\ q.mediaBranch = None /\ q.mediaOk = FALSE
  BY DropImageMild DEF RecOK
<1> HIDE DEF q
<1>2. Fixed(q) <=> Fixed(r)
  BY <1>1 DEF Mild, SameSummary, Fixed
<1>3. RecOK(q)
  BY <1>1, <1>2, WebSessionAssumption DEF RecOK, Mild, SameSummary, Settled
<1>4. ~Fixed(r) => Keeps(r, q)
  BY <1>1, UnfixedKeeps DEF Mild
<1> QED BY <1>1, <1>3, <1>4 DEF q, Mild

LEMMA RejectProposalTurn ==
    ASSUME IInv, cases = << >>, RejectProposal PROVE Turn
<1> DEFINE unbound == /\ ~rec.pending /\ rec.branch = None
                      /\ rec.media # 0 /\ rec.mediaBranch = None
           r == [rec EXCEPT !.routing = {}, !.pending = FALSE, !.place = FALSE]
<1>1. /\ Answered(Derived(IF unbound THEN DropImage(r) ELSE r))
      /\ DeleteImage(IF unbound THEN rec.media ELSE 0, {})
      /\ UNCHANGED <<uploads, screen, saved, sent, caseVars>>
  BY Zenon DEF RejectProposal
<1>2. Milder(rec, r) /\ Kept(rec, r)
  BY Facts, TalkMilder, MilderKept
<1> HIDE DEF r
<1>3. RecOK(r) /\ (Fixed(r) <=> Fixed(rec))
  BY <1>2, KeptFixed DEF Kept
<1>4. uploads' \in 0..MaxMedia
  BY <1>1 DEF IInv
<1>5. CASE unbound
  <2> DEFINE p == DropImage(r)
  <2>1. ~Fixed(r)
    BY <1>3, <1>5, Facts DEF RecOK, Settled
  <2>2. RecOK(p) /\ p.media = 0 /\ Steps(r, p, ids)
    BY <1>3, <2>1, DropImageOK DEF Steps
  <2>3. Answered(Derived(p))
    BY <1>1, <1>5
  <2> HIDE DEF p
  <2>4. Milder(p, Derived(p))
    BY <2>2, DerivedMilder DEF RecOK
  <2>5. Steps(r, Derived(p), ids) /\ Derived(p).media = 0
    BY <2>2, <2>4, StepsThenMilder DEF Milder
  <2> QED BY <1>1, <1>2, <1>4, <2>3, <2>5, KeptThenSteps, FileTurn
<1>6. CASE ~unbound
  <2>1. Answered(Derived(r)) /\ DeleteImage(0, {})
    BY <1>1, <1>6
  <2>2. Kept(rec, Derived(r))
    BY <1>2, <1>3, DerivedMilder, MilderKept, KeptTwice DEF RecOK
  <2>3. Steps(rec, Derived(r), ids) /\ Derived(r).media = rec.media
    BY <2>2, KeptSteps
  <2> QED BY <1>1, <1>4, <2>1, <2>3, NothingDeleted, FileTurn
<1> QED BY <1>5, <1>6

LEMMA AcceptProposalTurn ==
    ASSUME IInv, cases = << >>, NEW b \in Branch, AcceptProposal(b) PROVE Turn
<1> DEFINE replaced == rec.branch # None /\ b # rec.branch
           p == IF replaced THEN Replaced(b, rec.place) ELSE rec
           r == Confirmed(p, b)
<1>1. /\ \/ r.location # None /\ Answered(StartGuided(Derived(r)))
         \/ r.location = None /\ \E q \in AgentTurn(r) : Answered(q)
      /\ DeleteImage(IF replaced THEN rec.media ELSE 0, {})
      /\ UNCHANGED <<uploads, screen, saved, sent, caseVars>>
  BY Zenon DEF AcceptProposal
<1>2. /\ Steps(rec, p, ids) /\ p.branch \in {None, b}
      /\ p.media \in files' \cup staged' \cup {0}
  <2>1. CASE replaced
    <3>1. p = Replaced(b, rec.place)
      BY <2>1
    <3> QED BY <3>1, Facts, ReplacedSteps
  <2>2. CASE ~replaced
    <3>1. p = rec /\ rec.branch \in {None, b} /\ DeleteImage(0, {})
      BY <1>1, <2>2
    <3> QED BY <3>1, Facts, SelfKept, KeptSteps, NothingDeleted
  <2> QED BY <2>1, <2>2
<1> HIDE DEF p
<1>3. Kept(p, r)
  BY <1>2, ConfirmedKept DEF Steps
<1> HIDE DEF r
<1>4. RecOK(r)
  BY <1>3 DEF Kept
<1>5. PICK q : Kept(r, q) /\ Answered(q)
  <2>1. CASE r.location # None
    <3>1. Answered(StartGuided(Derived(r)))
      BY <1>1, <2>1
    <3>2. Kept(r, Derived(r))
      BY <1>4, DerivedMilder, MilderKept DEF RecOK
    <3>3. Kept(Derived(r), StartGuided(Derived(r)))
      BY <3>2, StartGuidedKept DEF Kept
    <3> QED BY <3>1, <3>2, <3>3, KeptTwice
  <2>2. CASE r.location = None
    <3>1. PICK q \in AgentTurn(r) : Answered(q)
      BY <1>1, <2>2
    <3>2. ~Fixed(r)
      BY <1>4, <2>2 DEF RecOK, Settled
    <3> QED BY <1>4, <3>1, <3>2, AgentTurnKept
  <2> QED BY <2>1, <2>2
<1>6. Kept(p, q)
  BY <1>3, <1>5, KeptTwice
<1>7. Steps(rec, q, ids) /\ q.media = p.media
  BY <1>2, <1>6, StepsThenKept
<1>8. uploads' \in 0..MaxMedia
  BY <1>1 DEF IInv
<1> QED BY <1>1, <1>2, <1>5, <1>7, <1>8, FileTurn

LEMMA ConfirmBranchTurn ==
    ASSUME IInv, NEW b \in Branch, NEW confirm \in BOOLEAN, ConfirmBranch(b, confirm)
    PROVE  Turn
<1>1. cases = << >>
  BY Closed DEF ConfirmBranch
<1> QED BY <1>1, RejectProposalTurn, AcceptProposalTurn, SafetyTurn DEF ConfirmBranch

LEMMA UploadImageTurn == ASSUME IInv, UploadImage PROVE Turn
<1>1. cases = << >>
  BY Closed DEF UploadImage
<1> DEFINE m == uploads + 1
           d == DropImage(rec)
           r == [d EXCEPT !.media = m, !.mediaBranch = rec.branch]
<1>2. /\ uploads' = m /\ uploads < MaxMedia
      /\ UNCHANGED <<screen, saved, sent, caseVars>>
      /\ \/ DeleteImage(rec.media, {m}) /\ Answered(Invalidate(r))
         \/ /\ DeleteImage(rec.media, {m})
            /\ \E b \in Branch :
                 Answered(Invalidate([r EXCEPT !.routing = {b}, !.pending = FALSE,
                     !.place = FALSE, !.state = "routing_pending"]))
         \/ DeleteImage(0, {m}) /\ UNCHANGED <<rec, ids>>
  BY Zenon DEF UploadImage
<1>3. m \in 0..MaxMedia
  <2>1. uploads \in 0..MaxMedia /\ MaxMedia \in Nat /\ uploads < MaxMedia
    BY <1>2, WebSessionAssumption DEF IInv
  <2> QED BY <2>1
<1> HIDE DEF m
<1>4. /\ RecOK(d) /\ Mild(rec, d) /\ d.mediaOk = FALSE
  BY Facts, DropImageOK
<1> HIDE DEF d
<1>5. /\ IsRecord(r) /\ SameSummary(d, r) /\ r.stopped = d.stopped
      /\ r.branch = d.branch /\ r.location = d.location /\ r.form = d.form
      /\ r.own = d.own /\ r.start = d.start /\ r.active = d.active
      /\ r.media = m /\ r.mediaOk = d.mediaOk
  <2>1. IsRecord(d) /\ DOMAIN d = Field
    BY <1>4, Fields DEF RecOK
  <2>2. IsRecord(r)
    BY <2>1 DEF IsRecord
  <2>3. /\ r.stopped = d.stopped
        /\ r.branch = d.branch /\ r.location = d.location /\ r.form = d.form
        /\ r.own = d.own /\ r.start = d.start /\ r.active = d.active
        /\ r.media = m /\ r.mediaOk = d.mediaOk
    BY <2>1 DEF Field
  <2>4. SameSummary(d, r)
    BY <2>1 DEF Field, SameSummary
  <2> QED BY <2>2, <2>3, <2>4
<1> HIDE DEF r
<1>6. Mild(rec, r)
  BY <1>4, <1>5 DEF Mild, SameSummary
<1>7. ASSUME NEW q, Mild(rec, q), q.media = m, q.mediaOk = FALSE,
             DeleteImage(rec.media, {m}), Answered(Invalidate(q))
      PROVE  Turn
  <2>1. Steps(rec, Invalidate(q), ids) /\ Invalidate(q).media = m
    BY <1>3, <1>7, Facts, MildInvalidate
  <2>2. m \in files'
    BY <1>7 DEF DeleteImage
  <2> QED BY <1>1, <1>2, <1>3, <1>7, <2>1, <2>2, FileTurn
<1>8. CASE DeleteImage(rec.media, {m}) /\ Answered(Invalidate(r))
  BY <1>4, <1>5, <1>6, <1>7, <1>8
<1>9. ASSUME NEW b \in Branch, DeleteImage(rec.media, {m}),
             Answered(Invalidate([r EXCEPT !.routing = {b}, !.pending = FALSE,
                     !.place = FALSE, !.state = "routing_pending"]))
      PROVE  Turn
  <2> DEFINE q == [r EXCEPT !.routing = {b}, !.pending = FALSE, !.place = FALSE,
                            !.state = "routing_pending"]
  <2>1. Milder(r, q)
    BY <1>5, TalkMilder
  <2>2. Answered(Invalidate(q))
    BY <1>9
  <2> HIDE DEF q
  <2>3. Mild(rec, q) /\ q.media = m /\ q.mediaOk = FALSE
    BY <1>4, <1>5, <1>6, <2>1 DEF Milder, Mild, SameSummary
  <2> QED BY <1>7, <1>9, <2>2, <2>3
<1>10. CASE DeleteImage(0, {m}) /\ UNCHANGED <<rec, ids>>
  <2>1. rec.media \in files' \cup staged' \cup {0}
    BY <1>10, Facts DEF DeleteImage
  <2>2. Steps(rec, rec, ids)
    BY Facts, SelfKept, KeptSteps
  <2>3. rec' = rec /\ ids' = ids /\ ids = IF rec.id > ids THEN rec.id ELSE ids
    BY <1>10, Facts
  <2>4. uploads' \in 0..MaxMedia /\ UNCHANGED <<screen, saved, sent, caseVars>>
    BY <1>2, <1>3
  <2> QED BY <1>1, <2>1, <2>2, <2>3, <2>4 DEF Turn
<1> QED BY <1>2, <1>8, <1>9, <1>10

LEMMA ConfirmImageTurn == ASSUME IInv, ConfirmImage PROVE Turn
<1>1. cases = << >>
  BY Closed DEF ConfirmImage
<1> DEFINE p == [rec EXCEPT !.mediaOk = TRUE, !.evidence = @ \cup {rec.media}]
           v == Invalidate(p)
<1>2. /\ Keep /\ rec.branch # None /\ rec.mediaBranch = rec.branch
      /\ Answered(Derived(v)) \/ Becomes(SafetyStop(rec))
  BY Zenon DEF ConfirmImage
<1>3. Mild(rec, p) /\ p.media = rec.media /\ p.mediaBranch = rec.mediaBranch
  BY Facts, Fields DEF Field, IsRecord, Mild, SameSummary
<1> HIDE DEF p
<1>4. RecOK(v) /\ Steps(rec, v, ids) /\ v.media = rec.media
  BY <1>2, <1>3, Facts, MildInvalidate
<1> HIDE DEF v
<1>5. Milder(v, Derived(v))
  BY <1>4, DerivedMilder DEF RecOK
<1>6. Steps(rec, Derived(v), ids) /\ Derived(v).media = rec.media
  BY <1>4, <1>5, StepsThenMilder DEF Milder
<1> QED BY <1>1, <1>2, <1>6, SafetyTurn, KeepTurn

LEMMA RemoveImageTurn == ASSUME IInv, RemoveImage PROVE Turn
<1> DEFINE unbound == rec.branch = None /\ rec.mediaBranch = None
           r == DropImage(rec)
           s == [r EXCEPT !.routing = {}, !.pending = FALSE, !.place = FALSE]
           q == IF ~unbound THEN r ELSE Derived(s)
<1>1. /\ cases = << >>
      /\ Answered(Invalidate(q))
      /\ DeleteImage(rec.media, {})
      /\ UNCHANGED <<uploads, screen, saved, sent, caseVars>>
  BY Zenon DEF RemoveImage
<1>2. RecOK(r) /\ IsRecord(r) /\ Mild(rec, r) /\ r.media = 0 /\ r.mediaOk = FALSE
  BY Facts, DropImageOK DEF RecOK
<1> HIDE DEF r
<1>3. Milder(r, s)
  BY <1>2, TalkMilder
<1> HIDE DEF s
<1>4. Milder(s, Derived(s))
  BY <1>3, DerivedMilder DEF Milder, Mild
<1>5. Mild(rec, q) /\ q.media = 0 /\ q.mediaOk = FALSE
  BY <1>2, <1>3, <1>4 DEF Milder, Mild, SameSummary
<1> HIDE DEF q
<1>6. Steps(rec, Invalidate(q), ids) /\ Invalidate(q).media = 0
  BY <1>5, Facts, WebSessionAssumption, MildInvalidate
<1>7. uploads' \in 0..MaxMedia
  BY <1>1 DEF IInv
<1> QED BY <1>1, <1>6, <1>7, FileTurn

LEMMA DeletionLostTurn == ASSUME IInv, DeletionLost PROVE Turn
<1>1. Steps(rec, rec, ids)
  BY Facts, SelfKept, KeptSteps
<1>2. rec.media \in files' \cup staged' \cup {0}
  BY DEF DeletionLost
<1> QED BY <1>1, <1>2, Facts DEF DeletionLost, Turn, IInv

-----------------------------------------------------------------------------
(* A turn, and the handlers that do more, keep the invariant. *)

\* What is known of the record and of the page after a turn.
LEMMA TurnGood == ASSUME IInv, Turn PROVE Good(rec', ids', screen', saved')
<1>1. Good(rec, ids, screen, saved) /\ RecOK(rec')
  BY DEF IInv, Turn, Steps
<1>2. CASE Keeps(rec, rec')
  <2>1. Good(rec', ids, screen, saved)
    BY <1>1, <1>2, GoodKept
  <2>2. ids' = ids
    BY <1>2, Facts DEF Turn, Keeps, SameSummary
  <2> QED BY <2>1, <2>2 DEF Turn
<1>3. CASE Renews(rec, rec', ids)
  <2>1. Good(rec', IF rec'.id > ids THEN rec'.id ELSE ids, screen, saved)
    BY <1>1, <1>3, GoodRenewed
  <2> QED BY <2>1 DEF Turn
<1> QED BY <1>2, <1>3 DEF Turn, Steps

\* Nothing has been sent as long as there is no case.
LEMMA NothingSent ==
    ASSUME IInv, cases = << >> PROVE sent = << >>
BY Facts, EmptySeq

LEMMA ImagesKept ==
    ASSUME IInv, sent' = sent, cases # << >> => files' \cup staged' = files \cup staged
    PROVE  CaseImageKept'
<1>1. CASE cases = << >>
  BY <1>1, NothingSent DEF CaseImageKept
<1>2. CASE cases # << >>
  BY <1>2 DEF IInv, CaseImageKept
<1> QED BY <1>1, <1>2

LEMMA TurnInv == ASSUME IInv, Turn PROVE IInv'
<1>1. /\ cases' = cases /\ now' = now /\ idempotency' = idempotency /\ reply' = reply
      /\ sent' = sent
  BY DEF Turn, caseVars
<1>2. Good(rec, ids, screen, saved)'
  BY TurnGood
<1>3. Service!TypeOK'
  BY <1>1 DEF IInv, Service!TypeOK
<1>4. SentAsApproved'
  BY <1>1 DEF IInv, SentAsApproved
<1>5. CaseImageKept'
  BY <1>1, ImagesKept DEF Turn
<1>6. /\ (uploads \in 0..MaxMedia)' /\ (rec.media \in files \cup staged \cup {0})'
      /\ (sent \in Seq(Sent) /\ Len(sent) = Len(cases))'
      /\ (cases # << >> => Late(rec))'
  BY <1>1 DEF IInv, Turn
<1> QED BY <1>2, <1>3, <1>4, <1>5, <1>6 DEF IInv

\* The writes of the session and of the providers are steps of the case workflow.
LEMMA SameWrites ==
    /\ Service!Submission = Cases!Submission /\ Service!Decision = Cases!Decision
    /\ \A k, r : Service!Submit(k, r) <=> Cases!Submit(k, r)
    /\ \A k, r : Service!Decide(k, r) <=> Cases!Decide(k, r)
    /\ Service!Tick <=> Cases!Tick
<1>1. /\ Service!Submission = Cases!Submission /\ Service!Decision = Cases!Decision
      /\ Service!Reading = Cases!Reading
      /\ \A code : Service!Refuse(code) <=> Cases!Refuse(code)
  BY DEF Service!Submission, Service!Decision, Service!Reading, Service!Refuse,
         Service!Refusal, Cases!Submission, Cases!Decision, Cases!Reading,
         Cases!Refuse, Cases!Refusal
<1>2. /\ \A r, at, cs : Service!SubmitRefusal(r, at, cs) = Cases!SubmitRefusal(r, at, cs)
      /\ \A r, cs : Service!DecideRefusal(r, cs) = Cases!DecideRefusal(r, cs)
      /\ \A r, at : Service!NewCase(r, at) = Cases!NewCase(r, at)
  BY DEF Service!SubmitRefusal, Service!DecideRefusal, Service!NewCase,
         Service!HasActive, Service!WasRejected, Service!CasesOf, Service!ActiveStatus,
         Service!Authorized, Cases!SubmitRefusal, Cases!DecideRefusal,
         Cases!NewCase, Cases!HasActive, Cases!WasRejected, Cases!CasesOf,
         Cases!ActiveStatus, Cases!Authorized
<1>3. /\ \A c, op, at : Service!Decided(c, op, at) = Cases!Decided(c, op, at)
      /\ \A i, cs : Service!ConsumerView(i, cs) = Cases!ConsumerView(i, cs)
  BY DEF Service!Decided, Cases!Decided, Service!ConsumerView, Service!RejectedBy,
         Service!CasesOf, Cases!ConsumerView, Cases!RejectedBy, Cases!CasesOf
<1>4. \A i, cs : Service!ProviderDetail(i, cs) = Cases!ProviderDetail(i, cs)
  BY DEF Service!ProviderDetail, Service!Access, Service!Image,
         Cases!ProviderDetail, Cases!Access, Cases!Image
<1>5. ASSUME NEW k, NEW r
      PROVE  /\ Service!Submit(k, r) <=> Cases!Submit(k, r)
             /\ Service!Decide(k, r) <=> Cases!Decide(k, r)
  BY <1>1, <1>2, <1>3, <1>4
     DEF Service!Submit, Service!Decide, Service!KeyReused, Service!SubmitReplayed,
         Service!SubmitRefused, Service!SubmitCreated, Service!DecideReplayed,
         Service!DecideRefused, Service!DecideApplied, Cases!Submit, Cases!Decide,
         Cases!KeyReused, Cases!SubmitReplayed, Cases!SubmitRefused,
         Cases!SubmitCreated, Cases!DecideReplayed, Cases!DecideRefused,
         Cases!DecideApplied
<1>6. Service!Tick <=> Cases!Tick
  BY DEF Service!Tick, Cases!Tick
<1> QED BY <1>1, <1>5, <1>6

LEMMA WritesTyped ==
    ASSUME IInv,
           \/ \E k \in Key, r \in Cases!Submission : Cases!Submit(k, r)
           \/ \E k \in Key, r \in Cases!Decision : Cases!Decide(k, r)
           \/ Cases!Tick
    PROVE  Service!TypeOK'
<1>1. [Service!Next]_(Service!vars)
  BY SameWrites DEF Service!Next
<1>2. Service!TypeOK
  BY DEF IInv
<1> QED BY <1>1, <1>2, ServiceAssumption, Service!TypeStep

\* A submission creates a case and says so, or leaves the cases as they are.
LEMMA SubmitEffect ==
    ASSUME IInv, NEW k, NEW r, Cases!Submit(k, r)
    PROVE  \/ cases' = cases
           \/ /\ Len(cases') = Len(cases) + 1
              /\ reply'.kind # "error"
<1>1. cases \in Seq(Service!Case)
  BY Facts
<1> QED BY <1>1 DEF Cases!Submit, Cases!KeyReused, Cases!SubmitReplayed,
         Cases!SubmitRefused, Cases!SubmitCreated, Cases!Refuse, Cases!ConsumerView
\* A decision creates none.
LEMMA DecideEffect ==
    ASSUME IInv, NEW k, NEW r, Cases!Decide(k, r)
    PROVE  Len(cases') = Len(cases)
<1>1. cases \in Seq(Service!Case)
  BY Facts
<1> QED BY <1>1 DEF Cases!Decide, Cases!KeyReused, Cases!DecideReplayed,
         Cases!DecideRefused, Cases!DecideApplied, Cases!Refuse

\* The provider's side and the clock.
LEMMA OutsideInv ==
    ASSUME IInv, UNCHANGED <<rec, ids, files, staged, uploads, screen, saved, sent>>,
           Service!TypeOK', Len(cases') = Len(cases)
    PROVE  IInv'
<1>1. cases' \in Seq(Service!Case)
  BY DEF Service!TypeOK
<1>2. cases' # << >> => cases # << >>
  BY <1>1, Facts
<1>3. SentAsApproved' /\ CaseImageKept'
  BY DEF IInv, SentAsApproved, CaseImageKept
<1> QED BY <1>2, <1>3 DEF IInv

LEMMA ProviderDecidesInv ==
    ASSUME IInv, NEW k \in Key, NEW r \in Cases!Decision, ProviderDecides(k, r)
    PROVE  IInv'
BY WritesTyped, DecideEffect, OutsideInv DEF ProviderDecides
LEMMA TickInv == ASSUME IInv, Tick PROVE IInv'
<1>1. Service!TypeOK'
  BY WritesTyped DEF Tick
<1>2. Len(cases') = Len(cases)
  BY DEF Tick, Cases!Tick
<1> QED BY <1>1, <1>2, OutsideInv DEF Tick

\* A handler that leaves the files and the cases as they are, and the form of a
\* session that has cases.
LEMMA QuietInv ==
    ASSUME IInv, Good(rec', ids', screen', saved'), rec'.media = rec.media,
           cases # << >> => Late(rec'),
           UNCHANGED <<files, staged, uploads, sent, caseVars>>
    PROVE  IInv'
<1>1. /\ cases' = cases /\ now' = now /\ idempotency' = idempotency /\ reply' = reply
      /\ sent' = sent
  BY DEF caseVars
<1>2. Service!TypeOK'
  BY <1>1 DEF IInv, Service!TypeOK
<1>3. SentAsApproved' /\ CaseImageKept'
  BY <1>1 DEF IInv, SentAsApproved, CaseImageKept
<1> QED BY <1>1, <1>2, <1>3 DEF IInv

\* The form as saved is what the summary then shows.
LEMMA SubmitFormInv ==
    ASSUME IInv, NEW a \in Answer, NEW t \in Start, SubmitForm(a, t)
    PROVE  IInv'
<1>1. cases = << >>
  BY DEF SubmitForm, FormOpen
<1> DEFINE r == [rec EXCEPT !.own = a, !.shared = TRUE, !.start = t,
                         !.started = TRUE, !.active = FALSE, !.candidates = {},
                         !.version = @ + 1, !.id = ids + 1, !.okVersion = 0,
                         !.okId = 0, !.recheck = FALSE,
                         !.checklist = @ \ {"consultation"},
                         !.state = "awaiting_summary_confirmation"]
<1>2. /\ UNCHANGED <<files, staged, uploads, screen, sent, caseVars>>
      /\ \/ FormReady(rec) /\ Answered(r) /\ saved' = Form(r)
         \/ Becomes(SafetyStop(rec)) /\ UNCHANGED saved
  BY Zenon DEF SubmitForm
<1>3. CASE Becomes(SafetyStop(rec)) /\ UNCHANGED saved
  BY <1>2, <1>3, SafetyTurn, TurnInv DEF Keep
<1>4. CASE FormReady(rec) /\ Answered(r) /\ saved' = Form(r)
  <2>1. /\ IsRecord(r) /\ r.task = rec.task /\ r.version = rec.version + 1
        /\ r.id = ids + 1 /\ r.okId = 0 /\ r.recheck = FALSE /\ r.shared = TRUE
        /\ r.branch = rec.branch /\ r.location = rec.location /\ r.form = rec.form
        /\ r.own = a /\ r.start = t /\ r.active = FALSE
        /\ r.media = rec.media /\ r.mediaBranch = rec.mediaBranch
        /\ r.mediaOk = rec.mediaOk
    BY Facts, Fields DEF Field, IsRecord
  <2> HIDE DEF r
  <2>2. rec' = r /\ ids' = IF r.id > ids THEN r.id ELSE ids
    <3>1. Viewed(r, cases) = r
      BY <1>1 DEF Viewed
    <3> QED BY <1>4, <3>1 DEF Answered, Becomes
  <2>3. Settled(r)
    BY <1>4, <2>1, WebSessionAssumption DEF Settled, FormReady
  <2>4. RecOK(r)
    BY <2>1, <2>3, Facts DEF RecOK
  <2>5. ids' = ids + 1 /\ ids \in Nat
    BY <2>1, <2>2, Facts
  <2>6. OnScreen(screen, r, ids + 1)
    BY <2>1, <2>5 DEF IInv, Good, OnScreen
  <2>7. Good(rec', ids', screen', saved')
    BY <1>2, <1>4, <2>1, <2>2, <2>4, <2>5, <2>6 DEF Good, Approved
  <2> QED BY <1>1, <1>2, <2>1, <2>2, <2>7, QuietInv
<1> QED BY <1>2, <1>3, <1>4

\* What the page shows is approved, and it is what the record says.
LEMMA ConfirmSummaryInv ==
    ASSUME IInv, NEW found, ConfirmSummary(found)
    PROVE  IInv'
<1> DEFINE st == IF found # {} THEN "matched" ELSE "no_candidates"
           q == [rec EXCEPT !.okVersion = rec.version, !.okId = rec.id,
                            !.approved = screen.content, !.candidates = found,
                            !.state = st]
<1>1. /\ Keep
      /\ \/ Answered(rec)
         \/ /\ MediaConfirmed(rec) /\ Current(screen) /\ HasSummary(rec)
            /\ Answered(q)
         \/ Becomes(SafetyStop(rec))
  BY Zenon DEF ConfirmSummary
<1> HIDE DEF st
<1>2. CASE Becomes(SafetyStop(rec))
  BY <1>1, <1>2, SafetyTurn, TurnInv
<1>3. CASE Answered(rec)
  <2>1. Steps(rec, rec, ids)
    BY Facts, SelfKept, KeptSteps
  <2> QED BY <1>1, <1>3, <2>1, KeepTurn, TurnInv DEF IInv, Late
<1>4. CASE MediaConfirmed(rec) /\ Current(screen) /\ HasSummary(rec) /\ Answered(q)
  <2>1. /\ IsRecord(q) /\ q.task = rec.task /\ q.version = rec.version
        /\ q.id = rec.id /\ q.okId = rec.id /\ q.okVersion = rec.version
        /\ q.approved = screen.content
        /\ q.recheck = rec.recheck /\ q.shared = rec.shared
        /\ q.branch = rec.branch /\ q.location = rec.location /\ q.form = rec.form
        /\ q.own = rec.own /\ q.start = rec.start /\ q.active = rec.active
        /\ q.media = rec.media /\ q.mediaBranch = rec.mediaBranch
        /\ q.mediaOk = rec.mediaOk
        /\ q.pending = rec.pending /\ q.stopped = rec.stopped
    BY Facts, Fields DEF Field, IsRecord
  <2> HIDE DEF q
  <2>2. Fixed(rec) /\ screen.content = Content(rec)
    BY <1>4 DEF Current, IInv, Good, OnScreen, HasSummary, Fixed
  <2>3. (Fixed(q) <=> Fixed(rec)) /\ Form(q) = Form(rec) /\ Content(q) = Content(rec)
        /\ (MediaConfirmed(q) <=> MediaConfirmed(rec))
    BY <2>1 DEF Fixed, Form, Content, Image, MediaConfirmed
  <2>4. RecOK(q)
    BY <2>1, <2>3, Facts DEF RecOK, Settled
  <2>5. Good(q, ids, screen, saved)
    BY <1>4, <2>1, <2>2, <2>3, <2>4 DEF IInv, Good, Approved, OnScreen
  <2>6. rec' = Viewed(q, cases) /\ ids' = ids
    BY <1>4, <2>1, Facts, ViewedMilder
       DEF Answered, Becomes, Milder, Mild, SameSummary
  <2>7. Kept(q, rec')
    BY <2>1, <2>4, <2>6, ViewedMilder, MilderKept
  <2>8. Good(rec', ids', screen', saved')
    BY <1>1, <2>5, <2>6, <2>7, GoodKept DEF Kept, Keep
  <2>9. cases # << >> => Late(rec')
    BY <2>1, <2>3, <2>6, Facts, ViewedFields, ViewedState DEF IInv, Late
  <2> QED BY <1>1, <2>1, <2>7, <2>8, <2>9, QuietInv DEF Kept, Keep
<1> QED BY <1>1, <1>2, <1>3, <1>4

\* The page takes the summary as the record has it.
LEMMA GetSessionInv == ASSUME IInv, GetSession PROVE IInv'
<1> DEFINE r == Viewed(rec, cases)
<1>1. /\ rec' = r
      /\ screen' = IF HasSummary(r) THEN Summary(r) ELSE None
      /\ UNCHANGED <<ids, files, staged, uploads, saved, sent, caseVars>>
  BY Zenon DEF GetSession
<1>2. Kept(rec, r)
  BY Facts, ViewedMilder, MilderKept
<1>3. cases # << >> => Late(r)
  BY Facts, ViewedFields, ViewedState DEF IInv, Late
<1> HIDE DEF r
<1>4. Good(r, ids, screen, saved)
  BY <1>2, GoodKept DEF IInv, Kept
<1>5. ASSUME HasSummary(r)
      PROVE  OnScreen(Summary(r), r, ids)
  BY <1>4, <1>5 DEF Good, RecOK, OnScreen, Summary, HasSummary, Fixed
<1>6. OnScreen(screen', r, ids)
  BY <1>1, <1>5 DEF OnScreen
<1>7. Good(rec', ids', screen', saved')
  BY <1>1, <1>4, <1>6 DEF Good
<1> QED BY <1>1, <1>2, <1>3, <1>7, QuietInv DEF Kept

\* A new task shares nothing with what a page may still hold.
LEMMA ResetInv == ASSUME IInv, Reset PROVE IInv'
<1> DEFINE r == NewRecord(rec.task + 1)
<1>1. /\ cases = << >> /\ rec' = r /\ DeleteImage(rec.media, {})
      /\ UNCHANGED <<ids, uploads, screen, saved, sent, caseVars>>
  BY Zenon DEF Reset
<1>2. /\ IsRecord(r) /\ r.task = rec.task + 1 /\ r.version = 0 /\ r.id = 0
      /\ r.okId = 0 /\ r.recheck = FALSE /\ r.shared = FALSE
      /\ r.branch = None /\ r.location = None /\ r.form = None /\ r.own = None
      /\ r.start = 0 /\ r.media = 0 /\ r.mediaOk = FALSE
  BY DEF IsRecord, NewRecord
<1> HIDE DEF r
<1>3. RecOK(r) /\ ~Fixed(r)
  BY <1>2, Facts, WebSessionAssumption DEF RecOK, Fixed
<1>4. OnScreen(screen, r, ids)
  BY <1>2, <1>3 DEF IInv, Good, RecOK, OnScreen
<1>5. Good(rec', ids', screen', saved')
  BY <1>1, <1>2, <1>3, <1>4, Facts DEF Good, Approved
<1>6. /\ cases' = cases /\ now' = now /\ idempotency' = idempotency /\ reply' = reply
      /\ sent' = sent
  BY <1>1 DEF caseVars
<1>7. Service!TypeOK'
  BY <1>6 DEF IInv, Service!TypeOK
<1>8. SentAsApproved'
  BY <1>6 DEF IInv, SentAsApproved
<1>9. CaseImageKept'
  BY <1>1, <1>6, ImagesKept
<1> QED BY <1>1, <1>2, <1>5, <1>6, <1>7, <1>8, <1>9 DEF IInv

\* What is sent is what was approved.
LEMMA ContentTyped == ASSUME NEW r, RecOK(r) PROVE Content(r) \in ContentType
<1>1. Form(r) \in FormType
  BY DEF RecOK, Form, FormType
<1>2. Image(r) \in 0..MaxMedia
  BY WebSessionAssumption DEF RecOK, Image
<1> QED BY <1>1, <1>2 DEF Content, ContentType

LEMMA DispatchCaseInv ==
    ASSUME IInv, NEW p \in Provider, NEW k \in Key, DispatchCase(p, k)
    PROVE  IInv'
<1> DEFINE request == [op |-> "submit_case", session |-> Me, provider |-> p,
                       start |-> rec.start]
           e == [content |-> Content(rec), approved |-> rec.approved]
<1>1. /\ UNCHANGED <<files, staged, uploads, screen, saved>>
      /\ \/ /\ MediaConfirmed(rec) /\ StableBranch(rec) /\ rec.id # 0
            /\ rec.okId = rec.id
            /\ Cases!Submit(k, request)
            /\ sent' = IF Len(cases') > Len(cases) THEN Append(sent, e) ELSE sent
            /\ rec' = IF reply'.kind = "error" THEN rec ELSE Viewed(rec, cases')
            /\ UNCHANGED ids
         \/ Becomes(SafetyStop(rec)) /\ UNCHANGED <<sent, caseVars>>
  BY Zenon DEF DispatchCase
<1>2. CASE Becomes(SafetyStop(rec)) /\ UNCHANGED <<sent, caseVars>>
  BY <1>1, <1>2, SafetyTurn, TurnInv DEF Keep
<1>3. CASE /\ MediaConfirmed(rec) /\ StableBranch(rec) /\ rec.id # 0
           /\ rec.okId = rec.id
           /\ Cases!Submit(k, request)
           /\ sent' = IF Len(cases') > Len(cases) THEN Append(sent, e) ELSE sent
           /\ rec' = IF reply'.kind = "error" THEN rec ELSE Viewed(rec, cases')
           /\ UNCHANGED ids
  <2>1. Fixed(rec) /\ rec.approved = Content(rec)
    BY <1>3 DEF IInv, Good, Approved
  <2>2. request \in Cases!Submission
    BY <2>1, Facts DEF Cases!Submission, RecOK, Settled
  <2>3. Service!TypeOK' /\ cases' \in Seq(Service!Case)
    BY <1>3, <2>2, WritesTyped DEF Service!TypeOK
  <2> HIDE DEF request
  <2>4. Kept(rec, rec')
    BY <1>3, Facts, SelfKept, ViewedMilder, MilderKept
  <2>5. Good(rec', ids', screen', saved')
    <3>1. Good(rec', ids, screen, saved)
      BY <2>4, GoodKept DEF IInv, Kept
    <3> QED BY <1>1, <1>3, <3>1
  <2>6. rec'.media = rec.media /\ (rec.media \in files \cup staged \cup {0})'
    BY <1>1, <2>4, Facts DEF Kept
  <2>7. CASE cases' = cases
    <3>1. sent' = sent
      BY <1>3, <2>7, Facts
    <3>2. cases # << >> => Late(rec')
      BY <1>3, <2>7, Facts, ViewedFields, ViewedState DEF IInv, Late
    <3>3. SentAsApproved' /\ CaseImageKept'
      BY <1>1, <3>1 DEF IInv, SentAsApproved, CaseImageKept
    <3> QED BY <1>1, <2>3, <2>5, <2>6, <2>7, <3>1, <3>2, <3>3 DEF IInv
  <2>8. CASE Len(cases') = Len(cases) + 1 /\ reply'.kind # "error"
    <3>1. sent' = Append(sent, e) /\ rec' = Viewed(rec, cases')
      BY <1>3, <2>8, Facts
    <3>2. cases' # << >>
      BY <2>3, <2>8, Facts
    <3>3. Late(rec')
      BY <1>3, <2>1, <2>3, <3>1, <3>2, Facts, ViewedFields, ViewedState
         DEF Late, StableBranch
    <3>4. e \in Sent /\ e.content = e.approved /\ e.content.image = Image(rec)
      BY <2>1, Facts, ContentTyped DEF Sent, Content
    <3>5. e.content.image \in files' \cup staged' \cup {0}
      BY <1>1, <3>4, Facts DEF Image
    <3> HIDE DEF e
    <3>6. /\ sent' \in Seq(Sent) /\ Len(sent') = Len(sent) + 1
          /\ \A i \in DOMAIN sent' : sent'[i] = e \/ (i \in DOMAIN sent /\ sent'[i] = sent[i])
      BY <3>1, <3>4, Facts
    <3>7. SentAsApproved'
      BY <3>4, <3>6 DEF IInv, SentAsApproved
    <3>8. CaseImageKept'
      BY <1>1, <3>5, <3>6 DEF IInv, CaseImageKept
    <3>9. Len(sent') = Len(cases')
      BY <2>8, <3>6, Facts
    <3> QED BY <1>1, <2>3, <2>5, <2>6, <3>3, <3>6, <3>7, <3>8, <3>9 DEF IInv
  <2> QED BY <1>3, <2>7, <2>8, SubmitEffect
<1> QED BY <1>1, <1>2, <1>3

-----------------------------------------------------------------------------
(* The theorems. *)

LEMMA InitInv == Init => IInv
<1> SUFFICES ASSUME Init PROVE IInv
  OBVIOUS
<1>1. /\ IsRecord(rec) /\ rec.task = 1 /\ rec.version = 0 /\ rec.id = 0
      /\ rec.okId = 0 /\ rec.recheck = FALSE /\ rec.shared = FALSE
      /\ rec.branch = None /\ rec.location = None /\ rec.form = None /\ rec.own = None
      /\ rec.start = 0 /\ rec.media = 0 /\ rec.mediaOk = FALSE
  BY DEF Init, IsRecord, NewRecord
<1>2. RecOK(rec) /\ ~Fixed(rec)
  BY <1>1, WebSessionAssumption DEF RecOK, Fixed
<1>3. Good(rec, ids, screen, saved)
  BY <1>1, <1>2 DEF Init, Good, Approved, OnScreen
<1>4. Service!TypeOK
  BY DEF Init, Cases!Init, Cases!NoReply, Service!TypeOK, Service!Reply, Service!NoReply
<1>5. sent = << >> /\ cases = << >> /\ uploads = 0
  BY DEF Init, Cases!Init
<1>6. SentAsApproved /\ CaseImageKept /\ sent \in Seq(Sent) /\ Len(sent) = Len(cases)
  BY <1>5 DEF SentAsApproved, CaseImageKept
<1> QED BY <1>1, <1>3, <1>4, <1>5, <1>6, WebSessionAssumption DEF IInv

\* The handlers that are a turn.
Turning ==
    \/ SendMessage
    \/ \E b \in Branch, confirm \in BOOLEAN : ConfirmBranch(b, confirm)
    \/ UploadImage \/ ConfirmImage \/ RemoveImage \/ DeletionLost
    \/ \E item \in ChecklistKey, checked \in BOOLEAN : UpdateChecklistItem(item, checked)
LEMMA TurningTurn == ASSUME IInv, Turning PROVE Turn
BY SendMessageTurn, ConfirmBranchTurn, UploadImageTurn, ConfirmImageTurn,
   RemoveImageTurn, DeletionLostTurn, UpdateChecklistItemTurn DEF Turning

LEMMA NextInv == ASSUME IInv, [Next]_vars PROVE IInv'
<1>1. CASE Turning
  BY <1>1, TurningTurn, TurnInv
<1>2. ASSUME NEW a \in Answer, NEW t \in Start, SubmitForm(a, t) PROVE IInv'
  BY <1>2, SubmitFormInv
<1>3. ASSUME NEW found \in SUBSET Provider, ConfirmSummary(found) PROVE IInv'
  BY <1>3, ConfirmSummaryInv
<1>4. ASSUME NEW p \in Provider, NEW k \in Key, DispatchCase(p, k) PROVE IInv'
  BY <1>4, DispatchCaseInv
<1>5. CASE Reset
  BY <1>5, ResetInv
<1>6. CASE GetSession
  BY <1>6, GetSessionInv
<1>7. ASSUME NEW k \in Key, NEW r \in Cases!Decision, ProviderDecides(k, r) PROVE IInv'
  BY <1>7, ProviderDecidesInv
<1>8. CASE Tick
  BY <1>8, TickInv
<1>9. CASE UNCHANGED vars
  <2>1. Service!TypeOK'
    BY <1>9 DEF IInv, vars, caseVars, Service!TypeOK
  <2> QED BY <1>9, <2>1, OutsideInv DEF vars, caseVars
<1> QED BY <1>1, <1>2, <1>3, <1>4, <1>5, <1>6, <1>7, <1>8, <1>9 DEF Next, Turning

\* Every handler of the session, the providers and the clock keep the invariant.
THEOREM Invariant == Spec => []IInv
BY InitInv, NextInv, PTL DEF Spec

\* What _build_summary shows was saved by submit_form as it stands: a branch
\* switch, a corrected location or a guided answer shows no summary before.
THEOREM SummariesWereSaved == Spec => []SummaryIsWhatWasSaved
<1>1. IInv => SummaryIsWhatWasSaved
  BY DEF IInv, Good, SummaryIsWhatWasSaved, HasSummary, Fixed, RecOK
<1> QED BY <1>1, Invariant, PTL

\* What dispatch_case sends is, field for field, what the consumer's page showed
\* when confirm_summary approved it.
THEOREM CasesWereApproved == Spec => []SentAsApproved
<1>1. IInv => SentAsApproved
  BY DEF IInv
<1> QED BY <1>1, Invariant, PTL

\* The image dispatch_case sent is never removed by a later handler.
THEOREM CaseImagesStay == Spec => []CaseImageKept
<1>1. IInv => CaseImageKept
  BY DEF IInv
<1> QED BY <1>1, Invariant, PTL

\* A turn or a handler that does more: who may end a safety stop, and who may
\* create a case.
LEMMA StopStep ==
    ASSUME IInv, [Next]_vars
    PROVE  rec.stopped => /\ Len(cases') = Len(cases)
                          /\ rec'.stopped \/ rec'.task # rec.task
<1> SUFFICES ASSUME rec.stopped
             PROVE  Len(cases') = Len(cases) /\ (rec'.stopped \/ rec'.task # rec.task)
  OBVIOUS
<1>1. ASSUME Turn PROVE Len(cases') = Len(cases) /\ rec'.stopped
  BY <1>1 DEF Turn, Steps, caseVars
<1>2. CASE Turning
  BY <1>1, <1>2, TurningTurn
<1>3. ASSUME NEW a \in Answer, NEW t \in Start, SubmitForm(a, t)
      PROVE  Turn
  BY <1>3, SafetyTurn DEF SubmitForm, StableBranch, Keep
<1>4. ASSUME NEW found \in SUBSET Provider, ConfirmSummary(found)
      PROVE  Turn
  BY <1>4, SafetyTurn DEF ConfirmSummary, StableBranch
<1>5. ASSUME NEW p \in Provider, NEW k \in Key, DispatchCase(p, k)
      PROVE  Turn
  BY <1>5, SafetyTurn DEF DispatchCase, StableBranch, Keep
<1>6. CASE Reset
  <2>1. rec'.task = rec.task + 1
    BY <1>6 DEF Reset, NewRecord
  <2> QED BY <1>6, <2>1, Facts DEF Reset, caseVars, RecOK
<1>7. CASE GetSession
  BY <1>7, Facts, ViewedFields DEF GetSession, caseVars
<1>8. ASSUME NEW k \in Key, NEW r \in Cases!Decision, ProviderDecides(k, r)
      PROVE  Len(cases') = Len(cases) /\ rec' = rec
  BY <1>8, DecideEffect DEF ProviderDecides
<1>9. CASE Tick
  BY <1>9 DEF Tick, Cases!Tick
<1>10. CASE UNCHANGED vars
  BY <1>10 DEF vars, caseVars
<1> QED BY <1>1, <1>2, <1>3, <1>4, <1>5, <1>6, <1>7, <1>8, <1>9, <1>10 DEF Next, Turning

\* After _apply_safety_stop no handler creates a case, and only reset ends it.
THEOREM SafetyStopsHold == Spec => SafetyStopHolds
<1>1. IInv /\ [Next]_vars =>
        [rec.stopped => /\ Len(cases') = Len(cases)
                        /\ rec'.stopped \/ rec'.task # rec.task]_vars
  BY StopStep
<1> QED BY <1>1, Invariant, PTL DEF Spec, SafetyStopHolds

LEMMA FrozenStep ==
    ASSUME IInv, [Next]_vars, cases # << >>
    PROVE  Form(rec') = Form(rec)
<1>0. Late(rec)
  BY DEF IInv
<1>1. ASSUME Turn PROVE Form(rec') = Form(rec)
  BY <1>0, <1>1 DEF Turn, Steps, Keeps, Renews, Late
<1>2. CASE Turning
  BY <1>1, <1>2, TurningTurn
<1>3. ASSUME NEW found \in SUBSET Provider, ConfirmSummary(found)
      PROVE  Form(rec') = Form(rec)
  <2> DEFINE st == IF found # {} THEN "matched" ELSE "no_candidates"
             q == [rec EXCEPT !.okVersion = rec.version, !.okId = rec.id,
                              !.approved = screen.content, !.candidates = found,
                              !.state = st]
  <2>1. /\ Keep
        /\ Answered(rec) \/ Answered(q) \/ Becomes(SafetyStop(rec))
    BY <1>3, Zenon DEF ConfirmSummary
  <2> HIDE DEF st
  <2>2. IsRecord(q) /\ Form(q) = Form(rec)
    BY Facts, Fields DEF Field, IsRecord, Form
  <2> HIDE DEF q
  <2>3. CASE Becomes(SafetyStop(rec))
    BY <1>1, <2>1, <2>3, SafetyTurn
  <2> QED BY <2>1, <2>2, <2>3, Facts, ViewedFields DEF Answered, Becomes
<1>4. ASSUME NEW p \in Provider, NEW k \in Key, DispatchCase(p, k)
      PROVE  Form(rec') = Form(rec)
  <2>1. CASE Becomes(SafetyStop(rec)) /\ UNCHANGED <<sent, caseVars>>
    BY <1>1, <1>4, <2>1, SafetyTurn DEF DispatchCase, Keep
  <2>2. CASE rec' \in {rec, Viewed(rec, cases')}
    BY <2>2, Facts, ViewedFields
  <2> QED BY <1>4, <2>1, <2>2 DEF DispatchCase
<1>5. CASE GetSession
  BY <1>5, Facts, ViewedFields DEF GetSession
<1>6. ASSUME \/ \E k \in Key, r \in Cases!Decision : ProviderDecides(k, r)
             \/ Tick \/ UNCHANGED vars
      PROVE  rec' = rec
  BY <1>6 DEF ProviderDecides, Tick, vars
<1>7. ASSUME NEW a \in Answer, NEW t \in Start PROVE ~SubmitForm(a, t)
  BY DEF SubmitForm, FormOpen
<1>8. ~Reset
  BY DEF Reset
<1> QED BY <1>2, <1>3, <1>4, <1>5, <1>6, <1>7, <1>8 DEF Next, Turning

\* Once dispatch_case has created a case, no handler rewrites its form.
THEOREM DispatchedFormsFrozen == Spec => DispatchedFormIsFrozen
<1>1. IInv /\ [Next]_vars => [cases # << >> => Form(rec') = Form(rec)]_vars
  BY FrozenStep
<1> QED BY <1>1, Invariant, PTL DEF Spec, DispatchedFormIsFrozen

-----------------------------------------------------------------------------
(* The types.  Every operator on records keeps a record typed, whatever it   *)
(* does to the summary; and candidates go with every new version.            *)

Typed(r) ==
    /\ IsRecord(r)
    /\ r.task \in 1..MaxTask
    /\ r.state \in State
    /\ r.routing \subseteq Branch /\ r.evidence \subseteq 1..Text
    /\ r.candidates \subseteq Provider /\ r.checklist \subseteq ChecklistKey
    /\ r.candidates # {} => r.okId = r.id /\ r.okVersion = r.version

\* q differs from r in nothing that is typed, except its state.
SameTyped(r, q) ==
    /\ IsRecord(q)
    /\ q.task = r.task /\ q.routing = r.routing /\ q.evidence = r.evidence
    /\ q.candidates = r.candidates /\ q.checklist = r.checklist
    /\ q.okId = r.okId /\ q.id = r.id /\ q.okVersion = r.okVersion
    /\ q.version = r.version
LEMMA SameTypedTyped ==
    ASSUME NEW r, NEW q, Typed(r), SameTyped(r, q), q.state \in State
    PROVE  Typed(q)
BY DEF Typed, SameTyped

LEMMA StateTyped ==
    ASSUME NEW r, Typed(r), NEW st \in State
    PROVE  Typed([r EXCEPT !.state = st])
<1> DEFINE q == [r EXCEPT !.state = st]
<1>1. SameTyped(r, q) /\ q.state = st
  BY Fields DEF Field, IsRecord, Typed, SameTyped
<1> HIDE DEF q
<1> QED BY <1>1, SameTypedTyped DEF q

LEMMA DerivedTyped == ASSUME NEW r, Typed(r) PROVE Typed(Derived(r))
<1>1. Derive(r) \in State
  BY DEF Derive, State
<1> QED BY <1>1, StateTyped DEF Derived

LEMMA ViewedTyped ==
    ASSUME NEW r, Typed(r), NEW cs \in Seq(Service!Case)
    PROVE  Typed(Viewed(r, cs))
<1>1. CASE cs = << >>
  BY <1>1 DEF Viewed
<1>2. CASE cs # << >>
  <2> DEFINE v == Viewed(r, cs)
  <2>1. v.state \in State
    BY <1>2, ViewedState DEF Typed, Dispatched, State
  <2>2. \E st : v = [r EXCEPT !.state = st]
    BY <1>2, Zenon DEF Viewed
  <2>3. SameTyped(r, v)
    BY <2>2, Fields DEF Field, IsRecord, Typed, SameTyped
  <2> HIDE DEF v
  <2> QED BY <2>1, <2>3, SameTypedTyped DEF v
<1> QED BY <1>1, <1>2

LEMMA TalkTyped ==
    ASSUME NEW r, Typed(r), NEW ro \in SUBSET Branch, NEW st \in State,
           NEW li \in SUBSET ChecklistKey
    PROVE  /\ Typed([r EXCEPT !.routing = ro, !.pending = FALSE, !.place = FALSE])
           /\ Typed([r EXCEPT !.routing = ro, !.pending = FALSE, !.place = FALSE,
                              !.state = st])
           /\ \A pl : Typed([r EXCEPT !.routing = ro, !.pending = TRUE,
                                      !.place = pl, !.state = st])
           /\ Typed([r EXCEPT !.routing = ro])
           /\ Typed([r EXCEPT !.pending = FALSE, !.place = FALSE, !.stopped = TRUE])
           /\ Typed([r EXCEPT !.stopped = TRUE])
           /\ Typed([r EXCEPT !.active = FALSE])
           /\ Typed([r EXCEPT !.checklist = li])
<1>1. IsRecord(r) /\ DOMAIN r = Field
  BY Fields DEF Typed
<1>2. Typed([r EXCEPT !.routing = ro, !.pending = FALSE, !.place = FALSE])
  BY <1>1 DEF Field, IsRecord, Typed
<1>3. Typed([r EXCEPT !.routing = ro, !.pending = FALSE, !.place = FALSE, !.state = st])
  BY <1>1 DEF Field, IsRecord, Typed
<1>4. ASSUME NEW pl
      PROVE  Typed([r EXCEPT !.routing = ro, !.pending = TRUE, !.place = pl, !.state = st])
  BY <1>1 DEF Field, IsRecord, Typed
<1>5. Typed([r EXCEPT !.routing = ro])
  BY <1>1 DEF Field, IsRecord, Typed
<1>6. Typed([r EXCEPT !.pending = FALSE, !.place = FALSE, !.stopped = TRUE])
  BY <1>1 DEF Field, IsRecord, Typed
<1>7. Typed([r EXCEPT !.stopped = TRUE]) /\ Typed([r EXCEPT !.active = FALSE])
  BY <1>1 DEF Field, IsRecord, Typed
<1>8. Typed([r EXCEPT !.checklist = li])
  BY <1>1 DEF Field, IsRecord, Typed
<1> QED BY <1>2, <1>3, <1>4, <1>5, <1>6, <1>7, <1>8

LEMMA NewVersionTyped == ASSUME NEW r, Typed(r) PROVE Typed(NewVersion(r))
BY Fields DEF Field, IsRecord, Typed, NewVersion

LEMMA InvalidateTyped == ASSUME NEW r, Typed(r) PROVE Typed(Invalidate(r))
<1> DEFINE v == NewVersion(r)
           st == IF HasAnswers(r) THEN "awaiting_summary_confirmation" ELSE v.state
<1>1. Typed(v)
  BY NewVersionTyped
<1>2. Invalidate(r) = [v EXCEPT !.state = st]
  BY Zenon DEF Invalidate
<1> HIDE DEF v
<1>3. st \in State
  BY <1>1 DEF Typed, State
<1> HIDE DEF st
<1> QED BY <1>1, <1>2, <1>3, StateTyped

LEMMA SafetyStopTyped == ASSUME NEW r, Typed(r) PROVE Typed(SafetyStop(r))
<1> DEFINE s == [r EXCEPT !.pending = FALSE, !.place = FALSE, !.stopped = TRUE]
<1>1. Typed(s)
  BY TalkTyped DEF Typed
<1>2. SafetyStop(r) = [Invalidate(s) EXCEPT !.state = "error"]
  BY Zenon DEF SafetyStop
<1> HIDE DEF s
<1>3. "error" \in State
  BY DEF State
<1> QED BY <1>1, <1>2, <1>3, InvalidateTyped, StateTyped

LEMMA StartGuidedTyped == ASSUME NEW r, Typed(r) PROVE Typed(StartGuided(r))
<1> DEFINE ac == r.own \notin Answer \/ r.start = 0
           q == [r EXCEPT !.started = TRUE, !.active = ac]
<1>1. StartGuided(r) \in {r, q}
  BY Zenon DEF StartGuided
<1> HIDE DEF ac
<1>2. SameTyped(r, q) /\ q.state = r.state
  BY Fields DEF Field, IsRecord, Typed, SameTyped
<1> HIDE DEF q
<1>3. Typed(q)
  BY <1>2, SameTypedTyped DEF Typed
<1> QED BY <1>1, <1>3

LEMMA DropImageTyped == ASSUME NEW r, Typed(r) PROVE Typed(DropImage(r))
BY Fields DEF Field, IsRecord, Typed, DropImage

LEMMA EvidenceOfText == Text \in 1..Text /\ \A m \in 0..MaxMedia : m # 0 => m \in 1..Text
BY WebSessionAssumption DEF Text

LEMMA FoundTyped == ASSUME NEW r, Typed(r), NEW f \in Found(r) PROVE Typed(f)
<1> DEFINE F(t) == [r EXCEPT !.evidence = t.evidence, !.location = t.location,
                            !.source = t.source,
                            !.form = IF t.location # None /\ t.source THEN r.branch ELSE @]
           Finds == [evidence : {r.evidence, r.evidence \cup {Text}},
                     location : {r.location} \cup Location,
                     source   : {r.source, TRUE}]
<1>0. PICK t \in Finds : f = F(t)
  BY Zenon DEF Found
<1> DEFINE ev == t.evidence
<1>1. ev \subseteq 1..Text
  BY EvidenceOfText DEF Typed
<1>2. ASSUME NEW lo, NEW so, NEW fo
      PROVE  Typed([r EXCEPT !.evidence = ev, !.location = lo, !.source = so, !.form = fo])
  <2> HIDE DEF ev
  <2> QED BY <1>1, Fields DEF Field, IsRecord, Typed
<1>3. r.form = r["form"]
  OBVIOUS
<1>4. \E fo : F(t) = [r EXCEPT !.evidence = ev, !.location = t.location,
                               !.source = t.source, !.form = fo]
  BY Zenon, Fields DEF Typed, Field
<1> QED BY <1>0, <1>2, <1>4, Zenon

LEMMA AgentTurnTyped ==
    ASSUME NEW r, Typed(r), NEW q \in AgentTurn(r) PROVE Typed(q)
<1>1. "error" \in State
  BY DEF State
<1>2. CASE q \in {r, [r EXCEPT !.state = "error"], StartGuided(Derived(r))}
  BY <1>1, <1>2, StateTyped, DerivedTyped, StartGuidedTyped
<1>3. CASE q \in {StartGuided(Derived(f)) : f \in Found(r)}
  BY <1>3, FoundTyped, DerivedTyped, StartGuidedTyped
<1> QED BY <1>2, <1>3 DEF AgentTurn

LEMMA GuidedTyped ==
    ASSUME NEW r, Typed(r), NEW q \in GuidedAnswers(r) PROVE Typed(q)
<1> DEFINE noted == [r EXCEPT !.candidates = {}, !.checklist = @ \ {"consultation"}]
           asked == IF r.own = None THEN {[noted EXCEPT !.own = "some"]}
                    ELSE IF r.start = 0
                    THEN {[noted EXCEPT !.start = t] : t \in {u \in Start : u > now}}
                    ELSE {[noted EXCEPT !.own = a] : a \in Answer}
<1>1. PICK p \in asked : q = [Derived(p) EXCEPT !.active = p.own \notin Answer \/ p.start = 0]
  BY Zenon DEF GuidedAnswers
<1>2. Typed(noted)
  BY Fields DEF Field, IsRecord, Typed
<1> HIDE DEF noted
<1>3. \/ p = [noted EXCEPT !.own = "some"]
      \/ \E t \in Start : p = [noted EXCEPT !.start = t]
      \/ \E a \in Answer : p = [noted EXCEPT !.own = a]
  BY <1>1
<1> HIDE DEF asked
<1>4. SameTyped(noted, p) /\ p.state = noted.state
  BY <1>2, <1>3, Fields DEF Field, IsRecord, Typed, SameTyped
<1>5. Typed(Derived(p))
  BY <1>2, <1>4, SameTypedTyped, DerivedTyped DEF Typed
<1> DEFINE d == Derived(p)
           ac == p.own \notin Answer \/ p.start = 0
           e == [d EXCEPT !.active = ac]
<1>6. q = e
  BY <1>1
<1> HIDE DEF d, ac
<1>7. SameTyped(d, e) /\ e.state = d.state
  BY <1>5, Fields DEF Field, IsRecord, Typed, SameTyped, d
<1> QED BY <1>5, <1>6, <1>7, SameTypedTyped DEF Typed, d

LEMMA LocationClearedTyped == ASSUME NEW r, Typed(r) PROVE Typed(LocationCleared(r))
BY Fields DEF Field, IsRecord, Typed, LocationCleared

LEMMA ReplacedTyped ==
    ASSUME Typed(rec), NEW b, NEW clear PROVE Typed(Replaced(b, clear))
<1> DEFINE re == \/ rec.location # None \/ rec.start # 0 \/ rec.shared \/ clear
           v == NewVersion(rec)
           fo == IF rec.source THEN b ELSE None
           p == [v EXCEPT
                !.branch = b, !.evidence = {}, !.started = FALSE,
                !.active = FALSE, !.own = None, !.media = 0,
                !.mediaBranch = None, !.mediaOk = FALSE,
                !.recheck = re,
                !.checklist = @ \ {"consultation"},
                !.form = fo]
           q == IF clear
                THEN [p EXCEPT !.location = None, !.source = FALSE, !.form = None,
                               !.checklist = @ \ {"location"}]
                ELSE p
<1>1. Typed(v)
  BY NewVersionTyped
<1>2. Replaced(b, clear) = q
  BY Zenon DEF Replaced
<1> HIDE DEF v, re, fo
<1>3. Typed(p)
  BY <1>1, Fields DEF Field, IsRecord, Typed
<1> HIDE DEF p
<1>4. Typed(q)
  BY <1>3, Fields DEF Field, IsRecord, Typed
<1> QED BY <1>2, <1>4

LEMMA ConfirmedTyped == ASSUME NEW r, Typed(r), NEW b PROVE Typed(Confirmed(r, b))
<1> DEFINE fo == IF r.location # None THEN b ELSE None
           mb == IF r.media # 0 /\ r.mediaBranch = None THEN b ELSE r.mediaBranch
           q == [r EXCEPT !.branch = b, !.evidence = @ \cup {Text}, !.source = TRUE,
                          !.form = fo, !.mediaBranch = mb,
                          !.pending = FALSE, !.place = FALSE]
<1>1. Confirmed(r, b) = q
  BY Zenon, Fields DEF Confirmed, Field, Typed
<1> HIDE DEF fo, mb
<1>2. Typed(q)
  BY Fields, EvidenceOfText DEF Field, IsRecord, Typed
<1> QED BY <1>1, <1>2

(* The session. *)

FilesOK == files \subseteq 1..uploads /\ staged \subseteq 1..uploads \ files
TypeInv ==
    /\ Typed(rec)
    /\ ids <= MaxId
    /\ FilesOK
    /\ screen # None => screen.content \in ContentType

LEMMA AnsweredTyped ==
    ASSUME IInv, NEW q, Typed(q), Answered(q) \/ Becomes(q)
    PROVE  Typed(rec') /\ ids' <= MaxId
BY Facts, ViewedTyped DEF Answered, Becomes

\* The handlers that leave the files and the page alone.
LEMMA KeepTypeInv ==
    ASSUME TypeInv, Typed(rec'), ids' <= MaxId, UNCHANGED <<files, staged, uploads, screen>>
    PROVE  TypeInv'
BY DEF TypeInv, FilesOK

\* The handlers that may delete an image.
LEMMA DeleteTypeInv ==
    ASSUME IInv, TypeInv, Typed(rec'), ids' <= MaxId, NEW m, DeleteImage(m, {}),
           UNCHANGED <<uploads, screen>>
    PROVE  TypeInv'
BY DEF TypeInv, FilesOK, DeleteImage

LEMMA SendMessageTyped ==
    ASSUME IInv, TypeInv, SendMessage PROVE Typed(rec') /\ ids' <= MaxId
<1>0. Typed(rec) /\ {} \in SUBSET Branch /\ "error" \in State
  BY DEF TypeInv, State
<1>1. CASE Hazard
  <2>1. Typed([rec EXCEPT !.routing = {}])
    BY <1>0, TalkTyped
  <2> QED BY <1>1, <2>1, SafetyStopTyped, AnsweredTyped DEF Hazard
<1>2. ASSUME NEW c \in SUBSET Branch, Describe(c)
      PROVE  Typed(rec') /\ ids' <= MaxId
  <2> DEFINE st == IF c # {} THEN "routing_pending" ELSE "collecting_need"
             q == [rec EXCEPT !.routing = c, !.pending = FALSE, !.place = FALSE, !.state = st]
  <2>1. Answered(q)
    BY <1>2, Zenon DEF Describe
  <2>2. st \in State
    BY DEF State
  <2> HIDE DEF st
  <2>3. Typed(q)
    BY <1>0, <2>2, TalkTyped
  <2> QED BY <2>1, <2>3, AnsweredTyped
<1>3. CASE NonTarget
  <2> DEFINE r == [rec EXCEPT !.routing = {}, !.pending = FALSE, !.place = FALSE]
             s == [r EXCEPT !.stopped = TRUE]
             w == [Invalidate(s) EXCEPT !.state = "error"]
  <2>1. Answered(IF rec.branch = None THEN w ELSE Derived(r))
    BY <1>3, Zenon DEF NonTarget
  <2>2. Typed(r)
    BY <1>0, TalkTyped
  <2> HIDE DEF r
  <2>3. Typed(s)
    BY <1>0, <2>2, TalkTyped
  <2> HIDE DEF s
  <2>4. Typed(w) /\ Typed(Derived(r))
    BY <1>0, <2>2, <2>3, InvalidateTyped, StateTyped, DerivedTyped
  <2> HIDE DEF w
  <2> QED BY <2>1, <2>4, AnsweredTyped
<1>4. ASSUME NEW c \in SUBSET Branch, NEW pl, AskReplacement(c, pl)
      PROVE  Typed(rec') /\ ids' <= MaxId
  <2> DEFINE q == [rec EXCEPT !.routing = c, !.pending = TRUE, !.place = pl,
                              !.state = "replacement_pending"]
  <2>1. Answered(q)
    BY <1>4, Zenon DEF AskReplacement
  <2>2. "replacement_pending" \in State
    BY DEF State
  <2>3. Typed(q)
    BY <1>0, <2>2, TalkTyped
  <2> QED BY <2>1, <2>3, AnsweredTyped
<1>5. CASE CorrectLocation
  <2> DEFINE v == Invalidate(LocationCleared(rec))
  <2>1. PICK q \in AgentTurn(v) : Answered(q)
    BY <1>5, Zenon DEF CorrectLocation
  <2>2. Typed(v)
    BY <1>0, LocationClearedTyped, InvalidateTyped
  <2> HIDE DEF v
  <2> QED BY <2>1, <2>2, AgentTurnTyped, AnsweredTyped
<1>6. CASE GuidedAnswer
  <2> DEFINE p == [rec EXCEPT !.active = FALSE]
  <2>1. Answered(Derived(p)) \/ \E q \in GuidedAnswers(rec) : Answered(q)
    BY <1>6, Zenon DEF GuidedAnswer
  <2>2. Typed(Derived(p))
    BY <1>0, TalkTyped, DerivedTyped
  <2> HIDE DEF p
  <2> QED BY <1>0, <2>1, <2>2, GuidedTyped, AnsweredTyped
<1>7. CASE Chat
  BY <1>0, <1>7, AgentTurnTyped, AnsweredTyped DEF Chat
<1> QED BY <1>1, <1>2, <1>3, <1>4, <1>5, <1>6, <1>7 DEF SendMessage

LEMMA SafetyTyped ==
    ASSUME IInv, TypeInv, Becomes(SafetyStop(rec)) PROVE Typed(rec') /\ ids' <= MaxId
BY SafetyStopTyped, AnsweredTyped DEF TypeInv

LEMMA ConfirmBranchTyped ==
    ASSUME IInv, TypeInv, NEW b \in Branch, NEW confirm \in BOOLEAN, ConfirmBranch(b, confirm)
    PROVE  TypeInv'
<1>0. Typed(rec) /\ {} \in SUBSET Branch /\ "error" \in State
  BY DEF TypeInv, State
<1>1. CASE RejectProposal
  <2> DEFINE unbound == /\ ~rec.pending /\ rec.branch = None
                        /\ rec.media # 0 /\ rec.mediaBranch = None
             r == [rec EXCEPT !.routing = {}, !.pending = FALSE, !.place = FALSE]
             q == IF unbound THEN DropImage(r) ELSE r
  <2>1. /\ Answered(Derived(q))
        /\ DeleteImage(IF unbound THEN rec.media ELSE 0, {})
        /\ UNCHANGED <<uploads, screen>>
    BY <1>1, Zenon DEF RejectProposal
  <2>2. Typed(r)
    BY <1>0, TalkTyped
  <2> HIDE DEF r, unbound
  <2>3. Typed(Derived(q))
    BY <2>2, DropImageTyped, DerivedTyped
  <2> HIDE DEF q
  <2> QED BY <2>1, <2>3, AnsweredTyped, DeleteTypeInv
<1>2. CASE AcceptProposal(b)
  <2> DEFINE replaced == rec.branch # None /\ b # rec.branch
             p == IF replaced THEN Replaced(b, rec.place) ELSE rec
             r == Confirmed(p, b)
  <2>1. /\ \/ r.location # None /\ Answered(StartGuided(Derived(r)))
           \/ r.location = None /\ \E q \in AgentTurn(r) : Answered(q)
        /\ DeleteImage(IF replaced THEN rec.media ELSE 0, {})
        /\ UNCHANGED <<uploads, screen>>
    BY <1>2, Zenon DEF AcceptProposal
  <2>2. Typed(p)
    BY <1>0, ReplacedTyped
  <2> HIDE DEF p, replaced
  <2>3. Typed(r)
    BY <2>2, ConfirmedTyped
  <2> HIDE DEF r
  <2>4. Typed(rec') /\ ids' <= MaxId
    BY <2>1, <2>3, AgentTurnTyped, DerivedTyped, StartGuidedTyped, AnsweredTyped
  <2> QED BY <2>1, <2>4, DeleteTypeInv
<1>3. CASE Becomes(SafetyStop(rec)) /\ Keep
  BY <1>3, SafetyTyped, KeepTypeInv DEF Keep
<1> QED BY <1>1, <1>2, <1>3 DEF ConfirmBranch

LEMMA UploadImageTyped == ASSUME IInv, TypeInv, UploadImage PROVE TypeInv'
<1> DEFINE m == uploads + 1
           d == DropImage(rec)
           r == [d EXCEPT !.media = m, !.mediaBranch = rec.branch]
<1>1. /\ uploads' = m /\ UNCHANGED screen
      /\ \/ DeleteImage(rec.media, {m}) /\ Answered(Invalidate(r))
         \/ /\ DeleteImage(rec.media, {m})
            /\ \E b \in Branch :
                 Answered(Invalidate([r EXCEPT !.routing = {b}, !.pending = FALSE,
                     !.place = FALSE, !.state = "routing_pending"]))
         \/ DeleteImage(0, {m}) /\ UNCHANGED <<rec, ids>>
  BY Zenon DEF UploadImage
<1>2. uploads \in Nat /\ m \in Nat /\ m \in 1..m /\ m \notin 1..uploads
      /\ 1..uploads \subseteq 1..m
  <2>1. uploads \in Nat
    BY WebSessionAssumption DEF IInv
  <2> QED BY <2>1
<1> HIDE DEF m
<1>3. ASSUME NEW x, DeleteImage(x, {m}) PROVE FilesOK'
  BY <1>1, <1>2, <1>3 DEF FilesOK, TypeInv, DeleteImage
<1>4. Typed(d)
  BY DropImageTyped DEF TypeInv
<1> HIDE DEF d
<1>5. SameTyped(d, r) /\ r.state = d.state
  BY <1>4, Fields DEF Field, IsRecord, Typed, SameTyped
<1> HIDE DEF r
<1>6. Typed(r)
  BY <1>4, <1>5, SameTypedTyped DEF Typed
<1>7. Typed(rec') /\ ids' <= MaxId
  <2>1. CASE Answered(Invalidate(r))
    BY <1>6, <2>1, InvalidateTyped, AnsweredTyped
  <2>2. ASSUME NEW b \in Branch,
               Answered(Invalidate([r EXCEPT !.routing = {b}, !.pending = FALSE,
                     !.place = FALSE, !.state = "routing_pending"]))
        PROVE  Typed(rec') /\ ids' <= MaxId
    <3> DEFINE q == [r EXCEPT !.routing = {b}, !.pending = FALSE,
                              !.place = FALSE, !.state = "routing_pending"]
    <3>1. {b} \in SUBSET Branch /\ "routing_pending" \in State
      BY DEF State
    <3>2. Typed(q)
      BY <1>6, <3>1, TalkTyped
    <3> HIDE DEF q
    <3>3. Answered(Invalidate(q))
      BY <2>2 DEF q
    <3> QED BY <3>2, <3>3, InvalidateTyped, AnsweredTyped
  <2>3. CASE UNCHANGED <<rec, ids>>
    BY <2>3 DEF TypeInv
  <2> QED BY <1>1, <2>1, <2>2, <2>3
<1>8. FilesOK'
  BY <1>1, <1>3
<1> QED BY <1>1, <1>7, <1>8 DEF TypeInv

LEMMA ConfirmImageTyped == ASSUME IInv, TypeInv, ConfirmImage PROVE TypeInv'
<1> DEFINE ev == rec.evidence \cup {rec.media}
           p == [rec EXCEPT !.mediaOk = TRUE, !.evidence = ev]
<1>1. /\ Keep /\ rec.media # 0
      /\ Answered(Derived(Invalidate(p))) \/ Becomes(SafetyStop(rec))
  BY Zenon, Facts, Fields DEF ConfirmImage, Field
<1>2. ev \subseteq 1..Text
  BY <1>1, Facts, EvidenceOfText DEF TypeInv, Typed
<1> HIDE DEF ev
<1>3. Typed(p)
  BY <1>2, Fields DEF Field, IsRecord, TypeInv, Typed
<1> HIDE DEF p
<1>4. Typed(rec') /\ ids' <= MaxId
  BY <1>1, <1>3, InvalidateTyped, DerivedTyped, AnsweredTyped, SafetyTyped
<1> QED BY <1>1, <1>4, KeepTypeInv DEF Keep

LEMMA RemoveImageTyped == ASSUME IInv, TypeInv, RemoveImage PROVE TypeInv'
<1> DEFINE unbound == rec.branch = None /\ rec.mediaBranch = None
           r == DropImage(rec)
           s == [r EXCEPT !.routing = {}, !.pending = FALSE, !.place = FALSE]
           q == IF ~unbound THEN r ELSE Derived(s)
<1>1. /\ Answered(Invalidate(q))
      /\ DeleteImage(rec.media, {})
      /\ UNCHANGED <<uploads, screen>>
  BY Zenon DEF RemoveImage
<1>2. Typed(r) /\ {} \in SUBSET Branch /\ "error" \in State
  BY DropImageTyped DEF TypeInv, State
<1> HIDE DEF r, unbound
<1>3. Typed(s)
  BY <1>2, TalkTyped
<1> HIDE DEF s
<1>4. Typed(q)
  BY <1>2, <1>3, DerivedTyped
<1> HIDE DEF q
<1> QED BY <1>1, <1>4, InvalidateTyped, AnsweredTyped, DeleteTypeInv

LEMMA DeletionLostTyped == ASSUME TypeInv, DeletionLost PROVE TypeInv'
BY DEF TypeInv, FilesOK, DeletionLost

LEMMA SubmitFormTyped ==
    ASSUME IInv, TypeInv, NEW a \in Answer, NEW t \in Start, SubmitForm(a, t)
    PROVE  TypeInv'
<1> DEFINE li == rec.checklist \ {"consultation"}
           r == [rec EXCEPT !.own = a, !.shared = TRUE, !.start = t,
                         !.started = TRUE, !.active = FALSE, !.candidates = {},
                         !.version = @ + 1, !.id = ids + 1, !.okVersion = 0,
                         !.okId = 0, !.recheck = FALSE,
                         !.checklist = li,
                         !.state = "awaiting_summary_confirmation"]
<1>1. /\ UNCHANGED <<files, staged, uploads, screen>>
      /\ Answered(r) \/ Becomes(SafetyStop(rec))
  BY Zenon, Facts, Fields DEF SubmitForm, Field
<1>2. li \subseteq ChecklistKey /\ "awaiting_summary_confirmation" \in State
  BY DEF TypeInv, Typed, State
<1> HIDE DEF li
<1>3. IsRecord(r)
  BY Facts, Fields DEF Field, IsRecord
<1>4. /\ r.task = rec.task /\ r.routing = rec.routing /\ r.evidence = rec.evidence
      /\ r.candidates = {} /\ r.checklist = li
      /\ r.state = "awaiting_summary_confirmation"
  BY Facts, Fields DEF Field
<1> HIDE DEF r
<1>5. Typed(r)
  BY <1>2, <1>3, <1>4 DEF TypeInv, Typed
<1> QED BY <1>1, <1>5, AnsweredTyped, SafetyTyped, KeepTypeInv

LEMMA ConfirmSummaryTyped ==
    ASSUME IInv, TypeInv, NEW found \in SUBSET Provider, ConfirmSummary(found)
    PROVE  TypeInv'
<1> DEFINE st == IF found # {} THEN "matched" ELSE "no_candidates"
           q == [rec EXCEPT !.okVersion = rec.version, !.okId = rec.id,
                            !.approved = screen.content, !.candidates = found,
                            !.state = st]
<1>1. Keep /\ (Answered(rec) \/ Answered(q) \/ Becomes(SafetyStop(rec)))
  BY Zenon DEF ConfirmSummary
<1>2. st \in State
  BY DEF State
<1> HIDE DEF st
<1>3. Typed(q)
  BY <1>2, Fields DEF Field, IsRecord, TypeInv, Typed
<1> HIDE DEF q
<1>4. Typed(rec') /\ ids' <= MaxId
  BY <1>1, <1>3, AnsweredTyped, SafetyTyped DEF TypeInv
<1> QED BY <1>1, <1>4, KeepTypeInv DEF Keep

\* A submission leaves cases that are typed, whatever the request was.
LEMMA DispatchCaseTyped ==
    ASSUME IInv, IInv', TypeInv, NEW p \in Provider, NEW k \in Key, DispatchCase(p, k)
    PROVE  TypeInv'
<1>1. CASE Becomes(SafetyStop(rec))
  BY <1>1, SafetyTyped, KeepTypeInv DEF DispatchCase
<1>2. CASE ids' = ids /\ rec' = IF reply'.kind = "error" THEN rec ELSE Viewed(rec, cases')
  <2>1. cases' \in Seq(Service!Case)
    BY DEF IInv, Service!TypeOK
  <2>2. Typed(rec')
    BY <1>2, <2>1, ViewedTyped DEF TypeInv
  <2> QED BY <1>2, <2>2, KeepTypeInv DEF DispatchCase, TypeInv
<1> QED BY <1>1, <1>2 DEF DispatchCase

LEMMA UpdateChecklistItemTyped ==
    ASSUME IInv, TypeInv, NEW item \in ChecklistKey, NEW checked \in BOOLEAN,
           UpdateChecklistItem(item, checked)
    PROVE  TypeInv'
<1> DEFINE li == IF checked THEN rec.checklist \cup {item} ELSE rec.checklist \ {item}
           q == [rec EXCEPT !.checklist = li]
<1>1. Answered(q) /\ Keep
  BY Zenon, Facts, Fields DEF UpdateChecklistItem, Field
<1>2. li \in SUBSET ChecklistKey
  BY DEF TypeInv, Typed
<1> HIDE DEF li
<1>3. Typed(q)
  BY <1>2, Fields DEF Field, IsRecord, TypeInv, Typed
<1> HIDE DEF q
<1>4. Typed(rec') /\ ids' <= MaxId
  BY <1>1, <1>3, AnsweredTyped
<1> QED BY <1>1, <1>4, KeepTypeInv DEF Keep

LEMMA NewRecordTyped == ASSUME NEW n \in 1..MaxTask PROVE Typed(NewRecord(n))
<1>1. IsRecord(NewRecord(n)) /\ NewRecord(n).task = n
  BY DEF NewRecord, IsRecord
<1>2. /\ NewRecord(n).state = "collecting_need" /\ NewRecord(n).routing = {}
      /\ NewRecord(n).evidence = {} /\ NewRecord(n).candidates = {}
      /\ NewRecord(n).checklist = {}
  BY DEF NewRecord
<1> QED BY <1>1, <1>2 DEF Typed, State

LEMMA ResetTyped == ASSUME IInv, TypeInv, Reset PROVE TypeInv'
<1>1. rec.task + 1 \in 1..MaxTask
  BY WebSessionAssumption DEF TypeInv, Typed, Reset
<1>2. Typed(rec') /\ ids' <= MaxId
  BY <1>1, NewRecordTyped DEF TypeInv, Reset
<1> QED BY <1>2, DeleteTypeInv DEF Reset

LEMMA GetSessionTyped == ASSUME IInv, IInv', TypeInv, GetSession PROVE TypeInv'
<1> DEFINE r == Viewed(rec, cases)
<1>1. /\ rec' = r
      /\ screen' = IF HasSummary(r) THEN Summary(r) ELSE None
      /\ UNCHANGED <<ids, files, staged, uploads>>
  BY Zenon DEF GetSession
<1>2. Typed(r)
  BY Facts, ViewedTyped DEF TypeInv
<1>3. RecOK(r)
  BY <1>1 DEF IInv, Good
<1> HIDE DEF r
<1>4. Summary(r).content \in ContentType
  BY <1>3, ContentTyped DEF Summary
<1> QED BY <1>1, <1>2, <1>4 DEF TypeInv, FilesOK

LEMMA InitTypeInv == Init => TypeInv
<1> SUFFICES ASSUME Init PROVE TypeInv
  OBVIOUS
<1>1. Typed(rec)
  BY NewRecordTyped, WebSessionAssumption DEF Init
<1> QED BY <1>1, WebSessionAssumption DEF Init, TypeInv, FilesOK

LEMMA StepTypeInv == ASSUME IInv, IInv', TypeInv, [Next]_vars PROVE TypeInv'
<1>1. CASE SendMessage
  <2>1. UNCHANGED <<files, staged, uploads, screen>>
    BY <1>1 DEF SendMessage, Hazard, Describe, NonTarget, AskReplacement, CorrectLocation,
                GuidedAnswer, Chat, Keep
  <2> QED BY <1>1, <2>1, SendMessageTyped, KeepTypeInv
<1>2. ASSUME NEW b \in Branch, NEW confirm \in BOOLEAN, ConfirmBranch(b, confirm)
      PROVE  TypeInv'
  BY <1>2, ConfirmBranchTyped
<1>3. CASE UploadImage \/ ConfirmImage \/ RemoveImage \/ DeletionLost
  BY <1>3, UploadImageTyped, ConfirmImageTyped, RemoveImageTyped, DeletionLostTyped
<1>4. ASSUME NEW a \in Answer, NEW t \in Start, SubmitForm(a, t) PROVE TypeInv'
  BY <1>4, SubmitFormTyped
<1>5. ASSUME NEW found \in SUBSET Provider, ConfirmSummary(found) PROVE TypeInv'
  BY <1>5, ConfirmSummaryTyped
<1>6. ASSUME NEW p \in Provider, NEW k \in Key, DispatchCase(p, k) PROVE TypeInv'
  BY <1>6, DispatchCaseTyped
<1>7. ASSUME NEW item \in ChecklistKey, NEW checked \in BOOLEAN,
             UpdateChecklistItem(item, checked)
      PROVE  TypeInv'
  BY <1>7, UpdateChecklistItemTyped
<1>8. CASE Reset \/ GetSession
  BY <1>8, ResetTyped, GetSessionTyped
<1>9. CASE \/ \E k \in Key, r \in Cases!Decision : ProviderDecides(k, r)
           \/ Tick \/ UNCHANGED vars
  <2>1. UNCHANGED <<rec, ids, files, staged, uploads, screen>>
    BY <1>9 DEF ProviderDecides, Tick, vars
  <2> QED BY <2>1 DEF TypeInv, FilesOK
<1> QED BY <1>1, <1>2, <1>3, <1>4, <1>5, <1>6, <1>7, <1>8, <1>9 DEF Next

LEMMA SameTypes == Service!TypeOK => Cases!TypeOK
<1>1. Service!Case = Cases!Case
  BY Zenon DEF Service!Case, Service!Status, Service!Order, Service!Event,
               Cases!Case, Cases!Status, Cases!Order, Cases!Event
<1>2. Service!Record = Cases!Record
  BY Zenon DEF Service!Record, Service!Request, Service!Submission, Service!Decision,
               Cases!Record, Cases!Request, Cases!Submission, Cases!Decision
<1>3. Service!Reply = Cases!Reply
  BY Zenon DEF Service!Reply, Service!NoReply, Service!Code, Service!Status, Service!Order,
               Service!Event, Service!Summary, Cases!Reply, Cases!NoReply, Cases!Code,
               Cases!Status, Cases!Order, Cases!Event, Cases!Summary
<1> QED BY <1>1, <1>2, <1>3, Zenon DEF Service!TypeOK, Cases!TypeOK

\* The types of the record, the page, the files and the cases, and: a record has
\* candidates only under the summary confirm_summary approved, its form is that
\* of its branch, and the image it names is stored.
THEOREM TypeCorrect == Spec => []TypeOK
<1>1. IInv /\ IInv' /\ TypeInv /\ [Next]_vars => TypeInv'
  BY StepTypeInv
<1>2. IInv /\ TypeInv => TypeOK
  <2> SUFFICES ASSUME IInv, TypeInv PROVE TypeOK
    OBVIOUS
  <2>1. Content(rec) \in ContentType
    BY Facts, ContentTyped
  <2>2. ids \in 0..MaxId /\ rec.id \in 0..ids
    BY Facts, WebSessionAssumption DEF TypeInv
  <2>3. rec.okId \in {0, rec.id}
    BY DEF IInv, Good, Approved
  <2>4. Cases!TypeOK
    BY SameTypes DEF IInv
  <2> QED BY <2>1, <2>2, <2>3, <2>4, Facts DEF IInv, TypeInv, Typed, FilesOK, RecOK, TypeOK
<1> QED BY <1>1, <1>2, InitTypeInv, Invariant, PTL DEF Spec

-----------------------------------------------------------------------------
(* The session is a client of the case workflow, whose theorems hold of its  *)
(* cases.                                                                    *)

LEMMA SameStart == Service!Init <=> Cases!Init
BY DEF Service!Init, Service!NoReply, Cases!Init, Cases!NoReply

LEMMA Quiet == ASSUME UNCHANGED caseVars PROVE [Service!Next]_(Service!vars)
BY DEF caseVars, Service!vars

\* A step of the session, the providers or the clock is a call of the case
\* workflow, or the case workflow does not notice it.
LEMMA WorkflowStep == ASSUME IInv, [Next]_vars PROVE [Service!Next]_(Service!vars)
<1>1. CASE Turning
  BY <1>1, TurningTurn, Quiet DEF Turn
<1>2. ASSUME NEW p \in Provider, NEW k \in Key, DispatchCase(p, k)
      PROVE  [Service!Next]_(Service!vars)
  <2> DEFINE request == [op |-> "submit_case", session |-> Me, provider |-> p,
                         start |-> rec.start]
  <2>1. \/ /\ MediaConfirmed(rec) /\ rec.id # 0 /\ rec.okId = rec.id
           /\ Cases!Submit(k, request)
        \/ UNCHANGED caseVars
    BY <1>2, Zenon DEF DispatchCase
  <2>2. CASE UNCHANGED caseVars
    BY <2>2, Quiet
  <2>3. CASE rec.id # 0 /\ rec.okId = rec.id /\ Cases!Submit(k, request)
    <3>1. Fixed(rec)
      BY <2>3 DEF IInv, Good, Approved
    <3>2. request \in Cases!Submission
      BY <3>1, Facts DEF Cases!Submission, RecOK, Settled
    <3> HIDE DEF request
    <3> QED BY <2>3, <3>2, SameWrites DEF Service!Next
  <2> QED BY <2>1, <2>2, <2>3
<1>3. ASSUME NEW k \in Key, NEW r \in Cases!Decision, ProviderDecides(k, r)
      PROVE  [Service!Next]_(Service!vars)
  BY <1>3, SameWrites DEF ProviderDecides, Service!Next
<1>4. CASE Tick
  BY <1>4, SameWrites DEF Tick, Service!Next
<1>5. CASE \/ \E a \in Answer, t \in Start : SubmitForm(a, t)
           \/ \E found \in SUBSET Provider : ConfirmSummary(found)
           \/ Reset \/ GetSession \/ UNCHANGED vars
  <2>1. UNCHANGED caseVars
    BY <1>5 DEF SubmitForm, ConfirmSummary, Keep, Reset, GetSession, vars
  <2> QED BY <2>1, Quiet
<1> QED BY <1>1, <1>2, <1>3, <1>4, <1>5 DEF Next, Turning

\* What dispatch_case, the providers and the clock do to the cases is a behaviour of
\* the case workflow with this one session: the web session never calls it with
\* a request it does not know, and never writes a case past it.
THEOREM SessionIsAClient == Spec => Service!Spec
<1>1. Init => Service!Init
  BY SameStart DEF Init
<1>2. IInv /\ [Next]_vars => [Service!Next]_(Service!vars)
  BY WorkflowStep
<1> QED BY <1>1, <1>2, Invariant, PTL DEF Spec, Service!Spec

\* The invariants of the case workflow, of the cases of a session.
SessionSafety ==
    /\ Cases!OneActiveCasePerSession /\ Cases!OneCasePerProvider
    /\ Cases!ActiveCaseIsLatest /\ Cases!HistoryMatchesStatus
    /\ Cases!WrittenOnce

\* However the consumer's retries and the providers' decisions fall, the session has
\* one active case at most, asks a provider once, and shows the active case.
THEOREM SessionCasesAreSafe == Spec => []SessionSafety
<1>1. Service!CaseInv => SessionSafety
  <2> SUFFICES ASSUME Service!CaseInv PROVE SessionSafety
    OBVIOUS
  <2>1. Cases!OneActiveCasePerSession /\ Cases!OneCasePerProvider
    BY DEF Service!CaseInv, Service!OneActiveCasePerSession, Service!OneCasePerProvider,
           Service!ActiveStatus, Cases!OneActiveCasePerSession,
           Cases!OneCasePerProvider, Cases!ActiveStatus
  <2>2. Cases!ActiveCaseIsLatest
    BY DEF Service!CaseInv, Service!ActiveCaseIsLatest, Service!IsLatest, Service!CasesOf,
           Service!ActiveStatus, Cases!ActiveCaseIsLatest, Cases!IsLatest,
           Cases!CasesOf, Cases!ActiveStatus
  <2>3. Cases!HistoryMatchesStatus
    BY DEF Service!CaseInv, Service!HistoryMatchesStatus, Service!AuditOf,
           Cases!HistoryMatchesStatus, Cases!AuditOf
  <2>4. Cases!WrittenOnce
    BY DEF Service!CaseInv, Service!WrittenOnce, Service!Created, Service!Closed,
           Service!Submission, Service!Decision, Cases!WrittenOnce, Cases!Created,
           Cases!Closed, Cases!Submission, Cases!Decision
  <2> QED BY <2>1, <2>2, <2>3, <2>4 DEF SessionSafety
<1>2. Service!Spec => []Service!CaseInv
  BY ServiceAssumption, Service!CaseInvCorrect
<1> QED BY <1>1, <1>2, SessionIsAClient, PTL
=============================================================================
