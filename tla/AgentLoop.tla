------------------------------ MODULE AgentLoop ------------------------------
(***************************************************************************)
(* The agent's turns in one consumer session: AgentRunner.run_turn         *)
(* asks the model, runs the tools it calls and asks again;                 *)
(* WebSessionService checks the trace and adopts what the tools found, or  *)
(* forgets the turn.  WebSession takes a turn as one step, AgentTurn; here *)
(* it is the loop, with the texts a location must come from and with the   *)
(* conversation the model is shown.                                        *)
(*                                                                         *)
(* A text is what _capture_location_input and the provenance check read of *)
(* it: the counties it names, the districts it affirms or excludes, and    *)
(* whether it corrects the location.  Where it is routed is the action's   *)
(* choice.  The model may call anything and the tools may answer anything. *)
(* A trace entry is judged when its result arrives; the code judges the    *)
(* entries in the same order after the turn, from a record nobody changes  *)
(* meanwhile.                                                              *)
(*                                                                         *)
(* Left to WebSession: images, the guided answers and the texts that are   *)
(* refused, none of which is a location input; and safety stops, with the  *)
(* first text about something else than repairs, after which only a reset  *)
(* is taken.                                                               *)
(***************************************************************************)
EXTENDS Naturals, Sequences, FiniteSets

CONSTANTS
    Branch, County, District, None,
    Utterance,   \* what the consumer may say
    Window,      \* location_inputs keeps the last 12 texts
    MaxSteps,    \* max_model_steps, 8
    MaxCalls,    \* max_tool_calls_per_step, 4
    MaxTexts     \* bound on the texts of the session

Place == County \X District

VARIABLES
    rec,         \* the session's _SessionRecord, as in WebSession
    county,      \* pending_county
    inputs,      \* location_inputs
    proposal,    \* replacement_text, None when no replacement is pending
    memory,      \* what the tool results of the conversation say
    turn,        \* the turn that runs, NoTurn when none does
    texts,       \* number of texts said
    heard        \* what the last text captured on each district says of it

location == <<county, inputs, heard>>
vars == <<rec, county, inputs, proposal, memory, turn, texts, heard>>

W == INSTANCE WebSession WITH
        Location <- Place, Answer <- {}, Provider <- {}, Key <- {}, Start <- {},
        CaseId <- {}, MaxNow <- 0, NoRecord <- None, ChecklistKey <- {},
        MaxTask <- 1, MaxId <- 0, MaxMedia <- 0, ids <- 0, files <- {},
        staged <- {}, uploads <- 0, screen <- None, saved <- None, sent <- << >>,
        cases <- << >>, idempotency <- << >>, now <- 0, reply <- None

ASSUME AgentLoopAssumption ==
    /\ Window \in Nat \ {0} /\ MaxSteps \in Nat \ {0}
    /\ MaxCalls \in Nat \ {0} /\ MaxTexts \in Nat
    /\ None \notin Branch \cup County \cup Place \cup Utterance
    /\ \A t \in Utterance :
         /\ t.counties \subseteq County /\ t.yes \subseteq District
         /\ t.no \subseteq District \ t.yes
         /\ t.corrects => t.counties \cup t.yes \cup t.no # {}

-----------------------------------------------------------------------------
(***************************************************************************)
(* What the consumer said.                                                 *)
(***************************************************************************)
Mentions(t) == t.yes \cup t.no
HasPlace(t) == t.counties \cup Mentions(t) # {}

\* Mutant: the texts are not cut to the last ones.
LastTextsAll(s) == s
LastTexts(s) == IF Len(s) > Window THEN Tail(s) ELSE s

\* _capture_location_input, given the county and the texts held so far
Captured(c, s, t) ==
    LET c0 == IF t.corrects THEN None ELSE c
        s0 == IF t.corrects THEN << >> ELSE s
        moved == \/ Cardinality(t.counties) > 1
                 \/ t.counties # {} /\ c0 # None /\ c0 \notin t.counties
    IN [county |-> CASE t.counties = {} -> c0
                     [] Cardinality(t.counties) = 1 -> CHOOSE x \in t.counties : TRUE
                     [] OTHER -> None,
        inputs |-> LastTexts(Append(IF moved THEN << >> ELSE s0, t))]
Capture(c, s, t) ==
    /\ county' = Captured(c, s, t).county
    /\ inputs' = Captured(c, s, t).inputs
    /\ heard' = [last |-> [d \in District |-> CASE d \in t.yes -> "yes"
                                                [] d \in t.no  -> "no"
                                                [] OTHER       -> heard.last[d]],
                 yes |-> IF t.yes # {} THEN t.yes ELSE heard.yes]

\* Mutant: a district counts however it was mentioned last.
ProvenanceOfAnyMention(p) ==
    /\ county = p[1]
    /\ \E i \in DOMAIN inputs : p[1] \in inputs[i].counties
    /\ \E i \in DOMAIN inputs : p[2] \in inputs[i].yes
    /\ \A i \in DOMAIN inputs : inputs[i].yes \subseteq {p[2]}
\* _location_arguments_have_user_provenance
Provenance(p) ==
    /\ county = p[1]
    /\ \E i \in DOMAIN inputs : p[1] \in inputs[i].counties
    /\ \E i \in DOMAIN inputs :
         /\ p[2] \in inputs[i].yes
         /\ \A j \in i+1 .. Len(inputs) : p[2] \notin Mentions(inputs[j])
    /\ \A i \in DOMAIN inputs : inputs[i].yes \subseteq {p[2]}

\* A conversation remembers the place its last location result names, whether it
\* has a form, and whether it has a result that failed.
NewMemory == [place |-> None, form |-> FALSE, failed |-> FALSE]

NoTurn == [at |-> "idle", steps |-> 0, left |-> 0, verdict |-> "ok",
           evidence |-> {}, location |-> None, source |-> FALSE, mark |-> NewMemory]
Idle == turn.at = "idle"

Say ==
    /\ Idle
    /\ texts < MaxTexts
    /\ texts' = texts + 1

-----------------------------------------------------------------------------
\* run_turn and _apply_agent_trace start from the record r and memory mem.
BeginTurn(r, mem) ==
    /\ rec' = r
    /\ memory' = mem
    /\ turn' = [at |-> "list", steps |-> 0, left |-> 0, verdict |-> "ok",
                evidence |-> r.evidence, location |-> r.location,
                source |-> r.source, mark |-> mem]
NoNewTurn == UNCHANGED <<memory, turn>>

\* send_message before a branch is confirmed
Describe(t, candidates) ==
    /\ rec.branch = None
    /\ Say
    /\ Capture(county, inputs, t)
    /\ rec' = [rec EXCEPT !.routing = candidates, !.pending = FALSE, !.place = FALSE,
                          !.state = IF candidates # {} THEN "routing_pending"
                                    ELSE "collecting_need"]
    /\ proposal' = None
    /\ NoNewTurn

\* send_message: a text that names another branch is put aside until that is
\* confirmed, and further texts are taken meanwhile.
PutAside(t, candidates) ==
    /\ rec.branch # None
    /\ candidates \ {rec.branch} # {}
    /\ Say
    /\ rec' = [rec EXCEPT !.routing = candidates, !.pending = TRUE,
                          !.place = HasPlace(t), !.state = "replacement_pending"]
    /\ proposal' = t
    /\ NoNewTurn
    /\ UNCHANGED location

Withdrawn(r) ==
    W!Derived([r EXCEPT !.routing = {}, !.pending = FALSE, !.place = FALSE])

\* send_message: a text about something else than repairs is not captured.
NonTarget ==
    /\ rec.branch # None
    /\ Say
    /\ rec' = Withdrawn(rec)
    /\ proposal' = None
    /\ NoNewTurn
    /\ UNCHANGED location

Proposed(b) ==
    /\ Idle
    /\ rec.branch = None \/ rec.pending
    /\ b \in rec.routing

\* confirm_branch with confirm = false: what was put aside is forgotten.
RejectProposal(b) ==
    /\ Proposed(b)
    /\ rec' = Withdrawn(rec)
    /\ proposal' = None
    /\ NoNewTurn
    /\ UNCHANGED <<location, texts>>

\* confirm_branch.  The text of the first branch was captured before; that of a
\* replacement is captured now, after the texts that came later.  If it takes
\* another branch and names a place, it clears the old place.
Confirm(b) ==
    /\ Proposed(b)
    /\ LET replaced == rec.branch # None /\ b # rec.branch
           moved == replaced /\ HasPlace(proposal)
           r == W!Confirmed(IF replaced THEN W!Replaced(b, moved) ELSE rec, b)
       IN /\ IF rec.branch = None THEN UNCHANGED location
             ELSE IF moved THEN Capture(None, << >>, proposal)
             ELSE Capture(county, inputs, proposal)
          /\ IF r.location # None
             THEN rec' = W!StartGuided(W!Derived(r)) /\ NoNewTurn
             ELSE BeginTurn(r, IF moved THEN NewMemory ELSE memory)
    /\ proposal' = None
    /\ UNCHANGED texts

\* send_message while the form is not open yet
Chat(t) ==
    /\ rec.branch # None
    /\ rec.form = None
    /\ Say
    /\ Capture(county, inputs, t)
    /\ BeginTurn(rec, memory)
    /\ UNCHANGED proposal

\* send_message when the form is open: _prepare_location_correction, and a turn
CorrectLocation(t) ==
    /\ rec.form # None
    /\ t.corrects
    /\ Say
    /\ Capture(None, << >>, t)
    /\ BeginTurn(W!Invalidate(W!LocationCleared(rec)), NewMemory)
    /\ UNCHANGED proposal

-----------------------------------------------------------------------------
(***************************************************************************)
(* The end of a turn.  Only a completed turn whose trace is good commits;  *)
(* of any other the conversation keeps the text and the reply.             *)
(***************************************************************************)
Good(stop) == stop = "completed" /\ turn.verdict = "ok"

\* Mutant: the form is projected before there is a location.
CommittedFormEarly(r) ==
    [r EXCEPT !.evidence = turn.evidence, !.location = turn.location,
              !.source = turn.source,
              !.form = IF turn.source THEN r.branch ELSE @]
Committed(r) ==
    [r EXCEPT !.evidence = turn.evidence, !.location = turn.location,
              !.source = turn.source,
              !.form = IF turn.location # None /\ turn.source THEN r.branch ELSE @]

\* Mutant: a turn with a recoverable rejection is not forgotten.
RememberedUnlessInvalid(stop) ==
    IF stop = "completed" /\ turn.verdict # "fatal" THEN memory ELSE turn.mark
Remembered(stop) == IF Good(stop) THEN memory ELSE turn.mark

EndTurn(stop) ==
    /\ turn' = NoTurn
    /\ memory' = Remembered(stop)
    /\ rec' = IF stop # "completed" \/ turn.verdict = "fatal"
              THEN [rec EXCEPT !.state = "error"]
              ELSE W!StartGuided(W!Derived(IF Good(stop) THEN Committed(rec) ELSE rec))
    /\ county' = IF Good(stop) /\ turn.location # None THEN turn.location[1]
                 ELSE county
    /\ UNCHANGED <<inputs, proposal, texts, heard>>

Running(at) == turn.at = at
InTurn == UNCHANGED <<rec, location, proposal, texts>>

ListTools ==
    /\ Running("list")
    /\ \/ turn' = [turn EXCEPT !.at = "model"] /\ UNCHANGED memory /\ InTurn
       \/ EndTurn("tool_catalog_error")

\* The model fails, replies, or calls n tools.
Model ==
    /\ Running("model")
    /\ IF turn.steps = MaxSteps THEN EndTurn("max_steps")
       ELSE \/ EndTurn("model_error")
            \/ EndTurn("completed")
            \/ EndTurn("tool_limit")
            \/ /\ \E n \in 1..MaxCalls :
                    turn' = [turn EXCEPT !.at = "tools", !.left = n,
                                         !.steps = @ + 1]
               /\ UNCHANGED memory
               /\ InTurn

-----------------------------------------------------------------------------
(***************************************************************************)
(* The tools.  Each disjunct of a tool is one way its entry is judged.  A  *)
(* result is ok or failed; a failed one is also the answer to a tool the   *)
(* catalogue leaves out and to one that raised.                            *)
(***************************************************************************)
Worst(a, b) == IF "fatal" \in {a, b} THEN "fatal"
               ELSE IF "recoverable" \in {a, b} THEN "recoverable" ELSE "ok"

\* The result enters the conversation as mem; the entry leaves the turn as t
\* with this verdict.
Result(mem, t, verdict) ==
    /\ Running("tools")
    /\ memory' = mem
    /\ turn' = [t EXCEPT !.verdict = Worst(@, verdict), !.left = @ - 1,
                         !.at = IF turn.left = 1 THEN "model" ELSE @]
    /\ InTurn
FailedMemory == [memory EXCEPT !.failed = TRUE]

SearchServices ==
    \/ Result(FailedMemory, turn, "fatal")
    \/ Result(memory, turn, "fatal")     \* not the one service we have
    \/ Result(memory, [turn EXCEPT !.evidence = @ \cup {W!Text}], "ok")

\* resolve_location asked for p and answered with q
ResolveLocation(p, q) ==
    LET asked == turn.evidence # {} /\ Provenance(p) IN
    \/ Result(FailedMemory, turn, IF asked THEN "fatal" ELSE "recoverable")
    \/ /\ ~asked \/ q # p
       /\ Result([memory EXCEPT !.place = q], turn, "recoverable")
    \/ /\ asked /\ q = p
       /\ Result([memory EXCEPT !.place = q], [turn EXCEPT !.location = q], "ok")

\* get_consultation_form, of our service or of another
GetConsultationForm(ours) ==
    LET verified == ours /\ turn.evidence # {}
        recoverable == verified /\ turn.location = None
        verdict == IF recoverable THEN "recoverable" ELSE "fatal"
        mem == [memory EXCEPT !.form = TRUE]
    IN \/ Result(FailedMemory, turn, verdict)
       \/ Result(mem, turn, verdict)     \* too early, not ours, or malformed
       \/ /\ verified /\ ~recoverable
          /\ Result(mem, [turn EXCEPT !.source = TRUE], "ok")

\* Any tool the web chat does not allow: UNKNOWN_TOOL
UnknownTool == Result(FailedMemory, turn, "fatal")

\* reset, which a turn that runs makes wait
Reset ==
    /\ Idle
    /\ texts < MaxTexts
    /\ rec' = W!NewRecord(1)
    /\ county' = None
    /\ inputs' = << >>
    /\ proposal' = None
    /\ memory' = NewMemory
    /\ heard' = [last |-> [d \in District |-> "none"], yes |-> {}]
    /\ UNCHANGED <<turn, texts>>

-----------------------------------------------------------------------------
Init ==
    /\ rec = W!NewRecord(1)
    /\ county = None
    /\ inputs = << >>
    /\ proposal = None
    /\ memory = NewMemory
    /\ turn = NoTurn
    /\ texts = 0
    /\ heard = [last |-> [d \in District |-> "none"], yes |-> {}]

Loop ==
    \/ ListTools
    \/ Model
    \/ Running("tools") /\ SearchServices
    \/ Running("tools") /\ \E p, q \in Place : ResolveLocation(p, q)
    \/ Running("tools") /\ \E ours \in BOOLEAN : GetConsultationForm(ours)
    \/ Running("tools") /\ UnknownTool

Next ==
    \/ \E t \in Utterance : \/ \E c \in SUBSET Branch : Describe(t, c) \/ PutAside(t, c)
                            \/ Chat(t)
                            \/ CorrectLocation(t)
    \/ NonTarget
    \/ \E b \in Branch : RejectProposal(b) \/ Confirm(b)
    \/ Loop
    \/ Reset

Spec == Init /\ [][Next]_vars

-----------------------------------------------------------------------------
(***************************************************************************)
(* Properties.                                                             *)
(***************************************************************************)
\* The type invariant.  A form is open only when there is a location and a form
\* to project, location_inputs never outgrows its window, and a replacement is
\* pending exactly while its text is put aside.
TypeOK ==
    /\ rec.branch \in Branch \cup {None}
    /\ rec.location \in Place \cup {None}
    /\ rec.form \in {None, rec.branch}
    /\ rec.form # None => rec.location # None /\ rec.source
    /\ rec.evidence \subseteq {W!Text}
    /\ county \in County \cup {None}
    /\ inputs \in Seq(Utterance) /\ Len(inputs) <= Window
    /\ proposal \in Utterance \cup {None} /\ (rec.pending <=> proposal # None)
    /\ memory \in [place : Place \cup {None}, form : BOOLEAN, failed : BOOLEAN]
    /\ turn.at \in {"idle", "list", "model", "tools"}
    /\ turn.left \in 0..MaxCalls /\ turn.steps \in 0..MaxSteps
    /\ turn.verdict \in {"ok", "recoverable", "fatal"}
    /\ texts \in 0..MaxTexts
    /\ heard \in [last : [District -> {"none", "yes", "no"}], yes : SUBSET District]

\* Between turns the conversation and the record agree: the model is shown the
\* place the session has and no other, a form only if the session has it, and no
\* result that failed.  A turn that was refused, at whatever point, left nothing
\* a later turn could take for a verified fact.
MemoryMatchesRecord ==
    Idle =>
        /\ ~memory.failed
        /\ memory.place \in {None, rec.location}
        /\ memory.place = None => rec.location = None
        /\ memory.form => rec.source

\* A district enters the record only as the one that the texts taken for the
\* location mean: of all that were captured in the session, in the order they
\* were captured, the last mention of it affirms it, and the last that affirms
\* any district affirms no other; whatever the model asked for, the tools
\* answered, the window of texts forgot and a change of the branch cleared.  It
\* need not be the last the consumer wrote: a text put aside is captured when
\* its branch is confirmed, after newer ones, and one that is not captured, such
\* as the text of a rejected proposal, does not count.
AdoptedDistrictIsTheLastCaptured ==
    [][rec'.location \notin {None, rec.location} =>
         /\ heard.last[rec'.location[2]] = "yes"
         /\ heard.yes = {rec'.location[2]}]_vars

\* However the model and the tools behave, a turn does to the record what
\* WebSession takes it to do in one step, and does it when it ends.
TurnAsPromised ==
    [][~Idle =>
         IF Idle' THEN rec' \in W!AgentTurn(rec) ELSE rec' = rec]_vars
=============================================================================
