-------------------------- MODULE RemoteDemoProofs --------------------------
(***************************************************************************)
(* What the remote demo's commands promise, for any number of deployments, *)
(* faults and meddling others: when "passed" may be wrong; what a cleanup  *)
(* may delete; and what one that no call fails may leave.                  *)
(*                                                                         *)
(* The argument for "passed": a cleanup that claims a deployment's         *)
(* resources found them gone, but where its last look was misled, and left *)
(* no record of the deployment, so no command ever works for that          *)
(* deployment again; and the only thing that appears by itself, a log      *)
(* group, needs a runtime, which is claimed with it.                       *)
(***************************************************************************)
EXTENDS RemoteDemo, TLAPS

\* A record of a deployment whose cleanup has not passed.
Live(s) ==
    /\ s \in State
    /\ s.n \in 1..deploys
    /\ "log_group" \in s.created => "runtime" \in s.created
    /\ \A t \in Type : <<t, s.n>> \notin claimed
MemIsLive == Live(mem)
HasRuntime == {"runtime_tags", "identity_tags", "log_group", "log_tags", "ready"}
Claims ==
    /\ claimed \subseteq Type \X (1..deploys)
    /\ \A n \in 1..deploys : <<"log_group", n>> \in claimed => <<"runtime", n>> \in claimed
IInv ==
    /\ deploys \in 0..MaxDeploys
    /\ cloud \subseteq Resource
    /\ step = "idle" => ~unsaved
    /\ step # "idle" => MemIsLive
    /\ step \in HasRuntime => "runtime" \in mem.created
    /\ disk # NoState => Live(disk)
    /\ Claims
    /\ PassedMeansGone

LEMMA Types == Type = {"runtime", "workload_identity", "log_group", "iam_role", "s3_bucket"}
  BY DEF Type, RESOURCE_TYPES

LEMMA InitIInv == Init => IInv
<1> SUFFICES ASSUME Init PROVE IInv
  OBVIOUS
<1> USE RemoteDemoAssumption DEF Init
<1>1. deploys \in 0..MaxDeploys /\ cloud \subseteq Resource
  OBVIOUS
<1>2. Claims /\ PassedMeansGone
  BY DEF Claims, PassedMeansGone
<1> QED
  BY <1>1, <1>2 DEF IInv, HasRuntime

\* What a step may do to the account: it makes resources only for the
\* deployment of its command, for somebody else, or as the log group of a
\* runtime that exists.
Grows ==
    /\ cloud' \subseteq Resource
    /\ \A x \in cloud' :
         \/ x.by = 0
         \/ \E y \in cloud : y.type = x.type /\ y.by = x.by
         \/ step # "idle" /\ x.by = mem.n
         \/ x.type = "log_group" /\ \E y \in cloud : y.type = "runtime" /\ y.by = x.by

LEMMA NothingReturns ==
    ASSUME IInv, Grows, UNCHANGED report, deploys' = deploys PROVE PassedMeansGone'
<1> DEFINE Excused(x) == x.type \in misled \/ (x.type = "log_group" /\ "runtime" \in misled)
<1> SUFFICES ASSUME NEW x \in cloud', <<x.type, x.by>> \in claimed PROVE Excused(x)
  BY DEF PassedMeansGone, report
<1>1. x.type \in Type /\ x.by \in 1..deploys
  BY DEF IInv, Claims
<1>2. x.by # 0
  BY <1>1 DEF IInv
<1>3. CASE \E y \in cloud : y.type = x.type /\ y.by = x.by
  BY <1>3 DEF IInv, PassedMeansGone
<1>4. CASE step # "idle" /\ x.by = mem.n
  BY <1>1, <1>4 DEF IInv, Live, MemIsLive
<1>5. CASE x.type = "log_group" /\ \E y \in cloud : y.type = "runtime" /\ y.by = x.by
  BY <1>1, <1>5 DEF IInv, Claims, PassedMeansGone
<1> QED
  BY <1>2, <1>3, <1>4, <1>5 DEF Grows

\* A step that is neither the start nor the end of a command.
LEMMA StepIInv ==
    ASSUME IInv, Grows, UNCHANGED report, deploys' = deploys,
           step' = "idle" => ~unsaved',
           step' = "idle" \/ MemIsLive',
           step' \in HasRuntime => "runtime" \in mem'.created,
           disk' = disk \/ disk' = NoState \/ (step # "idle" /\ disk' = mem)
    PROVE  IInv'
<1>1. disk' # NoState => Live(disk)'
  BY DEF IInv, Live, MemIsLive, report
<1>2. Claims'
  BY DEF IInv, Claims, report
<1>3. PassedMeansGone'
  BY NothingReturns
<1> QED
  BY <1>1, <1>2, <1>3 DEF IInv, Grows

LEMMA SameCloud == ASSUME IInv, cloud' = cloud PROVE Grows
  BY DEF IInv, Grows

-----------------------------------------------------------------------------
(***************************************************************************)
(* The ways a step may go.                                                 *)
(***************************************************************************)
LEMMA Abandoned == ASSUME IInv, step # "idle", Grows, Abandon PROVE IInv'
<1> USE DEF Abandon, Goto, counters, report
<1>1. MemIsLive'
  BY DEF IInv, Live, MemIsLive
<1>2. step' \notin HasRuntime
  BY DEF HasRuntime
<1> QED
  BY <1>1, <1>2, StepIInv

LEMMA Raised == ASSUME IInv, step # "idle", Grows, Raise PROVE IInv'
  BY Abandoned DEF Raise

LEMMA Noted ==
    ASSUME IInv, step # "idle", Grows, UNCHANGED counters,
           NEW created \in SUBSET Type, NEW tagged \in SUBSET Type, Note(created, tagged),
           NEW s, s # "idle", Goto(s),
           "log_group" \in mem.created \cup created => "runtime" \in mem.created \cup created,
           s \in HasRuntime => "runtime" \in mem.created \cup created
    PROVE  IInv'
<1> USE DEF Note, Goto, counters, report
<1>1. mem \in State /\ MemIsLive
  BY DEF IInv, Live, MemIsLive
<1>2. mem' \in State /\ mem'.n = mem.n /\ mem'.created = mem.created \cup created
  BY <1>1 DEF State
<1>3. MemIsLive'
  BY <1>1, <1>2 DEF Live, MemIsLive
<1> QED
  BY <1>2, <1>3, StepIInv

LEMMA Moved ==
    ASSUME IInv, step # "idle", Grows, UNCHANGED counters,
           mem' = mem, disk' = disk \/ disk' = mem, UNCHANGED report,
           NEW s, s # "idle", step' = s, s \in HasRuntime => "runtime" \in mem.created
    PROVE  IInv'
<1>1. MemIsLive'
  BY DEF IInv, Live, MemIsLive, counters, report
<1> QED
  BY <1>1, StepIInv DEF counters

LEMMA Ended ==
    ASSUME IInv, Grows, UNCHANGED counters, End,
           disk' = disk \/ (step # "idle" /\ disk' = mem)
    PROVE  IInv'
<1> USE DEF End, Report, counters
<1>1. disk' # NoState => Live(disk)'
  BY DEF IInv, Live, MemIsLive
<1>2. Claims' /\ PassedMeansGone'
  BY DEF Claims, PassedMeansGone
<1>3. step' \notin HasRuntime
  BY DEF HasRuntime
<1> QED
  BY <1>1, <1>2, <1>3 DEF IInv, Grows

-----------------------------------------------------------------------------
(***************************************************************************)
(* The commands.                                                           *)
(***************************************************************************)
LEMMA StartDeployIInv == ASSUME IInv, NEW run, StartDeploy(run) PROVE IInv'
<1> USE DEF StartDeploy, new_state, IInv, report
<1>1. mem' \in State /\ mem'.n = deploys + 1 /\ mem'.created = {}
  BY RemoteDemoAssumption DEF State
<1>2. \A t \in Type : <<t, mem'.n>> \notin claimed
  BY <1>1 DEF Claims
<1>3. MemIsLive'
  BY <1>1, <1>2 DEF Live, MemIsLive
<1>4. disk' # NoState => Live(disk)'
  BY DEF Live, MemIsLive
<1>5. Claims' /\ PassedMeansGone'
  BY DEF Claims, PassedMeansGone
<1>6. step' \notin HasRuntime
  BY DEF HasRuntime
<1> QED
  BY <1>3, <1>4, <1>5, <1>6, RemoteDemoAssumption

LEMMA LoadIInv == ASSUME IInv, NEW s \in {"invoke", "cleanup"}, Load(s) PROVE IInv'
<1> USE DEF Load, rest, counters, report
<1>1. MemIsLive'
  BY DEF IInv, Live, MemIsLive
<1>2. step' \notin HasRuntime
  BY DEF HasRuntime
<1> QED
  BY <1>1, <1>2, SameCloud, StepIInv

LEMMA SaveIInv == ASSUME IInv, _save_state PROVE IInv'
<1> USE SameCloud DEF _save_state
<1> step # "idle"
  BY DEF IInv
<1>1. CASE Fault /\ Raise
  BY <1>1, Raised
<1>2. CASE Valid(mem) /\ disk' = mem /\ UNCHANGED <<mem, step, report, rest>>
  BY <1>2, Moved DEF IInv, rest
<1> QED
  BY <1>1, <1>2

-----------------------------------------------------------------------------
(***************************************************************************)
(* The deployment.                                                         *)
(***************************************************************************)
LEMMA CallerIdentityIInv == ASSUME IInv, CallerIdentity PROVE IInv'
<1> USE SameCloud DEF CallerIdentity, At
<1>1. step = "account"
  OBVIOUS
<1>2. CASE Raise
  BY <1>1, <1>2, Raised
<1>3. CASE /\ mem' = [mem EXCEPT !.account = TRUE] /\ Goto("collisions")
           /\ UNCHANGED <<disk, counters>>
  <2>1. MemIsLive
    BY <1>1 DEF IInv
  <2>2. mem' \in State /\ mem'.n = mem.n /\ mem'.created = mem.created
    BY <1>3, <2>1 DEF Live, MemIsLive, State
  <2>3. MemIsLive'
    BY <1>3, <2>1, <2>2 DEF Live, MemIsLive, Goto, counters, report
  <2> QED
    BY <1>3, <2>3, StepIInv DEF Goto, counters, HasRuntime
<1> QED
  BY <1>2, <1>3 DEF rest

LEMMA EnsureNoCollisionsIInv == ASSUME IInv, EnsureNoCollisions PROVE IInv'
<1> USE SameCloud DEF EnsureNoCollisions, At
<1>1. step = "collisions"
  OBVIOUS
<1>2. CASE Raise
  BY <1>1, <1>2, Raised
<1>3. CASE Goto("iam_role") /\ Saved /\ UNCHANGED counters
  BY <1>1, <1>3, Moved DEF Goto, Saved, HasRuntime
<1> QED
  BY <1>2, <1>3 DEF rest

\* A creation that makes resources of its own deployment, and notes them.
LEMMA CreateIInv ==
    ASSUME IInv, step # "idle", NEW t, NEW next, next # "idle",
           NEW made \in SUBSET Resource, \A x \in made : x.by = mem.n,
           NEW created \in SUBSET Type,
           "log_group" \in created \/ next \in HasRuntime => "runtime" \in created,
           Create(t, made, created, next)
    PROVE  IInv'
<1> USE SameCloud DEF Create
<1>1. cloud' = cloud \cup made => Grows
  BY DEF IInv, Grows
<1>2. CASE Abandon
  BY <1>1, <1>2, Abandoned
<1>3. CASE cloud' = cloud \cup made /\ Note(created, {}) /\ Goto(next) /\ UNCHANGED counters
  <2>1. "log_group" \in mem.created => "runtime" \in mem.created
    BY DEF IInv, Live, MemIsLive
  <2> QED
    BY <1>1, <1>3, <2>1, Noted
<1> QED
  BY <1>2, <1>3 DEF Raise

LEMMA MadeIsResource ==
    ASSUME IInv, step # "idle", NEW t \in Type, NEW tags \in {"none", "demo"}
    PROVE  Made(t, mem.n, tags) \in Resource /\ Made(t, mem.n, tags).by = mem.n
  BY RemoteDemoAssumption DEF IInv, Live, MemIsLive, Made, Resource

LEMMA VerifyTagsIInv ==
    ASSUME IInv, step # "idle", NEW t \in Type, NEW next, next # "idle",
           next \in HasRuntime => "runtime" \in mem.created, VerifyTags(t, next)
    PROVE  IInv'
<1> USE SameCloud DEF VerifyTags
<1>1. CASE Raise
  BY <1>1, Raised
<1>2. CASE Note({}, {t}) /\ Goto(next) /\ UNCHANGED counters
  <2>1. "log_group" \in mem.created => "runtime" \in mem.created
    BY DEF IInv, Live, MemIsLive
  <2> QED
    BY <1>2, <2>1, Noted
<1> QED
  BY <1>1, <1>2 DEF rest

LEMMA RetaggedGrows ==
    ASSUME IInv, step # "idle", NEW t, cloud' = Retagged(t) PROVE Grows
<1> SUFFICES ASSUME NEW x \in cloud'
             PROVE  x \in Resource /\ \E y \in cloud : y.type = x.type /\ y.by = x.by
  BY DEF Grows
<1>1. PICK y \in cloud : x = IF y \in Found(t) THEN Tagged(y) ELSE y
  BY DEF Retagged
<1>2. y \in Resource /\ mem.n \in 0..MaxDeploys
  BY DEF IInv, MemIsLive, Live, State
<1>3. Tagged(y) \in Resource /\ Tagged(y).type = y.type /\ Tagged(y).by = y.by
  BY <1>2 DEF Resource, Tagged
<1> QED
  BY <1>1, <1>2, <1>3

LEMMA PutTagsIInv ==
    ASSUME IInv, step # "idle", NEW t \in Type, NEW next, next # "idle",
           next \in HasRuntime => "runtime" \in mem.created, PutTags(t, next)
    PROVE  IInv'
<1> USE SameCloud, RetaggedGrows DEF PutTags
<1>1. Grows
  OBVIOUS
<1>2. CASE Raise
  BY <1>1, <1>2, Raised
<1>3. CASE Note({}, {t}) /\ Goto(next) /\ UNCHANGED counters
  <2>1. "log_group" \in mem.created => "runtime" \in mem.created
    BY DEF IInv, Live, MemIsLive
  <2> QED
    BY <1>1, <1>3, <2>1, Noted
<1> QED
  BY <1>2, <1>3 DEF rest

LEMMA CreateRoleIInv == ASSUME IInv, CreateRole PROVE IInv'
<1> USE DEF CreateRole, At
<1>1. step = "iam_role" /\ {"iam_role"} \in SUBSET Type
  BY Types
<1>2. Made("iam_role", mem.n, "demo") \in Resource
      /\ Made("iam_role", mem.n, "demo").by = mem.n
  BY <1>1, MadeIsResource, Types
<1>3. "role_tags" \notin HasRuntime
  BY DEF HasRuntime
<1> QED
  BY <1>1, <1>2, <1>3, CreateIInv

LEMMA CreateBucketIInv == ASSUME IInv, CreateBucket PROVE IInv'
<1> USE DEF CreateBucket, At
<1>1. step = "s3_bucket" /\ {"s3_bucket"} \in SUBSET Type
  BY Types
<1>2. Made("s3_bucket", mem.n, "none") \in Resource
      /\ Made("s3_bucket", mem.n, "none").by = mem.n
  BY <1>1, MadeIsResource, Types
<1>3. "bucket_tags" \notin HasRuntime
  BY DEF HasRuntime
<1> QED
  BY <1>1, <1>2, <1>3, CreateIInv

LEMMA UploadIInv == ASSUME IInv, Upload PROVE IInv'
<1> USE SameCloud DEF Upload, At
<1>1. step = "upload"
  OBVIOUS
<1>2. CASE Raise
  BY <1>1, <1>2, Raised
<1>3. CASE Goto("runtime") /\ Note({}, {}) /\ UNCHANGED counters
  <2>1. "log_group" \in mem.created => "runtime" \in mem.created
    BY <1>1 DEF IInv, Live, MemIsLive
  <2>2. "runtime" \notin HasRuntime
    BY DEF HasRuntime
  <2> QED
    BY <1>1, <1>3, <2>1, <2>2, Noted
<1> QED
  BY <1>2, <1>3 DEF rest

LEMMA CreateRuntimeIInv == ASSUME IInv, CreateRuntime PROVE IInv'
<1> DEFINE runtime == Made("runtime", mem.n, "demo")
           identity == Made("workload_identity", mem.n, "none")
           noted == {"runtime", "log_group"}
<1>1. step = "runtime"
  BY DEF CreateRuntime, At
<1>2. runtime \in Resource /\ runtime.by = mem.n /\ identity \in Resource
      /\ identity.by = mem.n
  BY <1>1, MadeIsResource, Types
<1>3. noted \in SUBSET Type /\ noted \cup {"workload_identity"} \in SUBSET Type
  BY Types
<1>4. CASE Create("runtime", {runtime, identity},
                  {"runtime", "workload_identity", "log_group"}, "runtime_tags")
  <2> HIDE DEF runtime, identity
  <2>1. {runtime, identity} \in SUBSET Resource /\ \A x \in {runtime, identity} : x.by = mem.n
    BY <1>2
  <2>2. {"runtime", "workload_identity", "log_group"} \in SUBSET Type
    BY <1>3
  <2> QED
    BY <1>1, <1>4, <2>1, <2>2, CreateIInv
<1>5. CASE Create("runtime", {runtime}, noted, "runtime_tags")
  <2> HIDE DEF runtime
  <2>1. {runtime} \in SUBSET Resource /\ \A x \in {runtime} : x.by = mem.n
    BY <1>2
  <2> QED
    BY <1>1, <1>3, <1>5, <2>1, CreateIInv
<1>6. CASE Raise /\ UNCHANGED cloud
  BY <1>1, <1>6, Raised, SameCloud
<1> QED
  BY <1>4, <1>5, <1>6 DEF CreateRuntime

\* The steps that read tags or put them.
LEMMA TagStepsIInv ==
    ASSUME IInv, VerifyRole \/ TagBucket \/ VerifyRuntime \/ TagIdentity \/ TagLogGroup
    PROVE  IInv'
<1> USE Types DEF At
<1>1. step \in HasRuntime => "runtime" \in mem.created
  BY DEF IInv
<1>2. CASE VerifyRole
  BY <1>2, VerifyTagsIInv DEF VerifyRole, HasRuntime
<1>3. CASE TagBucket
  BY <1>3, PutTagsIInv DEF TagBucket, HasRuntime
<1>4. CASE VerifyRuntime
  BY <1>1, <1>4, VerifyTagsIInv DEF VerifyRuntime, HasRuntime
<1>5. CASE TagIdentity
  BY <1>1, <1>5, PutTagsIInv DEF TagIdentity, HasRuntime
<1>6. CASE TagLogGroup
  BY <1>1, <1>6, PutTagsIInv DEF TagLogGroup, HasRuntime
<1> QED
  BY <1>2, <1>3, <1>4, <1>5, <1>6

LEMMA CreateLogGroupIInv == ASSUME IInv, CreateLogGroup PROVE IInv'
<1> DEFINE made == IF Found("log_group") # {} THEN cloud
                   ELSE cloud \cup {Made("log_group", mem.n, "demo")}
<1>1. step = "log_group"
  BY DEF CreateLogGroup, At
<1>2. "runtime" \in mem.created
  BY <1>1 DEF IInv, HasRuntime
<1>3. Made("log_group", mem.n, "demo") \in Resource
      /\ Made("log_group", mem.n, "demo").by = mem.n
  BY <1>1, MadeIsResource, Types
<1>4. ASSUME cloud' = made PROVE Grows
  BY <1>1, <1>3, <1>4 DEF Grows, IInv
<1>5. Grows
  BY <1>4, SameCloud DEF CreateLogGroup
<1>6. CASE Raise
  BY <1>1, <1>5, <1>6, Raised
<1>7. CASE Note({"log_group"}, {}) /\ Goto("log_tags") /\ UNCHANGED counters
  BY <1>1, <1>2, <1>5, <1>7, Noted, Types
<1> QED
  BY <1>6, <1>7 DEF CreateLogGroup, rest

LEMMA ReadyIInv == ASSUME IInv, WaitReady \/ Invoke PROVE IInv'
<1> USE SameCloud DEF At
<1>1. step \in {"ready", "invoke"} /\ Grows
  BY DEF WaitReady, Invoke
<1>2. CASE Raise
  BY <1>1, <1>2, Raised
<1>3. CASE disk' = mem /\ Goto("invoke") /\ UNCHANGED <<mem, unsaved>> /\ UNCHANGED counters
  BY <1>1, <1>3, Moved DEF Goto, HasRuntime
<1>4. CASE End /\ (disk' = mem \/ disk' = disk) /\ UNCHANGED counters
  BY <1>1, <1>4, Ended
<1>5. CASE WaitReady
  BY <1>2, <1>3, <1>4, <1>5 DEF WaitReady, rest
<1>6. CASE Invoke
  BY <1>2, <1>4, <1>6 DEF Invoke, rest
<1> QED
  BY <1>5, <1>6

-----------------------------------------------------------------------------
(***************************************************************************)
(* The cleanup.                                                            *)
(***************************************************************************)
LEMMA BeginCleanupIInv == ASSUME IInv, BeginCleanup PROVE IInv'
<1>1. step = "cleanup" /\ cloud' = cloud /\ disk' = disk /\ UNCHANGED counters
  BY DEF BeginCleanup, At, rest
<1>2. CASE End
  BY <1>1, <1>2, Ended, SameCloud
<1>3. CASE step' = "delete" /\ UNCHANGED <<mem, unsaved, report, thenInvoke>>
  BY <1>1, <1>3, Moved, SameCloud DEF HasRuntime
<1> QED
  BY <1>2, <1>3 DEF BeginCleanup

LEMMA DeleteIInv == ASSUME IInv, Delete PROVE IInv'
<1>1. step = "delete" /\ cloud' \subseteq cloud
      /\ UNCHANGED <<mem, disk, step, report, counters>>
  BY DEF Delete, At, Deleted, rest
<1>2. Grows
  BY <1>1 DEF Grows, IInv
<1> QED
  BY <1>1, <1>2, Moved DEF HasRuntime

\* The end that claims: what the record names was looked up, and what is still
\* there is what the look was misled about.
LEMMA PassedIInv ==
    ASSUME IInv, step # "idle", cloud' = cloud, deploys' = deploys,
           NEW wrong, Exists \subseteq wrong, Passed(wrong)
    PROVE  IInv'
<1>1. mem \in State /\ mem.n \in 1..deploys
      /\ ("log_group" \in mem.created => "runtime" \in mem.created)
  BY DEF IInv, Live, MemIsLive
<1>2. claimed' = {<<t, mem.n>> : t \in mem.created} /\ misled' = wrong
      /\ step' = "idle" /\ ~unsaved' /\ disk' = NoState
  BY DEF Passed, Report
<1>3. Claims'
  BY <1>1, <1>2 DEF Claims, State
<1>4. \A x \in cloud : x.type \in mem.created /\ x.by = mem.n => x.type \in wrong
  BY DEF Exists, Found
<1>5. PassedMeansGone'
  BY <1>2, <1>4 DEF PassedMeansGone
<1> QED
  BY <1>2, <1>3, <1>5 DEF IInv, HasRuntime

LEMMA VerifyIInv == ASSUME IInv, Verify PROVE IInv'
<1>1. step = "delete" /\ cloud' = cloud /\ UNCHANGED counters
  BY DEF Verify, At, rest
<1>2. CASE Partial
  BY <1>1, <1>2, Ended, SameCloud DEF Partial
<1>3. CASE \E wrong : Exists \subseteq wrong /\ Passed(wrong)
  BY <1>1, <1>3, PassedIInv DEF counters
<1>4. ASSUME NEW missed, failed \cup (Exists \ missed) = {}, Passed(missed \cap Exists)
      PROVE  \E wrong : Exists \subseteq wrong /\ Passed(wrong)
  BY <1>4
<1> QED
  BY <1>2, <1>3, <1>4 DEF Verify

-----------------------------------------------------------------------------
(***************************************************************************)
(* The world.                                                              *)
(***************************************************************************)
LEMMA CrashIInv == ASSUME IInv, Crash PROVE IInv'
  BY Ended, SameCloud DEF Crash, rest

LEMMA LogGroupGrows == ASSUME IInv, LogGroupAppears PROVE Grows
<1>1. PICK x \in cloud : x.type = "runtime"
             /\ cloud' = cloud \cup {Made("log_group", x.by, "none")}
  BY DEF LogGroupAppears
<1>2. Made("log_group", x.by, "none") \in Resource
  BY <1>1, Types, RemoteDemoAssumption DEF IInv, Made, Resource
<1> QED
  BY <1>1, <1>2 DEF Grows, IInv, Made

LEMMA OutsideGrows == ASSUME IInv, Outside PROVE Grows
<1>1. CASE \E t \in Named, tags \in {"none", "demo", "other"} :
             cloud' = cloud \cup {Made(t, 0, tags)}
  <2>1. PICK t \in Named, tags \in {"none", "demo", "other"} :
               cloud' = cloud \cup {Made(t, 0, tags)}
    BY <1>1
  <2>2. Made(t, 0, tags) \in Resource
    BY Types, RemoteDemoAssumption DEF Named, Made, Resource
  <2> QED
    BY <2>1, <2>2 DEF Grows, IInv, Made
<1>2. CASE \E x \in cloud : cloud' = cloud \ {x}
  BY <1>2 DEF Grows, IInv
<1> QED
  BY <1>1, <1>2 DEF Outside

LEMMA WorldIInv == ASSUME IInv, LogGroupAppears \/ Outside \/ Expire PROVE IInv'
<1>1. step' = step /\ mem' = mem /\ disk' = disk /\ UNCHANGED report /\ deploys' = deploys
  BY DEF LogGroupAppears, Outside, Expire, commandVars, rest, counters
<1>2. Grows
  BY LogGroupGrows, OutsideGrows, SameCloud DEF Expire
<1>3. step' = "idle" \/ MemIsLive'
  BY <1>1 DEF IInv, Live, MemIsLive, report
<1>4. step' \in HasRuntime => "runtime" \in mem'.created
  BY <1>1 DEF IInv
<1>5. unsaved' = unsaved
  BY DEF LogGroupAppears, Outside, Expire, commandVars
<1> QED
  BY <1>1, <1>2, <1>3, <1>4, <1>5, StepIInv DEF IInv

-----------------------------------------------------------------------------
\* Every step keeps the invariant.
LEMMA NextIInv == ASSUME IInv, [Next]_vars PROVE IInv'
<1>1. CASE \E run \in BOOLEAN : StartDeploy(run)
  BY <1>1, StartDeployIInv
<1>2. CASE StartInvoke \/ StartCleanup
  BY <1>2, LoadIInv DEF StartInvoke, StartCleanup
<1>3. CASE _save_state
  BY <1>3, SaveIInv DEF _save_state
<1>4. CASE CallerIdentity \/ EnsureNoCollisions \/ Upload \/ CreateRuntime \/ CreateLogGroup
  BY <1>4, CallerIdentityIInv, EnsureNoCollisionsIInv, UploadIInv, CreateRuntimeIInv,
     CreateLogGroupIInv
<1>5. CASE CreateRole \/ CreateBucket
  BY <1>5, CreateRoleIInv, CreateBucketIInv
<1>6. CASE VerifyRole \/ TagBucket \/ VerifyRuntime \/ TagIdentity \/ TagLogGroup
  BY <1>6, TagStepsIInv
<1>7. CASE WaitReady \/ Invoke
  BY <1>7, ReadyIInv
<1>8. CASE BeginCleanup \/ Delete \/ Verify
  BY <1>8, BeginCleanupIInv, DeleteIInv, VerifyIInv
<1>9. CASE Crash
  BY <1>9, CrashIInv
<1>10. CASE LogGroupAppears \/ Outside \/ Expire
  BY <1>10, WorldIInv
<1>11. CASE UNCHANGED vars
  <2>1. cloud' = cloud /\ step' = step /\ mem' = mem /\ disk' = disk
        /\ UNCHANGED report /\ deploys' = deploys /\ unsaved' = unsaved
    BY <1>11 DEF vars, report
  <2>2. step' = "idle" \/ MemIsLive'
    BY <2>1 DEF IInv, Live, MemIsLive, report
  <2>3. step' \in HasRuntime => "runtime" \in mem'.created
    BY <2>1 DEF IInv
  <2> QED
    BY <2>1, <2>2, <2>3, SameCloud, StepIInv DEF IInv
<1> QED
  BY <1>1, <1>2, <1>3, <1>4, <1>5, <1>6, <1>7, <1>8, <1>9, <1>10, <1>11 DEF Next

\* Whatever fails, dies, expires or is meddled with: of what a command reports
\* gone with "passed" nothing exists, then or later, but what its last look was
\* misled about, by a list of identities read to its first page or by an error
\* taken for `not found', and the log group of a runtime it was misled about.
THEOREM NothingOfAPassedDeployment == Spec => []PassedMeansGone
<1>1. Init => IInv
  BY InitIInv
<1>2. IInv /\ [Next]_vars => IInv'
  BY NextIInv
<1>3. IInv => PassedMeansGone
  BY DEF IInv
<1> QED
  BY <1>1, <1>2, <1>3, PTL DEF Spec

-----------------------------------------------------------------------------
(***************************************************************************)
(* What a cleanup touches and what it leaves.                              *)
(*                                                                         *)
(* The argument: a deployment saves its record before it makes anything,   *)
(* and makes a role or a bucket only when the name is free, so what bears  *)
(* the name of a recorded one is the record's own or, since the record did *)
(* hold the name, somebody else's who came later; each kind is made at one *)
(* step, before its tags are noted; and a cleanup takes the runtime first, *)
(* after which no log group of it appears.                                 *)
(***************************************************************************)
\* The steps that make and tag resources.
Deploying == {"iam_role", "role_tags", "s3_bucket", "bucket_tags", "upload", "runtime",
              "runtime_tags", "identity_tags", "log_group", "log_tags", "ready"}
\* What a deployment may have made when it comes to step s.
Before(s) ==
    IF s \in {"account", "collisions", "iam_role"} THEN {}
    ELSE IF s \in {"role_tags", "s3_bucket"} THEN {"iam_role"}
    ELSE IF s \in {"bucket_tags", "upload", "runtime"} THEN {"iam_role", "s3_bucket"}
    ELSE Type
\* What a step tags is recorded.
Tagging(s, created) ==
    /\ s = "role_tags" => "iam_role" \in created
    /\ s = "bucket_tags" => "s3_bucket" \in created
    /\ s = "runtime_tags" => "runtime" \in created
    /\ s = "identity_tags" => "workload_identity" \in created
    /\ s = "log_tags" => "log_group" \in created

Counted ==
    /\ faults \in 0..MaxFaults /\ outside \in 0..MaxOutside /\ expired \in 0..deploys
    /\ mark \in Nat /\ mark <= faults
    /\ failed \subseteq Type
    /\ \A t \in Type : seen[t] \in Resource
    /\ todo # << >> => step = "delete"
Recorded ==
    /\ step = "idle" <=> mem = NoState
    /\ mem # NoState => Valid(mem) /\ mem.created \subseteq Before(step)
                                   /\ Tagging(step, mem.created)
    /\ disk # NoState => Valid(disk) /\ disk.account
    /\ step \in Deploying \cup {"collisions", "invoke"} => mem.account
    /\ unsaved => step \in Deploying \cup {"collisions"}
\* A record was saved before its deployment made anything.
SavedFirst ==
    step \in Deploying \cup {"invoke"} \/ (step = "collisions" /\ ~unsaved) =>
        disk # NoState /\ disk.n = mem.n /\ disk.tagged \subseteq mem.tagged

\* Who may have made a resource, and the tags it can have.
Proper(x, d) ==
    /\ x.by \in 0..d
    /\ x.by = 0 => x.type \in Named
    /\ x.type \in {"iam_role", "runtime"} /\ x.by # 0 => x.tags = "demo"
    /\ x.type = "log_group" => x.tags # "other"
Real ==
    /\ \A x \in cloud : Proper(x, deploys)
    /\ \A x, y \in cloud :
         x.type = y.type /\ (x.type \in Named \/ x.by = y.by) => x = y
\* What bears the name of a recorded role or bucket, and what is recorded as tagged.
Ours(s, c) ==
    \A x \in c :
        /\ x.type \in s.created /\ x.type \in {"iam_role", "s3_bucket"} => x.by \in {0, s.n}
        /\ x.type \in s.tagged /\ x.type # "log_group" /\ x.by = s.n => x.tags = "demo"
Owned ==
    /\ mem # NoState => Ours(mem, cloud)
    /\ disk # NoState => Ours(disk, cloud)
NotYet == step # "idle" => \A x \in cloud : x.by = mem.n => x.type \in Before(step)

\* The cleanup: the types are worked off in their order, from what was seen.
Rest == {<< >>, <<"s3_bucket">>, <<"iam_role", "s3_bucket">>,
         <<"log_group", "iam_role", "s3_bucket">>,
         <<"workload_identity", "log_group", "iam_role", "s3_bucket">>, RESOURCE_TYPES}
Of(s) == {s[i] : i \in DOMAIN s}
Ahead == Of(todo)
SeenFor(t) ==
    \/ seen[t] \in {NotThere, Unknown}
    \/ /\ seen[t].type = t /\ t \in mem.created
       /\ IF t \in {"iam_role", "s3_bucket"} THEN seen[t].by \in {0, mem.n}
                                             ELSE seen[t].by = mem.n
Spared(x) ==
    \/ x.type = "s3_bucket" /\ x.tags = "none"
    \/ x.type = "workload_identity" /\ seen[x.type] = NotThere
    \/ /\ x.type = "log_group" /\ x.tags = "none"
       /\ x.type \in mem.tagged \/ seen[x.type] = NotThere
Noticed(x) ==
    \/ x = seen[x.type]
    \/ x.type = "log_group" /\ x.tags = "none"
    \/ x.type = "s3_bucket" /\ x.tags = "none" /\ seen[x.type] = Unknown
    \/ x.type = "workload_identity" /\ seen[x.type] = NotThere
Left ==
    faults = mark =>
        /\ \A t \in Type : seen[t] = Unknown => t = "s3_bucket"
        /\ \A x \in cloud : x.by = mem.n /\ x.type \in mem.created =>
             Noticed(x) /\ (x.type \in Ahead \/ Spared(x))
Cleaning ==
    step = "delete" => todo \in Rest /\ (\A t \in Type : SeenFor(t)) /\ Left

RInv == IInv /\ Counted /\ Recorded /\ SavedFirst /\ Real /\ Owned /\ NotYet /\ Cleaning

-----------------------------------------------------------------------------
\* What is known of the resources after a step of them.
RealThen == Real' /\ (mem # NoState => Ours(mem, cloud')) /\ (disk # NoState => Ours(disk, cloud'))

LEMMA RInvRecords ==
    ASSUME RInv
    PROVE  /\ deploys \in Nat /\ NoState \notin State
           /\ step # "idle" => /\ mem # NoState /\ mem \in State /\ mem.n \in 1..deploys
                               /\ mem.tagged \subseteq mem.created
           /\ disk # NoState => disk \in State /\ disk.n \in 1..deploys
  BY RemoteDemoAssumption DEF RInv, IInv, Recorded, Valid, MemIsLive, Live

LEMMA SameResources == ASSUME RInv, cloud' = cloud, deploys' = deploys PROVE RealThen
  BY DEF RInv, RealThen, Real, Owned, Ours, Proper

LEMMA FewerResources ==
    ASSUME RInv, cloud' \subseteq cloud, deploys' = deploys PROVE RealThen
<1>1. Real'
  BY DEF RInv, Real, Proper
<1> QED
  BY <1>1 DEF RInv, RealThen, Owned, Ours

\* What is added was not there.
LEMMA MoreResources ==
    ASSUME RInv, deploys' = deploys, NEW made, cloud' = cloud \cup made,
           \A x \in made : Proper(x, deploys),
           \A x \in made, y \in cloud : x.type = y.type => x.type \notin Named /\ x.by # y.by,
           \A x, y \in made : x.type = y.type => x = y
    PROVE  Real'
<1>1. \A x \in cloud' : Proper(x, deploys')
  BY DEF RInv, Real
<1>2. ASSUME NEW x \in cloud', NEW y \in cloud', x.type = y.type,
             x.type \in Named \/ x.by = y.by
      PROVE  x = y
  <2>1. CASE x \in cloud /\ y \in cloud
    BY <1>2, <2>1 DEF RInv, Real
  <2>2. CASE x \in made /\ y \in cloud
    BY <1>2, <2>2
  <2>3. CASE x \in cloud /\ y \in made
    BY <1>2, <2>3
  <2>4. CASE x \in made /\ y \in made
    BY <1>2, <2>4
  <2> QED
    BY <2>1, <2>2, <2>3, <2>4
<1> QED
  BY <1>1, <1>2 DEF Real

LEMMA MoreOurs ==
    ASSUME NEW s, NEW made, Ours(s, cloud), cloud' = cloud \cup made,
           \A x \in made : /\ x.type \in {"iam_role", "s3_bucket"} => x.by \in {0, s.n}
                           /\ x.type \notin s.tagged \/ x.type = "log_group" \/ x.by # s.n
    PROVE  Ours(s, cloud')
  BY DEF Ours

\* The tags of what was found become the demo's.
LEMMA RetaggedResources ==
    ASSUME RInv, NEW t, t \in {"s3_bucket", "workload_identity", "log_group"},
           step # "idle", deploys' = deploys, cloud' = Retagged(t)
    PROVE  /\ RealThen
           /\ \A x \in cloud' : x.type = t /\ x.by = mem.n => x.tags = "demo"
           /\ \A x \in cloud' : \E y \in cloud : y.type = x.type /\ y.by = x.by
<1> DEFINE tag(y) == IF y \in Found(t) THEN Tagged(y) ELSE y
<1>1. ASSUME NEW y \in cloud
      PROVE  /\ tag(y).type = y.type /\ tag(y).by = y.by
             /\ tag(y).tags = "demo" \/ tag(y) = y
             /\ y.type = t /\ y.by = mem.n => tag(y).tags = "demo"
             /\ y.type # t => tag(y) = y
  BY DEF RInv, IInv, Resource, Found, Tagged
<1>2. cloud' = {tag(y) : y \in cloud}
  BY DEF Retagged
<1> HIDE DEF tag
<1>3. ASSUME NEW y \in cloud PROVE Proper(tag(y), deploys)
  BY <1>1, <1>3 DEF RInv, Real, Proper
<1>4. \A x \in cloud' : Proper(x, deploys')
  BY <1>2, <1>3
<1>5. \A x, y \in cloud' : x.type = y.type /\ (x.type \in Named \/ x.by = y.by) => x = y
  BY <1>1, <1>2 DEF RInv, Real
<1>6. ASSUME NEW s, Ours(s, cloud) PROVE Ours(s, cloud')
  BY <1>1, <1>2, <1>6 DEF Ours
<1>7. RealThen
  BY <1>4, <1>5, <1>6 DEF RInv, RealThen, Real, Owned
<1> QED
  BY <1>1, <1>2, <1>7

\* What is recorded of resources that are the record's own.
LEMMA NotedOurs ==
    ASSUME mem \in State, NEW created \in SUBSET Type, NEW tagged \in SUBSET Type,
           NEW c, Note(created, tagged), Ours(mem, c),
           \A x \in c : x.type \in created /\ x.type \in {"iam_role", "s3_bucket"} => x.by = mem.n,
           \A x \in c : x.type \in tagged /\ x.type # "log_group" /\ x.by = mem.n
                          => x.tags = "demo"
    PROVE  /\ Ours(mem', c)
           /\ mem' \in State /\ mem'.n = mem.n /\ mem'.account = mem.account
           /\ mem'.created = mem.created \cup created /\ mem'.tagged = mem.tagged \cup tagged
<1>1. /\ mem' \in State /\ mem'.n = mem.n /\ mem'.account = mem.account
      /\ mem'.created = mem.created \cup created /\ mem'.tagged = mem.tagged \cup tagged
  BY DEF Note, State
<1> QED
  BY <1>1 DEF Ours

-----------------------------------------------------------------------------
(***************************************************************************)
(* The ways a step may go.                                                 *)
(***************************************************************************)
\* Nothing is raised at these steps: a deployment or an invocation is over.
IdleOrDelete == {"idle", "delete"}
LEMMA AbandonedRInv ==
    ASSUME RInv, IInv', step \notin IdleOrDelete, RealThen, Abandon, Works \/ Fault
    PROVE  RInv'
<1> USE RInvRecords DEF Abandon, Goto, counters, cleaning, Works, Fault, IdleOrDelete
<1>1. Counted'
  BY RemoteDemoAssumption DEF RInv, Counted
<1>2. Recorded'
  BY DEF RInv, Recorded, Valid, Before, Tagging, Deploying, State
<1>3. SavedFirst'
  BY DEF SavedFirst, Deploying
<1>4. Owned' /\ Real'
  BY DEF RealThen, Owned
<1>5. NotYet' /\ Cleaning'
  BY DEF NotYet, Before, IInv, Resource, Cleaning
<1> QED
  BY <1>1, <1>2, <1>3, <1>4, <1>5 DEF RInv

LEMMA RaisedRInv ==
    ASSUME RInv, IInv', step \notin IdleOrDelete, RealThen, Raise, Works \/ Fault PROVE RInv'
  BY AbandonedRInv DEF Raise

LEMMA NotedRInv ==
    ASSUME RInv, IInv', step \in Deploying \cup {"collisions"}, RealThen,
           NEW s \in Deploying, Goto(s), UNCHANGED counters, Works,
           NEW created \in SUBSET Type, NEW tagged \in SUBSET Type, Note(created, tagged),
           mem.created \cup created \subseteq Before(s),
           Tagging(s, mem.created \cup created),
           tagged \subseteq mem.created \cup created,
           step \in Deploying,
           \A x \in cloud' : x.by = mem.n => x.type \in Before(s),
           \A x \in cloud' : x.type \in created /\ x.type \in {"iam_role", "s3_bucket"}
                               => x.by = mem.n,
           \A x \in cloud' : x.type \in tagged /\ x.type # "log_group" /\ x.by = mem.n
                               => x.tags = "demo"
    PROVE  RInv'
<1>0. /\ step \notin IdleOrDelete /\ s \notin IdleOrDelete \cup {"account", "cleanup"}
      /\ mem # NoState /\ mem \in State
  BY RInvRecords DEF Deploying, IdleOrDelete
<1>1. /\ Ours(mem', cloud')
      /\ mem' \in State /\ mem'.n = mem.n /\ mem'.account = mem.account
      /\ mem'.created = mem.created \cup created /\ mem'.tagged = mem.tagged \cup tagged
  BY <1>0, NotedOurs DEF RealThen
<1>2. Counted'
  BY <1>0 DEF RInv, Counted, Goto, counters, cleaning, Works, IdleOrDelete
<1>3. Valid(mem)'
  BY <1>0, <1>1 DEF RInv, Recorded, Valid, Deploying
<1>4. Recorded'
  BY <1>0, <1>1, <1>3, RInvRecords DEF RInv, Recorded, Valid, Goto, Note, IdleOrDelete
<1>5. SavedFirst'
  BY <1>0, <1>1 DEF RInv, SavedFirst, Goto, Note
<1>6. Owned' /\ Real'
  BY <1>1 DEF RealThen, Owned, Note
<1>7. NotYet' /\ Cleaning'
  BY <1>0, <1>1 DEF NotYet, Cleaning, Goto, IdleOrDelete
<1> QED
  BY <1>2, <1>4, <1>5, <1>6, <1>7 DEF RInv

\* The record stays, and may have been saved.
LEMMA MovedRInv ==
    ASSUME RInv, IInv', step \notin IdleOrDelete, cloud' = cloud, mem' = mem, unsaved' = FALSE,
           UNCHANGED counters, Works \/ Fault, UNCHANGED cleaning,
           step' \notin IdleOrDelete, mem.account,
           mem.created \subseteq Before(step'), Tagging(step', mem.created),
           \A x \in cloud : x.by = mem.n => x.type \in Before(step'),
           \/ disk' = mem
           \/ /\ disk' = disk /\ disk # NoState
              /\ disk.n = mem.n /\ disk.tagged \subseteq mem.tagged
    PROVE  RInv'
<1> USE RInvRecords DEF IdleOrDelete
<1>1. Counted'
  BY RemoteDemoAssumption DEF RInv, Counted, counters, cleaning, Works, Fault
<1>2. Recorded'
  BY DEF RInv, Recorded, Valid
<1>3. SavedFirst'
  BY DEF SavedFirst
<1>4. Owned' /\ Real'
  BY SameResources DEF RInv, RealThen, Owned, counters
<1>5. NotYet' /\ Cleaning'
  BY DEF NotYet, Cleaning
<1> QED
  BY <1>1, <1>2, <1>3, <1>4, <1>5 DEF RInv

LEMMA EndedRInv ==
    ASSUME RInv, IInv', step # "idle", cloud' = cloud, NEW gone, NEW wrong, Report(gone, wrong),
           disk' = disk \/ disk' = NoState \/ (disk' = mem /\ mem.account),
           UNCHANGED counters, Works \/ Fault
    PROVE  RInv'
<1> USE RInvRecords DEF Report, Works, Fault, counters
<1>0. NotThere \in Resource /\ \A t \in Type : NothingSeen[t] = NotThere
  BY Types, RemoteDemoAssumption DEF NotThere, NothingSeen, Resource, Made
<1>1. Counted'
  BY <1>0, RemoteDemoAssumption DEF RInv, Counted
<1>2. Recorded'
  BY DEF RInv, Recorded, Deploying
<1>3. SavedFirst'
  BY DEF SavedFirst, Deploying
<1>4. Owned' /\ Real'
  BY SameResources DEF RealThen, Owned
<1>5. NotYet' /\ Cleaning'
  BY DEF NotYet, Cleaning
<1> QED
  BY <1>1, <1>2, <1>3, <1>4, <1>5 DEF RInv

-----------------------------------------------------------------------------
(***************************************************************************)
(* The commands and the deployment.                                        *)
(***************************************************************************)
LEMMA StartDeployRInv == ASSUME RInv, IInv', NEW run, StartDeploy(run) PROVE RInv'
<1> USE RInvRecords DEF StartDeploy, new_state, cleaning
<1>1. mem' \in State /\ mem'.n = deploys + 1 /\ mem'.created = {} /\ mem'.tagged = {}
  BY RemoteDemoAssumption DEF State, RInv, IInv
<1>2. Counted'
  BY DEF RInv, Counted
<1>3. Recorded'
  BY <1>1 DEF RInv, Recorded, Valid, Before, Tagging, Deploying
<1>4. SavedFirst'
  BY DEF SavedFirst, Deploying
<1>5. Real'
  BY DEF RInv, Real, Proper
<1>6. Ours(mem', cloud)
  BY <1>1 DEF Ours
<1>7. Owned'
  BY <1>6 DEF RInv, Owned
<1>8. NotYet'
  BY <1>1 DEF RInv, Real, Proper, NotYet
<1>9. Cleaning'
  BY DEF Cleaning
<1> QED
  BY <1>2, <1>3, <1>4, <1>5, <1>7, <1>8, <1>9 DEF RInv

LEMMA LoadRInv ==
    ASSUME RInv, IInv', NEW s \in {"invoke", "cleanup"}, Load(s) PROVE RInv'
<1> USE RInvRecords DEF Load, cleaning, rest, counters
<1>1. Counted'
  BY DEF RInv, Counted
<1>2. Recorded'
  BY DEF RInv, Recorded, Valid, Before, Tagging, Deploying, State
<1>3. SavedFirst'
  BY DEF SavedFirst, RInv, Recorded
<1>4. Owned' /\ Real'
  BY DEF RInv, Owned, Real, Proper
<1>5. NotYet'
  BY DEF NotYet, Before, RInv, IInv, Resource
<1>6. Cleaning'
  BY DEF Cleaning
<1> QED
  BY <1>1, <1>2, <1>3, <1>4, <1>5, <1>6 DEF RInv

\* A command at work has its record.
LEMMA AtWork ==
    ASSUME RInv, step # "idle"
    PROVE  /\ mem # NoState /\ mem \in State /\ mem.n \in 1..deploys
           /\ Valid(mem) /\ mem.created \subseteq Before(step) /\ Tagging(step, mem.created)
           /\ step \in Deploying \cup {"collisions", "invoke"} => mem.account
           /\ step \in Deploying \cup {"invoke"} =>
                disk # NoState /\ disk.n = mem.n /\ disk.tagged \subseteq mem.tagged
           /\ \A x \in cloud : x.by = mem.n => x.type \in Before(step)
           /\ Ours(mem, cloud)
  BY RInvRecords DEF RInv, Recorded, SavedFirst, NotYet, Owned

LEMMA SaveRInv == ASSUME RInv, IInv', _save_state PROVE RInv'
<1>1. step \in Deploying \cup {"collisions"} /\ step \notin IdleOrDelete /\ step # "idle"
  BY DEF _save_state, RInv, Recorded, IdleOrDelete, Deploying
<1>2. CASE Fault /\ Raise
  BY <1>1, <1>2, RaisedRInv, SameResources DEF _save_state, Raise, Abandon, counters
<1>3. CASE /\ disk' = mem /\ unsaved' = FALSE /\ Works
           /\ UNCHANGED <<mem, step, thenInvoke, cleaning, report, counters>>
  BY <1>1, <1>3, AtWork, MovedRInv DEF _save_state
<1> QED
  BY <1>2, <1>3 DEF _save_state, rest

LEMMA CallerIdentityRInv == ASSUME RInv, IInv', CallerIdentity PROVE RInv'
<1>1. step = "account" /\ ~unsaved /\ cloud' = cloud
  BY DEF CallerIdentity, At
<1>2. CASE Raise /\ (Works \/ Fault)
  BY <1>1, <1>2, RaisedRInv, SameResources DEF Raise, Abandon, counters, IdleOrDelete
<1>3. CASE /\ Works /\ mem' = [mem EXCEPT !.account = TRUE] /\ unsaved' = TRUE
           /\ Goto("collisions") /\ UNCHANGED <<disk, counters>>
  <2> USE AtWork DEF Goto, counters, cleaning, Works
  <2>1. mem' \in State /\ mem'.n = mem.n /\ mem'.created = mem.created
        /\ mem'.tagged = mem.tagged /\ mem'.account
    BY <1>1, <1>3 DEF State
  <2>2. mem.created = {} /\ mem.tagged = {}
    BY <1>1 DEF Before, Valid
  <2>3. Counted'
    BY <1>1, <1>3 DEF RInv, Counted
  <2>4. Recorded'
    BY <1>1, <1>3, <2>1, <2>2, RInvRecords
    DEF RInv, Recorded, Valid, Before, Tagging, Deploying
  <2>5. SavedFirst'
    BY <1>3 DEF SavedFirst, Deploying
  <2>6. Real'
    BY <1>1, <1>3, SameResources DEF RealThen
  <2>7. Ours(mem', cloud)
    BY <2>1, <2>2 DEF Ours
  <2>8. Owned'
    BY <1>1, <1>3, <2>7 DEF RInv, Owned
  <2>9. NotYet' /\ Cleaning'
    BY <1>1, <1>3, <2>1 DEF NotYet, Before, Cleaning
  <2> QED
    BY <2>3, <2>4, <2>5, <2>6, <2>8, <2>9 DEF RInv
<1> QED
  BY <1>2, <1>3 DEF CallerIdentity, rest

LEMMA EnsureNoCollisionsRInv == ASSUME RInv, IInv', EnsureNoCollisions PROVE RInv'
<1>1. step = "collisions" /\ ~unsaved /\ cloud' = cloud
  BY DEF EnsureNoCollisions, At
<1>2. CASE Raise /\ (Works \/ Fault)
  BY <1>1, <1>2, RaisedRInv, SameResources DEF Raise, Abandon, counters, IdleOrDelete
<1>3. CASE (Works \/ Fault) /\ Goto("iam_role") /\ Saved /\ UNCHANGED counters
  <2>1. mem.account /\ mem.created = {} /\ \A x \in cloud : x.by # mem.n
    BY <1>1, AtWork DEF Before, Deploying
  <2>2. disk # NoState /\ disk.n = mem.n /\ disk.tagged \subseteq mem.tagged
    BY <1>1 DEF RInv, SavedFirst
  <2>3. step' = "iam_role" /\ mem' = mem /\ disk' = disk /\ unsaved' = FALSE
        /\ UNCHANGED cleaning
    BY <1>1, <1>3 DEF Goto, Saved
  <2>4. Tagging(step', mem.created)
    BY <2>3 DEF Tagging
  <2> QED
    BY <1>1, <1>3, <2>1, <2>2, <2>3, <2>4, MovedRInv DEF IdleOrDelete
<1> QED
  BY <1>2, <1>3 DEF EnsureNoCollisions, rest

LEMMA DeployingIsAtWork ==
    ASSUME step \in Deploying PROVE step # "idle" /\ step \notin IdleOrDelete
  BY DEF Deploying, IdleOrDelete

\* A creation under a free name, of what the deployment has not made before.
MayMake(made, created, next) ==
    /\ \A x \in made : /\ Proper(x, deploys) /\ x.by = mem.n
                       /\ x.type \notin Before(step) /\ x.type \in Before(next)
                       /\ x.type \in Named => ~Taken(x.type)
    /\ \A x, y \in made : x.type = y.type => x = y
    /\ Before(step) \subseteq Before(next)
    /\ created \subseteq Before(next) /\ created \subseteq Type
    /\ \A t \in created : t \in {"iam_role", "s3_bucket"} => ~Taken(t)
    /\ \A c \in SUBSET Type : Tagging(next, c \cup created)

LEMMA MadeRInv ==
    ASSUME RInv, step \in Deploying, NEW made, NEW created, NEW next,
           MayMake(made, created, next), cloud' = cloud \cup made, deploys' = deploys
    PROVE  RealThen
<1> USE AtWork, DeployingIsAtWork DEF MayMake
<1>1. \A x \in made, y \in cloud : x.type = y.type => x.type \notin Named /\ x.by # y.by
  BY DEF Taken
<1>2. Real'
  BY <1>1, MoreResources
<1>3. \A x \in made : x.type \notin mem.tagged
  BY DEF Valid
<1>4. Ours(mem, cloud')
  BY <1>3, MoreOurs
<1>5. ASSUME disk # NoState PROVE Ours(disk, cloud')
  <2>1. disk.n = mem.n /\ \A x \in made : x.type \notin disk.tagged
    BY <1>3
  <2>2. Ours(disk, cloud)
    BY <1>5 DEF RInv, Owned
  <2> QED
    BY <2>1, <2>2, MoreOurs
<1> QED
  BY <1>2, <1>4, <1>5 DEF RealThen

LEMMA CreateRInv ==
    ASSUME RInv, IInv', step \in Deploying, NEW t, NEW made, NEW created,
           NEW next \in Deploying,
           ~Taken(t) => MayMake(made, created, next), Create(t, made, created, next)
    PROVE  RInv'
<1> USE DeployingIsAtWork
<1>1. CASE Abandon /\ (Works \/ Fault)
  <2>1. cloud' = cloud => RealThen
    BY <1>1, SameResources DEF Abandon, counters
  <2>2. cloud' = cloud \cup made /\ ~Taken(t) => RealThen
    BY <1>1, MadeRInv DEF Abandon, counters
  <2>3. RealThen
    BY <2>1, <2>2 DEF Create
  <2> QED
    BY <1>1, <2>3, AbandonedRInv
<1>2. CASE /\ ~Taken(t) /\ Works /\ cloud' = cloud \cup made
           /\ Note(created, {}) /\ Goto(next) /\ UNCHANGED counters
  <2>1. MayMake(made, created, next) /\ RealThen
    BY <1>2, MadeRInv DEF counters
  <2>2. created \in SUBSET Type /\ mem.created \cup created \subseteq Before(next)
    BY <2>1, AtWork DEF MayMake
  <2>3. Tagging(next, mem.created \cup created)
    BY <2>1, AtWork DEF MayMake, State
  <2>4. \A x \in cloud' : x.by = mem.n => x.type \in Before(next)
    BY <1>2, <2>1, AtWork DEF MayMake
  <2>5. \A x \in cloud' : x.type \in created /\ x.type \in {"iam_role", "s3_bucket"}
                            => x.by = mem.n
    BY <1>2, <2>1 DEF MayMake, Taken
  <2> QED
    BY <1>2, <2>1, <2>2, <2>3, <2>4, <2>5, NotedRInv
<1> QED
  BY <1>1, <1>2 DEF Create, Raise

LEMMA CreateRoleRInv == ASSUME RInv, IInv', CreateRole PROVE RInv'
<1> DEFINE role == Made("iam_role", mem.n, "demo")
<1>1. step = "iam_role" /\ step \in Deploying /\ "role_tags" \in Deploying
  BY DEF CreateRole, At, Deploying
<1>2. Proper(role, deploys) /\ role.by = mem.n /\ role.type = "iam_role"
  BY <1>1, AtWork, RInvRecords DEF Made, Proper
<1> HIDE DEF role
<1>3. ~Taken("iam_role") => MayMake({role}, {"iam_role"}, "role_tags")
  BY <1>1, <1>2, Types DEF MayMake, Before, Tagging
<1> QED
  BY <1>1, <1>3, CreateRInv DEF CreateRole, role

LEMMA CreateBucketRInv == ASSUME RInv, IInv', CreateBucket PROVE RInv'
<1> DEFINE bucket == Made("s3_bucket", mem.n, "none")
<1>1. step = "s3_bucket" /\ step \in Deploying /\ "bucket_tags" \in Deploying
  BY DEF CreateBucket, At, Deploying
<1>2. Proper(bucket, deploys) /\ bucket.by = mem.n /\ bucket.type = "s3_bucket"
  BY <1>1, AtWork, RInvRecords DEF Made, Proper
<1> HIDE DEF bucket
<1>3. ~Taken("s3_bucket") => MayMake({bucket}, {"s3_bucket"}, "bucket_tags")
  BY <1>1, <1>2, Types DEF MayMake, Before, Tagging
<1> QED
  BY <1>1, <1>3, CreateRInv DEF CreateBucket, bucket

LEMMA CreateRuntimeRInv == ASSUME RInv, IInv', CreateRuntime PROVE RInv'
<1> DEFINE runtime == Made("runtime", mem.n, "demo")
           identity == Made("workload_identity", mem.n, "none")
<1>1. step = "runtime" /\ step \in Deploying /\ "runtime_tags" \in Deploying
  BY DEF CreateRuntime, At, Deploying
<1>2. /\ Proper(runtime, deploys) /\ runtime.by = mem.n /\ runtime.type = "runtime"
      /\ Proper(identity, deploys) /\ identity.by = mem.n
      /\ identity.type = "workload_identity"
  BY <1>1, AtWork, RInvRecords DEF Made, Proper
<1>3. CreateRuntime =>
        \/ Create("runtime", {runtime, identity},
                  {"runtime", "workload_identity", "log_group"}, "runtime_tags")
        \/ Create("runtime", {runtime}, {"runtime", "log_group"}, "runtime_tags")
        \/ Works /\ Raise /\ UNCHANGED cloud
  BY DEF CreateRuntime
<1> HIDE DEF runtime, identity
<1>4. ~Taken("runtime") =>
        MayMake({runtime, identity}, {"runtime", "workload_identity", "log_group"},
                "runtime_tags")
  BY <1>1, <1>2, Types DEF MayMake, Before, Tagging, Named
<1>5. ~Taken("runtime") => MayMake({runtime}, {"runtime", "log_group"}, "runtime_tags")
  BY <1>1, <1>2, Types DEF MayMake, Before, Tagging, Named
<1>6. CASE Works /\ Raise /\ UNCHANGED cloud
  BY <1>1, <1>6, RaisedRInv, SameResources, DeployingIsAtWork DEF Raise, Abandon, counters
<1> QED
  BY <1>1, <1>3, <1>4, <1>5, <1>6, CreateRInv

\* A step that tags what was created, or only notes that it is tagged.
LEMMA TaggedRInv ==
    ASSUME RInv, IInv', step \in Deploying, NEW t \in mem.created, NEW next \in Deploying,
           RealThen, Note({}, {t}), Goto(next), Works, UNCHANGED counters,
           Before(step) = Before(next), Tagging(next, mem.created),
           \A x \in cloud' : x.type = t /\ t # "log_group" /\ x.by = mem.n => x.tags = "demo",
           \A x \in cloud' : \E y \in cloud : y.type = x.type /\ y.by = x.by
    PROVE  RInv'
<1>1. mem.created \subseteq Type /\ mem.created \subseteq Before(next)
  BY AtWork, DeployingIsAtWork DEF State
<1>2. {t} \in SUBSET Type /\ {} \in SUBSET Type /\ mem.created \cup {} = mem.created
      /\ {t} \subseteq mem.created \cup {}
  BY <1>1
<1>3. \A x \in cloud' : x.by = mem.n => x.type \in Before(next)
  BY AtWork, DeployingIsAtWork
<1>4. Tagging(next, mem.created \cup {})
  BY <1>2
<1> QED
  BY <1>1, <1>2, <1>3, <1>4, NotedRInv

LEMMA VerifyTagsRInv ==
    ASSUME RInv, IInv', step \in Deploying, NEW t \in mem.created, NEW next \in Deploying,
           t \in {"iam_role", "runtime"}, VerifyTags(t, next),
           Before(step) = Before(next), Tagging(next, mem.created)
    PROVE  RInv'
<1> USE DeployingIsAtWork
<1>1. cloud' = cloud
  BY DEF VerifyTags
<1>2. CASE Raise /\ (Works \/ Fault)
  BY <1>1, <1>2, SameResources, RaisedRInv DEF Raise, Abandon, counters
<1>3. CASE Note({}, {t}) /\ Goto(next) /\ Works /\ UNCHANGED counters
  <2>1. \A x \in cloud : x.type = t /\ x.by = mem.n => x.tags = "demo"
    BY AtWork DEF RInv, Real, Proper
  <2>2. RealThen
    BY <1>1, <1>3, SameResources DEF counters
  <2> QED
    BY <1>1, <1>3, <2>1, <2>2, TaggedRInv
<1> QED
  BY <1>2, <1>3 DEF VerifyTags, rest

LEMMA PutTagsRInv ==
    ASSUME RInv, IInv', step \in Deploying, NEW t \in mem.created, NEW next \in Deploying,
           t \in {"s3_bucket", "workload_identity", "log_group"}, PutTags(t, next),
           Before(step) = Before(next), Tagging(next, mem.created)
    PROVE  RInv'
<1> USE DeployingIsAtWork
<1>1. deploys' = deploys /\ (cloud' = cloud \/ cloud' = Retagged(t))
  BY DEF PutTags, Raise, Abandon, rest, counters
<1>2. RealThen
  BY <1>1, SameResources, RetaggedResources
<1>3. CASE Raise /\ (Works \/ Fault)
  BY <1>2, <1>3, RaisedRInv
<1>4. CASE /\ cloud' = Retagged(t) /\ Note({}, {t}) /\ Goto(next) /\ Works
           /\ UNCHANGED counters
  BY <1>1, <1>2, <1>4, RetaggedResources, TaggedRInv
<1> QED
  BY <1>3, <1>4 DEF PutTags, rest

LEMMA TagStepsRInv ==
    ASSUME RInv, IInv',
           VerifyRole \/ TagBucket \/ VerifyRuntime \/ TagIdentity \/ TagLogGroup
    PROVE  RInv'
<1> USE AtWork, DeployingIsAtWork DEF At, Deploying
<1>1. CASE VerifyRole
  BY <1>1, VerifyTagsRInv DEF VerifyRole, Before, Tagging
<1>2. CASE TagBucket
  BY <1>2, PutTagsRInv DEF TagBucket, Before, Tagging
<1>3. CASE VerifyRuntime
  BY <1>3, VerifyTagsRInv DEF VerifyRuntime, Before, Tagging
<1>4. CASE TagIdentity
  BY <1>4, PutTagsRInv DEF TagIdentity, Before, Tagging
<1>5. CASE TagLogGroup
  BY <1>5, PutTagsRInv DEF TagLogGroup, Before, Tagging
<1> QED
  BY <1>1, <1>2, <1>3, <1>4, <1>5

LEMMA UploadRInv == ASSUME RInv, IInv', Upload PROVE RInv'
<1> USE DeployingIsAtWork
<1>1. step = "upload" /\ step \in Deploying /\ "runtime" \in Deploying /\ cloud' = cloud
  BY DEF Upload, At, Deploying
<1>2. CASE Raise /\ (Works \/ Fault)
  BY <1>1, <1>2, SameResources, RaisedRInv DEF Raise, Abandon, counters
<1>3. CASE Works /\ Goto("runtime") /\ Note({}, {}) /\ UNCHANGED counters
  <2>1. mem.created \subseteq Before("runtime") /\ Before(step) = Before("runtime")
    BY <1>1, AtWork DEF Before
  <2>2. Tagging("runtime", mem.created \cup {})
    BY DEF Tagging
  <2>3. RealThen /\ mem.created \cup {} = mem.created /\ {} \in SUBSET Type
    BY <1>1, <1>3, SameResources DEF counters
  <2>4. \A x \in cloud' : x.by = mem.n => x.type \in Before("runtime")
    BY <1>1, <2>1, AtWork
  <2> QED
    BY <1>1, <1>3, <2>1, <2>2, <2>3, <2>4, NotedRInv
<1> QED
  BY <1>2, <1>3 DEF Upload, rest

LEMMA CreateLogGroupRInv == ASSUME RInv, IInv', CreateLogGroup PROVE RInv'
<1> USE DeployingIsAtWork
<1> DEFINE group == Made("log_group", mem.n, "demo")
           made == IF Found("log_group") # {} THEN cloud ELSE cloud \cup {group}
<1>1. step = "log_group" /\ step \in Deploying /\ "log_tags" \in Deploying
  BY DEF CreateLogGroup, At, Deploying
<1>2. Proper(group, deploys) /\ group.by = mem.n /\ group.type = "log_group"
  BY <1>1, AtWork, RInvRecords DEF Made, Proper
<1>3. deploys' = deploys /\ (cloud' = cloud \/ cloud' = made)
  BY DEF CreateLogGroup, Raise, Abandon, rest, counters
<1> HIDE DEF group
<1>4. ASSUME Found("log_group") = {}, cloud' = cloud \cup {group} PROVE RealThen
  <2> DEFINE new == {group}
  <2>1. \A x \in new : Proper(x, deploys) /\ x.type = "log_group" /\ x.by = mem.n
    BY <1>2
  <2>2. \A x \in new, y \in cloud : x.type = y.type => x.type \notin Named /\ x.by # y.by
    BY <1>2, <1>4 DEF Found, Named
  <2>3. \A x, y \in new : x.type = y.type => x = y
    OBVIOUS
  <2>4. cloud' = cloud \cup new
    BY <1>4
  <2> HIDE DEF new
  <2>5. Real'
    BY <1>3, <2>1, <2>2, <2>3, <2>4, MoreResources
  <2>6. ASSUME NEW s, Ours(s, cloud) PROVE Ours(s, cloud')
    BY <2>1, <2>4, <2>6, MoreOurs
  <2> QED
    BY <2>5, <2>6 DEF RealThen, RInv, Owned
<1>5. RealThen
  <2>1. CASE cloud' = cloud
    BY <1>3, <2>1, SameResources
  <2>2. CASE cloud' # cloud
    BY <1>3, <1>4, <2>2
  <2> QED
    BY <2>1, <2>2
<1>6. CASE Raise /\ (Works \/ Fault)
  BY <1>1, <1>5, <1>6, RaisedRInv
<1>7. CASE Works /\ Note({"log_group"}, {}) /\ Goto("log_tags") /\ UNCHANGED counters
  <2>1. /\ mem.created \cup {"log_group"} \subseteq Before("log_tags")
        /\ {"log_group"} \in SUBSET Type
    BY <1>1, AtWork, Types DEF Before, State
  <2>2. Tagging("log_tags", mem.created \cup {"log_group"})
    BY DEF Tagging
  <2>3. \A x \in cloud' : x.by = mem.n => x.type \in Before("log_tags")
    BY DEF Before, IInv, Resource
  <2>4. \A x \in cloud' : x.type \in {"log_group"} /\ x.type \in {"iam_role", "s3_bucket"}
                            => x.by = mem.n
    OBVIOUS
  <2> QED
    BY <1>1, <1>5, <1>7, <2>1, <2>2, <2>3, <2>4, NotedRInv, AtWork DEF Valid
<1> QED
  BY <1>6, <1>7 DEF CreateLogGroup, rest

LEMMA ReadyRInv == ASSUME RInv, IInv', WaitReady \/ Invoke PROVE RInv'
<1>1. step \in {"ready", "invoke"} /\ ~unsaved /\ cloud' = cloud
  BY DEF WaitReady, Invoke, At
<1>2. step # "idle" /\ step \notin IdleOrDelete /\ mem.account
  BY <1>1, AtWork DEF IdleOrDelete, Deploying
<1>3. CASE Raise /\ (Works \/ Fault)
  BY <1>1, <1>2, <1>3, SameResources, RaisedRInv DEF Raise, Abandon, counters
<1>4. CASE End /\ (disk' = mem \/ disk' = disk) /\ Works /\ UNCHANGED counters
  BY <1>1, <1>2, <1>4, EndedRInv DEF End
<1>5. CASE Works /\ disk' = mem /\ Goto("invoke") /\ UNCHANGED <<mem, unsaved>>
           /\ UNCHANGED counters
  <2>1. /\ mem.created \subseteq Before("invoke") /\ Tagging("invoke", mem.created)
        /\ \A x \in cloud : x.by = mem.n => x.type \in Before("invoke")
    BY <1>2, AtWork DEF Before, Tagging, State, RInv, IInv, Resource
  <2>2. step' = "invoke" /\ UNCHANGED cleaning /\ unsaved' = FALSE
    BY <1>1, <1>5, <1>2 DEF Goto, RInv, Recorded
  <2> QED
    BY <1>1, <1>2, <1>5, <2>1, <2>2, MovedRInv DEF IdleOrDelete
<1>6. CASE WaitReady
  BY <1>3, <1>4, <1>5, <1>6 DEF WaitReady, rest
<1>7. CASE Invoke
  BY <1>3, <1>4, <1>7 DEF Invoke, rest
<1> QED
  BY <1>6, <1>7

-----------------------------------------------------------------------------
(***************************************************************************)
(* The cleanup.                                                            *)
(***************************************************************************)
LEMMA OfRest ==
    /\ Of(<< >>) = {} /\ Of(<<"s3_bucket">>) = {"s3_bucket"}
    /\ Of(<<"iam_role", "s3_bucket">>) = {"iam_role", "s3_bucket"}
    /\ Of(<<"log_group", "iam_role", "s3_bucket">>) = {"log_group", "iam_role", "s3_bucket"}
    /\ Of(<<"workload_identity", "log_group", "iam_role", "s3_bucket">>)
         = {"workload_identity", "log_group", "iam_role", "s3_bucket"}
    /\ Of(RESOURCE_TYPES) = Type
  BY DEF Of, Type

LEMMA RestTail ==
    ASSUME NEW s \in Rest, s # << >>
    PROVE  /\ Head(s) \in Type /\ Tail(s) \in Rest
           /\ Of(s) = {Head(s)} \cup Of(Tail(s))
           /\ "runtime" \in Of(s) => "log_group" \in Of(s)
<1> USE OfRest, Types
<1>1. CASE s = <<"s3_bucket">>
  <2>1. Head(s) = "s3_bucket" /\ Tail(s) = << >>
    BY <1>1
  <2> QED
    BY <1>1, <2>1 DEF Rest
<1>2. CASE s = <<"iam_role", "s3_bucket">>
  <2>1. Head(s) = "iam_role" /\ Tail(s) = <<"s3_bucket">>
    BY <1>2
  <2> QED
    BY <1>2, <2>1 DEF Rest
<1>3. CASE s = <<"log_group", "iam_role", "s3_bucket">>
  <2>1. Head(s) = "log_group" /\ Tail(s) = <<"iam_role", "s3_bucket">>
    BY <1>3
  <2> QED
    BY <1>3, <2>1 DEF Rest
<1>4. CASE s = <<"workload_identity", "log_group", "iam_role", "s3_bucket">>
  <2>1. Head(s) = "workload_identity" /\ Tail(s) = <<"log_group", "iam_role", "s3_bucket">>
    BY <1>4
  <2> QED
    BY <1>4, <2>1 DEF Rest
<1>5. CASE s = RESOURCE_TYPES
  <2>1. Head(s) = "runtime"
        /\ Tail(s) = <<"workload_identity", "log_group", "iam_role", "s3_bucket">>
    BY <1>5 DEF RESOURCE_TYPES
  <2> QED
    BY <1>5, <2>1 DEF Rest
<1> QED
  BY <1>1, <1>2, <1>3, <1>4, <1>5 DEF Rest

\* A record that knows of a type sees what there is of it, but for a bucket
\* whose tags cannot be read.
LEMMA DiscoverSees ==
    ASSUME RInv, step = "cleanup", NEW t \in Type
    PROVE  /\ Discover(t) \in Resource
           /\ Discover(t) = Unknown => t = "s3_bucket"
           /\ \/ Discover(t) \in {NotThere, Unknown}
              \/ /\ Discover(t).type = t /\ t \in mem.created
                 /\ IF t \in {"iam_role", "s3_bucket"} THEN Discover(t).by \in {0, mem.n}
                                                       ELSE Discover(t).by = mem.n
           /\ \A x \in cloud : x.by = mem.n /\ x.type = t /\ t \in mem.created =>
                \/ x = Discover(t)
                \/ t = "s3_bucket" /\ x.tags = "none" /\ Discover(t) = Unknown
<1> DEFINE y == CHOOSE z \in Found(t) : TRUE
<1>1. NotThere \in Resource /\ Unknown \in Resource
  BY Types, RemoteDemoAssumption DEF NotThere, Unknown, Resource, Made
<1>2. CASE t \notin mem.created \/ Found(t) = {}
  BY <1>1, <1>2 DEF Discover, Found, NotThere, Unknown, Made
<1>3. CASE t \in mem.created /\ Found(t) # {}
  <2>1. y \in Found(t)
    BY <1>3
  <2>2. Discover(t) = IF t = "s3_bucket" /\ y.tags = "none" THEN Unknown ELSE y
    BY <1>3 DEF Discover
  <2> HIDE DEF y
  <2>3. y \in cloud /\ y \in Resource /\ y.type = t /\ Proper(y, deploys)
    BY <2>1 DEF Found, RInv, IInv, Real
  <2>4. Ours(mem, cloud)
    BY AtWork
  <2>5. IF t \in {"iam_role", "s3_bucket"} THEN y.by \in {0, mem.n} ELSE y.by = mem.n
    BY <1>3, <2>1, <2>3, <2>4 DEF Ours, Found, Shared
  <2>7. ASSUME NEW x \in cloud, x.by = mem.n, x.type = t PROVE x = y
    <3>1. t \in {"iam_role", "s3_bucket"} => t \in Named
      BY DEF Named
    <3> QED
      BY <2>3, <2>5, <2>7, <3>1 DEF RInv, Real
  <2>8. y = Unknown => FALSE
    BY <2>3, <2>5, RInvRecords DEF Unknown, Made
  <2> QED
    BY <1>1, <1>3, <2>2, <2>3, <2>5, <2>7, <2>8
<1> QED
  BY <1>2, <1>3

LEMMA BeginCleanupRInv == ASSUME RInv, IInv', BeginCleanup PROVE RInv'
<1>1. step = "cleanup" /\ ~unsaved /\ cloud' = cloud /\ disk' = disk /\ UNCHANGED counters
  BY DEF BeginCleanup, At, rest
<1>2. CASE End /\ (Works \/ Fault)
  BY <1>1, <1>2, EndedRInv DEF End
<1>3. CASE /\ \E missed \in OnLaterPages :
                \/ Works /\ seen' = Discovered(missed)
                \/ /\ Fault
                   /\ \E bad \in mem.created, got \in {Unknown, NotThere} :
                        seen' = [Discovered(missed) EXCEPT ![bad] = got]
           /\ mark' = faults /\ todo' = RESOURCE_TYPES /\ failed' = {} /\ step' = "delete"
           /\ UNCHANGED <<mem, unsaved>>
  <2> USE RInvRecords DEF counters
  <2>1. Unknown \in Resource /\ NotThere \in Resource
    BY Types, RemoteDemoAssumption DEF Unknown, NotThere, Resource, Made
  <2>a. ASSUME NEW missed \in OnLaterPages, NEW t \in Type
        PROVE  \/ Discovered(missed)[t] = Discover(t)
               \/ t = "workload_identity" /\ Discovered(missed)[t] = NotThere
    BY <2>a DEF Discovered, OnLaterPages
  <2>b. ASSUME NEW missed, NEW bad, NEW got, NEW t \in Type,
               seen' = [Discovered(missed) EXCEPT ![bad] = got]
        PROVE  seen'[t] = got \/ seen'[t] = Discovered(missed)[t]
    BY <2>b DEF Discovered
  <2>2. \A t \in Type : seen'[t] \in {Unknown, NotThere, Discover(t)}
    <3> SUFFICES ASSUME NEW t \in Type PROVE seen'[t] \in {Unknown, NotThere, Discover(t)}
      OBVIOUS
    <3>1. CASE \E missed \in OnLaterPages : seen' = Discovered(missed)
      BY <2>a, <3>1
    <3>2. CASE \E missed \in OnLaterPages, bad \in mem.created, got \in {Unknown, NotThere} :
                 seen' = [Discovered(missed) EXCEPT ![bad] = got]
      <4>1. PICK missed \in OnLaterPages, bad \in mem.created, got \in {Unknown, NotThere} :
                   seen' = [Discovered(missed) EXCEPT ![bad] = got]
        BY <3>2
      <4>2. seen'[t] = got \/ seen'[t] = Discovered(missed)[t]
        BY <2>b, <4>1
      <4> QED
        BY <2>a, <4>1, <4>2
    <3> QED
      BY <1>3, <3>1, <3>2
  <2>c. ASSUME faults' = mark', NEW t \in Type
        PROVE  \/ seen'[t] = Discover(t)
               \/ t = "workload_identity" /\ seen'[t] = NotThere
    BY <1>3, <2>a, <2>c DEF Fault, RInv, Counted
  <2>3. \A t \in Type : seen'[t] \in Resource
    BY <1>1, <2>1, <2>2, DiscoverSees
  <2>4. Counted'
    BY <1>1, <1>3, <2>3, RemoteDemoAssumption DEF RInv, Counted, Works, Fault
  <2>5. Recorded'
    BY <1>1, <1>3 DEF RInv, Recorded, Before, Tagging, Deploying, Valid, State
  <2>6. SavedFirst'
    BY <1>3 DEF SavedFirst, Deploying
  <2>7. Owned' /\ Real'
    BY <1>1, <1>3, SameResources DEF RealThen, Owned
  <2>8. NotYet'
    BY <1>3 DEF NotYet, Before, IInv, Resource
  <2>9. \A t \in Type : SeenFor(t)'
    BY <1>1, <1>3, <2>2, DiscoverSees DEF SeenFor
  <2>10. Left'
    <3>0. NotThere # Unknown
      BY DEF NotThere, Unknown, Made
    <3>1. faults' = mark' => \A t \in Type : seen'[t] = Unknown => t = "s3_bucket"
      BY <1>1, <2>c, <3>0, DiscoverSees
    <3> SUFFICES ASSUME faults' = mark', NEW x \in cloud, x.by = mem.n, x.type \in mem.created
                 PROVE  Noticed(x)' /\ x.type \in Ahead'
      BY <1>1, <1>3, <3>1 DEF Left
    <3>2. x.type \in Type
      BY DEF RInv, IInv, Resource
    <3>3. \/ seen'[x.type] = Discover(x.type)
          \/ x.type = "workload_identity" /\ seen'[x.type] = NotThere
      BY <2>c, <3>2
    <3>4. x.type \in Ahead'
      BY <1>3, <3>2, OfRest DEF Ahead
    <3> QED
      BY <1>1, <3>2, <3>3, <3>4, DiscoverSees DEF Noticed
  <2>11. Cleaning'
    BY <1>3, <2>9, <2>10 DEF Cleaning, Rest
  <2> QED
    BY <2>4, <2>5, <2>6, <2>7, <2>8, <2>11 DEF RInv
<1> QED
  BY <1>2, <1>3 DEF BeginCleanup

\* What the deletion of a type leaves of it, when no call has failed.
LEMMA DeletedLeaves ==
    ASSUME RInv, Delete, faults' = mark,
           NEW x \in cloud', x.by = mem.n, x.type = Head(todo), x.type \in mem.created
    PROVE  Spared(x)
<1> DEFINE t == Head(todo)
<1>1. step = "delete" /\ todo \in Rest /\ todo # << >>
  BY DEF Delete, At, RInv, Cleaning
<1>2. Works /\ faults = mark
  BY DEF Delete, Works, Fault, RInv, Counted
<1>3. x \in cloud /\ Noticed(x) /\ t \in Type
  BY <1>1, <1>2, RestTail DEF Delete, Deleted, RInv, Cleaning, Left
<1>4. mem.n \in 1..deploys /\ Proper(x, deploys) /\ Ours(mem, cloud)
  BY <1>1, <1>3, AtWork DEF RInv, Real
<1>5. x # NotThere /\ x # Unknown
  BY <1>4, RInvRecords DEF NotThere, Unknown, Made
<1>6. CASE seen[t] = NotThere
  BY <1>3, <1>5, <1>6 DEF Noticed, Spared
<1>7. CASE seen[t] # NotThere /\ ~Authorized(t)
  <2>1. seen[t] = Unknown \/ (seen[t].tags # "demo" /\ t \in mem.tagged)
    BY <1>7 DEF Authorized, PurposeTagsMatch
  <2>2. ASSUME x = seen[t] PROVE x.type = "log_group" /\ x.tags = "none" /\ t \in mem.tagged
    <3>1. x.tags # "demo" /\ t \in mem.tagged
      BY <1>5, <2>1, <2>2
    <3>2. x.type = "log_group"
      BY <1>3, <1>4, <3>1 DEF Ours
    <3>3. x.tags = "none"
      BY <1>3, <1>4, <3>1, <3>2 DEF Proper, RInv, IInv, Resource
    <3> QED
      BY <3>1, <3>2, <3>3
  <2>3. CASE x = seen[t]
    BY <2>2, <2>3 DEF Spared
  <2>4. CASE x.type = "log_group" /\ x.tags = "none" /\ x # seen[t]
    <3>1. seen[t] # Unknown
      BY <1>1, <1>2, <1>3, <2>4 DEF RInv, Cleaning, Left
    <3> QED
      BY <2>1, <2>4, <3>1 DEF Spared
  <2> QED
    BY <1>3, <2>3, <2>4 DEF Noticed, Spared
<1>8. CASE seen[t] # NotThere /\ Authorized(t)
  <2>1. cloud' \in Deleted(t)
    BY <1>2, <1>8 DEF Delete, Fault, Works, RInv, Counted
  <2>2. x \in Found(t)
    BY <1>3 DEF Found
  <2> QED
    BY <2>1, <2>2 DEF Deleted
<1> QED
  BY <1>6, <1>7, <1>8

LEMMA DeleteRInv == ASSUME RInv, IInv', Delete PROVE RInv'
<1> DEFINE t == Head(todo)
<1>1. /\ step = "delete" /\ todo # << >> /\ todo' = Tail(todo) /\ cloud' \subseteq cloud
      /\ UNCHANGED <<mem, step, unsaved, seen, mark, disk, counters>>
      /\ failed' \subseteq failed \cup {t} /\ (Works \/ Fault)
  BY DEF Delete, At, Deleted, rest
<1>2. todo \in Rest /\ t \in Type /\ todo' \in Rest /\ Of(todo) = {t} \cup Of(todo')
  BY <1>1, RestTail DEF RInv, Cleaning
<1> HIDE DEF t
<1>3. Counted'
  BY <1>1, <1>2, RemoteDemoAssumption DEF RInv, Counted, Works, Fault, counters
<1>4. Recorded' /\ SavedFirst'
  BY <1>1 DEF RInv, Recorded, SavedFirst
<1>5. Owned' /\ Real'
  BY <1>1, FewerResources DEF RealThen, Owned, counters
<1>6. NotYet'
  BY <1>1 DEF RInv, NotYet
<1>7. Left'
  <2> SUFFICES ASSUME faults' = mark PROVE Left'
    BY <1>1 DEF Left
  <2>1. faults = mark
    BY <1>1 DEF Works, Fault, RInv, Counted
  <2>2. Left
    BY <1>1 DEF RInv, Cleaning
  <2>3. ASSUME NEW x \in cloud', x.by = mem.n, x.type \in mem.created
        PROVE  Noticed(x) /\ (x.type \in Of(todo') \/ Spared(x))
    <3>1. CASE x.type = t
      BY <1>1, <2>1, <2>2, <2>3, <3>1, DeletedLeaves DEF Left, t
    <3>2. CASE x.type # t
      BY <1>1, <1>2, <2>1, <2>2, <2>3, <3>2 DEF Left, Ahead
    <3> QED
      BY <3>1, <3>2
  <2>4. \A x : Noticed(x)' <=> Noticed(x)
    BY <1>1 DEF Noticed
  <2>5. \A x : Spared(x)' <=> Spared(x)
    BY <1>1 DEF Spared
  <2> QED
    BY <1>1, <2>1, <2>2, <2>3, <2>4, <2>5 DEF Left, Ahead
<1>8. Cleaning'
  BY <1>1, <1>2, <1>7 DEF RInv, Cleaning, SeenFor
<1> QED
  BY <1>3, <1>4, <1>5, <1>6, <1>8 DEF RInv

LEMMA VerifyRInv == ASSUME RInv, IInv', Verify \/ Crash PROVE RInv'
<1>1. step # "idle" /\ cloud' = cloud /\ UNCHANGED counters /\ (Works \/ Fault)
      /\ (disk' = disk \/ disk' = NoState)
  BY DEF Verify, Crash, At, Works, Passed, Partial, rest
<1>2. \E gone, wrong : Report(gone, wrong)
  BY DEF Verify, Crash, Passed, Partial, End
<1> QED
  BY <1>1, <1>2, EndedRInv

-----------------------------------------------------------------------------
(***************************************************************************)
(* The world.                                                              *)
(***************************************************************************)
LEMMA LogGroupRInv == ASSUME RInv, LogGroupAppears PROVE RealThen /\ (NotYet => NotYet')
<1>1. PICK r \in cloud :
        /\ r.type = "runtime" /\ r.by # 0
        /\ ~\E y \in cloud : y.type = "log_group" /\ y.by = r.by
        /\ cloud' = cloud \cup {Made("log_group", r.by, "none")}
  BY DEF LogGroupAppears
<1> DEFINE new == {Made("log_group", r.by, "none")}
<1>2. deploys' = deploys /\ mem' = mem /\ step' = step
  BY DEF LogGroupAppears, rest, counters, commandVars
<1>3. \A x \in new : Proper(x, deploys) /\ x.type = "log_group" /\ x.by = r.by
  BY <1>1 DEF Made, Proper, RInv, Real
<1>4. \A x \in new, y \in cloud : x.type = y.type => x.type \notin Named /\ x.by # y.by
  BY <1>1, <1>3 DEF Named
<1>5. \A x, y \in new : x.type = y.type => x = y
  OBVIOUS
<1>6. cloud' = cloud \cup new
  BY <1>1
<1> HIDE DEF new
<1>7. Real'
  BY <1>2, <1>3, <1>4, <1>5, <1>6, MoreResources
<1>8. ASSUME NEW s, Ours(s, cloud) PROVE Ours(s, cloud')
  BY <1>3, <1>6, <1>8, MoreOurs
<1>9. NotYet => NotYet'
  BY <1>1, <1>2, <1>3, <1>6 DEF NotYet, Before, Type, RESOURCE_TYPES
<1> QED
  BY <1>7, <1>8, <1>9 DEF RealThen, RInv, Owned

LEMMA OutsideRInv == ASSUME RInv, Outside PROVE RealThen /\ NotYet'
<1> USE RInvRecords
<1>1. deploys' = deploys /\ mem' = mem /\ disk' = disk /\ step' = step
  BY DEF Outside, commandVars
<1>2. CASE \E x \in cloud : cloud' = cloud \ {x}
  BY <1>1, <1>2, FewerResources DEF NotYet, RInv
<1>3. CASE \E t \in Named, tags \in {"none", "demo", "other"} :
             ~Taken(t) /\ cloud' = cloud \cup {Made(t, 0, tags)}
  <2>1. PICK t \in Named, tags \in {"none", "demo", "other"} :
               ~Taken(t) /\ cloud' = cloud \cup {Made(t, 0, tags)}
    BY <1>3
  <2> DEFINE new == {Made(t, 0, tags)}
  <2>2. \A x \in new : Proper(x, deploys) /\ x.type = t /\ x.by = 0
    BY <2>1 DEF Made, Proper, Named
  <2>3. \A x \in new, y \in cloud : x.type = y.type => x.type \notin Named /\ x.by # y.by
    BY <2>1, <2>2 DEF Taken
  <2>4. \A x, y \in new : x.type = y.type => x = y
    OBVIOUS
  <2>5. cloud' = cloud \cup new
    BY <2>1
  <2> HIDE DEF new
  <2>6. Real'
    BY <1>1, <2>2, <2>3, <2>4, <2>5, MoreResources
  <2>7. ASSUME NEW s, Ours(s, cloud), s.n # 0 PROVE Ours(s, cloud')
    BY <2>2, <2>5, <2>7, MoreOurs
  <2>8. (mem # NoState => Ours(mem, cloud')) /\ (disk # NoState => Ours(disk, cloud'))
    BY <2>7 DEF RInv, Owned, Recorded
  <2>9. NotYet'
    BY <1>1, <2>2, <2>5 DEF RInv, NotYet
  <2> QED
    BY <2>6, <2>8, <2>9 DEF RealThen
<1> QED
  BY <1>2, <1>3 DEF Outside

\* What the world adds for the deployment is a log group, and the runtime that
\* writes to it has still to be deleted.
LEMMA WorldLeft ==
    ASSUME RInv, step = "delete", LogGroupAppears \/ Outside \/ Expire PROVE Left'
<1> USE RInvRecords
<1>1. /\ UNCHANGED <<mem, seen, todo, mark, faults>>
      /\ mem.n \in 1..deploys /\ mem \in State
  BY AtWork DEF LogGroupAppears, Outside, Expire, commandVars
<1> SUFFICES ASSUME faults = mark PROVE Left'
  BY <1>1 DEF Left
<1>2. Left /\ Ahead' = Ahead
  BY <1>1 DEF RInv, Cleaning, Ahead
<1>3. ASSUME NEW x \in cloud', x \notin cloud, x.by = mem.n, x.type \in mem.created
      PROVE  x.type = "log_group" /\ x.tags = "none" /\ x.type \in Ahead
  <2>1. ~Expire
    BY <1>3 DEF Expire
  <2>2. ~Outside
    BY <1>1, <1>3 DEF Outside, Made
  <2>3. PICK r \in cloud : r.type = "runtime" /\ r.by # 0
                           /\ cloud' = cloud \cup {Made("log_group", r.by, "none")}
    BY <2>1, <2>2 DEF LogGroupAppears
  <2>4. x.type = "log_group" /\ x.tags = "none" /\ r.by = mem.n
    BY <1>3, <2>3 DEF Made
  <2>5. "runtime" \in mem.created
    BY <1>3, <2>4 DEF RInv, IInv, MemIsLive, Live
  <2>6. r.type \in Ahead
    BY <1>2, <2>3, <2>4, <2>5 DEF Left, Spared
  <2>7. "log_group" \in Ahead
    BY <2>3, <2>6, RestTail, OfRest DEF Ahead, RInv, Cleaning
  <2> QED
    BY <2>4, <2>7
<1>4. \A x \in cloud' : x.by = mem.n /\ x.type \in mem.created =>
        Noticed(x) /\ (x.type \in Ahead \/ Spared(x))
  BY <1>2, <1>3 DEF Left, Noticed
<1>5. \A x : Noticed(x)' <=> Noticed(x)
  BY <1>1 DEF Noticed
<1>6. \A x : Spared(x)' <=> Spared(x)
  BY <1>1 DEF Spared
<1> QED
  BY <1>1, <1>2, <1>4, <1>5, <1>6 DEF Left

LEMMA WorldRInv ==
    ASSUME RInv, IInv', LogGroupAppears \/ Outside \/ Expire PROVE RInv'
<1>1. /\ UNCHANGED <<mem, disk, step, unsaved, seen, todo, failed, mark>>
      /\ deploys' = deploys /\ faults' = faults
  BY DEF LogGroupAppears, Outside, Expire, commandVars, rest, counters
<1>2. Counted'
  <2>1. expired' \in 0..deploys /\ outside' \in 0..MaxOutside
    BY RemoteDemoAssumption, RInvRecords
    DEF LogGroupAppears, Outside, Expire, commandVars, rest, counters, RInv, Counted
  <2> QED
    BY <1>1, <2>1 DEF RInv, Counted
<1>3. Recorded' /\ SavedFirst'
  BY <1>1 DEF RInv, Recorded, SavedFirst
<1>4. RealThen /\ NotYet'
  BY <1>1, LogGroupRInv, OutsideRInv, SameResources DEF Expire, RInv, NotYet
<1>5. Owned' /\ Real'
  BY <1>1, <1>4 DEF RealThen, Owned
<1>6. Cleaning'
  BY <1>1, WorldLeft DEF RInv, Cleaning, SeenFor
<1> QED
  BY <1>2, <1>3, <1>4, <1>5, <1>6 DEF RInv

-----------------------------------------------------------------------------
LEMMA InitRInv == Init => RInv
<1> SUFFICES ASSUME Init PROVE RInv
  OBVIOUS
<1> USE DEF Init
<1>0. NotThere \in Resource /\ \A t \in Type : NothingSeen[t] = NotThere
  BY Types, RemoteDemoAssumption DEF NotThere, NothingSeen, Resource, Made
<1>1. IInv
  BY InitIInv
<1>2. Counted
  BY <1>0, RemoteDemoAssumption DEF Counted
<1>3. Recorded /\ SavedFirst
  BY DEF Recorded, SavedFirst, Deploying
<1>4. Real /\ Owned /\ NotYet /\ Cleaning
  BY DEF Real, Owned, NotYet, Cleaning
<1> QED
  BY <1>1, <1>2, <1>3, <1>4 DEF RInv

LEMMA NextRInv == ASSUME RInv, [Next]_vars PROVE RInv'
<1>0. IInv'
  BY NextIInv DEF RInv
<1>1. CASE \E run \in BOOLEAN : StartDeploy(run)
  BY <1>0, <1>1, StartDeployRInv
<1>2. CASE StartInvoke \/ StartCleanup
  BY <1>0, <1>2, LoadRInv DEF StartInvoke, StartCleanup
<1>3. CASE _save_state
  BY <1>0, <1>3, SaveRInv
<1>4. CASE CallerIdentity \/ EnsureNoCollisions \/ Upload \/ CreateRuntime \/ CreateLogGroup
  BY <1>0, <1>4, CallerIdentityRInv, EnsureNoCollisionsRInv, UploadRInv, CreateRuntimeRInv,
     CreateLogGroupRInv
<1>5. CASE CreateRole \/ CreateBucket
  BY <1>0, <1>5, CreateRoleRInv, CreateBucketRInv
<1>6. CASE VerifyRole \/ TagBucket \/ VerifyRuntime \/ TagIdentity \/ TagLogGroup
  BY <1>0, <1>6, TagStepsRInv
<1>7. CASE WaitReady \/ Invoke
  BY <1>0, <1>7, ReadyRInv
<1>8. CASE BeginCleanup \/ Delete
  BY <1>0, <1>8, BeginCleanupRInv, DeleteRInv
<1>9. CASE Verify \/ Crash
  BY <1>0, <1>9, VerifyRInv
<1>10. CASE LogGroupAppears \/ Outside \/ Expire
  BY <1>0, <1>10, WorldRInv
<1>11. CASE UNCHANGED vars
  <2>1. Counted' /\ Recorded' /\ SavedFirst' /\ NotYet'
    BY <1>11 DEF vars, RInv, Counted, Recorded, SavedFirst, NotYet
  <2>2. Owned' /\ Real'
    BY <1>11, SameResources DEF vars, RealThen, Owned
  <2>3. Left => Left'
    BY <1>11 DEF vars, Left, Noticed, Ahead, Spared
  <2>4. Cleaning'
    BY <1>11, <2>3 DEF vars, RInv, Cleaning, SeenFor
  <2> QED
    BY <1>0, <2>1, <2>2, <2>4 DEF RInv
<1> QED
  BY <1>1, <1>2, <1>3, <1>4, <1>5, <1>6, <1>7, <1>8, <1>9, <1>10, <1>11 DEF Next

LEMMA AlwaysRInv == Spec => []RInv
  BY InitRInv, NextRInv, PTL DEF Spec

-----------------------------------------------------------------------------
(***************************************************************************)
(* Who held a shared name: a record names a role or a bucket only after    *)
(* its deployment made it, under a name that was free.                     *)
(***************************************************************************)
HeldFor(s) == \A t \in s.created \cap Shared : <<t, s.n>> \in held
HeldNames ==
    /\ held \subseteq Shared \X (1..deploys)
    /\ misled \subseteq Type
    /\ mem # NoState => HeldFor(mem)
    /\ disk # NoState => HeldFor(disk)

LEMMA HeldFrame ==
    ASSUME RInv, HeldNames, held' = held, deploys' = deploys, misled' \subseteq Type,
           mem' \in {mem, disk, NoState}, disk' \in {disk, mem, NoState}
    PROVE  HeldNames'
  BY DEF HeldNames, HeldFor

LEMMA HeldRaised == ASSUME RInv, HeldNames, Raise PROVE HeldNames'
  BY HeldFrame DEF Raise, Abandon, Goto, report, counters, HeldNames

LEMMA HeldEnded ==
    ASSUME RInv, HeldNames, UNCHANGED rest, disk' \in {disk, mem, NoState},
           NEW gone, NEW wrong \in SUBSET Type, Report(gone, wrong)
    PROVE  HeldNames'
  BY HeldFrame DEF Report, rest, counters

\* A record that is changed at work.
LEMMA HeldNoted ==
    ASSUME RInv, HeldNames, step # "idle", NEW created, NEW tagged, Note(created, tagged),
           NEW s, Goto(s), deploys' = deploys,
           held' \subseteq Shared \X (1..deploys), held \subseteq held',
           \A t \in created \cap Shared : <<t, mem.n>> \in held'
    PROVE  HeldNames'
<1>1. mem # NoState /\ mem \in State
  BY RInvRecords
<1>2. mem'.n = mem.n /\ mem'.created = mem.created \cup created
  BY <1>1 DEF Note, State
<1>3. HeldFor(mem)'
  BY <1>1, <1>2 DEF HeldNames, HeldFor
<1>4. disk' = disk /\ misled' = misled
  BY DEF Note, Goto, report
<1> QED
  BY <1>3, <1>4 DEF HeldNames, HeldFor

LEMMA HeldMoved ==
    ASSUME RInv, HeldNames, step # "idle", NEW created, NEW tagged, Note(created, tagged),
           NEW s, Goto(s), UNCHANGED rest, created \cap Shared = {}
    PROVE  HeldNames'
  BY HeldNoted DEF rest, counters, HeldNames

LEMMA HeldCreate ==
    ASSUME RInv, HeldNames, step # "idle", NEW t, NEW new, NEW created, NEW next,
           created \cap Shared \subseteq {t}, Create(t, new, created, next)
    PROVE  HeldNames'
<1>1. CASE Raise
  BY <1>1, HeldRaised
<1>2. CASE Holds(t) /\ deploys' = deploys /\ (Abandon \/ (Note(created, {}) /\ Goto(next)))
  <2>1. mem.n \in 1..deploys
    BY RInvRecords
  <2>2. held' \subseteq Shared \X (1..deploys) /\ held \subseteq held'
    BY <1>2, <2>1 DEF Holds, HeldNames
  <2>3. CASE Note(created, {}) /\ Goto(next)
    <3>1. \A u \in created \cap Shared : <<u, mem.n>> \in held'
      BY <1>2 DEF Holds
    <3> QED
      BY <1>2, <2>2, <2>3, <3>1, HeldNoted
  <2>4. CASE Abandon
    BY <1>2, <2>2, <2>4 DEF Abandon, Goto, report, HeldNames, HeldFor
  <2> QED
    BY <1>2, <2>3, <2>4
<1> QED
  BY <1>1, <1>2 DEF Create, Abandon, counters

LEMMA NextHeld == ASSUME RInv, HeldNames, [Next]_vars PROVE HeldNames'
<1>1. CASE \E run \in BOOLEAN : StartDeploy(run)
  <2>1. PICK run \in BOOLEAN : StartDeploy(run)
    BY <1>1
  <2>2. HeldFor(mem)' /\ UNCHANGED <<held, misled, disk>> /\ deploys' = deploys + 1
    BY <2>1 DEF StartDeploy, new_state, HeldFor, report
  <2> QED
    BY <2>2, RInvRecords DEF HeldNames, HeldFor
<1>2. CASE StartInvoke \/ StartCleanup \/ _save_state
  <2>1. CASE Raise
    BY <2>1, HeldRaised
  <2>2. CASE UNCHANGED <<report, rest>> /\ mem' \in {mem, disk} /\ disk' \in {disk, mem}
    BY <2>2, HeldFrame DEF report, rest, counters, HeldNames
  <2> QED
    BY <1>2, <2>1, <2>2 DEF StartInvoke, StartCleanup, Load, _save_state
<1>3. CASE CallerIdentity \/ EnsureNoCollisions
  <2>1. CASE Raise
    BY <2>1, HeldRaised
  <2>2. CASE Goto("iam_role") /\ Saved /\ UNCHANGED rest
    BY <2>2, HeldFrame DEF Goto, Saved, report, rest, counters, HeldNames
  <2>3. CASE /\ step = "account" /\ mem' = [mem EXCEPT !.account = TRUE]
             /\ Goto("collisions") /\ UNCHANGED <<disk, rest>>
    <3>1. mem # NoState /\ mem'.n = mem.n /\ mem'.created = mem.created
      BY <2>3, AtWork DEF State
    <3> QED
      BY <2>3, <3>1 DEF HeldNames, HeldFor, Goto, report, rest, counters
  <2> QED
    BY <1>3, <2>1, <2>2, <2>3 DEF CallerIdentity, EnsureNoCollisions, At
<1>4. CASE CreateRole \/ CreateBucket \/ CreateRuntime
  <2>1. step # "idle"
    BY <1>4 DEF CreateRole, CreateBucket, CreateRuntime, At
  <2>2. CASE Raise
    BY <2>2, HeldRaised
  <2>3. CASE \E t, new, created, next :
               created \cap Shared \subseteq {t} /\ Create(t, new, created, next)
    BY <2>1, <2>3, HeldCreate
  <2>4. CASE CreateRole
    <3>1. {"iam_role"} \cap Shared \subseteq {"iam_role"}
      OBVIOUS
    <3> QED
      BY <2>3, <2>4, <3>1 DEF CreateRole
  <2>5. CASE CreateBucket
    <3>1. {"s3_bucket"} \cap Shared \subseteq {"s3_bucket"}
      OBVIOUS
    <3> QED
      BY <2>3, <2>5, <3>1 DEF CreateBucket
  <2>6. CASE CreateRuntime
    <3>1. /\ {"runtime", "workload_identity", "log_group"} \cap Shared \subseteq {"runtime"}
          /\ {"runtime", "log_group"} \cap Shared \subseteq {"runtime"}
      BY DEF Shared
    <3> QED
      BY <2>2, <2>3, <2>6, <3>1 DEF CreateRuntime
  <2> QED
    BY <1>4, <2>4, <2>5, <2>6
<1>5. CASE \/ VerifyRole \/ TagBucket \/ VerifyRuntime \/ TagIdentity \/ TagLogGroup
           \/ Upload \/ CreateLogGroup
  <2>1. step # "idle"
    BY <1>5 DEF VerifyRole, TagBucket, VerifyRuntime, TagIdentity, TagLogGroup, Upload,
                CreateLogGroup, At
  <2>2. CASE Raise
    BY <2>2, HeldRaised
  <2>3. CASE \E tagged, s : Note({}, tagged) /\ Goto(s) /\ UNCHANGED rest
    BY <2>1, <2>3, HeldMoved
  <2>4. CASE Note({"log_group"}, {}) /\ Goto("log_tags") /\ UNCHANGED rest
    BY <2>1, <2>4, HeldMoved DEF Shared
  <2>5. CASE \E t, next : VerifyTags(t, next) \/ PutTags(t, next)
    BY <2>2, <2>3, <2>5 DEF VerifyTags, PutTags
  <2>6. CASE Upload \/ CreateLogGroup
    BY <2>2, <2>3, <2>4, <2>6 DEF Upload, CreateLogGroup
  <2> QED
    BY <1>5, <2>5, <2>6 DEF VerifyRole, TagBucket, VerifyRuntime, TagIdentity, TagLogGroup
<1>6. CASE WaitReady \/ Invoke \/ BeginCleanup
  <2>1. CASE Raise
    BY <2>1, HeldRaised
  <2>2. CASE End /\ UNCHANGED rest /\ disk' \in {disk, mem}
    BY <2>2, HeldEnded DEF End
  <2>3. CASE UNCHANGED <<mem, report, rest>> /\ disk' \in {disk, mem}
    BY <2>3, HeldFrame DEF report, rest, counters, HeldNames
  <2> QED
    BY <1>6, <2>1, <2>2, <2>3 DEF WaitReady, Invoke, BeginCleanup, Goto
<1>7. CASE Verify
  <2>1. step # "idle" /\ UNCHANGED rest
    BY <1>7 DEF Verify, At
  <2>2. Exists \subseteq Type
    BY <2>1, AtWork DEF Exists, State
  <2>3. CASE Partial
    BY <2>1, <2>3, HeldEnded DEF Partial, End
  <2>4. CASE \E wrong \in SUBSET Exists : Passed(wrong)
    BY <2>1, <2>2, <2>4, HeldEnded DEF Passed
  <2>5. \A missed : missed \cap Exists \in SUBSET Exists
    OBVIOUS
  <2> QED
    BY <1>7, <2>3, <2>4, <2>5 DEF Verify
<1>8. CASE Crash
  BY <1>8, HeldEnded DEF Crash, End
<1>9. CASE Delete \/ LogGroupAppears \/ Outside \/ Expire \/ UNCHANGED vars
  <2>1. UNCHANGED <<mem, disk, report, held, deploys>>
    BY <1>9 DEF Delete, LogGroupAppears, Outside, Expire, commandVars, rest, counters,
                vars, report
  <2> QED
    BY <2>1, HeldFrame DEF HeldNames, report
<1> QED
  BY <1>1, <1>2, <1>3, <1>4, <1>5, <1>6, <1>7, <1>8, <1>9 DEF Next

LEMMA AlwaysHeld == Spec => [](RInv /\ HeldNames)
<1>1. Init => HeldNames
  BY DEF Init, HeldNames
<1> QED
  BY <1>1, InitRInv, NextRInv, NextHeld, PTL DEF Spec

\* The records of a command and of the state file are well-formed, whatever
\* call failed and wherever a command died: what is tagged was created, in an
\* account that is known, and the state file never lags behind its account.
THEOREM TypeCorrect == Spec => []TypeOK
<1>1. RInv /\ HeldNames => TypeOK
  <2> SUFFICES ASSUME RInv, HeldNames PROVE TypeOK
    OBVIOUS
  <2>1. cloud \subseteq Resource /\ deploys \in 0..MaxDeploys
        /\ claimed \subseteq Type \X (1..deploys)
    BY DEF RInv, IInv, Claims
  <2>2. disk # NoState => disk \in State /\ Valid(disk) /\ disk.account
    BY RInvRecords DEF RInv, Recorded
  <2>3. (step = "idle" <=> mem = NoState) /\ (mem # NoState => mem \in State /\ Valid(mem))
    BY RInvRecords DEF RInv, Recorded
  <2>4. unsaved => step \notin {"idle", "cleanup", "delete"}
    BY DEF RInv, Recorded, Deploying
  <2>5. misled \subseteq Type /\ held \subseteq Shared \X (1..deploys)
    BY DEF HeldNames
  <2> QED
    BY <2>1, <2>2, <2>3, <2>4, <2>5 DEF TypeOK, RInv, Counted
<1> QED
  BY <1>1, AlwaysHeld, PTL

\* Of the steps that move through the cleanup only a deletion touches the account.
LEMMA OnlyDelete == ASSUME Next, todo' # todo, cloud' # cloud PROVE Delete
<1>1. ~\E run \in BOOLEAN : StartDeploy(run)
  BY DEF StartDeploy
<1>2. ~StartInvoke /\ ~StartCleanup
  BY DEF StartInvoke, StartCleanup, Load
<1>3. ~_save_state /\ ~CallerIdentity /\ ~EnsureNoCollisions /\ ~Upload
  BY DEF _save_state, CallerIdentity, EnsureNoCollisions, Upload
<1>4. ASSUME NEW s, Goto(s) PROVE FALSE
  BY <1>4 DEF Goto, cleaning
<1>5. ASSUME Abandon \/ Raise PROVE FALSE
  BY <1>4, <1>5 DEF Raise, Abandon
<1>6. ~CreateRole /\ ~CreateBucket /\ ~CreateRuntime /\ ~CreateLogGroup
  BY <1>4, <1>5 DEF CreateRole, CreateBucket, CreateRuntime, CreateLogGroup, Create
<1>7. ~VerifyRole /\ ~TagBucket /\ ~VerifyRuntime /\ ~TagIdentity /\ ~TagLogGroup
  BY <1>4, <1>5
  DEF VerifyRole, TagBucket, VerifyRuntime, TagIdentity, TagLogGroup, VerifyTags, PutTags
<1>8. ~WaitReady /\ ~Invoke /\ ~BeginCleanup /\ ~Verify /\ ~Crash
  BY DEF WaitReady, Invoke, BeginCleanup, Verify, Crash
<1>9. ~LogGroupAppears /\ ~Outside /\ ~Expire
  BY DEF LogGroupAppears, Outside, Expire, commandVars
<1> QED
  BY <1>1, <1>2, <1>3, <1>6, <1>7, <1>8, <1>9 DEF Next

\* A cleanup never deletes what another of our deployments made, however many
\* there were.  Somebody else's resource it deletes only under a name that its
\* own deployment did hold, and, when the record knows its own to be tagged,
\* only after the demo's tags were seen: never a resource that was there first.
\* It is no more than that, since the tags of another demo are as good.
THEOREM OwnResourcesCorrect == Spec => OwnResourcesOnly
<1>1. RInv /\ HeldNames /\ [Next]_vars =>
        [todo' # todo =>
           \A x \in cloud \ cloud' :
              \/ x.by = mem.n
              \/ /\ x.by = 0
                 /\ <<x.type, mem.n>> \in held
                 /\ x.type \in mem.tagged => seen[x.type].tags = "demo"]_vars
  <2> SUFFICES ASSUME RInv, HeldNames, [Next]_vars, todo' # todo, NEW x \in cloud \ cloud',
                      x.by # mem.n
               PROVE  /\ x.by = 0
                      /\ <<x.type, mem.n>> \in held
                      /\ x.type \in mem.tagged => seen[x.type].tags = "demo"
    OBVIOUS
  <2>1. Delete
    BY OnlyDelete DEF vars
  <2> DEFINE t == Head(todo)
  <2>2. step = "delete" /\ t \in Type
    BY <2>1, RestTail DEF Delete, At, RInv, Cleaning
  <2>3. seen[t] # NotThere /\ Authorized(t) /\ cloud' \in Deleted(t)
    BY <2>1 DEF Delete
  <2>4. x.type = t /\ t \in Shared
    BY <2>3 DEF Deleted, Found, Shared
  <2> HIDE DEF t
  <2>5. SeenFor(t) /\ seen[t] # Unknown
    BY <2>2, <2>3 DEF RInv, Cleaning, Authorized
  <2>6. mem # NoState /\ t \in mem.created
    BY <2>2, <2>3, <2>5, AtWork DEF SeenFor
  <2>7. x.by = 0
    BY <2>2, <2>4, <2>6, AtWork DEF Ours, Shared
  <2>8. <<t, mem.n>> \in held
    BY <2>4, <2>6 DEF HeldNames, HeldFor
  <2>9. t \in mem.tagged => seen[t].tags = "demo"
    BY <2>3 DEF Authorized, PurposeTagsMatch
  <2> QED
    BY <2>4, <2>7, <2>8, <2>9
<1> QED
  BY <1>1, AlwaysHeld, PTL DEF Spec, OwnResourcesOnly

\* Whatever failed or died before, a cleanup none of whose calls fails leaves
\* nothing of the deployment but a bucket without tags, an identity that the
\* discovery did not list, and a log group that AgentCore made after the tags
\* were noted or the cleanup had looked.
THEOREM SmoothCleanupCorrect == Spec => []SmoothCleanupLeavesNothing
<1>1. RInv => SmoothCleanupLeavesNothing
  <2> SUFFICES ASSUME RInv, step = "delete", todo = << >>, faults = mark,
                      NEW t \in mem.created, NEW x \in Found(t), x.by # 0
               PROVE  Spared(x)
    BY DEF SmoothCleanupLeavesNothing, At, Spared, Found
  <2>1. x \in cloud /\ x.type = t /\ Ahead = {}
    BY OfRest DEF Found, Ahead
  <2>2. x.by = mem.n
    BY <2>1, AtWork DEF Found, Ours, Shared
  <2> QED
    BY <2>1, <2>2 DEF RInv, Cleaning, Left
<1> QED
  BY <1>1, AlwaysRInv, PTL
=============================================================================
