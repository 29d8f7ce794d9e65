----------------------------- MODULE RemoteDemo -----------------------------
(***************************************************************************)
(* scripts/agentcore_remote_mcp_demo.py: a command line that creates five  *)
(* kinds of AWS resources for a few hours, calls them, and removes them    *)
(* again.  The only memory between two commands is the state file.  Every  *)
(* call may fail with or without its effect, the process may die between   *)
(* two steps, names are shared with other people of the account, who may   *)
(* run the same script from a checkout of their own, and AgentCore makes   *)
(* the log group of a runtime by itself.  A lookup may miss what exists:   *)
(* two lists are read to their first page only, and codes such as          *)
(* ValidationException count as `not found'.  One command of ours runs at  *)
(* a time.                                                                 *)
(***************************************************************************)
EXTENDS Naturals, Sequences, FiniteSets

CONSTANTS
    NoState,     \* there is no state file
    MaxDeploys,  \* bound on the commands that deploy
    MaxFaults,   \* bound on the calls that fail
    MaxOutside   \* bound on what others do to the account

VARIABLES
    cloud,       \* the resources that exist
    disk,        \* the state file
    mem,         \* the DemoState of the running command, NoState when none runs
    step,        \* where the command is, "idle" when none runs
    thenInvoke,  \* the command is `run`: a deployment is invoked at once
    unsaved,     \* mem was changed and _save_state is the next call
    seen,        \* what the cleanup discovered
    todo,        \* the types the cleanup has still to come to
    failed,      \* failed_resource_types
    mark,        \* the faults there had been when the cleanup began
    claimed,     \* what the last command claimed to be gone
    misled,      \* the types its last look took for gone although they were not
    held,        \* which deployments ever held a shared name
    expired,     \* the last deployment past its expires_at_utc; earlier ones are too
    deploys, faults, outside      \* counters of the bounds

cleaning == <<seen, todo, failed, mark>>
report == <<claimed, misled>>
counters == <<deploys, outside, expired>>
rest == <<counters, held>>
vars == <<cloud, disk, mem, step, thenInvoke, unsaved, seen, todo, failed,
          mark, claimed, misled, held, expired, deploys, faults, outside>>

-----------------------------------------------------------------------------
\* Mutant: the log group goes while the runtime still writes to it.
LogGroupFirst ==
    <<"log_group", "runtime", "workload_identity", "iam_role", "s3_bucket">>
\* The order in which a cleanup goes through them.
RESOURCE_TYPES ==
    <<"runtime", "workload_identity", "log_group", "iam_role", "s3_bucket">>
Type == {RESOURCE_TYPES[i] : i \in DOMAIN RESOURCE_TYPES}
\* The names of these do not depend on the deployment; a role and a bucket are
\* found by them, whoever made them.
Named == {"runtime", "iam_role", "s3_bucket"}
Shared == {"iam_role", "s3_bucket"}

\* by is the deployment that made it, 0 when somebody else did.  The demo's tags
\* also say until when it may live: the expiry of our deployment, 0 for another.
Resource == [type : Type, by : 0..MaxDeploys,
             tags : {"none", "demo", "other"}, until : 0..MaxDeploys]
Made(t, n, tags) == [type |-> t, by |-> n, tags |-> tags,
                     until |-> IF tags = "demo" THEN n ELSE 0]
NotThere == Made("runtime", 0, "none")
Unknown == Made("runtime", 0, "other")
NothingSeen == [t \in Type |-> NotThere]

State == [n : 1..MaxDeploys, account : BOOLEAN,
          created : SUBSET Type, tagged : SUBSET Type]

ASSUME RemoteDemoAssumption ==
    /\ MaxDeploys \in Nat /\ MaxFaults \in Nat /\ MaxOutside \in Nat
    /\ NoState \notin State

new_state == [n |-> deploys + 1, account |-> FALSE,
              created |-> {}, tagged |-> {}]
\* validate_state: what is tagged was created, and only in a known account.
Valid(s) == s.tagged \subseteq s.created /\ (s.created # {} => s.account)

\* A runtime, its identity and its log group have identifiers of the deployment.
Found(t) == {x \in cloud : x.type = t /\ (t \in Shared \/ x.by = mem.n)}
Taken(t) == \E x \in cloud : x.type = t

-----------------------------------------------------------------------------
\* How a call may go.
Works == UNCHANGED faults
Fault == faults < MaxFaults /\ faults' = faults + 1

Goto(s) == step' = s /\ UNCHANGED <<cleaning, report, thenInvoke>>
Saved == UNCHANGED <<mem, unsaved, disk>>
\* Mutant: the flag that the resource was created is forgotten.
NoteTagsOnly(created, tagged) ==
    /\ mem' = [mem EXCEPT !.tagged = @ \cup tagged]
    /\ unsaved' = TRUE
    /\ UNCHANGED disk
\* The record was changed: it is saved before anything else is done.
Note(created, tagged) ==
    /\ mem' = [mem EXCEPT !.created = @ \cup created, !.tagged = @ \cup tagged]
    /\ unsaved' = TRUE
    /\ UNCHANGED disk

\* deploy and invoke catch everything and clean up with the record in memory.
Abandon ==
    /\ Goto("cleanup")
    /\ unsaved' = FALSE
    /\ UNCHANGED <<mem, disk, counters>>
Raise == Abandon /\ UNCHANGED held

At(s) == step = s /\ ~unsaved

\* The command ends and the process with its memory is gone.  Of its report
\* (deployed, retained, passed, partial, not-needed) only "passed" claims that
\* resources are gone.
Report(gone, wrong) ==
    /\ step' = "idle" /\ mem' = NoState
    /\ thenInvoke' = FALSE /\ unsaved' = FALSE
    /\ seen' = NothingSeen /\ todo' = << >> /\ failed' = {} /\ mark' = 0
    /\ claimed' = gone /\ misled' = wrong
End == Report({}, {})

-----------------------------------------------------------------------------
(***************************************************************************)
(* The commands.                                                           *)
(***************************************************************************)
\* `deploy` and `run` begin with a new record, whatever the state file holds.
StartDeploy(run) ==
    /\ step = "idle"
    /\ deploys < MaxDeploys
    /\ deploys' = deploys + 1
    /\ mem' = new_state
    /\ step' = "account" /\ thenInvoke' = run
    /\ UNCHANGED <<cloud, disk, unsaved, cleaning, report, held, expired, faults, outside>>

\* `invoke` and `cleanup` go on from the state file.
Load(s) ==
    /\ step = "idle"
    /\ disk # NoState
    /\ mem' = disk
    /\ step' = s /\ thenInvoke' = FALSE
    /\ UNCHANGED <<cloud, disk, unsaved, cleaning, report, rest, faults>>
StartInvoke == Load("invoke")
StartCleanup == Load("cleanup")

_save_state ==
    /\ unsaved
    /\ \/ /\ Valid(mem)
          /\ disk' = mem /\ unsaved' = FALSE /\ Works
          /\ UNCHANGED <<mem, step, thenInvoke, cleaning, report, rest>>
       \/ Fault /\ Raise
    /\ UNCHANGED cloud

-----------------------------------------------------------------------------
(***************************************************************************)
(* _deploy_impl                                                            *)
(***************************************************************************)
CallerIdentity ==
    /\ At("account")
    /\ \/ /\ Works
          /\ mem' = [mem EXCEPT !.account = TRUE]
          /\ mem.n > expired
          /\ unsaved' = TRUE
          /\ Goto("collisions")
          /\ UNCHANGED <<disk, rest>>
       \/ mem.n <= expired /\ Works /\ Raise
       \/ Fault /\ Raise
    /\ UNCHANGED cloud

\* Of the runtimes only the first page is seen.  A lookup of the role or the
\* bucket may fail with a code that counts as `not found'.
EnsureNoCollisions ==
    /\ At("collisions")
    /\ \/ /\ \A t \in Shared : ~Taken(t)
          /\ Works /\ Goto("iam_role") /\ Saved /\ UNCHANGED rest
       \/ /\ \E t \in Shared : ~Taken(t)
          /\ Fault /\ Goto("iam_role") /\ Saved /\ UNCHANGED rest
       \/ /\ \E t \in Named : Taken(t)
          /\ Works /\ Raise
       \/ Fault /\ Raise
    /\ UNCHANGED cloud

\* A creation is refused when the name is taken, or fails with no effect, or
\* has its effect while its answer is lost.
Holds(t) == held' = held \cup (IF t \in Shared THEN {<<t, mem.n>>} ELSE {})
Create(t, new, created, next) ==
    \/ /\ ~Taken(t) /\ Works
       /\ cloud' = cloud \cup new /\ Holds(t)
       /\ Note(created, {})
       /\ Goto(next) /\ UNCHANGED counters
    \/ /\ ~Taken(t) /\ Fault
       /\ cloud' = cloud \cup new /\ Holds(t)
       /\ Abandon
    \/ Taken(t) /\ Works /\ Raise /\ UNCHANGED cloud
    \/ Fault /\ Raise /\ UNCHANGED cloud

\* Tags are read back and must be exactly those of this deployment.
HasDemoTags(t) == \E x \in Found(t) : x.tags = "demo" /\ x.until = mem.n
Tagged(x) == [x EXCEPT !.tags = "demo", !.until = mem.n]
Retagged(t) == {IF x \in Found(t) THEN Tagged(x) ELSE x : x \in cloud}
VerifyTags(t, next) ==
    /\ \/ HasDemoTags(t) /\ Works /\ Note({}, {t}) /\ Goto(next) /\ UNCHANGED rest
       \/ ~HasDemoTags(t) /\ Works /\ Raise
       \/ Fault /\ Raise
    /\ UNCHANGED cloud
\* Tags are put, and then read back.
PutTags(t, next) ==
    \/ /\ Found(t) # {} /\ Works
       /\ cloud' = Retagged(t) /\ Note({}, {t})
       /\ Goto(next) /\ UNCHANGED rest
    \/ Fault /\ cloud' \in {cloud, Retagged(t)} /\ Raise
    \/ Found(t) = {} /\ Works /\ Raise /\ UNCHANGED cloud

CreateRole ==
    /\ At("iam_role")
    /\ Create("iam_role", {Made("iam_role", mem.n, "demo")}, {"iam_role"}, "role_tags")
VerifyRole == At("role_tags") /\ VerifyTags("iam_role", "s3_bucket")

CreateBucket ==
    /\ At("s3_bucket")
    /\ Create("s3_bucket", {Made("s3_bucket", mem.n, "none")}, {"s3_bucket"}, "bucket_tags")
TagBucket == At("bucket_tags") /\ PutTags("s3_bucket", "upload")
Upload ==
    /\ At("upload")
    /\ \/ Found("s3_bucket") # {} /\ Works /\ Goto("runtime") /\ Note({}, {})
          /\ UNCHANGED rest
       \/ Found("s3_bucket") = {} /\ Works /\ Raise
       \/ Fault /\ Raise
    /\ UNCHANGED cloud

\* AgentCore makes an identity for the runtime, and reports it or has none.  The
\* log group is noted before it exists.
CreateRuntime ==
    /\ At("runtime")
    /\ LET runtime == Made("runtime", mem.n, "demo")
           identity == Made("workload_identity", mem.n, "none") IN
       \/ /\ mem.n > expired
          /\ \/ Create("runtime", {runtime, identity},
                       {"runtime", "workload_identity", "log_group"}, "runtime_tags")
             \/ Create("runtime", {runtime}, {"runtime", "log_group"}, "runtime_tags")
       \/ mem.n <= expired /\ Works /\ Raise /\ UNCHANGED cloud
VerifyRuntime ==
    /\ At("runtime_tags")
    /\ VerifyTags("runtime", IF "workload_identity" \in mem.created
                             THEN "identity_tags" ELSE "log_group")
TagIdentity == At("identity_tags") /\ PutTags("workload_identity", "log_group")

\* create_log_group with its tags, unless AgentCore was faster; then
\* _set_exact_log_tags.
CreateLogGroup ==
    /\ At("log_group")
    /\ LET made == IF Found("log_group") # {} THEN cloud
                   ELSE cloud \cup {Made("log_group", mem.n, "demo")} IN
       \/ /\ Works
          /\ cloud' = made
          /\ Note({"log_group"}, {})
          /\ Goto("log_tags") /\ UNCHANGED rest
       \/ Fault /\ cloud' \in {cloud, made} /\ Raise
TagLogGroup == At("log_tags") /\ PutTags("log_group", "ready")

\* _wait_for_runtime, and the last look at the expiry.
WaitReady ==
    /\ At("ready")
    /\ \/ /\ Found("runtime") # {} /\ mem.n > expired /\ Works
          /\ disk' = mem
          /\ \/ thenInvoke /\ Goto("invoke") /\ UNCHANGED <<mem, unsaved>>
             \/ ~thenInvoke /\ End
          /\ UNCHANGED rest
       \/ (Found("runtime") = {} \/ mem.n <= expired) /\ Works /\ Raise
       \/ Fault /\ Raise
    /\ UNCHANGED cloud

Invoke ==
    /\ At("invoke")
    /\ \/ /\ mem.n > expired /\ Found("runtime") # {} /\ Works
          /\ End
          /\ UNCHANGED <<disk, rest>>
       \/ (mem.n <= expired \/ Found("runtime") = {}) /\ Works /\ Raise
       \/ Fault /\ Raise
    /\ UNCHANGED cloud

-----------------------------------------------------------------------------
(***************************************************************************)
(* cleanup                                                                 *)
(***************************************************************************)
\* A bucket without tags answers NoSuchTagSet, which counts as a failure.
Discover(t) ==
    IF t \notin mem.created \/ Found(t) = {} THEN NotThere
    ELSE LET x == CHOOSE y \in Found(t) : TRUE IN
         IF t = "s3_bucket" /\ x.tags = "none" THEN Unknown ELSE x
\* The identity may be on a later page than the one that is read.
OnLaterPages == SUBSET {"workload_identity"}
Discovered(missed) == [t \in Type |-> IF t \in missed THEN NotThere ELSE Discover(t)]

\* Mutant: the name is enough.
AuthorizedByName(t) == seen[t] # Unknown
\* Purpose and ManagedBy are compared, and not the expiry.
PurposeTagsMatch(x) == x.tags = "demo"
Authorized(t) ==
    /\ seen[t] # Unknown
    /\ PurposeTagsMatch(seen[t]) \/ t \notin mem.tagged

\* A lookup that fails counts as a failure, or, except for the list of the
\* identities, with some codes as `not there'.
BeginCleanup ==
    /\ At("cleanup")
    /\ \/ mem.created = {} /\ Works /\ End
       \/ /\ mem.created # {} /\ Valid(mem)
          /\ \E missed \in OnLaterPages :
               \/ Works /\ seen' = Discovered(missed)
               \/ /\ Fault
                  /\ \E bad \in mem.created, got \in {Unknown, NotThere} :
                       /\ bad = "workload_identity" => got = Unknown
                       /\ seen' = [Discovered(missed) EXCEPT ![bad] = got]
          /\ mark' = faults
          /\ todo' = RESOURCE_TYPES /\ failed' = {}
          /\ step' = "delete"
          /\ UNCHANGED <<mem, unsaved, report, thenInvoke>>
       \/ /\ mem.created # {} /\ Fault         \* the caller's account
          /\ End
    /\ UNCHANGED <<cloud, disk, rest>>

\* With a runtime, AgentCore may take its identity away.
Deleted(t) ==
    {cloud \ Found(t)}
    \cup (IF t = "runtime"
          THEN {cloud \ (Found("runtime") \cup Found("workload_identity"))} ELSE {})
\* A deletion may answer without an effect, or fail, with or without one; with a
\* code that counts as `not found' it is not a failure.
Delete ==
    /\ At("delete")
    /\ todo # << >>
    /\ LET t == Head(todo) IN
       \/ /\ seen[t] = NotThere /\ Works
          /\ UNCHANGED <<cloud, failed>>
       \/ /\ seen[t] # NotThere /\ ~Authorized(t) /\ Works
          /\ failed' = failed \cup {t} /\ UNCHANGED cloud
       \/ /\ seen[t] # NotThere /\ Authorized(t)
          /\ \/ Works /\ cloud' \in Deleted(t) /\ UNCHANGED failed
             \/ /\ Fault /\ cloud' \in Deleted(t) \cup {cloud}
                /\ failed' \in {failed, failed \cup {t}}
    /\ todo' = Tail(todo)
    /\ UNCHANGED <<mem, step, thenInvoke, unsaved, seen, mark, report, disk, rest>>

Passed(wrong) == Report({<<t, mem.n>> : t \in mem.created}, wrong) /\ disk' = NoState
Partial == End /\ UNCHANGED disk
Exists == {t \in mem.created : Found(t) # {}}

\* Mutant: what did not fail is taken for gone.
VerifyFailuresOnly ==
    /\ At("delete")
    /\ todo = << >>
    /\ Works
    /\ IF failed = {} THEN Passed({}) ELSE Partial
    /\ UNCHANGED <<cloud, rest>>
\* Every resource of the record is looked up again; the state file goes only
\* when all are found gone and nothing failed.  The last look may be misled as
\* the first.
Verify ==
    /\ At("delete")
    /\ todo = << >>
    /\ \E missed \in OnLaterPages :
         \/ /\ Works
            /\ IF failed \cup (Exists \ missed) = {} THEN Passed(missed \cap Exists)
               ELSE Partial
         \/ /\ Fault
            /\ \/ Partial
               \/ \E t \in Exists \ {"workload_identity"} :
                    IF failed \cup (Exists \ (missed \cup {t})) = {}
                    THEN Passed((missed \cup {t}) \cap Exists)
                    ELSE Partial
    /\ UNCHANGED <<cloud, rest>>

-----------------------------------------------------------------------------
(***************************************************************************)
(* The world.                                                              *)
(***************************************************************************)
commandVars == <<disk, mem, thenInvoke, unsaved, seen, todo, failed, mark>>

\* The process is killed, or interrupted at the keyboard: no cleanup runs.
Crash ==
    /\ step # "idle"
    /\ End
    /\ UNCHANGED <<cloud, disk, rest, faults>>

\* AgentCore writes logs of a runtime that exists.
LogGroupAppears ==
    /\ \E x \in cloud :
         /\ x.type = "runtime" /\ x.by # 0
         /\ ~\E y \in cloud : y.type = "log_group" /\ y.by = x.by
         /\ cloud' = cloud \cup {Made("log_group", x.by, "none")}
    /\ UNCHANGED <<commandVars, step, report, rest, faults>>

\* Others in the account use a fixed name, for this demo too, or delete something.
Outside ==
    /\ outside < MaxOutside
    /\ outside' = outside + 1
    /\ \/ \E t \in Named, tags \in {"none", "demo", "other"} :
             ~Taken(t) /\ cloud' = cloud \cup {Made(t, 0, tags)}
       \/ \E x \in cloud : cloud' = cloud \ {x}
    /\ UNCHANGED <<commandVars, step, report, held, deploys, expired, faults>>

Expire ==
    /\ expired < deploys
    /\ expired' = expired + 1
    /\ UNCHANGED <<cloud, commandVars, step, report, held, deploys, outside, faults>>

Init ==
    /\ cloud = {} /\ disk = NoState
    /\ mem = NoState
    /\ step = "idle" /\ thenInvoke = FALSE /\ unsaved = FALSE
    /\ seen = NothingSeen /\ todo = << >> /\ failed = {} /\ mark = 0
    /\ claimed = {} /\ misled = {} /\ held = {}
    /\ expired = 0
    /\ deploys = 0 /\ faults = 0 /\ outside = 0

Next ==
    \/ \E run \in BOOLEAN : StartDeploy(run)
    \/ StartInvoke \/ StartCleanup \/ _save_state
    \/ CallerIdentity \/ EnsureNoCollisions
    \/ CreateRole \/ VerifyRole \/ CreateBucket \/ TagBucket \/ Upload
    \/ CreateRuntime \/ VerifyRuntime \/ TagIdentity
    \/ CreateLogGroup \/ TagLogGroup \/ WaitReady \/ Invoke
    \/ BeginCleanup \/ Delete \/ Verify
    \/ Crash \/ LogGroupAppears \/ Outside \/ Expire

Spec == Init /\ [][Next]_vars

-----------------------------------------------------------------------------
(***************************************************************************)
(* Properties.                                                             *)
(***************************************************************************)
\* The type invariant.  A record that was saved names its account, and a
\* cleanup works from a record that is saved or could not be.
TypeOK ==
    /\ cloud \subseteq Resource
    /\ disk # NoState => disk \in State /\ Valid(disk) /\ disk.account
    /\ step = "idle" <=> mem = NoState
    /\ mem # NoState => mem \in State /\ Valid(mem)
    /\ unsaved => step \notin {"idle", "cleanup", "delete"}
    /\ \A t \in Type : seen[t] \in Resource
    /\ todo # << >> => step = "delete"
    /\ failed \subseteq Type
    /\ claimed \subseteq Type \X (1..deploys) /\ misled \subseteq Type
    /\ held \subseteq Shared \X (1..deploys) /\ expired \in 0..deploys
    /\ deploys \in 0..MaxDeploys /\ faults \in 0..MaxFaults /\ outside \in 0..MaxOutside

\* A cleanup deletes what its own deployment made, and never what another of ours
\* did.  Somebody else's resource it deletes only under a name that this
\* deployment did hold, so never one that was taken before; and, once the record
\* knows its own to be tagged, only if what the cleanup saw had the demo's tags.
\* More is not promised: the tags do not tell this demo from another one of the
\* same account, so a colleague's role or bucket with the demo's tags is deleted
\* when it has taken the name; and until the record says `tagged', whatever has
\* the name.
OwnResourcesOnly ==
    [][todo' # todo =>
         \A x \in cloud \ cloud' :
            \/ x.by = mem.n
            \/ /\ x.by = 0
               /\ <<x.type, mem.n>> \in held
               /\ x.type \in mem.tagged => seen[x.type].tags = "demo"]_vars

\* "passed" is wrong only where the last look itself was: not for a resource whose
\* deletion had no effect or was said to have failed, not for one that the
\* discovery missed, nor for a log group that the dying runtime made again.  The
\* last look is misled about an identity beyond the first page, and by a lookup
\* that fails with a code taken for `not found'.
PassedMeansGone ==
    \A x \in cloud : <<x.type, x.by>> \in claimed =>
        \/ x.type \in misled
        \/ x.type = "log_group" /\ "runtime" \in misled

\* Wherever a deployment failed or died, a cleanup none of whose calls fails
\* leaves nothing of it that its record names, but for a bucket that never got
\* its tags, an identity that the discovery did not list, and a log group that
\* AgentCore made since the record was tagged or the cleanup looked.
SmoothCleanupLeavesNothing ==
    At("delete") /\ todo = << >> /\ faults = mark =>
        \A t \in mem.created : \A x \in Found(t) :
            \/ x.by = 0
            \/ t = "s3_bucket" /\ x.tags = "none"
            \/ t = "workload_identity" /\ seen[t] = NotThere
            \/ /\ t = "log_group" /\ x.tags = "none"
               /\ t \in mem.tagged \/ seen[t] = NotThere

\* The state file keeps what a cleanup needs: what it names stays named while
\* it exists.
Names(s, x) == s # NoState /\ s.n = x.by /\ x.type \in s.created
StateFileKeepsIdentifiers ==
    [][\A x \in cloud \cap cloud' : Names(disk, x) => Names(disk', x)]_vars
=============================================================================
