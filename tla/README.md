# A verification project for bufstream-operator

TLA+ models of the four controllers of `bufstream-operator` and of how they work
together, TLC runs that check them on small instances, and TLAPS proofs of their
safety for every value of the constants.

## 1. Inventory

The operator is one Go process. `cmd/main.go` builds a controller-runtime
manager with four controllers; each reconciles one kind of custom resource and
has one worker. The controllers share no memory but the manager's cache: they meet in the
Kubernetes API server (the others read the Cluster's Ready condition) and at the broker.

| component | state it keeps | operations | what is hard |
|---|---|---|---|
| Topic controller (`topic_controller.go`, `bufstream/topic.go`) | the Topic's finalizer, `status.observedGeneration`, conditions; the topic on the broker | finalizer, skip if settled, look up the Cluster, connect, `TopicExists`, `CreateTopic` or `UpdateTopic` (two requests), status; deletion: `DeleteTopic`, remove the finalizer | each step may act on a stale copy, fail, lose its answer, or be the last before a crash; ownership |
| User controller (`user_controller.go`, `bufstream/user.go`) | the same for a User; a SCRAM credential per user and mechanism | the same skeleton with `getPassword` and an upsert | the Secret changes behind its back |
| ACL controller (`acl_controller.go`, `bufstream/acl.go`) | the same for an ACL; an entry of the access list | the same skeleton with two conversions of the spec and idempotent requests | an entry in force must have its resource; two resources may write one entry |
| Cluster controller (`cluster_controller.go`) | the Cluster's Ready condition and observed generation | try credentials, connection and health every ten seconds, write the result | the periodic check has no event to restart it |
| Cluster helpers (`cluster_helpers.go`) | none | `GetCluster`, `IsClusterReady`, `GetAdminCredentials` | the condition they read is old; the Secret is not watched |
| Bufstream client (`bufstream/client.go`) | a connection | `NewClient`, `CheckHealth` | I/O |
| API types (`api/v1alpha1`) | the resources' schema, with defaults and validation | | |
| Manager (`cmd/main.go`) | the cache the controllers share | set-up | one controller goes by what another wrote, as the cache shows it; leader election is off by default |

What makes them correct: a status that says Ready is true of the broker; what the
operator made has a resource that will clean it up; nothing is deleted or changed
on the word of an old copy; what belongs to others is left alone; every resource
is eventually Ready or gone. `PROJECT.json` lists 40 hazards by line, each with
the properties that would catch it or the reason there is none.

## 2. The modules

| module | models | lines of the code |
|---|---|---|
| `KubeResource` | one object in the API server, the informer's copy, optimistic concurrency, the work queue: what controller-runtime and Kubernetes do (external) | the controllers' surroundings |
| `ReconcileLoop` | what the Topic, User and ACL controllers share: dispatch, finalizer, Cluster lookup, connection, status writes, returns; the parts of the inductive invariant that do not depend on the kind | `topic_controller.go`, repeated in the other two |
| `ManagedResource` | the abstract specification of a resource: free, held or being released; Ready only of what the broker has; released only when nothing is left | what the next three promise |
| `TopicReconciler` | the Topic controller and the broker's topics | `topic_controller.go`, `topic.go` |
| `UserReconciler` | the User controller, the Secret, the credentials | `user_controller.go`, `user.go` |
| `ACLConversion` | `toACLConfig` and `buildACL` as functions, and what the API says they should mean | `acl_controller.go` 240-303, `acl.go` |
| `ACLReconciler` | the ACL controller and the access list | `acl_controller.go`, `acl.go` |
| `AdminAccess` | `GetAdminCredentials`, the login `NewClient` makes of it, and what the API says the Secret may hold | `cluster_helpers.go` 57-99, `client.go`, `cluster_types.go` |
| `ClusterHealth` | the abstract specification of a Cluster: what a check of its servers found, and when it is reported and shown | what the Cluster controller promises |
| `ClusterReconciler` | the Cluster controller; servers and admin Secrets that come and go | `cluster_controller.go`, `cluster_helpers.go` |
| `Operator` | a Cluster and a resource that depends on it, in one process with one cache | `cmd/main.go`, `cluster_helpers.go`, `acl_controller.go` |
| `TwoACLs` | two ACLs that write the same entry, with one worker: two instances of `ACLReconciler` on one broker | `acl_controller.go` |
| `MCTopic`, `MCUser`, `MCACL`, `MCCluster`, `MCOperator`, `MCTwoACLs` | the instances for TLC | |
| `LoopProofs` | lemmas about the object and the loop | |
| `TopicProofs`, `UserProofs`, `ACLProofs`, `TwoACLsProofs`, `ClusterProofs`, `OperatorProofs`, `ManagedProofs` | the theorems | |

`TopicReconciler`, `UserReconciler`, `ACLReconciler` and `Operator` extend
`ReconcileLoop`, which extends `KubeResource`. `ClusterReconciler` extends `KubeResource`
alone, because its controller has neither finalizer nor skip. The refinements are:

    TopicReconciler, UserReconciler, ACLReconciler  implement  ManagedResource
    ClusterReconciler                               implements ClusterHealth
    Operator      composes  ClusterHealth with the loop of a dependent resource,
                  and implements ManagedResource while the Cluster keeps its servers (proved only)

so the Cluster takes part in the composition by what it promises, and its own queue,
conflicts and crashes need not be multiplied with those of the dependent.

### State and code

* `obj` is the stored object (phase, finalizer, generation, spec, observed
  generation, Ready condition with the reason that matters), `cache` the
  informer's copy that `r.Get` returns, `local` the Go variable `topic` (`user`,
  `acl`, `cluster`) of a running call. `status.topicName`, `partitions` and
  `replicationFactor` (and a User's `username` and `mechanism`) are copies of the spec
  at the observed generation and not kept apart.
* `seen` stands for resource versions: the copies that carry the stored object's
  current one. A write from any other copy is refused with a conflict. This is exactly what
  a version decides; the numbers themselves are not needed and would make the
  state space infinite. A write that changes nothing makes no version.
* `queued` and `timer` are the work queue: the key is in it, or due to be added (after
  an error, `Requeue` or `RequeueAfter`). Delays are not measured. The queue holds a key
  once, as controller-runtime's does. Events of several versions coalesce in one
  `Deliver`, because the cache only ever shows the last and the queue only the key.
* `pc` is where a call of `Reconcile` is. One action is one request to the API
  server or the broker with everything the code does up to the next one, so
  everything else can happen between two requests. `Answered(next)` is a request
  that was carried out and whose answer may get lost.
* `topics` (partitions, factor, configuration key by key), `creds`, `acls`, `secret`, `up`
  (the servers that can be reached) and `secrets` (the admin Secrets by namespace and
  name) are the world outside. `origin`, `mine`, `rotated`, `reached`, `named`, `gone` are
  history: no action of the operator reads them.
* `cluster` is the Cluster of the spec as the cache shows it: absent, not ready or
  ready. In the modules of one controller it changes at any time; in `Operator` it is
  `Seen(shown)`, the copy of the Cluster that `ClusterHealth` keeps, and `server` the
  `bootstrapServers` of the copy that was read.
* `calm` separates two ages. Before it anything may fail at any time, the process may
  crash anywhere, the Cluster, Secrets and servers may change; after it what can succeed
  does. The code retries for ever, so this is what it can be held to.
* In `ManagedResource` a *want* is a spec and a *thing* what it is about: the topic's
  name, the slot of user and mechanism, the entry. `Stage(obj)` is given by phase and
  finalizer, `made` by the history, `met` by the broker. It may clean up once more after a release
  (`Clean`): the worker can hold a copy of the deleted object whose finalizer is already gone.

Steps that only read are one action with the outcomes "go on" and "fail".
`TopicExists` may take a topic for missing while the broker is in trouble (`topic.go` 58-61),
and `UpdateTopic` is two actions, since half of it may have been done. The admin client
(franz-go's `kadm`) is not in the repository and is modelled by what its calls do: `CreatePartitions`,
which `UpdateTopic` calls with the number of partitions wanted, lists the topic again and asks
the broker for *that many more* (`UpdatePartitions` is the call that sets a number). Its list and its request
are one step of the model.

Left out: events and log lines; the Progressing condition (nothing reads it); the
Degraded condition (always written with Ready, as its opposite); the
bump of the generation at a deletion (a deleted object is never compared). A `Get`
from the cache does not fail for other reasons than absence.

## 3. What the runs check

Every run lets users create, edit, delete and re-create the resource (the compositions:
once), the informer lag, the process crash, requests fail and answers get lost.

| run | instance | distinct states, time | result |
|---|---|---|---|
| `topic_safety` | two names, four specs (growing, shrinking, other configuration, another topic with a factor beyond 16 bits, with and without `assumeOwnership`), two generations, others creating topics and adding partitions to any | 1,001,000, 3:20 | ten properties hold |
| `topic_live` | one name, two specs that take over what exists, grow and shrink, others creating a topic and adding partitions | 325,000, 2:00 | two hold |
| `user` | two specs with different iterations and the mechanism given or by default, two passwords, a Secret that comes and goes, others making the credential first | 447,000, 2:55 | six hold |
| `acl` | two ways to write one entry (a prefixed Deny on a group, so that no default of the conversions hides a lost field), others adding it | 168,000, 1:28 | eight hold |
| `cluster` | two specs that find the Secret in two namespaces, Secrets with `password`, `plaintext` or both, servers up or not | 212,000, 1:05 | six hold |
| `operator` | two servers, an edit from one to the other, one dependent, each created once | 358,000, 1:24 | five hold |
| `twins` | two ACLs that differ in an empty host and `*` | 369,000, 1:57 | three hold |
| `topic_overgrown`, `topic_disowned`, `topic_stuck`, `acl_edited`, `operator_stranded` | see section 4 | | violated, as the code behaves |

The properties, beyond the types:

* **ImplementsManaged, ImplementsHealth**: each step of the code, each fault and each
  user's write is a step of the abstract specification or a stutter.
* **ReadyMeansApplied / ReadyMeansInForce / ReadyWasReached**: Ready at the current generation
  is true of the broker (for the Cluster: its servers let the admin in). Of a Topic it says that the topic has
  the factor and the keys of the spec and *at least* its partitions (`Provides`); that
  it has no more is false (`topic_overgrown`). A User's password is excused if the Secret was changed
  after it was read. This rests on the
  conflict of stale writes, the order of steps, and on the skip being taken only
  when settled.
* **NoOrphan**: what the operator made has its resource with the finalizer on, and that
  resource's spec names it. It holds as long as edits keep the name (Topic), the
  slot (User), the entry (ACL); `acl_edited` shows what happens otherwise.
* **OnlyDeletionDeletes, NotRevokedUnderLive**: nothing is deleted on the word of a
  copy of an earlier life of the resource.
* **TopicsOnlyGrow**: what is decided on a description of the topic does no harm when it is
  sent: while a live resource holds on, a topic that is there gets no fewer partitions, no other
  factor, and is never deleted, under any name. In between others may have created the topic or added
  partitions to it since `TopicExists` counted them, and an answer may have been lost.
* **ForeignUntouched**: under a live Topic without `assumeOwnership` no step of the operator changes a topic of
  others. Edits in this run do not take `assumeOwnership` back: if they did,
  a call that had read the old spec could still be at work when the new one is stored.
* **OtherKeysKept**: keys of a topic that no spec sets stay as others set them.
* **NoLostWakeup, CheckNeverStops**: the resource is never forgotten by the queue.
* **EventuallyReady, EventuallyCleaned, EventuallyServed, DeletionCompletes, FailureNoticed,
  RecoveryNoticed**: what must happen does. The EventuallyReady of a Topic excuses a topic that has more partitions
  than asked (`TooLarge`): `UpdateTopic` does not shrink, whether others, an edit or its own growth made it so.
  DeletionCompletes holds for ACLs, whose
  deletion is idempotent at the broker, and not for Topics (section 4). For a User
  it fails for the same reason, so EventuallyServed asks only that its credential goes.
  FailureNoticed and RecoveryNoticed go by what the API says of the Secret (`Authorised`),
  not by how the code reads it.
* **WrittenAfterCheck, NothingLeft, ReadyOnNamed, ServedThroughCluster** (`operator`): no
  controller writes to servers that were not checked; a release leaves no entry behind; a Ready
  resource is in force on servers that its Cluster named; polling the Cluster is enough to get
  served. The first two hold while the Cluster keeps its servers (`Steady`): Ready survives an
  edit of `bootstrapServers` until the next check, and `IsClusterReady` does not compare
  generations, so an edit lets writes through to servers nobody has tried, and the
  former servers keep what they have.
* **EntryNamed, ReadyKept, AllServed** (`twins`): whichever of two ACLs adds or removes
  their entry first, it has a resource that names it; neither's failures take it from the other;
  in the end both are Ready or gone and nothing is left. ReadyKept excuses the deletion of
  the other: after that the entry is gone under a Ready ACL.

**Bounds.** Two generations (`MaxGen`) give an old and a new spec, in every life of the
object; lives are not bounded in the modules of one controller. Two names tell
the resource's topic from others'. Specs ask for 1 or 2 partitions, others create topics of one or two and
grow them to 2 (`ForeignSizes`), and the operator's growth makes up to 4: an old count is met by less,
as many and more. Factors 1 and 2 (and 65538, which is 2 in 16 bits) are equal or differ. `Hosts`
and `Principals` are small because the conversion copies them. `Operator` is kept small by what is
checked elsewhere: both resources live once, nobody else puts a finalizer on them, the
informer of the ACL is prompt and that of the Cluster is not. (With a lagging informer of
the ACL too, the invariants were checked on 7.8 million states.) Both restrictions, one life and the prompt
informer, are part of the module, so the theorems of section 5 about it have them too; they bound neither servers nor
specs, edits, outages and restarts. `TwoACLs` has a Cluster that stays ready and one life of each ACL; both may be
gone for good, and then nothing can happen, so that run does not report deadlocks.
`NotFoundRecognised` is FALSE in all runs, as `kerr.Error.Error()` of the library the
repository uses (franz-go 1.20.6) writes `NAME: description`; the proofs hold for both values.

**Fairness.** Weak fairness on `Reconcile` (the worker goroutine runs while it
has something to do), `Deliver` (the informer's watch), `TimerFires` (delays elapse) and
`Recover` or `Settle` (outages end); in `Operator` on each controller's steps apart, in `TwoACLs` on
each key (the queue is first in, first out, which is more than is assumed). Nothing is
assumed of users, others or crashes, and no fairness chooses among the outcomes of a request:
after `calm` a request that can succeed does. For the User, `Recover` also restores a
missing Secret.

Every property of a passing run has a mutant, an operator next to the definition
it replaces (`ReportRetrying`, `LookUpClusterOnce`, `DeleteIgnoringErrors`, `FindAnyCluster`,
`PlaintextFirst`, ...) that is a plausible mistake in that code; TLC finds the property
violated with it.

## 4. Where code and documentation part

1. `topic_overgrown`: growing a topic overshoots. `UpdateTopic` passes the wanted number to a call that adds
   (`bufstream/topic.go:123`), so one partition edited to two becomes three, and the Topic says Ready and
   `status.partitions` 2 (`topic_types.go:33` and `:68`). If the answer is lost, the configuration fails, the status write
   conflicts or the process dies after that, each retry finds three, wants two and fails with "cannot decrease
   partitions": such a Topic never becomes Ready (EventuallyReady has to excuse it).
2. `topic_disowned`: a Topic that reports it was refused (reason TopicExists) deletes the topic of others
   when it is deleted (`topic_controller.go:144`).
3. `topic_stuck`: a Topic whose topic is not on the broker is never released, because
   the error text compared at `bufstream/topic.go:174` is not what the library
   writes. `user.go:108` has the same comparison. With `NotFoundRecognised` TRUE the same instance satisfies
   `DeletionCompletes`, which asks it of objects with the operator's finalizer only.
4. `acl_edited`: an edit of an ACL leaves the former grant on the broker for good (`README.md:68`): with outages over and
   everything fair, no later call removes it, nor does the deletion of the ACL. With edits that keep
   the entry the same property holds. So do
   an edit of `spec.topicName` (`topic_controller.go:140`) and of a User's name or mechanism
   (`user_controller.go:132`); the three share the mistake, and one run shows it.
5. `operator_stranded`: a Cluster deleted before its ACL leaves the ACL's deletion waiting
   for ever, with its entry in force on a broker that answers (`README.md:68`).

Seen as well, without a run of its own: a topic the operator created itself is refused as already existing
after a lost answer, a failed status write or any edit, unless `assumeOwnership` is set
(`topic_controller.go:273`; `topic_types.go:52` speaks of topics that were not "created by the operator"). The
instances of `topic_live` have it set for this reason, and TLC finds `obj.cond = "Refused"` with a topic whose
`origin` is the operator when they do not. `int16(spec.replicationFactor)` wraps and the status
reports the number before it did (`topic_controller.go` 256 and 308); `topic_safety` has such a
spec, and Ready there means the wrapped factor. Keys taken out of `spec.config` stay set.

## 5. What is proved

All for every value of the constants that satisfies the assumptions named in the modules
(`SpecsAssumption`, `MaxGenAssumption`, `TopicAssumption`, `UserAssumption`, `ACLAssumption`,
`ConversionAssumption`, `AccessAssumption`, `ClusterAssumption`, `OperatorAssumption`, `TwinAssumption`):
any number of names, keys, specs, edits, passwords, servers and Secrets, whatever the others of the models do
(for topics: create them and add partitions).

| module | theorems |
|---|---|
| `TopicProofs` | `TopicInvariant`, `TypeCorrect`, `ReadyTopicsApplied`, `NoTopicForgotten`, `OtherKeysStay`, `LiveTopicsGrow`, `ReleaseOrphansNothing`, `FactorFits`; under `KeepsName`: `NoTopicOrphaned`, `OnlyDeletionDeletesTopics`, `TopicsManaged`; under `OnlyAdopts`: `ForeignTopicsStay` |
| `UserProofs` | `TypeCorrect`, `ReadyUsersApplied`, `NoUserForgotten`, `LiveUsersStay`, `ReleaseOrphansNothing`; under `KeepsSlot`: `NoCredentialOrphaned`, `UsersManaged` |
| `ACLProofs` | `ConversionsFaithful`, `TypeCorrect`, `ReadyACLsInForce`, `NoACLForgotten`, `LiveNotRevoked`, `ReleaseOrphansNothing`; under `KeepsEntry`: `NoGrantOrphaned`, `ACLsManaged` |
| `TwoACLsProofs` | `EntriesNamed`, `ReadyStaysKept` |
| `ClusterProofs` | `TypeCorrect`, `ReadyClustersReached`, `ChecksNeverStop`, `ClustersHealthy`, `AdminLoginFound` |
| `OperatorProofs` | `TypeCorrect`, `CheckedBeforeWritten`, `NothingIsLeft`, `ReadyIsOnNamed`; under `[]Steady`: `ServedAsManaged` |
| `ManagedProofs` | `ReadyIsAlwaysTrue`, `NothingIsLeftBehind` |

`KeepsName`, `KeepsSlot` and `KeepsEntry` say that edits keep the thing a resource is about.
`acl_edited` shows that they are needed. `OnlyAdopts` says that no edit takes `assumeOwnership`
back: a call that read the old spec may still be changing the topic of others when the new one is stored.
`FactorFits` marks where section 4's `int16` bites: the factor the broker is asked for is the one the
resource names exactly when that is below 32768.

**The loop.** `ReadyMeansApplied` is not inductive: a status write that makes it
true must come from a call that knows what is on the broker. The invariant adds

* `CopiesCurrent`: a copy in `seen` is the stored object;
* `PcMatchesCopy`: where the worker is tells what its copy looks like;
* `CopyBounds`: however old a copy is, a live one with the finalizer means the stored
  object still has it, and a deleted one that the object is not live with the
  finalizer. This is what makes old copies harmless: only the operator gives the finalizer
  up, and only after it saw the deletion;
* `SettledKnown`: once Ready is written for a generation every copy has its spec, so
  no call with an older spec is at work;
* `StepKnowledge`: what each step knows of the broker (of a Topic, `resize`: it
  has at least the partitions that were read, and the same factor; `configure`: it has enough partitions; `report`: it has
  all that is asked for). What is known must survive the growth by others between two requests, which is why it is "at least";
* `NoLostWakeup`, which is inductive beside the others.

`LoopProofs` proves once that every step the controllers share preserves the shared parts
(`LoopStepInv`, `ConnectInv`, `EnvironmentInv`, `CrashInv`, ...), for Topics, Users, ACLs and the
dependent of `Operator`. The other modules add one lemma per step of their own. Orphans need a second
invariant, carried along the first: where the worker may have made something, the stored
object holds it.

**Edits that rename.** `NoOrphan` is false once an edit may change the name, slot or entry
(`acl_edited`). `ReleaseOrphansNothing`, one theorem in each of three modules, says what remains
true then, whatever edits users make: a thing loses its resource only while there is one that is held
(by the edit, or by a call begun before it), and never because one is released, or released
and made again with old copies at work. It rests on `LetGo` (`LoopProofs`): a release is made by a call
at `unfinalize` that holds the very object stored, not a copy of it; and on what `StepKnowledge` says there:
the thing that copy names is gone. `LiveTopicsGrow` and `LiveUsersStay` need no `KeepsName` either.
The runs of these modules keep the name, so these theorems have no run of their own but for
`TopicsOnlyGrow`, which `topic_safety` checks; TLC found no violation on instances with renaming edits
(744,000 states for Topics, 840,000 for ACLs, 2.06 million for Users).

**The refinements.** `LoopMoves` says what a step of the loop, of users or a crash can do to the
stage, the spec and the readiness of a resource (seven moves, of which only `report` makes
it ready and only `unfinalize` releases it). Each move is matched with an action of
`ManagedResource`, with the knowledge of the invariants that the thing is there or gone;
each request to the broker is a `Work` or a `Clean`. `ManagedProofs` then draws the
consequences once for all that implement it. For the Cluster, `AnswersServing` shows that
`GetAdminCredentials` succeeds with a login the servers take exactly when the Secret holds
their admin as the API describes it; so the code's checks are those of `ClusterHealth`. `AdminLoginFound` states it for
any servers, Secrets and references.

**The composition.** A server is *vouched for* if the Cluster has named it and, unless the
Cluster ever named another, it has answered. `OperatorInv` says that the servers of every
Ready Cluster, stored or shown, those the worker holds and those with an entry are
vouched for; a move of the servers makes the promise void instead of false. Together with
the loop's invariant the three theorems follow. Under `[]Steady` a write always reaches
the servers that have the entries, and each step of the dependent, through the Cluster's
absences, outages and polls, is one of `ManagedResource`: `ServedAsManaged`. `Steady` is
needed: after an edit of `bootstrapServers` the entry stays on the former servers, and TLC finds the
refinement violated.

**Two ACLs of one entry.** `ReadyMeansInForce` and `NoOrphan` of one ACL do not survive another ACL
that deletes the entry, so `ACLProofs` states what one reconciler's invariant says without them
(`WorkInv`), and by how much one step can change who names the entry (`NamedStep`), what is in force
(`OnlyDeletedRevoke`) and what is Ready (`ReadyStep`). `TwoACLsProofs` instantiates `ACLProofs` once
for each ACL and cites those lemmas for either. `TwinInv` is the two `WorkInv`s, one worker at a time,
that a copy of a deleted ACL is only about after its deletion, and the two properties. A step of
one leaves the other's invariant alone because the other's call is not at work then (`WaitingStep`):
with two workers this proof would fail at that step.

Only model-checked: liveness and everything under fairness (`EventuallyReady`, `EventuallyCleaned`,
`EventuallyServed`, `DeletionCompletes`, `FailureNoticed`, `RecoveryNoticed`, `ServedThroughCluster`,
`AllServed`), which is out of the prover's reach, and the violations. Every other property of a passing run is
stated by a theorem.

## 6. Not modelled, and what is left

* Drift: the skip compares generations only, so a topic, credential or entry that others delete, or a key or factor
  that they change, after Ready stays as it is. Of the changes by others the models have those that add: topics,
  partitions, credentials, entries. No document promises otherwise.
* Two Topics of one name: nothing makes them known to each other and nothing says what should
  happen. `TwoACLs` shows the case where the requests are idempotent.
* Requests that a broker carries out long after the client gave up: the order in which
  the broker takes them is not in the repository.
* Two operators at once without leader election: the lease is a library's.
* `UserExists` and `ACLExists`, which no code calls.
* Set-up and I/O: flags, SASL mechanism (always SCRAM-SHA-512), TLS options, the dialer of the
  development mode, metrics, probes, charts and manifests, generated deep copies.

Of these the first two could become runs if the project's documents came to say what
should hold. A proof that remains worthwhile is an abstract specification of entries with several owners,
which `TwoACLs` would implement as one reconciler implements `ManagedResource`.
