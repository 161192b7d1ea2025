# TLA+ verification of crossplane-provider-timeweb

This directory models the provider's core logic in TLA+, model-checks it with TLC
on small instances and proves its central safety properties with TLAPS. Source
paths below are relative to `internal/` unless they start with `docs/`.

## 1. The system

The provider is one Go process with a controller per managed-resource kind (MR).
Each controller implements `Observe`, `Create`, `Update` and `Delete` against the
Timeweb Cloud REST API; crossplane-runtime's `managed.Reconciler` (a library)
calls them, one reconcile per MR at a time and many MRs concurrently. Nothing is
persisted except the MR objects in the Kubernetes API server (spec, annotations,
status) and the resources at Timeweb. One leader runs at a time and may die at any
point.

| Component | State | Operations | Interacts with | Hard behaviour | What makes it correct |
|---|---|---|---|---|---|
| Error classification (`clients/timeweb/errors.go`) | none | `Classify` | every controller | 404s, 5xx and HTML pages of the edge | only an enveloped 404 means gone |
| External-create protocol (all kinds) | `external-name`, `external-create-*`, `status.upstreamID` | Observe, Create, Delete | runtime, Timeweb, GitOps tools, operator runbooks | crash between POST and annotation, lost answers, overwritten annotations | no duplicates, no shared resource, nothing left after deletion, progress |
| Server: floating IPs (`controller/compute`) | `status.boundFloatingIPs`, upstream `bound_to` | Observe, Update, Delete | FloatingIP MRs, other Servers, panel | check-then-act on addresses, stale status | never take another's address; bind, release, unbind before delete |
| Router (`controller/network/router_external.go`) | upstream router only | Observe, Update, Create, Delete | Networks, floating IPs, clusters | a budget of 8 calls a pass, dropped writes, best-effort release | converges, keeps the budget, never drops the last network |
| Firewall (`firewall_external.go`) | upstream group | rules and attachments under a budget of 8 | load balancers and other services | services attached elsewhere, partial create | converges without moving a service |
| Nodepool (`kubernetes/nodepool_external.go`) | upstream group, `clusterID`, locks | scale by deltas, autoscaling, labels | parent cluster, upstream autoscaler | lost answers of relative calls, hand-over of the count | never fights the autoscaler, converges |
| Cluster (`cluster_external.go`, `cluster_upgrade.go`, `router_integration.go`) | version, `integratedRouterID`, kubeconfig Secret | upgrade, integrate, detach, rename | Router (readiness, NAT, deletion), Nodepools | the integration is visible on the router only; its record is lost with a status write; one fetch of the kubeconfig | forward-only upgrades, the integration follows the declaration and leaves the panel's alone, no router is deleted under a cluster |
| Addon, FloatingIP, Network, Project, SSHKey | upstream object | CRUD of a few fields | parent refs | shared create protocol | as the create protocol |
| Cdn (`controller/cdn`) | `status.ssl`, `managedCertificate`, purge and retry annotations | settings, SSL, purge | Secrets, S3Bucket, Let's Encrypt | one change a pass, reused certificate ids, a budget kept in the status | settings are not starved, the certificate is served or the reason told, nothing foreign is deleted, a purge is carried out |
| S3Bucket (`controller/s3bucket`) | upstream bucket, `lockedPresetID`, conditions | resize, describe, report drift, mirror users | catalog, S3User | catalog rotation, cached catalog | the paid class is kept, drift is reported |
| S3User (`controller/s3user`, `clients/rgwiam`) | upstream user, policy, Secret | grant, delete | S3Bucket (readiness, name), account keys | a key that is answered once, grants that refer to buckets being deleted | key published, access as declared, deletion ends |
| Container registry | registry, observed repositories | CRUD, observe-only repository | parent registry | parent wait | as the create protocol |
| Resolver (`controller/shared/resolver`) | catalog cache per ProviderConfig | slug, size and configurator selection | every sized kind | cached refusals, stale catalogs, ambiguity | picks the one match or refuses; gets over a cached refusal |
| Client (`clients/timeweb/client.go`) | a rate limiter per host | send once, 60 s timeout | every controller | a timed-out request may still be carried out | every retry is a new reconcile |

`PROJECT.json` lists every component with what is and is not modelled, and under
`hazards` the places in the code that tests hardly reach, each with the properties
that cover it or the reason why none does.

## 2. Modules

| Module | Models | Used by |
|---|---|---|
| `UpstreamErrors` | `Classify` and the answers a request may get | `ExternalCreate` |
| `ExternalCreate` | identity of the upstream resource: all kinds' Observe, Create, Delete as far as it is concerned, with the runtime's annotations | `MCExternalCreate`, `MCIdentity`, `ExternalCreateProofs` |
| `AddressLease` | abstract: what may become of a floating IP | `ServerFloatingIPs`, `RouterUpdate`, which implement it |
| `ServerFloatingIPs` | the Server's address binding, one upstream call per step, several Servers at once | `MCServerFloatingIPs`, `ServerFloatingIPsProofs` |
| `RouterUpdate` | Observe and Update of one router, one upstream call per step | `MCRouterUpdate`, `RouterUpdateProofs` |
| `NodepoolScaling` | Observe and Update of one node group: count, autoscaling, labels, readiness | `MCNodepoolScaling`, `NodepoolScalingProofs` |
| `FirewallRules` | Observe and Update of one firewall group, one write per step | `MCFirewallRules`, `FirewallRulesProofs` |
| `ClusterUpdate` | Observe and Update of one cluster composed with the deletion of the Routers it may be integrated with | `MCClusterUpdate`, `ClusterUpdateProofs` |
| `Cdn` | Observe and Update of one Cdn: settings, certificate, purge | `MCCdn`, `CdnProofs` |
| `PresetCatalog` | the catalog, its cache and the selection by size | `S3Bucket` |
| `S3Bucket`, `S3User` | the two controllers, one upstream call per step | `ObjectStorage` |
| `ObjectStorage` | their composition: readiness gates grants, policies are mirrored | `MCObjectStorage`, `ObjectStorageProofs` |
| `MC*` | instances for TLC | the configurations |
| `*Proofs` | theorems and proofs | tlapm |

### ExternalCreate

State: the annotations of each MR as stored (`extName`, `pending`, `succeeded`,
`failed`, whole seconds like the RFC 3339 stamps of the runtime), the status field
`upstreamID`, the reconcile's program counter and its in-memory copy of the name
(`mem`), and upstream the live resources with the identity they were created
with. An identity is a record of the declared fields the kind's lookup looks at: the
name for routers, firewalls, CDN resources and storage users, name, zone and project
for clusters, name, preset and configurator for nodepools. The lookups
(`findGroupsByIdentity`, `findClustersByName`, `findByName`) are wider than equality,
as in the code: a field that is not declared is not compared, and a configurator,
zone or project that the list leaves out (`Omitted`) counts as equal. `Lookups` are
the lists a lookup may return. `Separated` says of the declarations that no lookup
accepts what was made for another MR: it fails for two nodepools of one name and
cluster of which one is sized by resources and the other by a preset, and for two
clusters of one name and zone of which one declares no project. Which MR then gets
which resource is up to the order of things, and two MRs may share one. `Kind` selects one of three code shapes: `AdoptOnDoubt` (Cluster,
Nodepool, Router: look when the previous create is in doubt), `AdoptAlways`
(Firewall, Cdn, S3User: always look), `CreateBlindly` (the rest).

Actions follow a reconcile: `Observe`, `SetExternalCreatePending` (which fails
with 409 on a stale object), `Create` / `Reject` (up to the POST), `PostSucceeds` /
`PostFails`, `RecordResult`; or `Observe`, `Delete`. Around
them: `Crash`, `OutOfBandDelete`, `Stomp` (a GitOps tool overwrites the name),
and the operator's `RequestDelete`, `Reapply`, `ClearPending` (the documented
runbook) and `RestoreName` (the message of a parked nodepool).

Assumptions named in the module: a new leader starts at least a second after a
crash; a GitOps sync comes at least a second after a recorded success (within the
same second the pending mark would compare as old); Timeweb never reuses an id;
enough ids are left to recreate every MR before one is deleted in the panel
(`IdsToSpare`, a bound of the instance).

### ServerFloatingIPs

State: upstream holder of every address, stored `desired` and `recorded` sets,
and the reconcile's resolved `want`, in-memory `seen`, and remaining `unbinds` and
`binds`. The per-candidate GETs of one read are a single step; every bind and
unbind is a step of its own, with the outcomes done, refused and done with the
answer lost. `Persist` is the runtime's status write, which fails on a stale
object. In the panel addresses are freed or bound to something that is not a
Server; `MaxMoves` bounds this.

### RouterUpdate

State: the router upstream (`up`), the stored `spec`, what Connect resolved
(`res`) and Update read (`obs`), the work left (`todo`, `row`, `rel`), the counter
the code keeps (`ops`) and the calls really sent (`calls`). One action per
upstream call, in the order of the code; `Call` gives each the outcomes done,
acknowledged and dropped, failed, and failed though carried out. `MaxOps` stands
for `maxRouterMutationsPerReconcile` and is scaled down with the numbers of
networks and addresses so that the budget runs out at every place of a pass.
`MaxFaults` and `MaxEdits` bound what goes wrong and what is edited; both happen
at any point. A floating IP that does not exist is treated like one that
something else holds: `blockedNATRows` handles both alike.

### NodepoolScaling

State: the group upstream (`up`), which echoes the *requested* count, and the
worker VMs that follow it (`nodes`); the stored `spec` and Ready condition
(`ready`); and the reconcile's copies: the declaration it read (`sp`), the group
as Observe and then Update read it (`obs`), the condition it has set (`cond`).
`Observe` and `observeGroupNodes` are the two reads of Observe, `Update` is the
read that decides on the calls, then come `patchMetadata` and one of
`enableAutoscaling`, `disableAutoscaling`, `scaleNodes`. `Send` gives every call
the outcomes done, acknowledged and dropped, refused, done with the answer lost,
and timed out: the last is kept in `late` and may be carried out at any later
point. `touched` records that a late request or somebody in the panel has changed
the group since Update read it.

Labels and taints are one value, since both are compared as sets and replaced as
a whole. The guards against a switch between `presetName` and `resources` are left
out: the API server admits no such edit.

### FirewallRules

State: name, rules and services of the group upstream, the services of other
groups, and the reconcile's plan: `left` of the budget, `dels` and `adds`. A rule
is its canonical key; upstream a key may occur several times (`MaxCopies`). The
three GETs of Observe are one step, the listings that start `reconcileRules` and
`reconcileAttachments` and every write are steps of their own. `MaxOps` stands for
`maxFirewallMutationsPerReconcile`, scaled down so that the budget ends at every
place of a pass. That a service belongs to one group at most is enforced by
Timeweb; `attach` fails on a service of another group whether or not the reverse
lookup answers. Loops over Go slices go in any order here, so the order of the
code is one of them.

### AddressLease and its refinements

An address has one holder at most. It is taken only while it is free and by
somebody who was asked to take it, and released only by its holder once that is no
longer asked to keep it. Once somebody has worked in the panel a release may come
late and hit the next holder (`LateRelease`): Timeweb offers no conditional
request. `ServerFloatingIPs` maps its Servers to holders and the wants of their
reconciles to `asked`; `RouterUpdate` maps the router, with an address that is
being bound counted as held, and the NAT rows of the declaration a pass has
resolved. `KeepsLeases` is the abstract specification as a property of each.

### ClusterUpdate

State: the stored `spec`, `record` (`status.atProvider.integratedRouterID`), Ready
and connection Secret; upstream the cluster (`up`: name, version, the version it
is upgrading to, its router, active, placed in the zone that was asked for) and
per router whether it attaches the cluster's network with NAT (`net`); the Router
MRs (`robj`, `rpc`, `rserves`); and the reconcile's copies. `Observe`,
`kubeconfigConnectionDetails`, `ObserveReturns` (with `observeRouterIntegration`)
are the reads of Observe and the publication of the connection details;
`Update`, `UpdateClusterVersion`, `convergeRouterIntegration`, `attach` / `detach`
and `UpdateCluster` are Update in the order of the code. `RouterObserves` and
`RouterDelete` are the other controller. A cluster that refers to a Router connects
only while that is Ready. A Router is not Ready for reasons of its own
(`RouterBlocked`) and, from its first Delete on, refused or not, because the runtime
stores Ready=False with reason Deleting (`pending` in `robj`): a cluster integrated
with a Router whose deletion it holds up is frozen until its reference is removed.
`Converges` and `KubeconfigPublished` promise nothing to it until then; `Detaches`
says what happens then. A version is a pair of its numeric part,
which `versionNewer` compares, and its build metadata. `joined`, `declared` and
`missed` are history: what the properties have to know about the past.

### Cdn

State: the stored declaration, the identity in the TLS Secret, the two annotations,
the stored `status.atProvider.ssl` with the marker of the managed certificate; the
resource and the account's certificates upstream and the state of the issuing
task; the reconcile's copies. `computeSSL` and its branches are operators with
the structure of `ssl.go`. Observe mirrors its bookkeeping into the status, Update
computes it again on fresh reads and makes one change: `PatchCDNHTTPResource`, or
one of `upload`, `issue`, `bind`, `unbind`, `deleteOld`. Certificate ids are
reused. Settings are two sections, the delivery domains, which certificates wait
for, and everything else; a section that is not declared is not owned. `issueSpacing`
is a flag (`cooling`) that time resets.

### PresetCatalog, S3Bucket, S3User, ObjectStorage

A preset is an id, a size and a class. The cache keeps a list or a refusal for
`TTL` ticks and nothing that is transient. A rotation changes the class of presets
and of the buckets made from them under their ids, as the code's comments report
of Timeweb. A bucket's reconcile is `ObserveBucket`, then `resolvePresetID` and
`CreateStorage`, or `UpdateBucket` (GET, checks, preset) and `UpdateStorage` (PATCH),
or `DeleteStorage`. Timeweb may answer a GET without the class (`shown`), which costs
a fault: Observe then leaves the drift condition alone, and Update does not compare
the class. `unseen` records that a PATCH goes out whose Update did not see the class
the bucket has. A declaration may have no description (`NoDesc`), which equals an
empty one upstream and is not sent. A user's is `ObserveUser` with the grants Connect has resolved,
then `findUserByName`, `CreateStorageUser`, `PutAndPublish`, or `UpdateUser`, or
`DeleteUser`. A policy is what it allows on objects and on the bucket, from which
`DeriveLevel` works out the level that the bucket's status shows. `token` and
`admin` are the two credentials: the bearer token and the account's own keys,
which sign requests about policies.

## 3. Runs

| Run | Instance | Checks | Shows |
|---|---|---|---|
| `identity` | 2 MRs with one name and different presets, lists that may leave out the configurator, 3 ids, 2 or 3 s; each of the three shapes of Create with the faults it can stand | `AtMostOnePerIdentity`, `SoleOwner` | no duplicate, no shared resource |
| `nodepool_progress` | 1 nodepool, 3 ids, 4 s | `Reattaches`, `DeletionCompletes` | parking and wedging are always left |
| `floatingip_owner` | 2 Servers, 2 addresses, any list order, edits, faults and crashes at any time | `KeepsLeases` | Servers implement `AddressLease` |
| `floatingip_progress` | 1 Server, 2 addresses, a move in the panel, edits, faults and crashes at any time | `Converges`, `UnbindsRecordedFirst`, `ReleasesRecorded` | wanted addresses end up bound, recorded ones are let go of, before the VM is deleted |
| `router_converge` | 2 networks, 2 addresses, 1 subnet, budget 2, 2 faults, 2 edits | `Converges`, `BudgetKept`, `NeverDetachesLast`, `KeepsLeases` | convergence in paced passes; the budget holds but for failed calls; the last network is safe while no call was dropped; the router implements `AddressLease` |
| `nodepool_scaling` | declared 1 or 3 nodes or autoscaled 0..2, two sets of labels, 2 faults, 1 edit, 1 change by others | `ScalesExactly`, `Converges`, `Reported` | relative calls are exact and leave the autoscaler alone; group and Ready condition end up right |
| `firewall_rules` | 3 keys, 2 services, budget 2, 2 faults, 1 edit, 1 change in the panel, two refused declarations | `NoDuplicates`, `LinksBehindRules`, `Converges` | no rule is made twice, no service is linked before the rules are in place |
| `cluster_converge` | 2 routers, 6 declarations (upgrade, downgrade, lateral and unknown version, rename, both routers, derived zone), a fault, an edit or router deletion, a panel change or a Router that stops being Ready | `Converges`, `Detaches`, `PanelIntegrationKept`, `ServingRouterKept`, `KubeconfigPublished` | version and integration follow the declaration, the panel's integration and a router in use are left alone, the kubeconfig is published |
| `cdn` | 2 certificate ids, 3 identities of which one is refused, one declaration per mode, 2 attempts, a fault, an edit, a panel change | `SettingsConverge`, `Secured`, `BudgetKept`, `ForeignKept`, `RotatesOut`, `PurgeServed` | settings and certificate converge, Let's Encrypt is not flooded, nothing foreign is deleted |
| `storage` | 3 presets, 3 declarations of the bucket (two that differ in the description only, one of which has none; resizes undo a panel change), 2 of the user, a fault or an answer without the class, an edit, a panel or catalog change, deletions | `ClassKept`, `KeyPublished`, `BucketConverges`, `GrantsConverge`, `UserDeletes`, `MirrorFollows` | class, key, grants and mirror stay or end up right |

`identity`, `floatingip_owner`, `nodepool_scaling`, `firewall_rules` and
`cluster_converge` also check `TypeOK`. `identity` checks three kinds of MR in one
run: `Kind` is the nodepool of the configuration, and `MCIdentity` instantiates
`ExternalCreate` again for the other two. A firewall is known by its name alone, so
that two of different names do not meet and two of one name are one identity: there
one MR takes steps.

Each property has a mutant in `PROJECT.json`: a plausible slip in the mapped
definition that makes TLC find the property violated.

Two MRs are enough for the identity runs: every interference is between an MR
and one other that shares its name, or between an MR and itself later. Three or
four seconds allow a result, a later pending mark, a crash and an overwrite in
distinct seconds as well as all of them in one. Three ids allow a duplicate and a
recreation. Two addresses and two Servers give exchange and contention; two
networks give attach-with-detach, NAT swaps and the last network. Two faults allow
a request that times out, a retry that also goes wrong, and the late arrival of
the first; three nodes leave room to overshoot one declaration and undershoot
another. Three keys and a budget of two cut a pass between deletions and creations
and between rules and services. Two routers let an integration be moved and the
wrong one be deleted; a fault, an edit and a panel change in any order are what it
takes to lose a record and then need it. Two certificate ids give a rotation, a
duplicate, a reused id and a full account; a time to live of one tick a catalog
that is fresh, stale and fetched again within one behaviour. `identity`, `cdn`,
`cluster_converge` and `storage` have 0.3 to 1.7 million states: one more fault or
edit in each is beyond five minutes.

### Where the code and its documentation disagree

These runs end in a counterexample; the finding in `PROJECT.json` quotes the text.

| Run | Promise | What the code does |
|---|---|---|
| `nodepool_orphan` | "Delete removes the upstream worker group" | not before the first successful Observe |
| `floatingip_leak` | "the Server unbinds" a removed entry | not one bound since the last recorded Observe |

Smaller observations, made while modelling and kept without a run of their own:

- A clean first create of a router also looks for a namesake and adopts it: the
  runtime's own pending mark makes every create doubtful
  (`router_external.go:232`, whose comment at line 757 says otherwise).
- A kind without lookup that loses the answer to its POST posts again, and so it
  does when the operator clears its marker after a crash, although
  `docs/getting-started.md:224` says that this "cannot mint duplicates".
- A NAT address is not released when the budget ends just there, or when its
  network is detached (`docs/routers.md:70`).
- A Server deleted before its bind is recorded keeps the address bound; the list
  that Delete uses is the recorded one (hence the name `UnbindsRecordedFirst`).
- `bindFloatingIP` sends the server id as a `float32`, exact up to 2^24
  (`floatingip_bind.go:129`).
- Two nodepools of one name in one cluster, one sized by a preset and one by
  resources: the lookup compares no preset for the second and no configurator with a
  group that has none (`nodepool_external.go:263`), so that it accepts the first's
  group, although the comment at line 235 and `docs/release-notes/v0.11.1.md:19` speak
  of the full declared identity. It looks already on its first Create, since the
  runtime's pending mark makes that doubtful too: without any fault both MRs manage
  one group (`NamesOwn` and `SoleOwner` fail once the declarations are not `Separated`).
- Clusters of one name and zone of which one declares no project: that one's lookup
  accepts the other's (`cluster_external.go:422`).
- A failed unbind of a router's address is not counted against the budget (hence
  `+ faults` in `BudgetKept`), and an attach that was acknowledged and dropped is
  counted as attached (hence `faults > 0` in `NeverDetachesLast`).
- Two copies of one declared firewall rule hide that another one is missing, and
  no pass removes a copy: `rulesConverged` compares lengths. The provider itself
  never makes a copy (`NoDuplicates`), the panel can.
- Cluster: a 404 of the one kubeconfig fetch, or a failed publication, leaves the
  Secret empty for good (`cluster_external.go:147`). A cluster without
  `availabilityZone` is created in the derived zone and then refuses every update
  (line 322). A rejected version also keeps the rename and the integration waiting.
  A Router whose deletion is refused because the cluster uses it freezes the cluster
  as long as the reference stays: no upgrade, no rename, no kubeconfig
  (`refs.go:139`). An integration whose record is lost before the declaration is removed is never
  undone, and neither is one whose detach was acknowledged and dropped.
- Cdn: an uploaded certificate is never deleted in mode `none` and blocks issuing
  after a change from `custom` to `letsEncrypt`, since these modes list the
  certificates of the resource only (`ssl.go:391`, `docs/cdn.md:110`). The marker
  adopts a matching certificate that was uploaded in the panel. Of two quick
  rotations the middle certificate stays. A purge requested while a pass is
  removing the annotation goes with it. `mapsEqual` takes `{x: ""}` and `{y: "v"}`
  for equal (`external.go:1221`). Deleting a Cdn leaves its certificate behind.
- S3Bucket: `docs/s3bucket.md:104` promises that a declared class other than upstream's
  is "refused fail-closed", but an answer without a class is not compared
  (`s3bucket/external.go:280`; `external_test.go:334` has the case for Observe), and if
  the size was edited too the PATCH carries the declared class's preset and moves the
  bucket (hence `unseen` in `ClassKept`). A removed description is compared (line 433)
  and never sent (line 290): the bucket keeps it and is patched in every pass, although
  `docs/s3bucket.md:102` says "PATCHed as-is" (hence `NoDesc` in `BucketConverges`).
  An edit of `initialSizeGB` alone never reaches Update
  (`s3bucket/external.go:429`; `docs/s3bucket.md:51` says that it is PATCHed), nor
  does one of `name`, which is not rejected then and goes into the policies of
  users. A cached 401 outlives a fixed token for the lifetime of the cache.
- S3User: a Create that fails after the POST loses the key for good, and the next
  Observe reports the user ready (`s3user/external.go:158` calls the failure
  "sticky"). A user whose account keys cannot be derived is not deleted: Connect
  lets it pass, but Observe cannot read the policy. Duplicate grants hold back
  the deletion too.

### Fairness

- The runtime's work queue retries every MR for ever, so reconcile steps are
  weakly fair. Steps that depend on Timeweb agreeing (`Create`, `PostSucceeds`,
  a `Delete` that takes effect, `UnbindOK`, `BindOK`) are strongly fair: a request
  that is sent again and again is not refused every time.
- The operator follows the runbook of a wedged MR and the message of a parked one
  (weak fairness of `ClearPending` and `RestoreName`), and overwrites of the
  annotation come to an end (`OverwritesEnd`), as the parked condition tells him.
- In `RouterUpdate` faults and edits are bounded by counters, so weak fairness of
  the reconcile, of provisioning and of address listing is enough.
- In `NodepoolScaling` and `FirewallRules` faults, edits and outside changes are
  bounded too: weak fairness of the reconcile is enough, with Timeweb provisioning
  the VMs it accepted and its autoscaler keeping to the bounds (`Provisioning`,
  `KeepBounds`). A request that timed out need not arrive.
- `ClusterUpdate`, `Cdn` and `ObjectStorage` bound faults, edits and outside changes
  as well. Weakly fair are the reconciles (of the Routers too), provisioning and
  upgrades, the end of an issuing task, and the passing of time. Fairness is not
  assumed of the operator, the panel, or of a router ever getting NAT: the
  properties say what holds while it has none.
- `storage` allows deadlock: a bucket or user that can make no step because its
  declaration is refused for good, or that is gone, may be all there is.
- `Converges` of the Servers excludes addresses held elsewhere earlier in the
  list: `reconcileFloatingIPBindings` returns at the first error, so such an
  address blocks the ones after it.

## 4. Proofs

`ExternalCreateProofs` proves, for every number of MRs, ids and seconds:

- `TypeCorrect`: `Spec => []TypeOK`;
- `NoDuplicates`: with distinct declared identities and a kind that looks before
  it posts, `Spec => []AtMostOnePerIdentity`;
- `NoSharedResource`: for every kind, looking or not, and declarations that are
  `Separated`, `Spec => [](NamesOwn /\ SoleOwner)`.

The inductive invariant is `IdentityInv`. `AtMostOnePerIdentity` alone is not
inductive: a POST must start from no match (`PostIsAlone`), which the lookup
ensures only if it runs, which needs a doubt whenever a resource exists that the
annotation does not name (`CreateLooks`, `StrayIsDoubted`: a failed mark, or a
success older than the clock, so that the pending mark is newer), and a
reconcile that already observed "missing" must not be overtaken
(`ObservedIsGone` with the 409 on stale objects). It does not need the lookup to be
exact: an MR always finds its own (`OwnFound`), and adopts only a sole match, so one
that adopts another's has nothing of its own. `IdentityKept` states the invariant.
`NoSharedResource` has another one: `NamesOwn`, every name an MR stores, remembers or
holds was created for its identity. Adoption keeps it because with `Separated` a
lookup returns nothing else (`FoundIsOwn`); distinct identities then give `SoleOwner`.

- `NothingLeftBehind`: `Spec => []DeletionLeavesNothing`, and
- `BlindCreateIsSafe`: `Spec => []AtMostOnePerIdentity`, both for
  distinct identities and `NothingLost`: any kind but the nodepool, whether it looks
  before it posts or not, and no crash, lost answer or overwritten annotation.
  Failed creates, flapping reads, refused deletes, upstream losses and deletions
  requested in the middle of a create remain. The invariant (`TrackedInv`) is that
  what an MR has upstream is what its annotation names or what its reconcile is
  about to record. Each exclusion is needed: with any one of the three faults a
  created resource may be named nowhere, and the nodepool loses track of its own
  without a fault (run `nodepool_orphan`).

`ServerFloatingIPsProofs` proves, for every number of Servers and addresses:

- `TypeCorrect`;
- `LeasesKept`: `Spec => KeepsLeases`, the refinement of `AddressLease`, from
  `PlanInv`: until somebody works in the panel a planned unbind is of an address
  the Server holds and does not want, for only its holder ever unbinds an address,
  and a planned bind is of one it wants;
- `RecordedUnboundFirst`: `Spec => UnbindsRecordedFirst`, from `DeleteCovers`: once
  a reconcile that deletes has planned its unbinds, every recorded address is
  still planned or no longer the Server's.

`NodepoolScalingProofs` proves, for every set of declarations and every bound:

- `TypeCorrect`, which includes that an autoscaled group never has a minimum above
  its maximum, also through late requests (`EnableIsDeclared` carries the declared
  bounds to the call);
- `ExactScaling`: `Spec => []ScalesExactly`. The inductive part is `ReadHolds`
  (what Update read of flag and count still holds at its calls unless `touched`)
  with `ScaleIsGated` (a scaling call is planned only when that read showed the
  autoscaler off);
- `EveryCallCounts`, the safety half of `Converges`: `Owed` measures how many of at
  most three calls a group is away from a declaration, and every change a reconcile
  makes decreases it unless `touched`. `ObserveAgreesWithUpdate` says that nothing is
  owed exactly when Observe finds nothing to do, which is exactly when Update would
  send nothing. The invariant (`OwedInv`) is that a call is planned only if Update's
  reading owes it, and that the fields it depends on are still as read: the count
  only while the autoscaler is off, for the autoscaler moves it.

`FirewallRulesProofs` proves, for every set of rules, services and declarations
and every budget:

- `TypeCorrect`, which includes that the budget never goes below zero;
- `NoDuplicateRules`: `Spec => []NoDuplicates`, from `AddsAreMissing` (a key still
  to be created has no rule upstream until somebody works in the panel);
- `RulesBeforeServices`: `Spec => LinksBehindRules`, from `RulesTracked` (while the
  rules are worked on, upstream plus plan is the declaration unless `touched`) and
  `RulesDone` (budget left among the services means the rules were finished);
- `QuietIffDeclared`, for a finite set of rules: as long as nobody works in the panel,
  Observe finds an accepted declaration up to date exactly when the group is as
  declared. `rulesConverged` compares numbers of rules and looks up each declared
  one, which is right only because no key has two rules (`ListedAsPresent`);
- `WritesTowardsDeclared`: a reconcile removes no rule or service of the declaration it
  has read and adds none that is not in it, from `WorkIsDue` (what is still to be
  done was asked for by that declaration). It holds with panel changes, too.

`RouterUpdateProofs` proves, for every set of networks, addresses and subnets,
every declaration and every budget:

- `TypeCorrect`;
- `BudgetHolds`: `Spec => []BudgetKept`, from an invariant that relates the counter
  of the code to the calls sent: they differ by failed unbinds only;
- `LeasesKept`: `Spec => KeepsLeases`. The invariant says that an address about to be
  unbound was, when it was looked at, the router's own and in no row of the
  declaration, and that only the panel can have changed that since;
- `LastNetworkKept`: `Spec => NeverDetachesLast`, from `NetsTracked`: while nothing has
  gone wrong the attached networks are the declared ones and those yet to be
  detached, and no network is both, so that the count in the guard of the detach is
  the number of networks the router has;
- `NothingRightUndone`: whatever part of the router is as the pass's declaration has it
  (label, attachment, DHCP, NAT of each network, each route), no call of that pass
  undoes. It needs `ReleaseHeld`, because the release of an address ends all NAT on
  it, and `UndoesWrong`, because routes are replaced by a delete and a post.

`ClusterUpdateProofs` proves, for every set of routers, declarations and versions:

- `TypeCorrect`, which includes that the cluster's version is always one of the
  catalog: `VersionOffered` carries the check of `reconcileVersion` to its request;
- `PanelsOwn`: `Spec => []PanelIntegrationKept`. The invariant (`Records`) is that a
  record, stored or in memory, and a declared router in a reconcile's copy of the
  declaration each imply that a router was declared at some time;
- `RouterKept`: `Spec => ServingRouterKept`: while a Router's reconcile is about to
  delete, a cluster that uses the router was seen by it or has joined since;
- `OnlyDeclaredWritten`: each step of a reconcile changes the cluster only towards the
  declaration it has read, and changes nothing when Update's checks reject that
  declaration. The invariant (`Admitted`) carries the checks to the requests: from
  `reconcileVersion` on, `sp` and `obs` are the ones that were let through. The
  version asked for is newer than the one *read*; that it is newer than the one the
  cluster is upgrading to is Timeweb's own doing (`Upgraded`), because an upgrade may
  finish between the GET and the PATCH.

`ObjectStorageProofs` proves, for every catalog, declarations and bounds:

- `TypeCorrect`, which includes that no POST is sent without a preset and that the
  cache never holds a transient answer;
- `KeysPublished`: `Spec => []KeyPublished`, from invariants that number the users: one
  that Create has made or found is the one upstream or gone, its key is in Create's
  hands, in the Secret or lost, and no two users share an id;
- `ClassesKept`: `Spec => ClassKept`, from `PatchInv`: a PATCH that carries a preset
  follows a GET that showed the declared class, and until the panel moves the bucket
  that preset is of the bucket's class, by what Timeweb sells now, although it may
  come from a cached catalog of before a rotation. A GET that showed no class is
  excused (`unseen`), since the code then compares none;
- `GrantsRoundTrip`: the level that `DeriveLevelForBucket` reads from a policy the
  provider has written is, on every bucket, the level of the resolved grants. It
  rests on `RenderedLevel`, about the two operators, and on the invariant
  `Unambiguous(uread)`: `resolveGrants` refuses two grants on one bucket, and the
  levels are those of the CRD's enum (`UserAssumption`).

`CdnProofs` proves, for every set of declarations, certificates and identities and
every bound:

- `TypeCorrect`, which includes that the status never counts more attempts than the
  budget, and that the bound certificate exists;
- `BudgetHolds`: `Spec => []BudgetKept`. The invariant (`Charged`) is that the requests
  sent in a budget are at most those the status counts, stored or in memory, and
  those whose write was lost. It needs `Decided` (a request is planned only while the
  status in memory is below the limit) and with it `KeyIsCurrent`: Update computes
  the action again, and its budget would be a fresh one if the key it sees were not
  the one Observe has just stored;
- `OnlyOwnDeleted`: a deleted certificate is Let's Encrypt's or has the common name and
  day of expiry of one the Secret has had, unless the panel acted between Update's
  read and the call. The invariant (`OwnInv`) is that every marker, stored or in
  memory, carries the face of a certificate the Secret has had;
- `ForeignSafe`: `Spec => ForeignKept`, assuming that no two identities share common name
  and day of expiry. The assumption is needed: the marker is an id and that face, and
  if the panel replaces the certificate under the marker's id by one with the same
  face, the provider deletes it. A delete whose answer is lost and one upload in the
  panel that gets the freed id are enough;
- `ServesTheDeclared`: no step of a reconcile writes a section that is not declared,
  unbinds unless the mode is `none`, or binds a certificate other than the Secret's or
  Let's Encrypt's. The invariant (`FitInv`) carries what `computeSSL` decides
  (`ComputeFit`, case by case) to the call that does it.

Every invariant and every action property of the runs that pass is thereby a theorem.
Several theorems state what no run does, because they are the part of a liveness
property that safety can express: each step goes towards the declaration, and none
back.

Only model-checked: liveness (`Reattaches`, `DeletionCompletes`, `ReleasesRecorded`,
`Detaches`, `Reported` of the nodepool, `KubeconfigPublished`, `SettingsConverge`, `Secured`,
`RotatesOut`, `PurgeServed`, the properties of `storage` after `ClassKept`, and every
`Converges`), which is out of this prover's reach: it needs the fairness of `FairSpec`
and with it `ENABLED`.

## 5. Not modelled

Events and their wording, print columns, request signing, generated code and API
types carry no control. Of the 78,000 lines of Go about 51,000 are the generated
client and its generated fake and several thousand more are generated deep-copy
code; the map covers the hand-written controllers that carry state between calls.

- Addon, Project, SSHKey, Network, FloatingIP and container registries: past
  creation, which `ExternalCreate` has, each is a single PATCH or none.
- Selection by slug and of configurators: matching of text, without state.
- A POST that takes effect after its client has given up and looked again is
  outside every lookup's reach and is excluded from `ExternalCreate`; the same
  holds for the creation of a firewall rule.
- Two MRs that declare one identity: both may list nothing and then both POST. The
  lookup does not arbitrate this; `DistinctIdentities` excludes it.
- Concurrent callers of the catalog's cache: each controller has one worker and a
  cache of its own.
- An edit of an S3User's name, which Update rejects before it writes anything
  (`s3user/external.go:200`). The declaration is a set of grants here; grants of a
  renamed user would wait for the name to be put back.
- A bucket's description declared as empty, which unlike none at all is sent.
- In mode `letsEncrypt` the branches that unbind, delete or refuse an upload in the
  list of the resource (`ssl.go:264`): that list never holds uploads (`ssl.go:386`).
- The Cdn's wait for the bucket its origin refers to, and the project of a bucket.

Servers and Routers are modelled apart: both keep to `AddressLease` towards
everybody else, who appears as `Elsewhere`.

## 6. Plan

1. Done: the modules above with their runs, the refinement of `AddressLease`, and
   proofs about all of them.
2. Done: `NeverDetachesLast` and `ForeignKept` as theorems, and for nodepool,
   firewall, router, cluster, Cdn and S3User theorems that their writes go towards
   the declaration.
3. The same for the order of a Server's binds, and decreasing measures, as `Owed` is
   for the nodepool, for firewall and router.
4. Models of the addon controller and of the container registry.
