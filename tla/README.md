# Crossplane Service Broker in TLA+

The broker implements the Open Service Broker API on top of Crossplane. It keeps
no state: service instances and bindings are objects in the Kubernetes API, and
a request is a sequence of API calls. Other requests, the Crossplane controllers
and the garbage collector run between any two of these calls. That is where the
difficulties are, and what these modules are about.

Paths are relative to the repository (`src/` in `PROJECT.json`).

## Inventory

| Part | Code | State | Operations | Made correct by |
|---|---|---|---|---|
| Catalogue | `pkg/crossplane/plan.go`, `Plan` and `Plans` of `client.go`, `metadata.go` | Compositions in the cluster | look up, list, compare plans | the update rules; labels parse; names are unambiguous |
| Service instances | `pkg/brokerapi/broker.go`, `pkg/crossplane/client.go`, `instance.go` | composites in the cluster | Provision, Update, Deprovision, GetInstance, LastOperation | labels agree with the Composition; plan changes follow the rules; answers are true; databases keep their parent |
| Binder for databases | `pkg/crossplane/service_mariadb_database.go` | Secret, composite, User and connection secret of a binding | Bind, Unbind, GetBinding, ValidateProvisionParams | credentials stay valid until Unbind; Unbind leaves nothing |
| Binder for MariaDB | `service_mariadb.go` | none | Deprovisionable | no instance is deleted under a database |
| Binder for Redis | `service_redis.go` | none | ValidateProvisionParams, Bind, Unbind, GetBinding | parameters are normalised; errors are told apart |
| Catalogue endpoint | `Services` and `servicePlans` of `broker.go`, `ServiceXRDs` and `Plans` of `client.go`, `domain.go` | XRDs and Compositions in the cluster | Services | what is in order is offered, whatever is wrong with the rest |
| OSB adapter | `pkg/brokerapi/brokerapi.go` | none | one handler per OSB call, error conversion | every request is answered |
| Authentication | `pkg/api/api.go`, `pkg/api/auth` | two counters, the request context | route, Basic, Bearer, principal | only authenticated requests are served, in the right name |
| Configuration | `pkg/config/config.go` | none | ReadConfig | nothing is served with an incomplete configuration |
| Process | `cmd/crossplane-service-broker/main.go` | signal channel, HTTP server | start, wait, shut down | it stops when told to, and drops no request when it exits cleanly |
| Context and logging, test utilities | `pkg/reqcontext`, `pkg/integration` | none | – | – |

Interactions. `main` builds configuration, client, broker and router and serves
HTTP. A request passes the authentication middleware, which puts method, user or
token into its context, and reaches a handler of `BrokerAPI`, which calls
`Broker`. `Broker` finds plan and instance through `Crossplane` and asks
`ServiceBinderFactory` for the binder of the service. The principal in the
context is read again only when `CreateInstance` prepares the labels. Requests
share nothing but the cluster and the counters.

What is hard here: check-then-act over several API calls (a parent is checked
and then used; databases are listed and then the parent is deleted); optimistic
concurrency on `resourceVersion`, which Update relies on and Delete does not
use; a search that reads an object once per plan; bindings made of several
objects that are written one by one, so that any call can fail in between; a
platform that retries; controllers and the garbage collector acting late; an
administrator who changes the catalogue while it is being read; instances and
their bindings being removed by handlers that know nothing of each other;
signals and server errors sharing one channel. `PROJECT.json` lists them, with
their lines, under `hazards`.

## Modules

| Module | Models | Composes |
|---|---|---|
| `Catalog` | plans, lookups, `AllowUpdate` | |
| `PlanLabels` | `parseLabels`, `getPlanSize`, `parsePlanUpdateRules` on sequences of lexemes | |
| `Instances` | the instance operations | extends `Catalog` |
| `InstanceRegistry` | what the instance operations promise: an atomic registry | extends `Catalog` |
| `InstancesRegistry` | the refinement of `InstanceRegistry` by `Instances` | extends `Instances`, instantiates `InstanceRegistry` |
| `Bindings` | the binding operations of the three binders | |
| `Lifecycle` | instances and the bindings of a database together | extends `Instances`, instantiates `Bindings` |
| `LiveCatalog` | the catalogue endpoint and plan lookups while the catalogue changes | |
| `Auth` | routes, middleware, principal | |
| `Config` | `ReadConfig` as a function of the environment | |
| `Server` | `main` and `run` | extends `Config` |
| `InstancesProofs` | theorems about `Instances`: types, labels, plan changes, searches | extends `Instances` |
| `InstancesRegistryProofs` | theorems: the registry is implemented | extends `InstancesProofs`, `InstancesRegistry` |
| `InstancesParentProofs` | theorems about parents | extends `InstancesProofs` |
| `BindingsProofs` | theorems about `Bindings` | extends `Bindings` |
| `LifecycleProofs` | theorems: `Lifecycle` implements `Bindings`; what instances and bindings are on outlives them, if the platform is orderly | extends `Lifecycle`, `InstancesParentProofs` |
| `LiveCatalogProofs`, `AuthProofs`, `ServerProofs` | theorems about `LiveCatalog`, `Auth`, `Server` | extend these |
| `MCInstancePlans`, `MCInstanceParents`, `MCBindings`, `MCLifecycle`, `MCLiveCatalog`, `MCAuth`, `MCServer` | constants for TLC | |

### Instances

`composites[<<kind, id>>]` is the API server; an object has the Composition it
refers to (`plan`), its parameters, the labels the broker reads, the reason of
its Ready condition and whether it is being deleted. `task[w]` is a goroutine:
at which API call it is, its request, the plan it found and the copy it read.
Versions are not counted: `fresh` is the set of workers whose copy has the
version that is stored, and every write takes the other readers out of it, so
the state stays finite whatever the number of writes. `late`, `steady`,
`known` and `moved` only record history for the properties.

One action is one call on a composite together with the code up to the next
such call: `ProvisionGet` (`Provision` up to `CreateInstance`),
`ValidateProvisionParams` (the parent of a database), `CreateInstance` with
`prepareLabels`, `GetPlanInstance` and one iteration of
`FindInstanceWithoutPlan` (each continuing with the handler of the request),
`UpdateInstance`, `Deprovisionable`, `DeleteInstance`. `Abort` is a failing call
or a cancelled context anywhere. `Reconcile` and `Finalize` stand for Crossplane.
Lookups of Compositions take no step, because the catalogue does not change in
this model (it does in `LiveCatalog`). A response is a class (`accepted`, `exists`, `gone`, ...) and not an
HTTP code; `panic` stands for the failing type assertion on a parent reference,
which `net/http` recovers from by closing the connection. A database provisioned
without any parameters is not validated and has no parent; the properties about
parents say so with `NoParent`.

A database names its parent twice, in a label and in its parameters. Provision
writes both; Update writes the parameters only. `Children`, the list
`Deprovisionable` makes, goes by the label; `Bind` and `GetBinding` go by the
parameters (`ReferringTo`). A database that was provisioned without a parent, or
with another one, and is then given to an instance by an Update is therefore not
in the list, and the instance can be deprovisioned under it however long the
database has been there. `OnlyLateDatabasesLoseParent` says that these
databases (`moved`), and those created after the list was read, are all that can
lose their instance; `parent_label` finds the step that makes a database one of
them.

### The registry

`InstanceRegistry` has no workers, copies or versions. An entry is an instance
with its plan, its parent, the principal who made it and whether it is ending;
every request takes effect and is answered in one step. `InstancesRegistry` maps
a composite to its entry and states that `Instances` implements this: a response
given after several API calls is still one an atomic operation would give at
that moment. The registry fixes more than the invariants do: an accepted
Provision is in the caller's name; an Update replaces the plan the instance
*now* has, and nothing else, along the rules; a Deprovision that is answered
with success found something to delete; `inUse` is answered only when a database
has the instance in its label at that time; `gone` only when the instance is not there;
and a refused request changes nothing. It leaves open which refusal is given,
and it does not promise that a search finds an instance, because it may not (see
`find_misses`), nor that a parent outlives its databases (see
`dangling_parent`). That `Instances` implements the registry is checked by two
runs and proved in `InstancesRegistryProofs`.

### Bindings

`secret`, `cmp` and `user` are the three objects of a binding of a MariaDB
database, `db` the instance that is bound, `service` its service, `conn` its
connection secret and `parent` the MariaDB instance under a database: the one in
its parameters, which is also the one in its label as long as no Update has
changed it; after that the lookup by label may fail where the parent exists,
which only `Abort` stands for. The owner
of the Secret is `none`, `live` (the existing User) or `dead` (a User with
another UID). `secretFresh` and `userFresh` play the role of `fresh`. The actions
follow `Bind`, `createBinding`, `markCredentialsForDeletion`, `Unbind` and
`GetBinding` call by call; the controllers and the garbage collector are
external, and instances come and go at any time and can be provisioned again.
`ServiceBinderFactory` picks the binder by the service: the one of MariaDB only
has errors, the one of Redis reads the connection secret of the instance.
`LastBindingOperation` is `GetBinding` with another answer: `BinderFailed` turns
an error that is not an API error into the state failed, also when it was
transient, which is what `Abort` then answers. `Overlap` and `Rebind` say what
the platform does: OSB platforms serialise requests for a binding, and the runs
are made with and without that assumption.

### Lifecycle

`Instances` and `Bindings` share nothing but the cluster. `Lifecycle` runs both:
a MariaDB instance, a database that refers to it, and bindings of the database.
What is a variable of `Bindings` there (`db`, `parent`) is here read off the
composites of `Instances`: absent, there, or ready, which is the Ready condition.
`ImplementsBindings` says that the composition satisfies `Bindings`: what that
module assumes of its environment is no less than what Provision, Deprovision
and the controllers do, so what is checked of `Bindings` holds here, too; `LifecycleProofs` proves it.
Nothing in the code keeps a database with bindings from being deprovisioned, and
Deprovision of a MariaDB instance looks for databases before it deletes
(`dangling_parent`). The constant `Orderly` says whether the platform keeps the
order of things. If it does (`MayCall`), it

- unbinds before it deprovisions the database, and counts a binding as gone only
  when Unbind has succeeded (`held`);
- does not use an instance it has asked to deprovision until it has made it
  again (`retired`);
- waits for the answer before it sends the next request that makes or removes an
  instance, or the one it is on (`InFlight`).

It may still ask for the MariaDB instance to be deprovisioned while the database
is there: refusing this is the broker's part (`Deprovisionable`).
`DatabaseOnInstance` says which requests the platform has: `m` is provisioned as
a MariaDB instance, `d` as a database whose parent parameter is `m`. For this
platform `DatabaseKeepsInstance` shows that a database never loses its MariaDB
instance, and `BindingsKeepInstances` that a binding never loses either; both are
proved for any number of handlers. For any other platform only
`ImplementsBindings` is claimed.

### LiveCatalog

`compositions` and `xrds` hold the labels of the objects, which an administrator
changes or removes at any time, also to some that do not parse. A worker reads
the catalogue (`Services`, then `servicePlans` once per XRD), looks a plan up, or
lists the plans and goes through them in the order of their names, where plans of
the same name, of different services, come in any order (`First`); `CreateInstance` copies the labels as
they were when the plan was read. `touched[w]` is what was changed since the
request of `w` came, `task[w].had` the instances there were then, `broken[w]` the services that had a Composition that does
not parse, `drifted` the instances whose Composition was changed after its
labels were copied. The properties are about what was *not* touched: it is
offered, and its instances are found, whatever happens to the rest. Two
Compositions of the same kind with one plan name are excluded (`Unambiguous`),
at any one moment; a name may move from one to another.

### Auth, Config, Server

`Auth` has one step between any two accesses to shared counters. `Handler` counts
a request as the first thing it does, and `Unauthorized` counts a failure. A scrape
of `/metrics` passes by the middleware; the Prometheus handler then reads the two
counters one after the other, in any order (`ReadTotal`, `ReadFailed`), and other
requests go on in between. Read in the wrong order, they may show more failures
than requests, namely by those that came between the two reads;
`ScrapeWithinTotal` says that this is all that can be wrong. Whether a token
verifies is an attribute of the header, because the check is the jwt library's.
A token that does not verify is answered by the jwt library, and not counted.
`Config` abstracts the text of a variable to what its parser distinguishes.
`Server` has the main goroutine, the serving goroutine, the channel of capacity
one and the grace timer; `Shutdown` is net/http's: it closes the listener, waits
until the listener it knows of is gone and no connection is active, or until the
context expires. It does not wait for a goroutine that has not listened yet, which
finds the server shut down and returns. `ExitTellsWhy` says what the exit code
tells: code 0 is for a signal, never for a failure of the listener alone, and
leaves no request unanswered; the error code is for a start that failed, a
listener that failed before any `Shutdown`, or a grace period that ran out. `Receive`
is where signal and failure are told apart.

## Runs

| Run | Question | Result |
|---|---|---|
| `inst_plans` | do labels, Composition, responses and rules stay consistent when one instance is provisioned, updated, searched and deleted concurrently, is every request answered, and as by an atomic registry? | holds |
| `inst_parents` | can a database lose its parent other than by being created after the check or by having been given to the instance by an Update, have a parent that never was one, or can a search miss an instance whose plan changes in the order of the list? is the registry implemented with two services, too? | no; yes |
| `bindings` | do overlapping or failing requests ever invalidate credentials, or lose a binding that was reported as bound? | no |
| `bindings_serial` | without overlap, for each service: does a binding keep its Secret, does Unbind remove everything, is "binding does not exist" true? | yes, except that a missing User is reported as a missing binding |
| `lifecycle` | can a database or a binding lose an instance it is on when the platform keeps the order? does `Bindings` allow for what `Instances` does? | no; yes |
| `catalog` | what do changes of the catalogue, and objects that do not parse, do to what is offered and found? | nothing to what was not touched, except that a Composition that does not parse hides its service's other plans and makes every search fail |
| `auth` | who is served, what does a scrape show? | only who is authenticated; more failures than requests at most by those counted between its two reads |
| `server` | does the process stop when told to, say why, and serve only when configured? | holds, but not while signing keys are being fetched |
| `find_misses` | does the search miss an instance while it is updated? | it can |
| `dangling_parent` | can a database be left without its parent? | it can |
| `parent_label` | do the parent label and the parent parameter agree? | not after Update |
| `unbind_overlap` | does Unbind clean up when requests overlap? | not always |

The last four refute what a comment or a test says; `findings` quotes them. Two
more places where text and code differ are visible in the models and have no run
of their own:

- `Provision` answers AlreadyExists to a request without parameters whatever the
  parameters of the existing instance are (`ProvisionGet`), while
  `pkg/brokerapi/broker.go:91` says that only instances without any parameters
  are considered equal.
- A Bearer token that does not verify does not count as a failed authentication
  (`BearerHandler`), while the metric of `pkg/api/auth/middleware.go:60` is "The
  total number of failed authentication attempts."

Bounds. `inst_plans` has one ID and four plans (two sizes, two SLAs, rules that
allow small to large and both SLA changes): a third worker adds no new pair of
overlapping requests, and every property is about one object. `inst_parents` has
one ID for the parent and one for the database, which can also be named as its
own parent, and two plans of the MariaDB service with a rule that leads from the
first in the list to the second: a search for the parent, which goes through all
plans, meets an update of the plan it looks for, and an update back is refused.
`find_misses` shows what happens when a rule leads back. `bindings` has one binding, because no call touches the objects of
two, and three passwords, so that a retry, a replaced Secret and a published
password can all differ; it leaves out LastBindingOperation, which makes the
calls of GetBinding and is in `bindings_serial`. `lifecycle` has one
instance, one database, one binding and one worker for the binding, because every
property is about these three, and two workers for the instances, so that a
Deprovision of the one can overlap what an orderly platform lets overlap with it.
The binding is bound and unbound, not looked at, and the parent's connection
secret is published all at once. Because the platform is orderly there, no database is
removed under a binding and none is made without parameters, so that
`ImplementsBindings` does not meet these cases in that run. For a platform that keeps no order, two workers
for the instances are too many for a run of minutes: `ImplementsBindings` is
proved for it, and `MCLifecycleDisorderly.cfg` checks it with one worker, which
also updates the database (`tlc -config MCLifecycleDisorderly.cfg MCLifecycle`,
193 000 states).
`catalog` has two Compositions, two XRDs, two configured services
and one that is not; the labels make plans move between services, swap names,
lose their metadata and stop parsing. `MaxTouched` bounds the objects that are
changed during one request by two, which is enough for a plan and the one it is
confused with. It has one worker: what requests do to each other is the subject
of `Instances`, and the catalogue is changed by none of them. `auth` has two workers, two credentials, so that their parts can
be mixed up, and at most three requests to the broker (`MaxRequests`): one worker
can scrape while the other has requests counted, and refused, between the two
reads. `server`
has two requests and seventeen environments: a complete one, and the complete one
with one or two variables changed. Workers, passwords, Compositions and XRDs are
symmetric where no liveness is checked; the registry, which `inst_parents`
refines, has no workers. `server` ends, so deadlock is not checked there.

`MCInstancePlans` also evaluates assumptions: what `parsePlanUpdateRules` and
`getPlanSize` return is compared with a reference over all rule strings and plan
names of bounded length. `CatalogFits`, there and in `MCInstanceParents`,
says which hypotheses of the theorems the catalogues of the runs satisfy: that of
`inst_plans` is unambiguous but allows updates against the order of the list,
which is why `find_misses` finds something there, that of `inst_parents` satisfies
all of them. `RequestsFit` in `MCLifecycle` says the same of the requests of an
orderly platform.

Fairness. `Instances` and `Bindings` assume weak fairness of each worker's steps
(goroutines are scheduled, and API calls return, be it with an error); `Abort` and
the controllers are not fair. `UnbindCleansUp` also assumes the garbage collector
to go on. `Server` assumes it for both goroutines and the timer, but neither that
a handler ever finishes nor that a key server answers: the fetch of the signing
keys has no timeout, so with a server that accepts a connection and never
answers, the process ignores SIGTERM. `SignalStops` therefore speaks of a signal
once no keys are being fetched, also of one that came before. Kubernetes' client
has timeouts of its own for what `crossplane.New` asks the API server.

## Proofs

TLAPS checks the theorems below for all values of the constants that satisfy the
named assumptions of the modules: any catalogue, any number of instances,
bindings, workers, requests and changes. The assumptions that are not about
shapes, or about marks such as `Absent` being none of the values, are these:
`PlanList` is sorted by name (`CatalogAssumption`), which is what `Plans` of
`client.go` does, and the goroutines of `Auth` are finitely many. What a theorem
assumes beyond that about the catalogue or the platform is a hypothesis of the
theorem:

| Hypothesis | Meaning | Why it is needed |
|---|---|---|
| `UniquePlanNames` | kind and plan name determine the plan | an instance is found by kind, ID and plan name; otherwise the broker takes it for one of another plan |
| `OneNamePerService` | the plans of a service have the same service name | an update within a service writes plan name and SLA, and leaves the service name as it is |
| `KindsOfServices` | composites of the kinds the binders look for belong to their services | the binders find a parent by kind, and `ServiceBinderFactory` decides by service name who checks it |
| `AllPlansListed` | the list a search goes through has every plan | the search looks nowhere else |
| `UpdatesGoForward` | no update leads to a plan earlier in the list | otherwise an update can overtake a search, see `find_misses` |
| `Orderly` | the platform keeps the order of things, as `MayCall` states | nothing in the broker keeps a database with bindings, and a Deprovision that has looked for databases deletes what gets one meanwhile |
| `DatabaseOnInstance` | `m` is made as a MariaDB instance, `d` as a database on it | says which instances the theorem is about |
| `~Overlap`, `~Rebind` | the platform has one request per binding in flight, and does not reuse IDs | see `unbind_overlap` |

`UpdatesGoForward` is a strong hypothesis: size and SLA are parts of a plan's
name and the list is in the order of the alphabet, so of an SLA change that is
allowed in both directions one goes backward. It holds where the rules allow no
change, or where the names happen to be in the order of the changes.

| Theorem | Property | Hypotheses |
|---|---|---|
| `InstancesProofs.TypeCorrect` | `TypeOK` | |
| `InstancesProofs.LabelsAlwaysMatch` | `LabelsMatchPlan` | unique plan names, one name per service |
| `InstancesProofs.PlanChangesArePermitted` | `PlanChangesPermitted` | the same |
| `InstancesProofs.SteadyInstancesAreFound` | `SteadyInstanceFound` | the same, and `AllPlansListed`, `UpdatesGoForward` |
| `InstancesRegistryProofs.RegistryIsImplemented` | `ImplementsRegistry` | unique plan names, one name per service |
| `InstancesRegistryProofs.ReportedPlansAreStored` | `ReportedPlanIsStored` | the same |
| `InstancesParentProofs.ParentsWereInstances` | `ParentWasInstance` | `KindsOfServices` |
| `InstancesParentProofs.OnlyLateDatabasesAreOrphaned` | `OnlyLateDatabasesLoseParent` | `KindsOfServices` |
| `BindingsProofs.TypeCorrect` | `TypeOK` | |
| `BindingsProofs.HandedPasswordsAreStored` | `HandedPasswordIsStored` | |
| `BindingsProofs.BoundBindingsAreFound` | `BoundIsFound` | |
| `BindingsProofs.SecretsAreKept` | `CredentialsStay` | |
| `BindingsProofs.LiveBindingsHaveSecrets` | `LiveBindingHasSecret` | `~Overlap`, `~Rebind` |
| `BindingsProofs.GoneMeansUserMissing` | `GoneOrUserMissing` | `~Overlap`, `~Rebind` |
| `LifecycleProofs.BindingsAreImplemented` | `ImplementsBindings` | |
| `LifecycleProofs.DatabasesKeepTheirInstance` | `DatabaseKeepsInstance` | `Orderly`, `DatabaseOnInstance`, `KindsOfServices` |
| `LifecycleProofs.BindingsKeepTheirInstances` | `BindingsKeepInstances` | the same |
| `LiveCatalogProofs.TypeCorrect` | `TypeOK` | |
| `LiveCatalogProofs.UntouchedServicesAreOffered` | `UntouchedIsOffered` | |
| `LiveCatalogProofs.PlansStayWithTheirService` | `PlansOfTheirService` | |
| `LiveCatalogProofs.UntouchedInstancesAreFound` | `UntouchedIsFound` | |
| `LiveCatalogProofs.ReportedPlansAreRight` | `ReportedPlanIsRight` | |
| `AuthProofs.TypeCorrect` | `TypeOK` | |
| `AuthProofs.OnlyAuthenticatedServed` | `ServedForAuthenticated` | |
| `AuthProofs.ScrapesFit` | `ScrapeWithinTotal` | |
| `ServerProofs.TypeCorrect` | `TypeOK` | |
| `ServerProofs.ExitsTellWhy` | `ExitTellsWhy` | |
| `ServerProofs.OnlyConfiguredServes` | `ServesConfiguredOnly` | |

Each of the modules has an inductive invariant, and one lemma per action.

**Instances.** `TypeOK` is not inductive: that an update writes a composite
depends on what the worker read earlier. `Inv` adds `TaskOK`, what a task holds
at each of its steps (in "update": a copy of the instance, and an allowed change
of plan; in "validate": a parent that is an ID), and `FreshOK`, that the copy of a
worker in `fresh` is the stored object. `FreshOK` is the heart of it: a write is
accepted only from `fresh` workers, so the plan the rules were checked against is
the one that is replaced. `StepOnComposite` lists what a step may do to a stored
object; labels and plan changes follow.

**Searches.** `SearchInv` says that a search for an instance that was there all
the time still has the instance's plan ahead of it. A step changes the plan only
along `AllowUpdate` (`StepPermits`), and `UpdatesGoForward` keeps the new plan
ahead, too.

**Registry.** One lemma per action shows that its effect on the entries, with its
answer, is an action of the registry, or changes neither. An Update is the step
that writes, and by `FreshOK` the entry it replaces is the one it judged; a search
or a lookup answers at its last read. `ReportedPlanIsStored` is then proved of the
registry and carried back.

**Parents.** `ParentInv` says what a handler has found out before it writes: on
its way to create or update a database, that the parent in the parameters has
been an instance (`ParentSeen`); on its way to delete an instance, that there is no
database with its label but those created since (`ChildrenAreLate`). No step
changes the label of a database, so only new ones get into that list. What Bind
follows is the parameter: `LabelUntilMoved` says that the two agree until an
Update changes the parameter, which makes the database one of `moved`. Together
they give `OnlyLateDatabasesLoseParent`, with the databases in `moved` excepted:
for these it is false, and not for want of a stronger invariant.

**Bindings.** `Inv` holds for every platform: of a binding that was not unbound,
each copy of its password, with a handler, in the User, or in the connection
secret, is the one in its Secret, and none of its objects is on its way out.
`SerialInv` is about Unbind, when nobody else works on the binding: a composite
that is not being deleted has a Secret nobody is about to collect, because the
User Unbind makes its owner is the one that exists, or the composite is being
deleted already (`OwnerIsCurrent`).

**Lifecycle.** A step writes at most one composite, and a new one is not ready
before it is reconciled (`OneObjectWritten`); so a step changes either the
database or the MariaDB instance, in one of the ways the environment of
`Bindings` may. The prover cannot apply a theorem of `BindingsProofs` through an
`INSTANCE`, so that the theorems about `Bindings` hold of `Lifecycle` is a
conclusion for the reader.

The theorems about an orderly platform rest on `OrderlyInv`, which is inductive on
top of `Inv` and `ParentInv` of the instances and says in three parts where the
handlers of both modules and the platform stand:

- `InstancesInOrder`: there is one request per ID that makes or removes an
  instance; what is being deprovisioned, or marked for deletion, is retired; a
  Provision of `d` that has passed `ValidateProvisionParams` has `m` there and not
  retired.
- `ParentStays`: while the database exists, its label names `m`, `m` exists and is
  not marked for deletion, and no Deprovision of `m` has got past
  `Deprovisionable`. This is what closes the gap of `dangling_parent`: such a
  Deprovision is not sent while `d` is being made, and it retires `m`, so that `d`
  is not asked for before `m` was made again, for which the platform waits for the
  answer.
- `BindingsInOrder`: a binding that is not being deleted, and one that a Bind in
  progress is making, is held, and as long as anything is held, `d` is not retired;
  an Unbind that succeeds leaves a binding that is marked for deletion.

`DatabaseKeepsInstance` alone would not do: that the parent exists says nothing of
a Deprovision that is about to delete it.

**LiveCatalog.** `Inv` says that what a handler has read is still true of
whatever nobody touched since: plans read but not considered (`PlansOK`),
services put together (`OfferOK`), XRDs still to come (`XRDsOK`), instances that
were there (`HadOK`). That plan names are unambiguous at any moment is part of it.

**Auth.** Each request that may still fail has a place of its own in the total:
`failed + Cardinality(Counted) <= total`, where `Counted` are the requests that
were counted and are not finished, those on their way to `failed` included. So
the failures are within the total at any instant, and the total never shrinks:
failures read now are within the total read later (`ReadFailedFits`), which is
`ScrapeWithinTotal`. The context of a request (`TaskOK`) ties the principal to the
header.

**Server.** Each stage of the start knows which checks of the configuration are
behind it; the serving goroutine knows all of them. Whether the keys that were
fetched parsed is not in the state, so `ServesConfiguredOnly` says of the keys
only where they may come from. For the exit code, `Inv` follows the channel: what
is in it says who put it there, `SIGABRT` only a goroutine that has returned, and
the main goroutine is in `Shutdown` only after a signal.

Only model-checked:

- liveness (`EveryRequestAnswered`, `UnbindCleansUp`, `SignalStops`,
  `FailureStops`), which is out of the prover's reach;
- what the rules, plan sizes and labels parse to (`PlanLabels`), which is compared
  with a reference over bounded inputs.

## Not modelled

`APIResponseError`, which wraps an error with a correlation ID and an HTTP code:
a response is a class here, and the code of an API error is kept while every
other error ends as 500. The text of credentials, descriptions, tags and
metrics endpoints. Cluster and owner labels, which are only passed on. Log
output and correlation IDs (`pkg/reqcontext`): no state the broker decides on.
`pkg/integration`, which is test support. Labels of a composite that somebody
else changes: the broker and Crossplane are the only writers here.

## Plan

1. Done: the modules above, with their runs.
2. Done: proofs of every safety property the passing runs check, and of both
   refinements.
3. Left: lemmas about `ReadConfig` beyond those `OnlyConfiguredServes` needs; an
   orderly platform that also reuses binding IDs or changes a database's parent.
