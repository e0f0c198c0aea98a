# A TLA+ model of gatus-sidecar

gatus-sidecar watches Kubernetes Services, Traefik IngressRoutes and
IngressRouteTCPs, and writes the endpoints they ask for into the configuration
file of a Gatus instance beside it. Gatus reloads whenever the file changes and
*deletes the history of every endpoint that is missing from it*, so the sidecar
must be quick to publish a change, and must never publish a configuration that is
half-written, half-discovered or wrongly deduplicated. These modules say what
that means, model how the code goes about it, and check and prove that it does,
or show where it does not.

Paths below are relative to `src/`.

## 1. The system

| Part | Source | State | Operations |
|---|---|---|---|
| Registry | `internal/registry/registry.go` | endpoints per source object; a one-slot change channel | `Set`, `Delete`, `Touch`, `Snapshot`, `Changed` |
| Reconcilers | `internal/controller/{service,ingressroute,ingressroutetcp}_controller.go` | work queues (controller-runtime) | `Reconcile`: read the object, its Namespace and Services, derive endpoints, `Set`; map Namespace and Service events to the objects that depend on them |
| Template reconciler | `internal/controller/endpointtemplate_controller.go` | none | `Reconcile`: `Touch` |
| Primer | `internal/controller/primer.go` | the listing it sweeps | `Prime`: list each kind, reconcile each object |
| Render loop | `internal/controller/render_loop.go` | debounce timer, `pending`, `ready`, last warnings | `Start`, `render` |
| Template set | `internal/config/resolve.go` | caches of resolved and failed templates, per render | `Resolve`, `ResolveMany`, `DefaultsFor`, `SchemeOf` |
| Renderer | `internal/config/render.go`, `endpoint.go`, `merge.go` | none between calls | `Render`: sort, three deduplications, template layers, usage, warnings |
| Writer | `internal/config/writer.go` | `last`; the file | `Write` |
| Template status | `internal/controller/template_status.go` | the status subresource, in the cluster | `updateTemplateStatus` |
| Discovery | `internal/discovery` | none | `FromService`, `FromIngressRoute`, `FromIngressRouteTCP`: from an object, its Namespace and the Services it refers to, its endpoints |
| Wiring | `cmd/gatus-sidecar/main.go` | none | `run` |

They meet in three places. The *registry* is shared, under a mutex, by the
workers, by the goroutine that primes and by the loop that snapshots it; the
mutex is released before the change is signalled. The *informer cache* is read by
everyone and lags behind the cluster. The *file* outlives the process. The status
patches close a cycle: a render patches a template, the patch comes back as an
event, the event asks for a render.

What is hard here: wake-ups that coalesce in a one-slot channel; a signal drained
on the ground that a coming render covers it; a debounce timer that is stopped,
drained and reset by hand; reconcilers that run twice at once, in a worker and in
the primer; reads that are spread over time and stored at its end; crashes and
power losses between any two system calls; caches filled in the middle of a
recursion over cyclic data; three deduplications on three keys; a cache that
is stale when it is patched from; and endpoints whose names and ports depend on the
object's other endpoints and on Services anywhere in the cluster. `PROJECT.json` lists these hazards line by line,
with the property that answers each.

## 2. The modules

| Module | Models | Composed with |
|---|---|---|
| `Registry` | the registry and its signal | extended by `RenderLoop` |
| `RenderLoop` | `Start` and `render`, with the registry, templates, base file, cancellation and crashes around them | extended by `Sidecar` |
| `Sidecar` | reconcilers, work queues, watches and primer, as `main.go` wires them to the loop | implements `RenderLoop` |
| `AtomicFile` | what `Write` promises | — |
| `Writer` | `Write`, call by call, and a file system | implements `AtomicFile` |
| `TemplateSet` | `resolve`, visit by visit | — |
| `Subsequences` | sorting, filtering and removing duplicates, by the order of indices | extended by `Renderer` and `Rules` |
| `Renderer` | `Render`, stage by stage | takes from `TemplateSet` what each template resolves to |
| `TemplateStatus` | `updateTemplateStatus`, for one template, and its way back through the cache | — |
| `Annotations` | the specs an object's annotations amount to, and `config.Merge` | extended by `Discovery` |
| `Rules` | the hosts and the path of a match expression | extended by `Discovery` |
| `Discovery` | the endpoints of an object, and which change derives them again | says what the lists of `Sidecar` are |
| `RenderLoopProofs`, `WriterProofs`, `TemplateSetProofs`, `RendererProofs`, `TemplateStatusProofs`, `DiscoveryProofs` | theorems about the module each is named after | |
| `SidecarProofs` | that `Sidecar` implements `RenderLoop`; what it puts into the registry and the file | |
| `SubsequenceProofs` | what the operators of `Subsequences`, and joining lists, return | extended by `RendererProofs` and `DiscoveryProofs` |
| `MCSidecar`, `MCWriter`, `MCTemplateSet`, `MCRenderer`, `MCDiscovery` | instances for TLC (`RenderLoop` and `TemplateStatus` are instantiated by their `.cfg` files alone) | |

**Registry.** `entries` is the map, with `NoList` for an absent key, so that
`Delete` is `Set` with no endpoints, as in the code. A list of endpoints is an
opaque value: the code distinguishes two by `equalEndpoints`, the model by `=`.
`owing` holds the threads between the unlock and the `notify` of a `Set` that
changed something; the gap is real and other threads run in it.

**RenderLoop.** `pc` walks through `Start` and `render`; each read of shared state
(the base file, the templates, the snapshot) is an action, since the world can
change between any two. `file` and `last` hold the record of the inputs a
configuration was rendered from; that rendering is a deterministic function of
them is the subject of `Renderer`. `timer` and `pending` are the debounce. The
timer has the semantics of Go 1.23 and later (`go.mod` asks for 1.26): `Stop` and
`Reset` leave nothing in the channel, and `Stop` reports whether the timer was
still to be received from. The `"stuck"` value of `pc` is where the goroutine
would wait for ever in the manual drain. Every read and the write can fail.
`Crash` resets all but the file, at any moment.

**Sidecar.** An object has a state, and what else its derivation looks up is a list of
*resources*, each with a state of its own: the Namespace, the Traefik Services, the
backends. A reconcile reads one after the other: `GetObject`, one `LookUp` for each resource, none after a
Namespace that is not selected, and `Store`; the cluster, the other thread and the loop move between any two of
them. A list is the pair of an object state and what each lookup found, so a derivation that mixes
old and new shows. `Follows` says which resources a key's controller maps back to it: all that it
looks up, but for backends in another Namespace, which `routesForService` leaves out
(`ingressroute_controller.go:129-135`, `ingressroutetcp_controller.go:220-225`). An event on a resource
reaches each controller as a `notice`; `MapNotice` queues the objects that follow it, `MapNoticeFails` loses the
event when the listing fails. `ReadFails` (the object, its Namespace, the Traefik Services) is retried by
the work queue but not by the primer; `BackendUnread` (a backend) is taken for a missing one and not
retried. Each controller is one worker, as controller-runtime's default has it, and its queue holds a key at most
once. `Sweep` lists the kinds Prime primes, in every run all that have a worker, as in `main.go:185-268`.
`lost`, `doubt` and `disturbed` are history variables that only properties read: keys whose event went
astray in a failing listing; keys whose entry, when it was stored, was not what they derived to, and whether an unread backend or a
Prime overtaken by a change is why; and whether the cluster moved at all since the start.

**Writer.** Files are inodes with data in memory and on disk, a directory entry
in memory and on disk, and a mode. `LosePower` keeps what is on disk. A first `Write` of a process may fail to read the
old file, in which case it goes on and replaces it (`writer.go:88-93`). It is assumed
that directory entries and modes reach the disk in the order they were made, as on
a journalling file system; data may reach it late, which is why `Sync` matters.

**TemplateSet.** The Go stack is the variable `stack`; `visiting` and `returned`
are the argument and the result of the call in hand. One scalar field of the merged body is
followed, named by the template that set it. Definitions that have no caches and
no stack say what the caches should hold: `Resolvable` is the least set that has every valid
template all of whose parents it has, so that no template on a cycle, or above one, is in it;
`BodyOf` is what the parents define, the last first; `Reason` follows, from each template that
does not resolve, the first parent that does not, to where that ends.

**Renderer.** `Call` takes one of `Inputs`, a snapshot in `Snapshot`'s order and the state of the templates; the stages of
`Render` are actions. Names, groups, objects and paths are numbers, as Render sorts by
them: `StableSort` puts at each place the element with so many before it, and `Subsequence` is
what a filter keeps. What a rendered endpoint should be is said without recursion over its
templates: the layers are listed (`LayersOf`), and each field is that of the highest that has it.

**TemplateStatus.** A render goes on to the status or, failing, returns before it with the wake-up
taken (`RenderFails`, `render_loop.go:141-182`). The API server applies a merge patch: only the fields in which
the wanted status differs from the one `render` listed. The watch delivers in
order and as late as it likes.

**Discovery.** `obj` is one annotated object, `world` what its derivation looks up (the
Services, the annotation or selection of the Namespace, the flags), `entry` its
endpoints in the registry. A step is one change, by the author of the object or in the
world, with the reconcile it leads to, if it leads to one: `RoutesForService` decides that, as
the watch's mapping function does. What happens *between* a change and its reconcile
is what `Sidecar` is about, for any derivation; `Derive` here is that derivation.
Annotations are records of parsed values, with `Malformed` for one that does not
parse; a match expression is the tree that Traefik's parser returns, or
`Unparsable`; a glob list is the set of what it matches; a name is the sequence of
its words, of which `--external-suffix` is the last or, if it is empty, none; `DisplayName` is a constant function, which maps two of the names to one.
The derivation itself is operators and recursive functions, in the order of the code:
specs, targets of the rules, external endpoints, in-cluster endpoints.

**Annotations**, **Rules.** `Merged` and `ParseRule` are recursive functions over the sets
`Objects` and `Trees`, which contain the parts of their elements, and the objects
also what merging makes of them; `Depth` and `Height` say of each how deep it
is, so that no object or expression is part of itself. The definitions they are
checked against say what is meant without saying how: `HostsAreServed` evaluates the
expression on requests, each for one host and each making true what it does of the other matchers, and asks which hosts can make
it true; `Values` and `Overlaid`
say which paths of keys a merge keeps. A map has a value at its own path, so that an empty
map is told from no map at all.

## 3. What is checked

Safety, liveness and implementation (all pass):

| Run | Instance | Shows |
|---|---|---|
| `render_loop` | 1 key, 1 list or none, 2 template states, 2 base files, 1 worker beside the loop | no wake-up is lost (`FileFollowsInputs`), the loop cannot hang on its timer (`TimerNeverBlocks`), `last` is what is on disk (`MemoryMatchesDisk`); the loop publishes what holds still (`Converges`); a cancelled loop returns (`ShutdownEnds`) |
| `sidecar_steady` | 1 object, present or absent, of a route with a Namespace that is selected or not, a backend in it that is there or not, and one in another Namespace that changes; its worker and the primer | the registry follows the cluster (`RegistryFollowsCluster`) |
| `sidecar_first_file` | 2 objects of 2 kinds, one with a backend in another Namespace, 2 workers and the primer | the first file is complete (`FirstFileComplete`) |
| `sidecar_liveness` | 1 object and its Namespace, its worker and the primer | the file follows the cluster, end to end (`FileFollowsCluster`) |
| `writer` | 2 contents, 4 inodes; symmetric | no reader ever finds a partial or unreadable file, in memory or after a power loss (`ReaderFindsWholeFile`); results, `last` and temporary files are right; Gatus is not reloaded for nothing; `AtomicFileSpec` |
| `template_set` | every graph of 3 templates extending up to 2 names, one name unknown; symmetric | bodies and failures in the caches are right after any sequence of calls; the recursion never re-enters a template and every call returns (`CallsReturn`) |
| `renderer` | every snapshot of up to 3 endpoints out of 2 objects of 2 kinds, 2 names, 2 URLs, 3 workloads, or of one host at two ports; and one endpoint with every selection of template names in every state of 2 templates | the deduplications together, and the layers of an endpoint |
| `template_status` | 2 generations, a cache up to 2 versions behind other changes | a quiet status is true unless the last render or patch failed (`QuietMeansTrue`); the feedback between status and render ends (`FeedbackEnds`) |
| `discovery` | a Service, an IngressRoute and an IngressRouteTCP, each with 4 to 12 sets of annotations, up to 2 rules, the Services they look up present, absent or changed, 3 states of the Namespace and 2 of the flags | the registry holds what would be derived now (`EntryIsCurrent`); an excluded rule leaves no trace (`ExcludedRuleIsAsNeverWritten`); names are distinct (`EndpointNamesAreDistinct`); ports of entry points are not guessed (`EntryPointPortsAreCertain`); no host that a rule serves is missed, and one that it rules out is monitored only if the rule contradicts itself about it (`HostsAreServed`); items overlay the object's patch (`ItemsOverlayTheObject`); a failing backend touches no other endpoint (`BackendsFailAlone`); a path more renames no address without one (`BareNamesSurvive`) |

Disagreements of the code with its documentation (each run has one property that
states what a comment or the README says, and finds it violated):

| Run | What the trace shows |
|---|---|
| `render_loop_failed_prime` | after a failed `Prime` the loop renders at once, which its comment says it must not |
| `sidecar_primer_race` | the primer stores an older derivation over a worker's newer one, and nothing repairs it |
| `discovery_rename` | an endpoint with a path, alone on its host, is renamed when another address of the host is added, which a comment and the README say never happens |

Other divergences met while reading, which no run is spent on:

- `README.md:51` has a new endpoint appear "within a second", but each change
  resets the debounce, so that a steady trickle puts the render off for ever
  (`Converges` speaks of inputs that hold still).
- `render_loop.go:27-28`: an edit of the base configuration alone wakes nobody; it is
  published with the next render.
- `ingressroute_controller.go:142`: a failing listing in a map function swallows the event.
  `MapNoticeFails` models it, and the properties of `Sidecar` leave out the keys it hits (`lost`).
- The backend of a route that cannot be read because of an error is
  treated as one that does not exist, so that the reconcile is not retried
  (`BackendUnread`; left out likewise, in `doubt`).
- `writer.go:86-87` says that a first write is skipped if the file has the content already; if the file
  cannot be read at that moment it is replaced by equal content, and Gatus reloads (`unread` in `NoNeedlessReload`).
- `README.md:359-361`: a raw patch can give two endpoints the same group and name, the patch being
  merged after the deduplication (hence *Unpatched* in `UnpatchedEndpointsAreDistinct`).
- `README.md:374-376`, a warning for each check that is missing: a raw patch may also set the URL, which is merged
  after the deduplications. What was dropped in favour of the endpoint is then not checked, nor is the endpoint's
  own address, and nothing says so (`Redirected` in `NoWarningMeansAllChecked`).
- `README.md:134-136`, 223 and `service.go:237-239`: an empty group annotation means the top level, and a template cannot
  change identity; but a template's group fills in for an empty one (`GroupedByTemplates` in
  `FieldsFollowPrecedence`).
- `matcher.go:47-50` and `README.md:241-243`, a host that a rule rules out is not monitored: the walk looks at one leaf
  after the other, so it monitors `b` for ``Host(`a`, `b`) && !Host(`b`)``, and both hosts of ``Host(`a`) && Host(`b`)``,
  though no request is served for them (`Contradicted` and `Agreed` in `HostsAreServed`).
- With an empty `--external-suffix` an external endpoint and a backend may get one name, and the renderer keeps one
  (`EndpointNamesAreDistinct` leaves them out). A suffix is otherwise taken to be a word that ends no name of itself.
- `render.go:239-241`: an endpoint can be dropped for one that is itself dropped
  later.
- `endpointtemplate_types.go:46-47`: `usedBy` also counts endpoints that were then
  dropped.
- `render.go:251-257`: `sameWorkload` compares hosts and not ports. Two endpoints of one
  name on two ports of a host pass for one workload, and one is dropped without a
  warning, where `README.md:374-376` has a warning for each check that is missing.
  `NoWarningMeansAllChecked` is the part of the promise that holds: it assumes one
  monitored port to a host, and that no patch sends a kept endpoint elsewhere.
- `template_status.go:55-58`, 125-126: a render that lists a template before its last patch
  has come back patches it again, and gives a condition that did not flip a new
  transition time.
- `README.md:357`, "a malformed annotation drops that one endpoint": one malformed item of
  `endpoints` drops all endpoints of the object (`AnnotationsFail`).
- `ingressroutetcp_controller.go:87-90` keeps what could still be derived; but an entry point without
  a port drops all of an IngressRouteTCP's endpoints (`DeriveTCP`).
- `service.go:158-159` asks for an explicit URL on an ExternalName Service, and refuses the Service
  also when it has one.
- An item cannot clear what the object's annotations set: an empty `path` or
  `template-extra` in it is inherited over (`Inherit`), other than an empty group or
  template list.
- Two backends of a route whose Services are displayed alike, or that are one Service at two
  ports, get one name (`EndpointNamesAreDistinct` leaves them out); so the renderer
  keeps one. A listed item of a route with a port and no URL gets an empty host
  (`TypeOK`).
- A rule gets the first path it names, for all its hosts, also where alternatives of
  the rule have different paths.

`EntryIsCurrent` and `RegistryFollowsCluster` make an exception for backends in another
namespace, which `routesForService` says it does not follow: of these alone an entry may
show an earlier state. `RegistryFollowsCluster` has three more: an event whose listing failed, a
backend that could not be read, and a Prime that stored what it had read before a change, of which
`sidecar_primer_race` is the trace. A status at rest may be out of date after a render that failed before the
statuses, or a patch that did: neither is retried (`unwritten`).

Bounds. One key is enough for the loop to lose a change to it; that a change of one
key does not hide behind one of another is proved for any number (section 4). Two
template states and two lists make a change and its reversal. Two workers and the
primer are all the roles there are. Each run of `MCSidecar` leaves out what its property does not depend on.
`NothingRendered` ends a run of `sidecar_steady` where the loop begins to render, which only reads the registry: Prime and the worker
have the whole time before it, and as workers go on alike after it nothing new happens to an entry. `DisturbedOnlyAtRest` prunes the run of
`FirstFileComplete`: that property speaks of starts during which the cluster holds
still, and disturbed behaviours matter to it only for the old file and cluster they leave to
the next start, which is explored from every state in which a disturbed sidecar is at
rest. `OnlyTheRegistryWakes` leaves template events and cancellation to `render_loop`. That the composition
implements the render loop's specification, disturbed or not, is proved, not run. The writer needs four inodes: the target, its predecessor on disk, a leftover
of a crash and the temporary file in hand. Three templates make every shape in
which a cycle is entered from outside it. Three endpoints make a chain of two
drops. `MaxGeneration` and `MaxLag` bound `TemplateStatus`; the latter limits
what happens elsewhere while versions are undelivered, never the sidecar's own patches.
`Discovery` has one object of each kind, since an object is derived without regard to
others. Names, hosts and targets depend on whether there is one or more, so `MaxRules` = 2
rules with up to two backends each make both; the rules cover a host alone, a host at two paths,
two hosts, nested negations, wildcards, hosts required and ruled out at once, no and unreadable expressions, backends by
name, by number, unnamed, in another namespace and displayed alike. The patches reach a map
within a map, an empty map over a full one, and a scalar on either side of a map; `MCObjects`
is closed under merging. Two Traefik Services agree, disagree or
publish by node port, in and out of scope. The suffix is one word or empty.

Fairness. `RenderLoop!Fairness` and `Sidecar!SidecarFairness` are weak fairness
of every goroutine that can run, of the watches and the retrying work queues, and of
a running timer; and strong fairness of the cases of `select`, which picks at
random among those that are ready and so passes none over for ever. Nothing is
assumed of the cluster or the operator, nor that a failure ever ends: liveness is
claimed of behaviours in which the surroundings do hold still, and makes an explicit
exception for a last render that failed. `TemplateStatus` assumes that the watch
delivers and that a woken loop renders. `TemplateSet` assumes nothing: `CallsReturn`
says that every step of a call leaves less to do (`WorkLeft`), and the deadlock
check that a call under way can always take one.

Deadlock is checked in every run; none of them stops.

## 4. What is proved

Each theorem holds for every value of the constants that meets the assumptions its modules
name. Most of these say that special values are not taken for ordinary ones (`NoneAssumption`,
`IdleAssumption`, `ContentsAssumption`). The others are facts of the code: `OwnerAssumption`, a key has
one controller; `NamesAssumption`, there are
finitely many templates; `InputsAssumption`, an endpoint has a URL, or else a host and a port;
`SourcesAssumption`, an object has one of the three kinds, lists what its API type lists, has
objects for patches, and Services have ports that the API server admits; `TreesAssumption` and
`ObjectsAssumption`, match expressions and objects are written down, hence finite in depth; `MergedAssumption`,
the set of objects has what merging makes of its elements.

`RenderLoopProofs`
: `TypeCorrect`, `NoChangeIsLost` (`FileFollowsInputs`), `LoopNeverBlocks`
  (`TimerNeverBlocks`), `SkippingIsSound` (`MemoryMatchesDisk`). `FileFollowsInputs`
  is not inductive: it says nothing of the loop in the middle of a render. The
  strengthening says that at each point of `render`, what was read so far is still
  current unless a wake-up is coming, that a file just written is what was read, and that after a
  successful render the file is. A step that changes an input
  always leaves a wake-up behind (`owing`, `touchDue` or `changed`), and a wake-up is
  only consumed on the way to a new read. `LoopNeverBlocks` rests on the timer and `pending`
  agreeing: pending exactly when the timer runs or has fired unread, but for the moment
  between `Stop` and `Reset`.

`SidecarProofs`
: `SidecarTypeCorrect`; `SidecarImplementsLoop`: every step of the composition is a
  step of the render loop or leaves its variables alone, the interesting case being
  `Store`, a `PrimeSet` or a `WorkerSet` of a well-typed list. Hence
  `SidecarLosesNoChange`: what is proved of the loop holds of the whole process, for
  any number of controllers and objects.
  Of the contents, `RegistryFollows` (`RegistryFollowsCluster`): once nothing about an object is under way, its entry is what it derives to now,
  as far as what it looks up is followed, with the three exceptions named in section 3; nothing is assumed of `Sweep`, so Prime may
  run beside any of the workers, or none. The property speaks of moments of rest, the invariant `FollowInv` of all:
  while nothing will make the worker of a key look at the key again, what that worker has in hand
  agrees with the cluster wherever it has read and the key follows, and so does the entry unless `doubt` or the worker's own job
  says otherwise.
  `FirstFileIsComplete` (`FirstFileComplete`) has the hypothesis that every key's owner is swept, as `main.go:185-268`
  has it: a controller that is started is a primer source too. Its invariant `PrimedInv` follows each
  present object on its way: its kind unlisted, itself listed, in the primer's hands, in the registry, in the
  snapshot, in the file.

`WriterProofs`
: `TypeCorrect`, `FileIsWhole`, `WriterIsAtomic`, `ResultIsTrue`, `LastIsTrue`. The
  invariant follows the temporary file: it is nobody's target, holds the content once
  written and on disk once synced, is readable once its mode is set; so that `Rename` moves
  the target from one whole file to another. `NothingIsLeftOver` (`NoLeftovers`) accounts for the temporary files during a
  call too: its own and those nobody will remove. `NoReloadIsNeedless` (`NoNeedlessReload`) carries from the
  comparison to the rename that the file differs from the content in hand, or could not be read.

`TemplateSetProofs`
: `TypeCorrect`, `RecursionIsBounded` (`StackHasNoRepeats`), `CachedBodiesAreRight` (`BodiesAreRight`),
  `CachedFailuresAreRight` (`FailuresAreRight`), `EveryCallReturns` (`CallsReturn`), for any templates and any order
  of calls. Three invariants build on one another. `CoreInv`: each call under way waits for the one above
  it, and only for it. `CacheInv`: what a call has merged so far is what the parents it is done with
  define, all of them cached, and a cached body agrees with those of its parents. `FailInv`: a cached failure has a
  cause, in the template itself or in a parent that failed before it; its reason is the cause's; and a template
  on the stack has failed already only as part of a cycle that is being unwound. That local agreement
  amounts to the global definitions is a matter of induction, done here over least sets: the uncached templates are closed under
  what `Resolvable` is least for. `CallsReturn` compares `WorkLeft` lexicographically: templates not visited yet, calls
  under way, parents left in the innermost loop, and where that loop stands.

`RendererProofs`
: All that the run `renderer` checks, for any snapshot and all templates: `TypeCorrect`, `ServicesWin`
  (`ServiceTakesPrecedence`), `SilenceMeansChecked` (`NoWarningMeansAllChecked`), `RenderedAreDistinct`
  (`UnpatchedEndpointsAreDistinct`), `LayersInOrder` (`FieldsFollowPrecedence`). The properties speak of the result,
  the invariant `RenderInv` of every stage: Services come before routes in what is left to treat and took their
  names before them (`ServicesFirst`); no route is left at the address of a Service (`RoutesGiveWay`), nor two
  endpoints at one URL (`URLsDiffer`), nor two with one name (`NamesDiffer`), each from its stage on; and as long as there is no warning,
  what is left still checks all that the snapshot asks for (`NothingIsLost`), which is what chains of drops put at risk;
  an address that only a redirected Service covers (`Redirected`) and a host with two ports are excepted, as in the run.
  The lemma `Sorts` says once what sorting returns, and `Keeps` (`SubsequenceProofs`) what filtering does. `MergedIsLayered` finds what the
  recursive merge of a list of templates of any length computes, by looking at the shortest list that would contradict it.

`TemplateStatusProofs`
: `TypeCorrect`, `QuietStatusIsTrue`. The invariant: the last version in the watch, or else the
  cache, is the server's; and with no wake-up and no undelivered version, what the
  render read was fresh and what it wants is true, unless the latest render or patch failed.

`SubsequenceProofs`
: No theorem of its own, but the lemmas on lists that the two modules after it rest on. Sorting and filtering
  return an order-preserving listing of the elements, from the cardinalities of what comes before each
  (`RankGrows`, `RanksFill`, `RanksList`); filtering a list is filtering its parts (`KeptOfBoth`), twice is
  once (`KeptTwice`). `FlattenSeq`, defined by a recursion over lists, is found to be what it should by
  looking at the shortest list for which it is not (`FlattenIs`); from there, where the elements of the rows end up
  (`FlattenRows`, `FlattenRectangle`).

`DiscoveryProofs`
: All that the run `discovery` checks, for any objects, rules, annotations, Services and flags. The properties
  other than `EntryIsCurrent` speak of what a derivation returns, but of the present world and of the
  entry, which may not be what would be derived now: a backend of another namespace is not followed. So the
  invariant `CurrentInv` says that the entry is derived from *some* world, which differs from the
  present one at most in Services whose change has nothing reconciled (`DerivedFrom`); the object's own settings, the
  Services of its namespace and, for TCP, the Traefik Services in scope are those of now.
: `EntriesStayCurrent` (`EntryIsCurrent`): the lemmas say what each
  part of a derivation depends on: the settings, the Services of the backends (`HTTPNeedsBackends`) and, for
  TCP, the Traefik Services in scope (`TCPNeedsBackends`). With a backend in another namespace, the endpoints of
  the other backends are still those of now (`ApartIsUnchanged`).
  `EntryTyped` (`TypeOK`) follows the shapes of endpoints through the derivation (`OwnShape`, `InternalShape`, `TCPShape`).
: `NamesAreDistinct` (`EndpointNamesAreDistinct`): an external name tells the host, the path and the entry point
  that it is made of (`AddressesTell`, `ListenersTell`), though each part is left out where there is only one to tell;
  and with a suffix it has more than one word, where an internal one has one (`ExternalsAreNoBackends`).
: `PortsAreCertain` (`EntryPointPortsAreCertain`): the place of an endpoint in the list tells its entry point and its
  host (`FlattenRectangle`), and `PortIsCertain` that a port is only found where all who name the entry point agree.
: `ExcludedRulesLeaveNoTrace` (`ExcludedRuleIsAsNeverWritten`): rules matter to a derivation by their targets alone
  (`RulesMatterByTargets`), and a skipped rule contributes none (`SkippedRuleAddsNothing`).
: `OneBackendFailsAlone` (`BackendsFailAlone`) and `BareHostsKeepTheirNames` (`BareNamesSurvive`) compare two derivations:
  with one Service changed, and with one rule more, of which the former addresses are the first (`DistinctGoesOn`, `RouteBeginsWithAddresses`).
: `MonitoredAreServed` (`HostsAreServed`), for expressions of any height. The recursive definitions are shown to be
  what they say by building their graphs height by height (`FoldExists`); what holds of every
  expression, by looking at a lowest one of which it does not (`LowestExists`). `OthersNeverServe`:
  a host named only under an odd number of negations is never served by its name, so that none that is
  served is missed. `AgreedServe`: where nothing contradicts a host, and every part that must hold names it or
  leaves it open, the other matchers can be given values so that a request for the host is served.
: `ItemsOverlay` (`ItemsOverlayTheObject`), for objects of any depth: `MergeOverlays` says that the values of a
  merge are those of the upper object and those of the lower that none of them overrides, key by key
  (`OverlaidByKey`, `MergedAtKey`), a map that meets a map being the same fact one level down (`MapsOverlay`).

Only model-checked: liveness (`Converges`, `ShutdownEnds`, `FileFollowsCluster`, `FeedbackEnds`), since fairness
and `ENABLED` are beyond the prover. Every invariant and every action property of a passing run is stated by a theorem.

## 5. What is not modelled

- Text: how YAML, globs, match expressions, names of annotations and the flags are
  parsed (`ParseMode`, `ParseEntrypointPorts`, `path.Match`, Traefik's parser, the words of
  `DisplayName`). What each parses to is modelled.
- That a merge copies what it takes (`deepCopyValue`), and the second shape of a YAML
  mapping (`asObject`): values in TLA+ have neither identity nor two shapes. In `TemplateSet` and
  `Renderer` only fields that are not maps are followed; `Annotations` has the recursion.
- Logging and its memory of the last warnings, metrics, probes, flags, the
  check for CRDs, generated code, manifests.
- Several workers per controller (`MaxConcurrentReconciles` is left at one), leader election (off).

## 6. Plan

1. Done: `Registry`, `RenderLoop`, `Sidecar`, `Writer`, `TemplateSet`, `Renderer`,
   `TemplateStatus`, `Annotations`, `Rules`, `Discovery`, and the proofs above.
2. Done: proofs of everything the passing runs check, liveness apart.
3. `Sidecar` with `TemplateStatus`: status patches of several templates in the
   composed process; the derivation of `Discovery` for its opaque one.
