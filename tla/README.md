# Velociportal: TLA+ models, model checking and proofs

Velociportal is a Go server that shows each authenticated user the services (Nginx Proxy Manager hosts) and
machines the network policy of Headscale or Tailscale lets that user reach.  It polls the control plane and the
proxy manager, keeps one complete snapshot in memory, matches it against the identity of every request, optionally
probes backends, and optionally lets configured users edit one presentation file.

These modules model the parts with state and concurrency and the matching itself.  Paths below are relative to `src/`.

## 1. Inventory

| Component (source) | State | Operations | Talks to | Hard behaviour | Correct when |
|---|---|---|---|---|---|
| Metadata editor (`service_metadata_editor.go`, `_http.go`, `service_metadata.go`) | the metadata file, its directory entry, flock, per process: confirmed view, HMAC key, mutex, `disabled` | startup, GET form, POST save (`save`, `commit`), `Close` | reads the cache's snapshot; every page reads its view | two processes, several tabs, hand edits, crash and power loss between any two steps, failed directory sync, revocation during a save | a save is a compare-and-swap of one entry; "saved" is durable; one writer; hidden hosts are not saved |
| Snapshot cache (`cache.go`, load order in `headscale.go`, `tailscale.go`) | one atomic pointer, ticker | `Start`, `refresh`, `Get` | metadata loader, control plane, NPM | partial failure, slow calls, polls racing saves, cold start | all or nothing; never silently old; always catches up |
| Server and pages (`main.go`, `handlers.go`) | none of its own | `runServer`, `/healthz`, `ServeHTTP` | cache, editor, health store | request-local view over a polled snapshot, restart, shutdown | a confirmed save shows on the next page |
| Health poller and store (`service_health.go`) | published observations | `runCycle`, `Get` | cache's snapshot, configuration file, probe engine | workers, two channels, deadline, dropped results, broken configuration | no hang, no lost result, observations lapse |
| Health configuration (`service_health_config.go`) | - | strict parser | poller, probe engine | limits and boundaries that parser and probe check separately | what the parser accepts the probe can use |
| Probe engine (`service_probe.go`) | per probe: target, addresses, deadline | derive target, resolve, check addresses, dial, request | DNS, backends | DNS that changes between lookups and dials, protected sockets, the deadline at any step | only addresses vetted in this probe are dialled; every result has its reason |
| Inventory of the tailnet (`tailscale.go`, `headscale.go`) | per load: users, roles, nodes | `load`: policy, users, devices or nodes | control plane | several reads of a tailnet that changes, ambiguous references, partial responses | no device gets somebody else's login; members and only members hold roles |
| Token handling (`tailscale.go`, `npm.go`) | token, expiry, mutex | `token`, `doAPI`, `ensureToken`, `doRequest` | the upstreams | expiry, revocation, one retry, coalescing | one retry is enough; renewals are shared; no call hangs |
| Policy validation (`controlplane.go`) | - | parse, validate, normalize | - | fail closed on what is not supported | what validation takes a selector for, matching does too; no accepted rule has a condition matching ignores |
| Service and machine matcher (`matcher.go`, `machine_matcher.go`) | per request: identity set, cards | identity set, rules, destinations, card order, accounts | snapshot | map order, unstable sort, selector aliases, overlapping accounts | cards are exactly what the policy allows; one answer per snapshot and user; no check is hidden |
| Hostname suggestions (`hostname_suggestions*.go`) | per run: graph, queues, proposal; the output file | read stdin, load, search, review, confirm, write | control plane, NPM, metadata file, operator | map order, components; several commands on one path, failures after the link, power loss | only pairs that stand alone are proposed; a file is created whole or not, and replaces nothing |
| Environment file, setup, proxy observer (`envfile.go`, `setup*.go`, `proxy_observer.go`) | `.env` file, directory lock, one-time path | snapshot, confirm, write, observe | - | two commands at once, hand edits, timeout against a late answer, kills, no directory sync | a command changes its own keys only; the file is never torn; only an observed source is written |
| Identity middleware (`auth.go`), read-only commands (`doctor*.go`, `validation.go`, `healthcheck.go`, `cli.go`), editor page and icons | none | stateless or one-shot | - | - | not modelled: sequential, they print and keep nothing |

How they interact: the cache's goroutine is the only writer of the snapshot pointer.  Pages, `/healthz`, the editor's
eligibility check and the health poller load that pointer and use what they got to the end of their work.  With an
editor, the cache's metadata loader returns the editor's confirmed view instead of reading the file, and
`requestData` substitutes that view again in every request.  Health observations are joined to cards by ID and
never feed back.

## 2. Modules

| Module | Models | State and actions against the code |
|---|---|---|
| `MetadataEditor` | the editor, its file system and its clients | `file`/`durable`: the inode the path names and those it may name after a power loss; `phase` follows `newServiceMetadataEditor` step by step (`Validate`, `Lock`, `SyncBeforeReread`, `Reread`, `Publish`); `stage` follows a save (`Post`, `Save`, `WriteTemp`, `RecheckDisk`, `FinalCheck`, `Rename`, `DirectorySync`), with `StorageFails`, `DirectorySyncFails`, `Close`, `Stop` and `PowerLoss` between any two steps |
| `MetadataRegister` | what the editor promises: one register with compare-and-swap and at most one undecided save | abstract |
| `MetadataEditorRegister` | the refinement mapping from the first to the second | a save takes effect at `Renameat` and is confirmed by the directory sync |
| `MetadataEditorHistory` | the editor with history variables | which saves were raced by others after their last check, which forms are older than some save |
| `MetadataEditorProofs` | theorems about `MetadataEditor`, its history and the register it implements | section 5 |
| `SnapshotCache` | the refresh goroutine, the upstreams, `/healthz`, pages | `stage` walks through the calls in `load` and `loadSnapshotWithProgress` order; a response describes the upstream at some moment of its call (`Read`, `Receive`); `CallFails`, `Publish`, `Tick`, `Restart` |
| `HealthPoller` | `ServiceHealthPoller` and its store | one action per channel operation: `Feed`, `FeederEnds`, `ProbeEnds`, `Deliver`, `Drop`, `WorkerEnds`, `Publish`; `Get` is the reader |
| `TokenClient` | token use of the Tailscale and the NPM client | `provider` says which of the two, chosen initially; `Usable` is `token`'s condition; `owner` is `c.mu` across an authentication; `Unauthorized` is the one retry; `ready` is NPM's second look at the token in `send` |
| `AccessPolicy` | policy rules as `controlplane.go` loads them | `Kind` gives every selector text its class; `Accepted` is the validator's verdict on a document (`more` is what an entry says beyond its usual fields, `sections` what else the document holds), `AccessRules` what `accessRules` makes of it, `SSHState` the verdict on the ssh section |
| `Matcher` | a user who asks again and again while the snapshot stays | `Request`, one `VisitGroup` per iteration of `buildIdentitySet`'s loop over a map, `Render` with any result `sort.Slice` may give (`Sortings`); `Refuse` for a blank login.  Below the actions stands the reference: what the policy says, without identity sets, resolved contexts or rule order |
| `MatcherProofs` | theorems about `Matcher` | section 5 |
| `EnvFile` | the environment file and the commands that replace it | `stage` follows a command from `acquireEnvFileLock` to `Close`; `Capture` and `Read` are two reads, `Compare` and `Rename` two steps, as in `writeEnvFileWithSnapshot`; `Edits` is what each command makes of the settings; `durable` is what the path may name after a power loss |
| `ProxyObserver` | `observeProxySource` and its handler | `Claim` is the `CompareAndSwap`, `Deliver` the send to the buffered channel, `Observe`, `TimesOut`, `ServerFails` the cases of `select`, `ShutDown` and `ShutdownTimesOut` the ways `Shutdown` returns |
| `Setup` | both, joined as `runObserveProxyCommandWithDependencies` joins them | `Confirm`; `Leaves` is a return or a kill at any moment; `disturbed` is a history variable |
| `Inventory` | `load` of both control plane clients | `call` is the request under way; `tailnet` may change before any of them (`TailnetChanges`); `FetchUsers`, `FetchDevices`, `FetchNodes` validate and project whole responses, and only those not marked as partial; `earlier` is a history variable: the tailnet when its users were read |
| `HostnameSuggestions` | one run of `suggest-hostnames` up to the operator's answer | `stage` follows the command; `VisitHostname` and `VisitID` are iterations of the two inner loops of the search, which append neighbours in any order of the map; `CloseComponent` is what follows them |
| `ProposalFile` | `writeHostnameSuggestionProposal`, by several commands on one path | `at` follows each command call by call; `Fails` is any call's failure and `Undo` the removal by name after the link; `OperatorActs`, `Flush` and `PowerLoss` come between any two calls; `durable` is what the path may name after a power loss |
| `SuggestHostnames` | both, joined as the command joins them | the file's steps belong to a run that was confirmed with `--output` |
| `ServiceHealthConfig` | `parseServiceHealthConfig` | which decoded documents are accepted and what configuration they give |
| `ServiceProbe` | `newServiceProbeEngine` and `Probe`, from the file to the result | `probing` follows the probe; `ResolveTarget` and each `CompareProtected` are lookups at different moments, each `Dial` is one address; `ZoneChanges` and `Expire` come between any two steps |
| `SnapshotCacheProofs`, `HealthPollerProofs`, `TokenClientProofs`, `SetupProofs`, `ServiceProbeProofs` | theorems about these | section 5 |
| `SuggestHostnamesProofs` | theorems about `Inventory`, `HostnameSuggestions` and `ProposalFile` | section 5 |
| `MCMetadataEditor`, `MCMetadataEditorHistory`, `MCMatcher`, `MCSetup`, `MCOneShot` | instances for TLC | initial and hand-written files, catalogs, symmetry; policies, devices, metadata; environment files, peers; tailnets, proxy hosts, configurations and DNS |

What is abstracted.  A document is a function from IDs to a pair (name/url/icon bundle, category/order bundle); equal
bundles are equal bytes.  HMAC revisions are equal exactly when key and content are.  The serialization of a document
has one form, a hand-written file another.  Snapshots are what the consumer distinguishes: for the editor, which hosts
are visible with which target; for the cache, one value and one age per part; for the health poller, which hosts are
eligible.  For the matcher a selector is a text of a known class, ports of legacy destinations (which the code strips)
are left out, and a display name is its rank in lower case and its rank among names equal then.  Time is counted in ticks, and work that is due is done before time passes.  In `HealthPoller` a probe is its outcome; `ServiceProbe`
is what happens in one.  A hostname is the sequence of its labels, an address a number, a list of addresses what DNS answers.
Definitions whose names begin with `Faulty`, `Mistyped`, `Hasty` or `Tireless`, and `TieLess` and `FoldedLess`, are deliberately wrong variants of the definition
below them; nothing in a specification uses them, and substituting one makes the property it belongs to fail.

## 3. Runs

All runs are exhaustive for their constants.

| Run | Question | Result |
|---|---|---|
| `editor_saves` | two tabs, two hosts, one process that may stop or lose power at any step, offline hand edits: is what is shown durable, does a save replace exactly what its form showed, does it change one entry only, does the editor implement the register | holds |
| `editor_live` | two processes start, exit and crash over one file while an operator who ignores the documentation edits it, hosts are hidden and retargeted, snapshots go stale and tokens expire: is there ever a second writer, does a save land that the final check would refuse, is a hand edit that was finished before the last byte comparison ever overwritten | holds |
| `editor_answers` | is every accepted save answered | holds, under fairness |
| `editor_intervening_edit` | the documented "any intervening edit conflicts" | violated, section 6 |
| `cache` | polls, slow and failing upstream calls, saves and rendering pages: how old may any part be while `/healthz` says 200, does it say 503 without a failure, does a page asked for after a confirmation show it | holds |
| `cache_recovery` | do lasting changes arrive, from a cold start too | holds, under fairness |
| `health` | one or two workers against the cycle's deadline: how old is an observation shown as known, when does it turn stale, does a cycle lose a result or hang, do removed hosts vanish, do observations lapse with a broken file | holds; the last three under fairness |
| `tokens` | two callers of either client, tokens revoked, expiring and lost: can a call be refused without a revocation during it, are renewals shared (Tailscale), does an old token replace a new one, does every call end | holds; the last under fairness |
| `matcher` | policies of one to three rules against six proxy hosts and four devices, for four logins under both control planes: are exactly the allowed services and machines shown, in one section per category, with every check, and the same again on the next request | holds |
| `matcher_alias` | the documented "host aliases ... never match a human request" | violated, section 6 |
| `one_shot` | two tasks that share nothing, a behaviour being of one of them.  `suggest-hostnames`: does a tailnet that changes while it is read ever give a device a wrong owner, does any order of the search propose a name for a host it shares with another, is the file torn, lost after it was reported, or put over another's.  A probe: is any address dialled that was not vetted, is one tried after the deadline that was not next, has every result its reason | holds |
| `setup` | two of three commands on one environment file, edits by hand, kills, power losses, requests racing for the one-time path: is a setting lost, is the file ever torn, is the source written the one whose client was told | holds |

### Bounds, and why they are enough

* Editor: one or two processes, one or two tabs, one or two hosts, one edit bundle (and none), one organization, three
  keys.  A lost update needs two saves, an operator or a crash in between; a second writer needs two processes; keeping
  unrelated entries needs two IDs.  Keys are compared for equality only; three suffice for a live key, a form's and a
  fresh one, and a process that finds no fresh key simply waits (`FreshKeys`).  The proofs of section 5 remove these
  bounds.  A refresh of the catalog may hide either of two targets in `editor_live`; elsewhere hosts stay visible.  In
  `editor_answers` fairness makes symmetry unsound, so none is used.
* `cache`: `Poll = 2` and `CallTime = 1` with Headscale's four calls make a slow refresh (four ticks) exactly the two
  intervals that are left of the three, the boundary `StaleMeansFailure` is about.  `AgeCap` lies one beyond every
  threshold.  `MaxSaves = 2` allows one save before and one after a poll's load.  Tailscale's longer sequence differs
  in the number of calls and authentications only.  `cache_recovery`: no editor, so that metadata may fail to load too;
  one part changing between two values is enough, since parts are loaded alike.
* `health`: a pool of one makes jobs wait when the deadline comes, a pool of two lets workers overtake each other; two
  configured hosts of three.  Interval and timeout of one tick: a probe ends in its tick or overruns.  `Outcomes` holds
  one known state and `unknown`: the poller treats all known states alike.
* `tokens`: three tokens allow a revocation before and one during a call; at the bound authentication only fails.
  Only one goroutine polls today, but the clients are written, and tested, for several.
* `matcher`: all pairs of ten sources and seven destinations, one of each class the code tells apart, alone in a legacy
  rule and, with eight capabilities around port 80 and at the ends of what a port may be, in a grant, under two pairs of groups and three alias tables (none, to
  an address, to a CIDR); then combinations of two and three rules where the first that matches may be any of them; for
  ssh, a rule against grants and legacy rules that open TCP/22 or do not, and two rules for overlapping accounts with
  every combination of accept and check; a rule with every further field, and a plain policy with every set of further
  sections and with node attributes of every class of target.  Matching looks at one rule, source and destination at a time and keeps only the
  first rule, so nothing depends on three rules that does not on two.  The proofs remove these bounds.  Names, categories
  and positions include pairs equal in lower case, equal throughout, and missing, since those are the cases of
  `serviceCardLess`.  No instance has a group among a group's members (section 5).
* `setup`: `MaxStarts = 2` of a wizard, an editors' command and the observer, every pair; a lost update takes two commands,
  or one and a hand edit, and a hand edit undone unnoticed takes the `MaxEdits = 2`.  Of three requests two have different
  peers, for the race, and one is malformed.  The files at first are none and one with the credentials of both providers and
  no `CONTROL_PLANE`; hand edits add broken ones.  `OwnKeysOnly` leaves out edits by hand in the two gaps the comparison
  cannot cover, which `docs/reference/cli.md:67` asks operators to keep clear of.
* `one_shot`: three tailnets, one as usual, one after a user was renamed (with a device now known by ID), and one where a
  login is another user's ID; headscale nodes with all three lists of tags.  Three lists of proxy hosts: with every reason
  not to be eligible; a chain of two hosts, and a component of two hosts and several names that a search meets in different
  orders.  Five inputs on stdin, one with an invalid name and some that add a name or repeat one.  The limits are small and
  each is reached: 2 records, 6 name fields, 3 candidates, 6 hosts and domains, 4 suffixes, 5 edges, 2 entries stand for
  1024 and more.  Two commands on one path: a race takes two, and the proofs are for any number.  For the probe seven
  addresses, among them an unspecified, a loopback and the broadcast address; three answers of DNS, where a name moves to a
  protected address, to a dangerous one and back; eight configuration files, at and beyond the boundaries of the status
  ranges, the durations and the ranges of addresses; eleven backends.
* Crashes and upstream changes are not bounded in number, nor restarts outside `setup`, nor hand edits of the metadata.

## 4. Fairness

* `editor_answers`: weak fairness on each save's own steps, strong on obtaining `e.mu`: Go's mutex hands over
  in starvation mode after a millisecond, and no step of `commit` waits for anything but the file system.
* `cache_recovery`: time passes, the goroutine runs, and an upstream that is asked again and again answers at some point
  (strong fairness of each call's `Receive`).  The last is about the surroundings: with an upstream that never answers
  again nothing can arrive.
* `health`: every goroutine that can run does; a probe ends by its context's timeout, as its `Tick` guard says.
* `tokens`: requests are answered or time out, and a mutex that is free again and again is obtained.

## 5. Proofs

Every invariant and every action property the passing runs check is also proved, for all values of the constants that
meet the assumptions; so is the refinement of the register.  Each component has an inductive invariant that its theorems
follow from; the runs' bounds and the proofs complement each other, since a run also shows that the cases occur.

### Metadata editor

`MetadataEditorProofs` proves, for all sets of processes, tabs, hosts, edits, targets and keys:

| Theorem | Statement |
|---|---|
| `TypeCorrect` | `Spec => []TypeOK` |
| `OneWriterHolds` | `Spec => []OneWriter` |
| `OneEntryChanges` | `Spec => SaveKeepsTheRest` |
| `ViewIsDurable` | `~LiveOperator` gives `Spec => []ConfirmedViewIsDurable` |
| `SavesDoNotPileUp` | `~LiveOperator` gives `Spec => []OneUnsettledSave` |
| `UpdatesAreNotLost` | `~LiveOperator` gives `Spec => NoLostUpdate` |
| `RevocationStopsSaves` | `HistorySpec => []RevokedSaveNeverLands` |
| `HandEditsSurvive` | `HistorySpec => FinishedHandEditSurvives` |
| `EditorIsRegister` | `~LiveOperator` gives `Spec => ImplementsRegister` |

The argument has two layers.  `BaseInv` holds whatever the operator does: types; a save under way is served by a live,
enabled process (`ServedInv`); whoever is past the lock owns it (`LockInv`); one save per process is past `e.mu`
(`MutexInv`); a save's form still equals the confirmed view and its temporary file is the one-entry edit of it, already
synced (`SaveInv`); keys and `disabled` follow the process's life (`ProcessInv`).  None of the checked properties is
inductive without these: a rename, for example, keeps the other entries only because the temporary file was made from the
view the form showed, which in turn holds because no other save of the process can confirm in between.

`DiskInv` adds what the lock holder may conclude about the disk, and needs an operator who edits only while no process
holds the lock: between renames the file is the confirmed view; every inode a power loss may leave is synced and is the
view or the file.  With a live operator it is false, which is why those theorems assume `~LiveOperator`, and
why `editor_live` checks the weaker statement the code still gives.  `LEMMA Alone` carries the induction: two
processes past the lock are the same, so a step of one leaves the conclusions of every other untouched.

`OvertakenInv` is for the two history theorems and needs no such operator: a save past its last disk check that nobody
has raced since still has the file its form showed, and one nobody moved since the final check is still allowed; a
process that serves keeps its key, so a token that was good at the check stays comparable.
`EditorIsRegister` is a simulation: a rename is the register's swap, a directory sync its acknowledgement, a failed one its
doubt, `Stop` and `PowerLoss` its crash, a hand edit offline its replacement, and each remaining step is one of the
register's others or a stutter.  Besides `IInv` it needs `AnswerInv`, that a save under way has no answer yet: a process
that halts must not take back what somebody was told.

The assumptions are `EditorAssumption` (among others: initial files parse, `None` is no other value) and nothing else.

### Snapshot cache, health poller, tokens

| Module | Theorem | Statement |
|---|---|---|
| `SnapshotCacheProofs` | `CacheTypes` | `Spec => []TypeOK` |
| | `HealthyIsRecent` | `Spec => []HealthyMeansRecent` |
| | `StaleAfterFailure` | `Spec => []StaleMeansFailure` |
| | `ConfirmedSavesShown` | `Spec => []ConfirmedSavesAreShown` |
| `HealthPollerProofs` | `ShownHealthIsRecent` | `Spec => []KnownIsRecent` |
| | `LapsesTellOfFailure` | `Spec => []StaleMeansFailure` |
| | `ResultsArrive` | `Spec => NoResultIsLost` |
| `TokenClientProofs` | `RefusalsHaveACause` | `Spec => []RefusalHasACause` |
| | `RenewalsAreShared` | `Spec => []RenewalsCoalesce` |
| | `TokensMoveForward` | `Spec => TokenMovesForward` |

`CacheInv` bounds every age by where the refresh stands: in its k-th call nothing it has read is older than k - 1 full
calls and the ticks of this one (`TakenBy`), so nothing published lags more than `Span`; and a warm process whose last
refresh succeeded has waited for the ticker since, so its snapshot is at most one interval and the running refresh old.
From this the two thresholds follow for every interval, timeout and number of calls.  `PageInv` says that a page with an
editor shows no less than was confirmed when it was asked for.

`PollerInv` does the same for the poller: what a cycle holds is no older than the cycle (`ObservedInv`), so without a
failure what is in the store is at most two intervals old when the cycle's results are due and three while the next one
runs (`StoreInv`), and no target was read more than an interval before its check (`Timely`).  `DeliveryInv` follows a
host through the channels: before the deadline a started host is in the queue, with a worker or collected, and workers
leave only after the queue was closed and empty, so none is left when the last worker has gone.

`TokenInv` relates three orders: who owns `c.mu`, which token is newest, and what each call has seen.  After a call's first
token, whatever it finds stored is that token or one issued since (`CallInv`), so a second refusal means that a token was
revoked during the call; whoever authenticates had found the stored token outdated (`RenewalInv`), so nobody renews what
another has renewed.

Their assumptions (`CacheAssumption`, `HealthAssumption`, `TokenAssumption`) type the constants and keep `None` apart
from every other value; finitely many hosts and workers are assumed for the poller, as slices hold.

### Matcher

`MatcherProofs` proves, for all policies, snapshots and logins:

| Theorem | Statement |
|---|---|
| `CardOrder` | `ServiceCardLess` orders any two different cards one way, and is transitive |
| `OneAnswer` | `PlainGroups` gives `Spec => AnswersAgree` |
| `CardsFollowPolicy` | `PlainGroups` gives `Spec => []CardsMatchPolicy` |
| `SectionsHold` | `Spec => []OneSectionPerCategory` |
| `MachinesFollowPolicy` | `Spec => []MachinesMatchPolicy` |
| `ChecksHold` | `Spec => []CheckIsNotBypassed` |
| `AnswersRefer` | `Spec => []TypeOK` |

`PlainGroups` says that no group is a member of a group.  It is needed: the loop of `buildIdentitySet` asks whether a
member is in the set it is extending, so a group nested in another counts or not by the order Go walks the map in.
Both control planes refuse to store such groups; the code here does not check.  `LoopInv` is the loop's invariant under
`PlainGroups`: the set so far is the user's tokens and those visited groups that hold one of them (`IdentitiesBut`),
which no longer depends on the order.  `OneAnswer` then needs that the cards have one sorting: where two sortings first
differ, each has the other's card later, so neither is less than the other (`OneSorting`), which `CardOrder` excludes
for cards with different IDs.  `SectionsHold` follows from the order alone, for any identity set, so it needs no
`PlainGroups`; neither do the machine theorems, where members are compared with the exact login only.  `CardsFollowPolicy`
and `MachinesFollowPolicy` go through `RulesMatch` and `GrantsOpenMachine`: per rule, `IdentitiesName` or `ExactName` says
that the set names the user and nobody else, `DestinationDenotes` that a destination matches what it denotes,
`GrantMatches` that the sources validation keeps are those that may be a person, and `NoConditions` that no accepted rule
has a condition (a posture, a route, a section on all rules) that the matcher would ignore.  `AnswersRefer` is more than
types: a card names a rule of the policy in force, a machine a node of the inventory that offers some account.
The assumptions are
`SelectorAssumption` and `MatcherAssumption`, which type the constants; proxy hosts have different IDs in them.

### Suggestions, probe, setup

`SuggestHostnamesProofs`, `ServiceProbeProofs` and `SetupProofs` prove, for all tailnets and wildcard hosts, any set of
commands, all configurations and answers of DNS, and any requests and edits by hand:

| Theorem | Statement |
|---|---|
| `InventoryTrue` | `InventorySpec => []InventoryIsTrue` |
| `CreatedStays` | `FileSpec => []CreatedProposalStays` |
| `OthersStay` | `FileSpec => OthersFilesStay` |
| `OnlyVetted` | `ProbeSpec => []OnlyVettedSocketsAreDialled` |
| `ReviewIsUnambiguous` | `AllSuggestSpec => []SuggestionsAreUnambiguous` |
| `AcceptedServicesAreUsable` | a service the parser accepts is one the probe can use |
| `ReportsAreJustified` | `ProbeSpec => []ReportIsJustified` |
| `SetupTypes` | `Spec => []TypeOK` of `Setup` |
| `FilesAreWhole` | `Spec => []WholeFile` |
| `TrustedIsObserved` | `Spec => []TrustedWasObserved` |
| `CommandsKeepForeignKeys` | `Spec => OwnKeysOnly` |

`InventoryInv` keeps that the users in memory are accepted ones and were those of `earlier`, and that every node came from
a device whose owner resolved.  `OwnersAreTrue` then compares the two moments: a reference in the device names its account
now and the user it resolved to then; these can differ only through a login or an ID that changed hands, the first of which
`InventoryIsTrue` allows for and the second it excludes.  `InventoryAssumption` says that a control plane refers to a user by
ID or login.

`FileInv` keeps that what the path may name is nobody's, the operator's or a command's that has linked its file (and so
synced it), and that as long as the operator took no command's file, a command past its link still has the path to itself: that
is what makes a removal by name hit its own file.  `ProbeInv` keeps that the addresses are what the target resolved to at
one recorded moment, and that every protected endpoint compared so far on the target's port resolved, at a recorded moment, to
other addresses; the three conclusions follow since nothing is dialled before all have been compared.

`SearchInv` is the search's invariant.  `Growing` describes a component under way: what leads out of a visited end is
reached, nothing reached belongs to a component that was closed, and every set of hosts that no shared ID leads out of
(`Isolated`) contains all reached hosts or none.  When both queues are empty the visited hosts are therefore a closed set
without a smaller closed part, that is a connected component, whatever order the maps of edges were walked in; `ResultsInv`
keeps that of every ambiguity, and that everything settled is suggested or in one ambiguity.  A queue is extended by any
sequence of the new neighbours; that it holds them all is a pigeonhole over finitely many edges (`SequenceOfSet`), which is
why finiteness of the names is part of the invariant (`BeforeInv`).

`ReportInv` adds to `ProbeInv` what a result may be: the service a probe picks from the configuration is the only one of
its ID in the document, its target is what document and proxy host say (`TargetInv`), and an outcome has been reached by
the steps that justify it (`OutcomeInv`); "unreachable" takes trouble, the deadline, or two moments of the probe such that
the target as DNS had it at one is not allowed or meets a protected endpoint as DNS had it at the other (`Excused`).
`DeadlineInv` counts what is dialled after the deadline in the history variable `late`: the deadline passes only while a
probe is under way, and a dial that begins after it fails and ends the probe, so there is at most one and the result is
"unreachable".  `ProbeAssumption` says that a decoded
service has exactly its four fields, and that a field that is missing or invalid has no value a valid one has.

`SetupInv` keeps that a file under the path, or one a power loss may leave there, is whole (`DiskInv`); that a command
works on the file it will compare with, but for its own keys, unless the operator edited in one of the two gaps
(`KeysInv`); and that of all requests one is claimed, whose peer is what is in the channel, observed, confirmed and
written (`ClaimInv`, `EndInv`, `ConfirmInv`).

### Only model-checked

The six properties that something eventually happens, which are beyond the prover: `SaveIsAnswered`, `ChangesArrive`,
`PollingGoesOn`, `RemovedHostsVanish`, `BrokenFileLapses`, `CallsEnd`.  That what the documentation says is violated
(section 6) is a matter of one behaviour, which the runs show.  `HealthPoller` and `TokenClient` define a `TypeOK` each,
which is part of their inductive invariants.

## 6. Disagreements with the documentation

`docs/reference/service-metadata.md:82` says that any intervening edit conflicts, and
`docs/reference/known-limitations.md:93` repeats it.  The revision is a digest of the file's bytes, not a counter
(`service_metadata_editor.go:303`, `:207`).  When two saves in other tabs change an entry and change it back, an older
form is current again and its save is accepted.  `editor_intervening_edit` shows the sequence.  No update is lost by
it: `NoLostUpdate` holds, since the replaced bytes are those the form showed.

`docs/reference/known-limitations.md:10` lists host aliases among the machine sources that "never match a human
request".  For grants that is so: `validateGrantSourceSelector` makes an alias a machine even where it looks like a login.
Legacy rules are not classified (`validateACLRules`), and `sourceGrantForRule` (`matcher.go:143`) compares their sources
with the user's tokens, among them the bare name of a short login.  With an alias `ann` in `hosts`, a legacy rule with
the source `ann` shows its hosts to the user `ann@`; `matcher_alias` finds the state.  `CardsMatchPolicy` states what the
code does instead: in a legacy rule a name is a person, in a grant an alias is a machine.

## 7. Not modelled

* The identity of directory and lock inodes (`validateDirectoryAndLock`): the deployment directory is assumed not to be
  rearranged.  Orphaned temporary files after a crash are never read and are dropped from the model.
* A change of `interval` between two health cycles: with a longer new interval an observation may turn stale during the
  next cycle without any failure, by the old interval's measure.
* A probe engine that cannot be built publishes the same as no eligible host (`NothingToCheck`).
* Of the matcher: which of several matching sources and destinations a report names; the stripping of ports, with the
  IPv6 forms it leaves ambiguous; duplicate proxy host IDs; the check period and console link of a machine; the order of
  machines (by name, then ID) and of accounts.
* Of the policy: JSON itself.  A document without the expected shapes is one that is not loaded; `tagOwners` is decoded
  and never read; selectors, ports and check periods are classes, not texts.
* Of `suggest-hostnames`: flags, the wording of the review, where a candidate came from, the syntax of names and URLs.  A
  crash between the link and the removal of the temporary name leaves a second name of a whole file, which nobody reads.
* Of the inventory: JSON, redaction, addresses of nodes.  Headscale's nodes are taken as they come: nothing checks their
  owners or IDs, so no property says anything of them.
* Of the probe: the URL of the request, which is put together from validated parts, TLS, and headers.  Protected sockets
  are compared with DNS answers of the same probe: an address that DNS gives to a protected name only after the comparison may
  be dialled, and `OnlyVettedSocketsAreDialled` says as much.
* Of setup: the text of the environment file and the syntax of its values; what the wizard asks for besides the provider
  and its credentials; the random path.  No one promises that an update reported as written survives a power loss (the
  directory is not synced), so no property says so.
* JSON, HuJSON, HTML, logging, header checks, TLS and HTTP transport.

## 8. Plan

In this order; each step with its instances, properties and, where marked, proofs.

1. `Portal`: the editor's view, the cache and the health store composed behind one page.
2. Further proofs as `Portal` needs them: what a page shows of a confirmed save, a refresh and an observation at once
   follows from `ConfirmedViewIsDurable`, `ConfirmedSavesAreShown` and `KnownIsRecent` of the parts.
