# Rocky Surf, specified

TLA+ specifications of Rocky Surf's core process (`packages/core`), the box it
installs, the clouds behind its provider packages and one card of its web
application; the TLC runs that check them on small instances; and TLAPS proofs
of what matters most. This document says what the system consists of, which
module models which part, what the runs and the proofs show, and what is left
out. Paths are relative to `packages/` unless they say otherwise.

## The system

Rocky Surf is one control-plane process, *core*, on an operator's machine. It
keeps rows in one SQLite database, asks cloud providers for virtual machines,
installs software on them and accounts for what they cost. Users reach it over
HTTP (web application, CLI, MCP server); boxes report back over HTTP or are
driven by core over SSH; periodic jobs run beside the requests.

Core is a Node process: what runs between two `await`s is atomic, and every
`await` of a provider, a box, GitHub or a disk lets everything else in. Most of
the hard behaviour is there: a handler reads, awaits, and writes back while
others have moved what it read. Core may be killed at any moment, and a call it
had sent still takes effect.

### Inventory

| Part | State | Operations | Hard behaviour | What makes it correct |
|---|---|---|---|---|
| Rows and status machine (`core/src/db/transitions.ts`, `schema.ts`, `repositories/servers.ts`) | the `servers` table | insert, status, progress, milestone, provider data, provider state, report | a legal status from an illegal moment; columns that disagree | every write follows the table; handle, step, state and status agree |
| Server lifecycle (`core/src/servers/lifecycle.ts`) | none of its own; the row, the cloud | create, get, list, start, stop, terminate, sync | two requests on one row across awaits; refused, failed and late answers; a throw between the insert and the provider | a row turns `terminated` only when its machine is let go; nothing but the bootstrap promotes it |
| Admission (`create`'s door, `jobs/limits.ts`) | rows, the spend snapshot | replay, check limits, insert | the await between the checks and the row; a cached snapshot | a key buys one machine; limits bend to races only |
| Provision ticker (`jobs/provision-ticker.ts`) | the rows it listed | time out, sync, poll the supervisor | judges rows listed before its awaits | rows in flight settle |
| Reconciler (`jobs/reconciler.ts`) | snapshot of rows, `listManaged` | flag orphans, sync live rows | snapshot and cloud are read at different times | a machine no row claims is flagged |
| Startup recovery (`jobs/recovery.ts`) | rows in flight at boot | fail, sync, re-attach | calls still on their way from the killed core | nothing left as it was found |
| Bootstrap failure (`bootstrap/failure.ts`) | the report | release the machine or keep it, fail the row | the order release, report, status, with an await inside | the report tells the truth; the row stays visible |
| Install plan (`bootstrap/resolver.ts`, `install-plan.ts`, `plan.ts`) | none | resolve tools and phases | orders and ids that disagree, twins | phases in order, exactly the tools due |
| Agent (`core/bootstrap/agent.sh`) | the journal on the box | run, resume | kill or reboot in a step, a plan rewritten under it | required steps done, in order, once, on a plan it read whole |
| Push supervisor (`bootstrap/supervisor.ts`, `push*.ts`) | drives in memory | connect, look, probe, write, launch, poll, retry | core forgets; the box does not; looks that race with the agent | ready is earned; no old verdict is taken over; drives end |
| Box callbacks (`bootstrap/internal-routes.ts`, `bootstrap-tokens.ts`) | tokens on the row | progress, plan | resends, late reports, token budget | a lost answer never bricks the box |
| Provider packages (`provider-*/src/provider.ts`, `api.ts`) | none; the cloud | provision, describe, terminate | lost answers, repeats, half-made servers, shared keys, late visibility, names held by others | the handle reaches all that was made; nothing paid for is forgotten |
| SSH access (`network/routes.ts`, `settings/routes.ts`, the providers' firewalls) | the file, the list in force, one shared object per cloud | save, push, launch | clients with an older list, an await between check and use, writes of the whole object | nobody listed is shut out; access narrows by consent |
| GitHub connection (`github/routes.ts`, `device-flow.ts`, `web/.../ConnectGitHubCard.tsx`) | flows in memory, token and metadata stored, the card | connect, poll, disconnect | each route awaits GitHub in its middle; several tabs; kills between two writes | a token is its starter's; what is shown of it is true |
| Uptime and spend (`jobs/uptime-ticker.ts`, `jobs/limits.ts`) | accumulators, watermark, monthly baseline | tick, refresh | kills between writes, clock, month change | no second twice, none lost |
| Data directory lock (`boot/data-dir-lock.ts`) | `core.lock` | acquire, release | several processes, kills | one core per directory, never bricked |
| Everything else (job runner, secrets, authentication, backup, packs, registry, events, HTTP, CLI, MCP, the web's pages) | see `PROJECT.json` | | see *Not modelled* | |

How they interact: requests, jobs and recovery all call `lifecycle.sync` and
the row writers of `db/repositories`; the ticker calls the supervisor and the
failure path; callbacks call the row writers and the failure path; `create`
asks admission first and a provider package last; the uptime ticker reads what
`recordProviderState` left on the row; limits read the spend tracker's
snapshot; boot takes the lock, runs recovery, and only then listens.

## The modules

| Module | Models |
|---|---|
| `ServerStatus` | the status table, the provisioning steps, instance states and billing states |
| `ServerRow` | a row and its writers, each a function from row to row |
| `ServerPromise` | abstract: what a row promises its readers |
| `ServerLifecycle` | requests, jobs, recovery, the cloud and the boxes; composes the rows of `ServerRow`, implements `ServerPromise` |
| `InstallPlan` | the resolver, as functions from choices to a plan |
| `InstallContract` | abstract: what an install promises |
| `Bootstrap` | agent, journal, supervisor, callbacks and tokens; uses `ServerRow`, implements `InstallContract` |
| `Provisioning` | `provision`, `describe`, `terminate` of five clouds, call by call |
| `SshAccess` | the SSH list, from the file to the shared firewall of four clouds |
| `Admission` | the door of `create`: keys, limits, the spend snapshot |
| `Metering` | uptime ticks and monthly spend |
| `DataDirLock` | the pid file, one system call a step |
| `GithubConnect` | the device flow, its routes, its card |
| `MC...` | the instance a run checks: sets, symmetry, the plans driven |
| `...Proofs` | theorems: `ServerLifecycleProofs` (with the rows and the promise), `BootstrapProofs`, `ProvisioningProofs`, `SshAccessProofs`, `AdmissionProofs`, `GithubConnectProofs`, `MeteringProofs`, `DataDirLockProofs` |

### ServerLifecycle and the code

* `row[s]` is a row of the table, without the columns no status depends on.
  `machine[s]` is the cloud's truth; `Views` is what `describe` may say of it,
  which lags a release.
* `task[t]` is an activation of a handler: the operation, the server, the await
  it is suspended at (`pc`), the provider's answer, and the status it read
  before the await where the code goes on to use that (`snap`). A call takes
  three steps: made (`CreateBegin`, `ReadBegin`, `TerminateBegin`), landed at
  the provider (`DescribeLands`, `ProvisionLands`, `PowerLands`,
  `ReleaseLands`), returned from (`CreateReturns`, `ReadReturns`,
  `TerminateReturns`, `FailReturns`). Everything else of a handler, up to its
  next provider call, is in the step that begins or resumes it.
* An `await` that stays in the microtask queue (an event broadcast, the
  supervisor's poll) does not let a new request in: `MidTurn` and `NewTurn`.
* `tick`, `sweep` and `recovering` are the lists the three loops walk, taken
  before their first await, as in the code. `drive` is the supervisor's memory.
* `Crash` drops all memory; calls already sent stay on the `wire` and land
  later. `Boot`, `RecoverNext`, `RecoverReturns`, `Serve` are the boot sequence.
* `CreateBreaks` is whatever throws between `insertServer` and the `try` that
  covers the provider (`lifecycle.ts:839-898`): the row stays `requested`, no
  create works on it, and the ticker times it out.
* `list` is a `get` for each row and is modelled as such. The provider is
  assumed registered. A tick of a job never overlaps itself (`jobs/run-job.ts`).

### Bootstrap, InstallPlan and the code

* One server, from the machine that answers to the row that runs or ends. Every
  remote command of `push.ts` is a step: between two of them the agent moves,
  systemd restarts it, the box reboots, the connection drops, core is killed.
* `journal` is `state.json`, `planFile` the run id in `plan.json` (or `Torn`
  while it is rewritten in place). Run ids are only compared, so a fresh one is
  any id nothing on the box carries.
* The agent reads `plan.json` with one `jq` per field, and a drive that joins a
  live agent rewrites the file under it. A read of the half-written file yields
  nothing: `Stamped` may lose the run id, the journal's owner or the steps;
  `LengthIsLost` makes a plan of no steps, which is done; `AgentMisreadsStep`
  takes a step with a stretch of its fields lost, where no script succeeds, no
  check verifies, no user or time limit cannot run, and a step without its id is
  entered nowhere. `installed` (history) is the steps that have really run and
  succeeded, `misread` (history) says that a step was passed over this way.
  A misread step counts as a mishap. The drive rewrites `agent.sh` and
  `secrets.env` in place too, with the bytes they had; that is left out.
* `token` is the plan token with its budget of uses and its expiry; `fetch` the
  stub's tries; `late` the reports still on their way.
* The plan is whatever the resolver renders: `MCBootstrap` runs
  `resolveInstallPlan` over several hundred choices of pack, tools,
  repositories and last steps, checks the phases of each, and drives three.
  `sort` and `filter` are said by places (`InOrder`, `Taken`): an element's
  place is how many are ahead of it.
* `RowEnds` is any end the row may take elsewhere: a timeout, a terminate.
* A step that runs a script succeeds or fails; what it does inside is left out.
  So is the launcher for boxes without systemd.

What reading it for the model showed, and no run is about: callback mode is
never chosen in production (`app.ts:234` passes no `requested`); the box's stub
never fetches `/secrets`, though `bootstrap-tokens.ts:33-38` counts two uses; in
callback mode the row is promoted when the first `ready` step starts, not when
the last one ends; the stall timeout (15 minutes) is shorter than a step's
(1800 s); and `plan.ts:82` refuses the plan with two steps of one id that
`resolver.ts:125` renders for two repositories of one name: a paid machine is
failed after three drives. A pack that lists a tool twice meets the same end:
neither `packs/schema.ts:156` nor `packs/routes.ts:546-554` refuses it.

### Provisioning and the code

* Per server one call of `provision`, step by step through the provider's API
  calls, then `describe` and `terminate`. `kind` picks the cloud; what clouds
  do alike is one action (`CreatesMachine`, `Reaps`), what differs is a CASE.
* `label[k]` says for which server a key object was minted; a key is known by
  its id, so one minted again under its name is another object.
* `Repeats` and `GivesUp` are the transport: no answer may mean done or not.
* A machine just made is not `Shown` to reads for up to `MaxLag` of them, to
  Hetzner's lookup by name after `uniqueness_error` included: one that shows
  nothing deletes the keys and throws (`Adopts`).
* `taken` names servers whose machine's name somebody else's machine holds
  (`Stranger`). GCP asks for its labels; Azure for its tag, and adopts one
  without any (`bare`); Hetzner adopts whatever carries the name.
* `loose` records servers the code itself lost track of: the last answer was
  lost, a clean-up failed, the cloud did not show it the machine it had made, or
  it threw outside the block that cleans up (Hetzner's loop over the keys,
  `provider.ts:363`). The properties except them and nothing else, but for the
  second droplet described below.

Also seen: DigitalOcean's `terminateRequested` is not taken back when the
terminate fails (`provider.ts:793`); the terminate of a machine not yet
visible counts as done, except at Azure, where it throws because the cloud keeps
the machine's interface; two first launches at DigitalOcean make two firewalls;
GCP's deadline throws although the machine may still come; the user's own key,
minted by one server's create, is deleted with that server while another's
create may be about to name it.

### SshAccess and the code

* `file` is the saved list, `inForce` the one the process adopted and built its
  clients with. A call in flight keeps the list it began with (`list`), what it
  read (`todo`, `out`), and whether its caller still waits (`waited`).
* A push is two steps before the cloud is asked: `Push` reads the file and the
  list in force, `PushGoesOn` has the body, compares what was read (`saw`) and
  takes the client that is registered by then. A file that cannot be read, or
  does not name the list, is no objection. `said` (history) is what the file has
  held since the push was asked for.
* A launch reads the object (`Reads`) and makes it (`Creates`) in two calls. At
  Azure the second is a PUT of the whole group, which takes the rules of a group
  made meanwhile with it (`RemakesGroup`).
* `alone` is a history variable: nobody else has changed the object since the
  call began. `steady` is the set of networks on every list so far.

Where the properties stop, by reading ADR-0021: its line 332 says provision is
additive and never revokes; Azure's provision writes the whole rule, and a
DigitalOcean launch that read before another's write puts back what it read, so
a network put on the list in between can be lost (`NarrowsOnlyOnConsent` speaks
of calls nobody interfered with; `SteadyStaysIn` of networks listed throughout).
A client built before a save may write last. A file that names `${VAR}` never
equals the resolved list, so its push is always skipped.

### Admission and the code

* A request is the name of the row it would insert; `pc` is where `create` is:
  at the door, awaiting the catalogue (`pricing`), awaiting the provider.
* `over` is the snapshot's `overCap`; `counted` (history) says nothing it rests
  on has changed since. `raced[r]` (history) is who went in while `r` waited.
* One user, one currency, an uncapped configuration being a cap no spend
  reaches. A row's later life is reduced to up, failed, terminated.

Also seen: the loser of a race for one key gets an error from the unique index,
not the row its comment promises (`servers/routes.ts:1101-1103`); a cap saved on
the settings page binds from the next count on, not "the very next create"
(`limits.ts:174`); a failed row with a billing machine does not count as active.

### GithubConnect and the code

* A flow stands for its device code, the account that approves it and the token
  GitHub gives for it. `call[c]` is a request being handled: past its lookup it
  is at GitHub, at the viewer lookup, or its answer is on the way to its tab.
* `card[t]` is `ConnectGitHubCard`: one timer at a time, torn down with its
  flow (`Current`). Scripts call the routes without a card.
* Time passes in ticks; a longer interval, once asked for, stays.
* A connect and a disconnect write twice: `RestartWhileStoring` and
  `RestartWhileDisconnecting` are a kill between the two.
* History: `starter` (who started a flow), `quiet` (ticks since GitHub was last
  asked about it), `gone` (given up with no poll in progress), `torn` (core was
  killed between the two writes of the user's connect or disconnect).

Also seen: a lost or failed answer ends a flow GitHub may have redeemed; the
second of two polls of one redeemed code is told "error" though the first
connected; a poll already at GitHub when its user disconnects stores afterwards;
a cancelled card's poll may still connect; two connects at once leave two flows.

### Metering, DataDirLock and the code

The clock counts whole seconds; two timestamps that many seconds apart floor to
that difference or to one less. `meter[s]` is `isBillingRow`, `anchor[s]` the
earlier of `billingSince` and `startedAt`. A tick is a step per row written
(`Accrue`), one for the watermark (`TickMarks`) and one for the spend
(`TickEnds`): each is a transaction of its own and core may be killed between
them. Cost is one unit a second. Which rows bill is `ServerLifecycle`'s
business; here the meter switches at will.

A lock file is known by its creator and by whether its record has been written:
`writeFileSync(path, ..., { flag: 'wx' })` is an `open` and a `write`. `pc`
follows `acquireDataDirLock` and `releaseLock` from system call to system call;
`attempt` is the loop's counter; `Dies` may strike anywhere. `overlapped` is a
history variable: some process began to acquire while another was acquiring.

## The runs

| Run | Question | Bounds |
|---|---|---|
| `lifecycle_push` | do rows stay truthful under push bootstrap with the ticker: nothing runs that never was ready, nothing is called dead that lives, a terminate lets go, a failure stays seen, no machine is lost behind a row | 1 server, 2 requests, 1 fault, 1 crash |
| `lifecycle_callback` | do callbacks, power operations, a provider that bills while stopped and machines touched in the console keep `ServerPromise` | 1 server, 2 requests |
| `lifecycle_settles` | does every row in flight end | fair; 1 server, 1 request, ticker, 1 fault, 1 crash |
| `lifecycle_meters` | do meters start and stop with their machines, are orphans flagged | fair; 1 server, 1 request, reconciler, 1 fault, 1 crash |
| `late_timeout` | a statement the code does not keep (below) | 2 servers, ticker |
| `bootstrap` | is ready earned, is no old verdict taken over, do key and token outlive their need, do drives end, are phases in order | every plan of several hundred choices, three driven, both modes, any 2 mishaps, 3 drives, 2 unit restarts, a budget of 2 |
| `providers` | does the handle reach everything, is what fails cleaned up, is absence believed only when true, are only own keys deleted | 5 clouds, 2 servers sharing a key, a name held by another's machine, any 4 mishaps, 1 repeat, 1 read of lag |
| `ssh_access` | does who stays listed stay in, does access narrow by consent only, is the push's answer true | 4 clouds, 2 networks, 2 calls at once, 2 saves or restarts, 1 edit, failed call or passed deadline |
| `admission` | is a key good for one server, do limits bend to races only, does the cap bind once counted | 3 requests, 2 keys, limits of 1 or 2, 1 save |
| `github_connect` | whose token is kept, is what is shown of it true, does what was given up stay so, is GitHub asked slowly enough, does the card speak of its code | 2 users, a card and scripts, 2 codes, 2 requests at once |
| `data_dir_lock` | does the lock keep to one core, and never brick | fair; 3 processes, 5 attempts |
| `metering` | is every second counted once, is the month not overcharged | 2 meters, 3 seconds, months of 2, 1 crash, 1 setback |

Why the bounds are enough. Servers share nothing but the jobs' lists and, at
Hetzner and DigitalOcean, the user's key, so one server meets every interleaving
of handlers about it, and the hazards that need two have two (`late_timeout`,
`providers`). Two requests, calls or polls are what it takes for one to overtake
another in an await; a third at the door of `create` lets two race for one key
while another key takes a place. One fault and one crash reach each await; the
second mishap of `bootstrap` is what undoes the repair of the first, and four
in `providers` let a lost answer, its repeat, the clean-up and a look all fail.
Three processes are the least where one boots while another closes and a third
recovers. Three seconds cross a month and hold a tick, a torn tick and the tick
that repairs it. The view of `ssh_access` forgets `said` of a
call that neither waits for its body nor is alone: no guard and no property
reads it then. One card is enough because cards meet only in core, where
scripts stand for the others. The proofs then drop every bound for the
properties they cover.

`CHECK_DEADLOCK FALSE` is set where the system may come to rest: all servers
over, no crash left, a server ready, or the clock at its bound.

### Properties

* Rows: `RowsAreReachable`, `OnlyReadyRuns`, `DeathIsTrue` (a failure report says the machine was
  released only when it was), `TerminatedLetsGo`, `FailedUntilDismissed`;
  `KeepsPromise`, the refinement of `ServerPromise` under `status <- row.status`,
  `usable <- {rows at step ready}`; `RowsSettle`, `MeterStops`, `MeterStarts`,
  `OrphansAreFlagged`, liveness.
* Install: `ReadyIsEarned`, `KeyRetiredOnlyWhenRevoked`, `PlanIsNotWithheld`,
  `NoOldVerdict`, `GoneMeansUnfinished`, `PhasesInOrder`; `KeepsInstallContract`,
  the refinement of `InstallContract` under `complete <- installed`, `shown <-
  the row`, `spoiled <- misread`; `DrivesEnd`, liveness. The first two and the
  contract hold until the agent passes over a step for want of a whole
  `plan.json` (`misread`), for which see below.
* Clouds: `HandleCoversAll`, `NothingLeftBehind`, `AbsenceIsTrue`,
  `OnlyOwnResourcesGo`; `SteadyStaysIn`, `NarrowsOnlyOnConsent`, `AnswerIsTrue`.
* Door and money: `KeyMeansOneServer`, `LimitsBendOnlyToRaces`,
  `CapBindsOnceCounted`; `NoSecondTwice`, `NothingLost`, `MonthIsNotOvercharged`.
* GitHub: `TokenIsTheStarters`, `LoginIsTheTokens`, `GivenUpStaysGivenUp`,
  `PollsAreSpaced`, `CardSpeaksOfItsCode`.
* Lock: `OneCoreUnlessOverlapped`, `NeverBricked`.

Every module's type invariant is proved. Those of `Metering` and
`Bootstrap` are checked in their runs too; the others, and `Coherent`
and `CoreKeepsLock`, are not checked again.

### Fairness

For the lifecycle: intervals keep firing (`setInterval`), a provider answers or
times out, a resumed promise runs, machines and the clock move on, an operator
restarts a core that went down. Nothing is assumed of users, boxes or drives.
For `Bootstrap`: the agent takes its next step, the ticker keeps polling the
supervisor, a drive goes on or is cut off when the box is gone; mishaps are
bounded and never assumed to happen. For the lock: the operating system
schedules every process. Every assumption is weak fairness. The other modules
claim no liveness.

## Where the repository and its code differ

A run shows this one; `PROJECT.json` quotes the lines.

* `late_timeout`: the ticker judges rows it listed before its first await, and
  times out a server that has come up in the meantime
  (`provision-ticker.ts:17-18` against `:125`).

The models contain these too, the properties are stated around them, and no
run is spent on them:

* A step is to be done only when its check says so
  (`docs/bootstrap-contract.md:724`, `agent.sh:802-803`); an agent that reads
  `plan.json` while an adopting drive rewrites it (`push.ts:325`) finds no length
  or no script, is done without (`agent.sh:824, 907`), and the row runs. This is
  what `misread` excepts.
* The closing steps are required so that one that fails leaves no running box
  behind, and core's key goes only after the step that takes it off the box
  (`resolver.ts:202-203`, `internal-routes.ts:200-204`); in callback mode the
  report that the first of them starts makes the row running and retires the key
  (`internal-routes.ts:196`). `Promised` is therefore less in callback mode.
* Hetzner deletes the keys of a failed provision because there is "NO SERVER"
  (`provider-hetzner/src/provider.ts:410`), also when the lookup after a lost
  answer only did not show it (`:389`). Such a server is `loose`.
* A provider must not claim what it merely matched
  (`provider-sdk/src/managed.ts:48`); Hetzner adopts any server of the name
  (`provider-hetzner/src/provider.ts:393`) and a terminate deletes it.
* Azure's rules are written one by one because a PUT of the group deletes the
  others (`provider-azure/src/provider.ts:527-531`); of two first launches the
  later PUTs the group (`:606`) when the earlier has written its rule. This is
  what `RemakesGroup` excepts.
* A push of a list the process has not adopted is to be skipped
  (`network/routes.ts:261-268`); what is compared was read before the await of
  the body (`:246`), so a save that is not adopted meanwhile goes unseen and the
  older list is pushed. `AnswerIsTrue` speaks of the lists the file held since
  the push was asked for.
* A timeout whose release is refused fails the row all the same, where the
  comment says it stays and is tried again (`provision-ticker.ts:99-110`).
* Terminating a server whose create still waits in the provider leaves a machine
  behind a `terminated` row (`lifecycle.ts:1061`; `repositories/servers.ts:83-84`
  promises at worst a row with no instance). `OrphansAreFlagged` covers it.
* While a failed box is being released, a read of the cloud moves its row to
  `terminated`, where `docs/adr/0010` says it stays failed (`failure.ts:116`).
* The lock file exists, empty, before its record is written; a second process
  takes it for stale and both become the core (`data-dir-lock.ts:19-20, 94-106`).
* A machine stopped and started between two ticks is credited with the time it
  was off, where the comment calls every error the user's favor
  (`uptime-ticker.ts:89`).
* A lost answer to `POST /droplets`, repeated by the transport, makes a second
  droplet (`provider-digitalocean/src/provider.ts:729`;
  `provider-sdk/src/provider.ts:95` demands idempotence).

## What is proved

Every safety property and every action property that a passing run checks, and
both refinements, for every value of the constants under the assumptions the
modules name. In brackets is the property a theorem states.

* **Lifecycle.** `TypeCorrect`, `AlwaysCoherent` (`Coherent`),
  `NothingElsePromotes` (`OnlyReadyRuns`), `NoRowIsLost` (`RowsAreReachable`).
  The invariant is `TypeOK /\ Coherent`; neither safety property is inductive
  alone. A row that shows `running` is ready because whoever writes a status
  goes by a row whose columns agree (`RowsCohere`); a `requested` row has
  a suspended create that owns it, or broke off before any provider was asked, or
  is on the list recovery walks (`TasksCohere`, `CreatesApart`,
  `RequestedIsListed`); the loops may act on what they listed because a listed row
  keeps what made it listed (`ListsCohere`). Each writer of a row is shown once
  to follow the row (`Follows`); each action then has one lemma.
* **Deaths.** `DeathsAreTrue` (`DeathIsTrue`), `EndsLetGo` (`TerminatedLetsGo`).
  They relate what a row says to the machine, and an answer is acted on well
  after the provider spoke, perhaps by a core that did not ask. `Vouched` says
  what may still be taken for granted by then: an answer that told of an end is
  still true, for machines only age; a server without a row has an untouched
  machine and no call on the wire; a create in flight has a bare row that
  claims nothing (with `CreatesApart`, nobody else creates it).
* **Promise.** `ImplementsPromise` (`KeepsPromise`): a step writes one row at
  most, and what it writes is a move `ServerPromise` allows. `FailedRowsStay`
  (`FailedUntilDismissed`): every writer leaves a failed row failed but a user's
  terminate, which writes no row but its own.
* **Install.** `TypeCorrect`, `ReadyEarned` (`ReadyIsEarned`),
  `KeyRetiredWhenRevoked` (`KeyRetiredOnlyWhenRevoked`), `PlanNotWithheld`
  (`PlanIsNotWithheld`), `NoVerdictIsOld` (`NoOldVerdict`), `GoneIsUnfinished`
  (`GoneMeansUnfinished`), `ContractKept` (`KeepsInstallContract`, in both
  modes). The invariant has a part for each who holds state. `Books`: what the
  journal and reports still on their way say of the plan is true of what was
  installed, until a step is misread, and the box's key follows the step that
  removes it. `AgentInPlace`: the agent has every
  required step it passed behind it and works on a journal it has stamped.
  `TokenAccounted`: until the box has its plan, the token was used as often as
  answers were lost. `DriveInformed`: the end of the run a drive follows came
  after the drive looked, and a strike is against an agent that stays gone. The
  parts need each other: a drive may trust an end because only an agent at work
  on its own stamp writes one.
  `PlansAssumption` and `PhasesAssumption` (nothing reports another label after
  `ready`; the step that removes the key is required) are no more than the
  resolver keeps, which is the next item.
* **Plans.** `PlansAreSound`: for any finite table of tools with one row an id,
  any pack, selection, repositories and last steps (`WellFormed`), the rendered
  plan is sound; each id comes once unless the request or the pack names
  something twice (`AsksTwice`). `PlansAreInstallable`: it meets what `Bootstrap`
  assumes of plans. `PhasesAlwaysInOrder` (`PhasesInOrder`) is the first for the
  choices of the run. Nothing there is by induction: members of a finite
  set counted by who is ahead of them fill its places, so sorting and filtering
  lose nothing and keep the order (`InOrderLists`, `TakenIs`); parts whose phases
  rise join into a plan whose phases rise (`PartsJoin`), and phases that rise
  give every clause of soundness (`RisingIsOrderly`, `ToolsDue`).
* **Clouds.** `ServersAccounted` (the invariant), `TypeCorrect`,
  `HandleReachesEverything` (`HandleCoversAll`), `FailureLeavesNothing`
  (`NothingLeftBehind`), `AbsenceIsOnlyBelievedWhenTrue` (`AbsenceIsTrue`),
  `OnlyOwnKeysAreDeleted` (`OnlyOwnResourcesGo`). The invariant speaks of one
  server at a time: where its provision is at which cloud (`Journey`), what it
  owns and has still to mint (`KeysKnown`), what may exist while the code has
  not lost track (`MachinesKnown`: an adoption whose lookup showed nothing ends
  that), how many reads are spent. Servers meet in
  the user's key only, where each keeps to the objects minted for it (`Apart`).
* **SSH access.** `TypeCorrect`, `NobodyListedIsLockedOut` (`SteadyStaysIn`),
  `NarrowingIsConsented` (`NarrowsOnlyOnConsent`), `PushTellsTheTruth`
  (`AnswerIsTrue`). The invariant `Covered` says of each call in flight what it
  carries (`Sound`: its list contains everything steady, what it is about to
  write contains its list, a push still waiting has heard of the list in force)
  and, as long as it is alone with the object, what it knows of it (`Knows`).
  Every step of another either leaves the object or ends the call's being alone,
  so `Knows` need not survive it; `SteadyStaysIn` needs its one exception, Azure's
  second PUT of the group, in that step only.
* **Admission.** `TypeCorrect`, `OneServerPerKey` (`KeyMeansOneServer`),
  `RacesAreTheOnlySlack` (`LimitsBendOnlyToRaces`), `CountedCapBinds`
  (`CapBindsOnceCounted`). `Once`: rows with one key are one row. `Room`: who
  waits for the catalogue has room for itself and for those that raced; rows
  only leave the count otherwise. `Compared`: the snapshot compares what it
  says. Cardinalities are followed one element at a time.
* **GitHub.** `TypeCorrect`, `TokensStayHome` (`TokenIsTheStarters`),
  `LoginsAreTrue` (`LoginIsTheTokens`). `Owned`: a pending flow and a poll past
  its lookup belong to the flow's starter, so a token is stored for nobody else.
  The login's theorem excepts a user who is `torn`, as its property does.
  `EndedStaysEnded` (`GivenUpStaysGivenUp`), `GithubIsNotRushed`
  (`PollsAreSpaced`), `CardsAreTrue` (`CardSpeaksOfItsCode`) add three facts: a
  code given up has neither a flow nor a poll in progress, and polls begin with
  a live flow only (`GoneIsOver`); a flow counts no more time since its last
  poll than has passed (`QuietIsKept`); an answer on its way that says connected
  is of a redeemed code (`ConnectedIsRedeemed`).
* **Lock.** `TypeCorrect`, `AtMostOneCore` (`OneCoreUnlessOverlapped`),
  `LockStays` (`CoreKeepsLock`): whoever created the file and has not given it
  back is the one it names; a process about to unlink saw a file nobody living
  owns, and without overlap nobody can have replaced it since.
* **Meters.** `TypeCorrect`, `NeverTwice` (`NoSecondTwice`), `NoSecondIsLost`
  (`NothingLost`), `MonthIsFair` (`MonthIsNotOvercharged`). A tick's written
  rows are covered up to now, the others up to the watermark, which moves when
  all are written (`Covered`); what a steady row lacks is a second a tick at
  most (`Whole`); what accrued since a month's baseline was credited in it
  (`FairMonth`). `AccountsAgree` is their conjunction. The month sums over the
  rows, which are finitely many: a write to one row changes the sum by as much.
  The induction over sets this takes is written out with a least
  counterexample, a set of naturals having a least element.

The proofs changed the models twice. `Provisioning`'s account of where an error
takes a Hetzner provision had two arms of a CASE that were both open, and is now
told apart by `OutsideTheBlock`. `InstallPlan` folded over its lists, which the
prover cannot open; with lists as orders, `ToolsAreRight` could also ask for the
tie-break by id, and a pack with a tool twice came to light.

Only model-checked: liveness (`RowsSettle`, `MeterStops`, `MeterStarts`,
`OrphansAreFlagged`, `DrivesEnd`, `NeverBricked`), which with fairness and
ENABLED is beyond the prover.

## Not modelled

* **Job runner** (`jobs/run-job.ts`): an in-flight flag and timers; the one
  interleaving there is, a tick over a tick, the flag excludes in a line.
* **Events and the web's pages**: a stream of patches onto what a page last
  fetched. Reading it showed that no page fetches again when the stream comes
  back, contrary to `core/src/services/events.ts:20-22`, and that a slow answer
  may overwrite a newer patch; no state of core depends on either. Of the web
  application only the GitHub card is modelled; pages, forms and help texts, a
  large share of the repository's lines, hold no state others rely on.
* **Backup and restore**: file and archive handling with core stopped. A row
  restored in flight and older than the timeout is timed out at the first tick
  and its machine released, contrary to `backup/restore.ts:28-30`.
* **Secrets, authentication, packs, provider registry, CLI, MCP, HTTP**:
  encryption, validation, content loading and clients of the HTTP API;
  sequential checks over single rows.
* **Provider packages** beyond provision, describe, terminate and the SSH
  firewall: prices and offerings (generated tables), error mapping, spec
  validation. `start`, `stop` and `listManaged` are `ServerLifecycle`'s.
* **Columns** of the row no status depends on: names, addresses, host keys, key
  material, metadata; the wording of reports, warnings and events.
