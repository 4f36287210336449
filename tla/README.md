# mo-miner in TLA+

Modules that model the controller of mo-miner, its pool connections and its
compute workers; TLC configurations that check them on small instances; and
TLAPS proofs of the safety properties of six of them for every value of the
constants: any number of pools, sockets, workers, threads and jobs, any bound on
faults, timers and shares. `PROJECT.json` maps every definition to the source
lines it stands for.

    tlc -config PoolDonation.cfg MCPoolFailover     a run (see the table below)
    tlc -config ComputeThread.cfg MCComputeThread
    tlapm PoolFailoverProofs.tla                    the proofs: eight modules,
    tlapm ComputeThreadProofs.tla                   one to three minutes each

## 1. The system

mo-miner is a Node.js controller (`mom.js`) that talks Stratum to mining pools
and drives compute workers: separate processes, each with a native core
(`native/`) that hashes on a thread of its own.

    pools <--TCP--> pool.js, pool/connection.js, pool/jobs.js
                        |  handlePoolJob, switchPool          ^ handleResult
                        v                                     |
                    miner/jobs.js  set_job        miner/messages.js
                        |  messageWorkers                     ^ forWorkerGeneration
                        v                                     |
                    helper.js: one pipe to and one from each worker process
                        |  job, pause, close                  ^ result, last_nonce, ...
                        v                                     |
                    native/core: Core::process_message, set_job, the hash loop

| Component | State | Operations | What is hard | Correct means |
|---|---|---|---|---|
| Pool connections and failover (`pool.js`, `pool/connection.js`, `pool/jobs.js`, timers of `mom.js`) | active pool; per pool a socket, the stored job, the last connect time, the end of the donation window | connect, throttle, fail, take a job, switch pool, soft close, primary reconnect, open and end a donation window | no timer is ever cancelled: each decides when it fires whether it still applies | the active pool is connected or connecting; stale timers do no harm; donation ends and stops; the primary is regained |
| Stratum session (`pool.js`) | login flags, inferred protocol, pending job, pending share ids and count, share totals | handshake of seven protocol families, route a response, keep back or decode a job, count a share, drain | answers in any order, twice or never; jobs before the login is decided; one id means different things in different dialects | answers reach the request they answer; nothing is mined before the login is accepted; the drain waits for what is outstanding |
| Job relay (`miner/jobs.js`, `miner/messages.js`) | the job each pool holds, the job token, the last dispatched job | dispatch, resume, match a result, keep a resume position | results and reports are in flight while jobs, pools and workers change | a share is submitted only for the job it was found for; work is not repeated |
| Worker processes (`helper.js`) | generation, worker handles, expected closes | start, message, close, force close, handle exit | exit against message, forced against natural close | every worker is told to close; none is lost silently |
| Compute core (`native/core*`, `native/async-worker.h`) | job, search position, message queue, thread | process a command, hash a batch, report, stop | JavaScript thread against compute thread | the newest command wins; nothing is reported for a job that was left |
| Job layouts (`native/job*`) | input buffer, nonce, step, mask, batch | set_job, next nonce | widths, byte order, end of the nonce space | workers search disjoint ranges and never wrap |
| Pool controls (`pool.js`) | pending difficulty, target and extranonce | keep back, apply | a stale control after a newer one | the newest control of a kind applies to the next job |
| Job decoding, share encoding (`pool/jobs.js`, `miner/submission.js`, `helper/hash.js`) | none | conversions | malformed input | refused, not mined |
| Benchmark and tests (`mom.js`, `miner/messages.js`) | job list, callback | start, sample, next | late samples | each sample belongs to its algorithm |
| Exit (`mom.js`) | `is_exiting`, grace timers | exit, second exit, drain | everything above happens meanwhile | workers end, last shares are heard |
| Options, environment, compiler policy, GPU tuning, kernels, vendored xmrig, scripts | none while mining | | | not modelled, see section 7 |

The controller is one JavaScript thread, so a callback is atomic; what
interleaves is the order of callbacks, and the controller with the workers and
the pools. A worker process has two threads of its own and more with RandomX:
its JavaScript thread and the compute thread. Nothing is persisted: a restart is
a new Init, so there is no crash recovery to check; what a crash leaves behind
(workers, positions, unread results) is.

## 2. Modules

| Module | Models | Uses |
|---|---|---|
| `PoolFailover` | active pool, sockets, stored jobs, all timers | |
| `PoolRecovery` | the same under fairness, with pools that settle at some point | extends `PoolFailover` |
| `PoolSoftClose` | the same with a history variable that dates soft-close timers | extends `PoolFailover` |
| `PoolFailoverProofs` | theorems about `PoolFailover` | extends `PoolFailover` |
| `JobRelay` | job dispatch, tokens, resume positions, workers and their pipes | |
| `StratumSession` | one connection: handshake, routing, share accounting, drain | |
| `NonceSearch` | how the nonces of a job are shared out, the end of the range, resuming | |
| `CommandChannel` | what a caller of `sendToCpp` may rely on (abstract) | |
| `ComputeThread` | JavaScript thread, compute thread, RandomX threads of one core | implements `CommandChannel` |
| `WorkerLifecycle` | worker processes, their ends, and the exit of the controller | |
| `JobRelayProofs`, `StratumSessionProofs`, `NonceSearchProofs`, `ComputeThreadProofs`, `WorkerLifecycleProofs` | theorems about the module they are named after | extend it |
| `StratumJobsProofs` | the theorem about the jobs of a session | extends `StratumSessionProofs` |
| `JobResumeProofs` | the theorem about resumed jobs | extends `JobRelayProofs` |
| `MC...` | constants and symmetry sets for TLC | extend the module they are named after |

An operator whose name ends in `_Something` after the name of another one is a
plausible bug of that one, named in its comment. It is used in no
specification; `PROJECT.json` says which property refutes it.

### PoolFailover

One variable per attribute of `opt.pools[p]` that the failover reads, indexed by
pool, and the pending timers: `connectTimer`, `firstJobTimer` (one per socket),
`closeTimer` and `windowTimer` (queues: all timers of a kind have the same
delay, so they fire in the order they were armed). Time itself is two facts,
"this pool's throttle has not elapsed" and "the window's end has passed".
Sockets are identities because the code compares them (`isCurrentPoolSocket`);
an identity is reused only once no timer refers to it.

The handlers call each other (`pool_err` clears the connection, calls
`switchPool`, which arms a soft close, resumes a pool or connects the next one
through the throttle). They are operators over a *world*, the state their
caller has already written, so that every action is one whole callback:
`Job(p, class)` is `pool_message` up to the dispatch, `SocketFails`,
`FirstJobTimer`, `WindowTimer` and so on are the other entries.

A job is "ok" or "bad" according to whether `set_job` accepts it. A bad job of
the active pool throws into `pool_err`; a bad stored job throws when its pool is
resumed. From a timer or a socket event nobody catches that: `halted`. From
`donationJobSupported` the caller does: `RefuseDonationJob`.

### JobRelay

The controller's `pool.last_job` (`held`), `getLastJob` (`lastJob`) and
`liveJobToken`, an ordered pipe down and up for each worker of each generation,
and each core's job with its search position. `set_job` stamps a new token,
chooses a start nonce (`addNonceFields`) and dispatches; a change of algorithm
retires the generation. `Process` is `Core::process_message`: the core takes the
job, refuses it while parsing and goes on with the one before (a job is `sound` or
not), or runs out of memory and stands idle with the ids of the one before
(`Allocates`, `Stops`); `Hash` is one batch. A core reports the position of the job it leaves, RandomX threads when
they stop. Which pool becomes active is left open: any switch `PoolFailover`
allows may happen at any time. The content of a job is a number so that a pool
may reuse an id for other work, and repeat a content under a new id
(`Retargets`). `early` is a history variable: the contents that were dispatched
again, or whose workers were retired, while a position of them was unknown
(a report was on its way or a core had yet to report, the workers' generation
ended, RandomX began the same job again, a core refused a resent job, or a
position known to the controller alone was dropped by a resent job).

### StratumSession

`pool` is the fields of the PoolConfig record that the session uses. The
handlers of `pool.js` are operators from the record to the record they leave.
The pool at the other end is external (`Answer`, `Announce`): it answers any
request, in any order, possibly twice, and announces jobs at any time. A
message shows the session its encoding, id and verdict; which request it really
answers (`what`, `n`) only the properties use, except where the encoding tells
(a method name). A job is usable, `Undecoded` (the dialect's decoder returns null:
`takeJob` logs it and leaves the session as it is, and a `ctxc_getWork` answer only
stops being awaited) or `Malformed` (the decoder or the handler throws, which closes
the connection: `Cleared`).

Scaled constants: the Cortex login has id 4 and `ctxc_getWork` id 6 where the
code has 72 and 100, so that two shares are enough for the submit ids to reach
the id that must be skipped. Every other id is the code's.

### NonceSearch

Every worker computes its part of the range from the job's nonce, `thread_id` and
`thread_num`; nobody hands nonces out. `job.layout` is the branch of
`Core::set_job` a job takes, and with it the stride, the checks at the end of the
range and what `last_nonce` reports. `SetJob` is one worker's `set_job`,
`Dispatch` and `DispatchLast` one call of the kernel with the counter update
after it, `Leave` the report when another job takes over (`Newer` is
`handleLastNonce`), `Resume` the dispatch of the job when its pool comes back. A
nonce has 5 bits here and 32 or 64 in the code; the NiceHash byte is the upper
two bits, or a factor of 4 between counter values when it is the last byte. Under a
mask `lanes` and `rx` put the protected bits of the blob back into the nonce they
begin at (`Restored`).

### ComputeThread and CommandChannel

`CommandChannel` is the promise: commands are handled in order, once, until
`close` or a failure. `ComputeThread` is `AsyncWorker` and `Core`: `post` is
split at its two checks of `m_accepting`, the write and the store
(`Post`, `Recheck`, `PostWrite`, `PostShut`), the destructor at its exchange,
write and join, `run` at the terminal event and its three stores. A set_job
command is `Begin` (up to the joins of the RandomX threads) and then one of
`Refresh` (same input, new ids), `SetJobFails` (an allocation failed),
`SetJobFn`, `SetJobRx` or `SetJobRxUnwinds`. Exceptions that are no strings leave
the loop (`Unwind`). `owed` is a history variable: the positions not reported
yet; `lost` those of them that never will be, because a `set_job` failed after it
had replaced the ids (`SetJobFn` with a throw) or a RandomX thread ended with an
error. `CommandsInOrder` is the refinement: `accepted` is `sent`, and `open` is
`m_accepting` or a `post` that has passed its check.

### WorkerLifecycle

`mark` is `expectedWorkerCloses`, `forces` the pending timers of `closeWorkers`,
`proc` the life of a process up to the moment the controller sees its end. The
end of a process, its last output and the errors of its stdin are separate steps.
`mode` tells a plain run from one whose harness owns the deadline and from
controlled mining, which also waits for the pool. `own` is the controller's own
compute core, whose close `exit()` asks for and waits for with the workers
(`OwnClosed`). `Exit` is the whole of `exit()`, first and later calls; `Fatal` is a fatal error of a worker on its way through
`forWorkerGeneration` and `handleWorkerError`. Faults of a worker (`Crash`,
`Hang`, `CoreFails`, `Garbage`) and of the controller (`ControllerCrash`) are
counted.

## 3. Runs

| Run | Configuration | Result |
|---|---|---|
| `pool_donation` | primary and donation pool, 2 sockets each, 2 overlapping windows, 2 soft-close timers, bad jobs (133k states) | `TypeOK`, `JobNeedsSocket`, `SilentSocketWatched`, `DonationConfined` hold |
| `pool_recovery` | primary, donation pool, backup, accepted jobs only, fairness (149k) | `NeverStranded`, `DonationWorkStops`, `TimersSpareActive`, `PrimaryRegained` hold; no deadlock |
| `pool_donation_rejected` | 2 pools, bad jobs | `DonationWorkStops` **fails** |
| `pool_soft_close` | 3 pools | `StaleCloseHarmless` **fails** |
| `relay_shares` | 2 pools reusing one id, RandomX and another algorithm, jobs the core refuses or has no memory for, switches at any time (7.9M) | `TypeOK`, `ExitReachesWorkers`, `CaughtUpWorkerMinesHeldJob`, `ShareForHeldJob` hold |
| `relay_resume` | 2 pools, 2 workers, retargets, refused jobs, failed allocations, switches at any time (8.8M) | `DuplicateOnlyIfEarly` holds |
| `relay_algo_change` | two algorithms | `NoDuplicateShare` **fails** |
| `session` | all seven handshakes, 2 jobs, jobs that do not decode or throw, 2 shares, one repeated answer, a reconnect (3.3M) | `TypeOK`, `PendingIsUnanswered`, `SharesCountedOnce`, `LatestJobHeld`, `MinesOnlyWhenGranted`, `DrainHearsCounted` hold |
| `session_drain` | Iron Fish and Beam | `DrainHearsEveryShare` **fails** |
| `nonce_search` | 2 workers, batch of 2, 32 nonces, 16 jobs in five layouts, with and without masks, two rounds (686k) | `TypeOK`, `NoNonceTwice`, `ResumeIsFresh`, `PrefixKept`, `WholeRangeSearched` hold |
| `compute_thread` | 2 RandomX threads, scripts of up to three commands, every failure (899k) | `TypeOK`, `TagsMatch`, `TerminalLast`, `RxMemoryValid`, `PositionReported`, `CommandsInOrder`, `CloseEnds` hold |
| `worker_lifecycle` | a worker and its replacement, both transports, three modes, 2 faults, any number of exits (762k) | `TypeOK`, `ExitForCause`, `NotCutShort`, `KilledBeforeEnd`, `SharesCollected`, `FailedCloseFails`, `ExitEnds`, `RetiredEnd`, `NobodyLeft` hold |

What the failing runs show, each a disagreement between a comment in the code
and what the code does:

- **`pool_donation_rejected`** (`pool/jobs.js:812`, "do not continue to mine on
  donate pool if all other pools are dead"). During a donation window the
  primary sends its first job; `activatePoolForJob` makes it active, `set_job`
  rejects the job, and `switchPool` no longer sees the donation pool as the one
  being left. The workers are not paused.
- **`pool_soft_close`** (`pool.js:375`, "do not do soft close if this pool
  became active again"). A backup that was left, resumed, and displaced by the
  donation pool within `close_wait` is closed by the timer of its first
  departure.
- **`relay_algo_change`** (`miner/messages.js:318`, "store max last nonce for
  background pool job to resume it from there"). A switch to another algorithm
  retires the workers, and their final `last_nonce` is dropped with all messages
  of a retired generation: the job is searched again from nonce 0 and shares are
  submitted twice.
- **`session_drain`** (`pool.js:348`, "Let its response arrive before controlled
  shutdown"). Iron Fish and Beam shares are never counted as pending.

Seven more behaviours came up while modelling, which the modules have and no run
asks for:

- A pool that answers an object login only after it pushed a job with an Iron
  Fish or Cortex marker is not heard: the answer is routed by the inferred
  protocol (`pool.js:853`).
- A PearlHash position is printed with 16 digits (`native/core/messages.inc:94`)
  and `pearlSeedHexValue` (`miner/jobs.js:212`) takes 8, so a resumed job begins
  at a random seed. `Resumed` draws it, and `ResumeIsFresh` leaves this layout
  out.
- The exit handler of `helper.js:866` does not mark the worker it reports. A
  write error or broken output read after the exit event reports it again, and
  that second `exit(1)` ends the controller at once: the other workers lose their
  grace period. `NotCutShort` therefore speaks of exits the user asked for, and
  of subprocess workers: a closing cluster worker is blamed for broken output.
- A job whose first nonce leaves the protected range fails after the ids of the
  job before were replaced (`native/job/execution.inc:595`, throws from 723 on); that
  job's position is never reported. `PositionReported` names it as an exception.
- While the login is being decided `pool_message` keeps one announcement, undecoded.
  One that turns out not to decode has displaced the job that waited, and the
  session has none until the pool announces another (`latest` in `Announce`).
- `set_job` adds a worker's number to a `lanes` or `rx` nonce with mask 0
  (`native/job/execution.inc:799`, and 823 for eight bytes). A job that is resumed at
  the last nonce of its range lets every worker but the first begin with the next
  prefix, an extranonce included, although `addNoncePrefix` (`miner/jobs.js:634`)
  checks the nonce it sends. `MayLeave` says so.
- A mask that is no extranonce is not looked at when a position is stored
  (`miner/messages.js:341`): the counter of a c30 worker has moved on when its range
  ends or its `set_job` throws, so the job may be resumed outside its range. The
  second disjunct of `MayLeave` is this case, and `MCJobs` has such jobs.

### Bounds, and why they are enough

- *Pools*: two are enough for every relation between two pools; the third makes
  "resume a backup" and "connect the next one" different pools and makes
  `nextNonDonatePool` skip. The proofs cover any number.
- *Sockets per pool* (`Socks`): 2 gives a timer of an earlier connection and a
  current one. With 1, a new connection waits until the old timers have fired;
  the runs with three pools use 1 and rely on the proofs for the rest.
- *`MaxSoft`, `MaxWindow`*: two pending timers are one stale and one current.
  The bounds are guards of the actions that arm timers.
- *`MaxContent`, `MaxToken`, `MaxGen`, `MaxNonce`, `MaxShares`*: two jobs for the
  two pools and one that replaces either; three dispatches to leave a job and
  return to it; two generations to retire one; as many nonces as make a
  duplicate possible. At most one result waits in a pipe: two results of one
  worker differ in their nonce only.
- *`MaxAnnounced`, `MaxRepeats`, `MaxConnections`*: a job before and one after the
  login, one repeated answer, one reconnect. With a repeated answer
  `PendingIsUnanswered`, `LatestJobHeld` and `DrainHearsCounted` claim nothing:
  a repeated answer is indistinguishable from the answer to the next share.
- *`NonceSearch`*: with 2 workers and a batch of 2 a stride is 4, so 32 nonces
  are several batches, an end of the range within a batch, and four prefixes;
  the second round begins wherever the first was left.
- *`Scripts`, `Keys`, `Blobs`, `MaxFound`*: the keys and blobs a command may carry are
  those the scripts use (two of each, so that a job can share its memory or its
  input with the one before, or neither); a job after a job of the same and of another device, a
  pause or close after it, and a third job that returns to the first; one share
  found at any moment.
- *`Sizes`, `MaxFaults`, `MaxShares`*: one worker is replaced by another, so two
  processes live at once, one of each generation; two faults hit one or both, or the
  controller. Exits are not bounded: the second one cuts short or changes nothing.
- *Symmetry*: sockets, windows, algorithms and jobs are compared for equality
  only. No symmetry is used where temporal properties are checked, nor where one
  algorithm is RandomX.

`CHECK_DEADLOCK FALSE` is set where the process may end (a bad job thrown from a
timer, exit, the end of a drain) or a bounded counter is used up.

### Fairness

`PoolRecovery` assumes that timers fire (weak fairness of each timer action and
of the passing of time), that the reconnect interval keeps ticking at moments
when the donation pool is not active (strong fairness: donation windows are
shorter than the interval between them), and that a pool which has *settled*
answers a connection with a job before its timeout. A pool settles at an
arbitrary time, after any history; before that, and for all pools that never
settle, nothing is assumed. Node's event loop justifies the timers. The answer
is strongly fair only because the bound `MaxSoft` may disable it until a
soft-close timer has fired.

`ComputeThread` assumes that threads are scheduled and that a hash ends: weak
fairness of the JavaScript thread inside a native call, of its event loop, of the
compute thread, and of each RandomX thread's next check of `m_job_ref`. Posting,
finding and failing are never assumed.

`WorkerLifecycle` assumes weak fairness of handling events, firing timers and
reading commands, for processes that do not hang; that a core asked to close does
so is `CloseEnds` of `ComputeThread`. Every behaviour is finite, so the fairness of
the disjunction is the fairness of each step.

## 4. Proofs

The theorems hold for every value of the constants that satisfies the `ASSUME`s of
the module they are about. These say that bounds are naturals, that there is at
least one pool, worker, generation or thread, and that placeholders ("no pool", "no
job") are none of the things they stand beside; TLC evaluates them in every run.

| Module | Theorem | States |
|---|---|---|
| `PoolFailoverProofs` | `TypeCorrect` | `Spec => []TypeOK` |
| | `JobsHaveSockets` | `Spec => []JobNeedsSocket` |
| | `SilenceIsWatched` | `Spec => []SilentSocketWatched` |
| | `AlwaysAWayForward` | `Spec => []NeverStranded` |
| | `DonationEnds` | `Spec => []DonationConfined` |
| | `ActiveIsSpared` | `Spec => TimersSpareActive` |
| | `DonationIsLeft` | `Spec => []DonationWorkStops` where `JobClasses = {"ok"}` |
| `JobRelayProofs` | `TypeCorrect` | `Spec => []TypeOK` |
| | `SharesMatch` | `Spec => ShareForHeldJob` |
| | `ExitIsComplete` | `Spec => []ExitReachesWorkers` |
| | `MinesHeldJob` | `Spec => []CaughtUpWorkerMinesHeldJob` |
| `JobResumeProofs` | `NoShareTwice` | `Spec => []DuplicateOnlyIfEarly` |
| `StratumSessionProofs` | `TypeCorrect` | `Spec => []TypeOK` |
| | `MinesWithLogin` | `Spec => []MinesOnlyWhenGranted` |
| | `TotalsBounded` | `Spec => []SharesCountedOnce` |
| | `PendingExact` | `Spec /\ Keeps(dialect) => []PendingIsUnanswered` |
| | `DrainIsHeard` | `Spec /\ Keeps(dialect) => DrainHearsCounted` |
| `StratumJobsProofs` | `LatestJobIsHeld` | `Spec /\ Keeps(dialect) => []LatestJobHeld` |
| `NonceSearchProofs` | `TypeCorrect` | `Spec /\ Plain(job) => []TypeOK` |
| | `NeverTwice` | `Spec /\ Plain(job) => []NoNonceTwice` |
| | `ResumedFresh` | `Spec /\ Plain(job) => []ResumeIsFresh` |
| | `PrefixHeld` | `Spec => []PrefixKept` |
| | `RangeSearched` | `Spec /\ Plain(job) => []WholeRangeSearched` |
| `ComputeThreadProofs` | `TypeCorrect` | `Spec => []TypeOK` |
| | `TagsAreRight` | `Spec => []TagsMatch` |
| | `EndIsLast` | `Spec => []TerminalLast` |
| | `MemoryIsValid` | `Spec => []RxMemoryValid` |
| | `PositionsReported` | `Spec => []PositionReported` |
| | `ChannelImplemented` | `Spec => CommandsInOrder`, the refinement of `CommandChannel` |
| `WorkerLifecycleProofs` | `TypeCorrect` | `Spec => []TypeOK` |
| | `ExitsForCause` | `Spec => []ExitForCause` |
| | `GraceKept` | `Spec => []NotCutShort` |
| | `NoneLeftHung` | `Spec => []KilledBeforeEnd` |
| | `SharesRead` | `Spec => []SharesCollected` |
| | `FailuresReported` | `Spec => []FailedCloseFails` |

Two hypotheses narrow a statement because it is false without them, and one
because the rest is left to TLC:

- `JobClasses = {"ok"}` in `DonationIsLeft`: set_job accepts every job. With jobs it
  rejects the run `pool_donation_rejected` has the counterexample.
- `Keeps(dialect)` in `PendingExact`, `DrainIsHeard` and `LatestJobIsHeld`: an object login meets no
  pool that changes its protocol, which leaves pending entries behind
  (section 5). Every other handshake satisfies it, whatever the pool sends.
- `Plain(job)` in `NonceSearchProofs`: `lanes` and `rx` jobs without a mask, and all
  `block`, `counter` and `seed` jobs. Under a mask the first two begin at `BitOr` of
  the leading bits; that two workers do not meet there depends on which bits the blob
  has, and what the or of two numbers is for every width is induction over data.
  `PrefixHeld` needs no such fact and covers all jobs.

`NoShareTwice` has no hypothesis: what the code does not guarantee is in the property,
as `early`, which the model sets at the step that loses sight of a position. Without
that exception the property is `NoDuplicateShare`, which `relay_algo_change` refutes.

Each module has one inductive invariant, `IInv` (with `JInv` in
`StratumJobsProofs` and `RInv` in `JobResumeProofs`), the conjunction of its named parts;
TLC checked every one of them on the run's instance before it was proved. What the
parts are for:

**`PoolFailoverProofs`.** `IInv` is the invariants above and `WindowEndPending`.
`JobNeedsSocket` and `SilentSocketWatched` carry themselves once the types are
known; the others lean on each other:

- `DonationConfined` needs `WindowEndPending` (the donation pool becomes active
  inside a window; that the window's end is still to come is known only because
  the timer of the current window outlives the timers of replaced ones) and
  `JobNeedsSocket` (a connect timer that fires late resets the stored job of a
  pool without a socket; an active donation pool must not be one).
- `NeverStranded` needs `JobNeedsSocket` (`switchPool` resumes a pool because it
  has a stored job; only `JobNeedsSocket` says that pool is connected) and
  `DonationConfined` (`connect_pool` uses up its timer and refuses the donation
  pool outside its window: an active donation pool that waited for that timer
  would be stranded).
- `DonationIsLeft` needs that every stored job is one set_job accepts
  (`Accepted`), so that no resumption throws.

The argument follows the code's call graph. A world is well formed (`WorldOK`)
when it has the types and the two connection invariants. For each handler one
lemma says that it turns a well-formed world into well-formed connections and
what it does to the active pool (`ConnectPoolOK`, `ThrottleOK`, `CloseWaitOK`,
`ResumeAliveOK`, `ConnectNextOK`, `SwitchPoolOK`, `PoolErrOK`). For each action
one lemma builds the world it passes on and applies them. `AlivePoolProps` and
`NextPoolProps` say that neither way of choosing a pool ever chooses the donation
pool, for any number of pools (the least alive index exists by well-founded
induction on the naturals).

**`JobRelayProofs`.** A result may be read long after the job it was found for was
replaced. `TokensTell` says why it is harmless: every command, every core's job and
every result carries a token that was given out, and one whose token is that of the
job its pool holds has that job's content. `set_job` gives a new token to every
dispatch, so storing a job falsifies the premise for everything in flight.
`ToldLast` says that the last command in the pipe of a worker in use (or the job it
runs, when the pipe is empty) is the job of the active pool; `RetiredClose` that a
worker of an ended generation has closed or has a close coming.

**`JobResumeProofs`.** That a nonce of a content is hashed once is known to nobody in
the code. The argument is made for one content at a time, the one a pool holds
(`Sure`), and claims nothing of those in `early`. `Lanes`: while workers are on the
content or have yet to take it, all are of the generation in use, began or will begin
at the one position it was dispatched with plus their own number, so they stay in
lanes a stride apart (`Ahead`), and none comes to a nonce on which a share was found
(`Found`: the shares written, and the results on their way that will be). The commands
that feed a content follow each other (`Steady`): what a worker has left it does not
take again, which is why a command for the same content may keep the search position,
and RandomX, which begins anew each time, is fed once (`Single`). `Fresh`: a worker's
last word on the content is under the token its pool holds, so its report will be
accepted. `Mined` is what is sure of the active pool's job: it is searched from the
position last dispatched, nothing else follows it in a pipe, and a position past every
share found is known in the pool's job, in a core that will report it, or in a command
that a core is sure to take (`Known`: a core that has no memory yet may fail to
allocate, one that has cannot). `Told` is the same for a job in the background, where
a report on its way counts too. When such a job is dispatched again, either a report
is outstanding, and the content goes into `early`, or only the stored position is left
and is past everything (`ReportedIdle`). There is one
lemma for each step of the workers and one for each meaning a step of the controller
has for a content: sent for the first time, sent again, resumed, left, or untouched
(`BystanderSure`). TLC checked `RInv` on the instance of `relay_resume`, and on one with
RandomX beside another algorithm and one position fewer, first.

**`StratumSessionProofs`.** The session has only the id of an answer. `Framed` says
which ids each handshake gives to which requests, so that an id tells what the
answer is about; `Numbered` that the numbers of shares in flight were given
out before; `Standing` how the flags of a session follow its handshake, and that
`logged_in` and a stored job come with a login the pool accepted. `Counted` (shares
counted and shares pending together do not outnumber shares sent) is what makes
`SharesCountedOnce` inductive; `Tracked` says that the pending count and the pending
ids are exactly the shares between the requests and the wire, each there once. The
handlers are operators on the record, so each has its lemma, and `pool_message`
composes them as the code does.

**`StratumJobsProofs`.** A job may be read before or after the decision of the login
that the pool took before it sent the job; the session keeps it back or mines it at
once. `JInv`, checked by TLC on the instance of `session` first, relates what the pool
has decided, what of it is still in the stream and what the session has read.
`Handshaken`: one login is in flight at most and is decided once, the session's
`pending` flags name what is in flight, and an accepted login that the session does
not know of is still in the stream. `Following`: the last job in the stream is the
latest usable one; in a stream without one the session mines it or keeps it for the
decision; what does not decode and will be read before the decision is displaced in
turn (`Overtaken`);
and where the session takes no job before the decision, a decision in the stream has a
job with it or after it. All of it is claimed while the pool answers once
(`repeats = 0`), as in the property.

**`NonceSearchProofs`.** The properties are arithmetic about products of the
constants, so the lemmas come first: division with remainder, prefixes of nonces in
order, and then the layouts. `Apart` (two searchers never reach the same nonce) and
`Reached` (every nonce is some searcher's) are the two halves of sharing a range
without anyone handing nonces out; both split a nonce into batch, searcher and lane
by the layout's radix. In `IInv`, `Progress` says of each searcher that all it hashed
is its own, that its next batch is a whole number of strides from its begin and within
the range (`Placed`), that it has hashed every batch before that one, and, when its
range has ended, every batch the range had room for. `Resumable` says that the kept
position, and the one the job was sent with, are past everything hashed before, up to
the one nonce that lanes and blocks report when a range has ended (`Past`). The masked
`lanes` and `rx` jobs have an invariant of their own, `MaskedInv`: wherever a searcher
begins, from there on it moves like searcher 0 of a job sent with that nonce
(`Carries`), so the same lemmas apply; `RestoredPrefix` says that nonces of one prefix
are restored to one prefix, and `Returns` that a resumed job has its last byte and its
extranonce.

**`ComputeThreadProofs`.** `QueueOrder` says that the drained batch and then the
queue hold the commands after the last one handled, in the order they were written;
it is the refinement mapping's reason, and it names the command in hand. With it,
`LanesMatch` and `MembersMatch` say whose job the RandomX threads and the members of
`Core` belong to at every point of `set_job`, `MemoryBuilt` when the memory counts as
built, `OwedBy` who still has to report a position that is not `lost`. `CloseIsLast` (nothing is written
after a close) holds because every way to the write asks `m_accepting` first, and
`EventsEnd` and `EndReason` order the terminal event with the ways out of the loop.

**`WorkerLifecycleProofs`.** What the controller concludes from the end of a worker
is right because of what it noted before. `InUse`: while the miner runs, no worker in
use carries a mark; `Noted`: a worker is asked to close only after it is marked;
`Blamed`: an end without a mark is the worker's own fault. `UserMarked`: an exit the
user asked for marks every worker in use, so none can force it. `Covered` and
`ForcesOK`: every process that runs is in use or the target of a pending forced
close, so that the exit timer, which waits for those, finds no hung worker.
`EndedQuietly` and `CleanSoFar` say what a controller that ended by itself left
behind, and why a failed close is still in the exit status. `Accounted`: a worker in
use that `exit()` did not ask to close had failed before, with its end seen; it is why
`SharesCollected` can speak of all workers in use where `StartDrain` waits for the
listed ones.

Only model-checked:

- the liveness properties (`PrimaryRegained`, `CloseEnds`, `ExitEnds`, `RetiredEnd`,
  `NobodyLeft`), which need fairness;
- for the masked `lanes` and `rx` jobs of `NonceSearch`, all but `PrefixKept` (see
  `Plain` above).

## 5. Simplifications a reader should know

- *PoolFailover*: several pending connect timers of a pool are one flag: they
  share a deadline, and after the first the others find a socket. TLS and proxy
  handshakes are part of "connected". A message handler that throws for another
  reason than a rejected job is `SocketFails`.
- *JobRelay*: hashrate messages and verification tests are left out, as is the work
  of a RandomX dataset update. A `set_job` that throws after it replaced the ids
  (a first nonce out of range) is in `ComputeThread` and `NonceSearch`, not here; nor
  is the extranonce branch of `addNonceFields` (`addNoncePrefix`,
  `miner/jobs.js:619-637`), which is in `NonceSearch`. A result for a job that was
  re-dispatched under a new token is dropped (as in the code): shares can be lost
  across a resume; no property says otherwise. A RandomX job repeated with the same
  blob restarts from its old nonce (as in the code), which `early` records.
- *StratumSession*: the content of controls and of jobs is left out; a job is
  usable, `Undecoded` or `Malformed`. A job that a background pool announces and that
  `set_job` would refuse is stored like any other. An object login whose pool changes its protocol
  while shares are unanswered leaves pending entries behind;
  `PendingIsUnanswered` is stated for sessions that keep their protocol.
  `SharesCountedOnce` leaves out Iron Fish and Beam, whose answers have no
  pending guard in the code.

- *NonceSearch*: the order of bytes and the offset of the nonce in the blob are
  left out; a nonce is a number. Jobs have a target, so every range check is on;
  benchmarks search without the checks and submit nothing. A mask protects leading
  bits or the last byte, the two that the pools' dialects use.
- *ComputeThread*: a call of `m_fn` that finds nothing changes nothing, so `Dispatch`
  has only the calls that do. Hashrate events are left out. A RandomX job never
  sets `m_has_fn`, so `same_hashrate_domain` is false and each one starts a new
  rate window, other than the comment at `native/job/execution.inc:439` suggests;
  this is visible in the displayed rate only.
- *WorkerLifecycle*: a worker whose compute thread has failed stays alive and
  silent until the next command makes `sendToCpp` throw (`CoreFails`, `Job`,
  `Command`); a controller that has no job to send does not notice. A controlled
  exit waits for the workers in use, not for replaced ones. Broken output that
  ends a closing cluster worker is reported and not part of the exit code.
  `taskkill` on Windows is a kill.

## 6. Plan

Done: failover, session, relay, nonce search, compute thread, worker lifecycle.
Left, in this order:

1. `PoolControls`: difficulty, target and extranonce kept back for the next job
   of their family (`pool.js` `applyPoolControl`, `preparePoolFamily`).
2. `Benchmark`: the sequence of benchmark jobs and their callbacks (`mom.js`).
3. Composition: `JobRelay` over `PoolFailover`'s choice of the active pool, so
   that `DonationWorkStops` speaks about what the workers really mine.

## 7. Not modelled

- Options, command line, environment detection, compiler policy
  (`opts.js`, `miner/cli.js`, `miner/environment.js`, `compiler-policy.js`): run
  once before mining starts; tables and host queries without later state.
- GPU tuning (`gpu-tuning.js`, `miner/gpu_autotune.js`): device heuristics.
- Kernels (`sycl/`) and vendored `xmrig/`: hash functions; to the controller, a
  function from an input to a digest. They are straight-line arithmetic and
  tables over wide words (`sph_hamsi_helper.c` alone is 39,000 lines of
  constants), without state that outlives a call: a model would be a second
  implementation, and comparing digests is what `tests/` does. They are nearly all
  of the C and C++ lines of the repository; what is modelled of the native code is
  its own part, `native/`.
- Field-by-field decoding of jobs and encoding of shares: stateless conversions.
- Scripts, workflows, build files.
