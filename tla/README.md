# Backend Task Orchestration System: TLA+ models and proofs

The system accepts jobs over REST and GraphQL, keeps them in PostgreSQL, moves
due jobs into a BullMQ queue (Redis), runs them in worker processes, retries
them, triggers cron schedules and lets several scheduler processes share the
work through a Redis lock. Paths below are relative to the repository
(`src/scheduler/JobScheduler.ts` is `src/src/scheduler/JobScheduler.ts` in
`PROJECT.json`).

## 1. Inventory

| Component | State | Operations | Talks to |
|---|---|---|---|
| Job tables (`db/repositories/JobRepository.ts`, `ExecutionRepository.ts`) | rows of `jobs`, `execution_logs` | insert, update by id, claim, find stalled, resolve dependency | everybody, one statement at a time |
| Job queue (`queue/JobQueue.ts`, BullMQ) | entries with id, state, lock, attempts | add, fetch, complete, fail, stalled check, expiry | scheduler adds, workers fetch |
| Dead letters (`queue/DeadLetterQueue.ts`) | entries `dlq_<id>` | add, replay | workers add, API replays |
| Poll loop (`scheduler/JobScheduler.ts`) | claimed batch, stalled rows read | `scheduleReadyJobs`, `recoverStalledJobs` | tables, queue |
| Leadership (`JobScheduler.ts`, `distributed/DistributedLock.ts`, `app.ts`) | Redis key, remembered token, `isLeader`, timers | start, stop, acquire, renew, step down | Redis, cron |
| Cron (`scheduler/CronScheduler.ts`, `api/routes/schedules.ts`) | `schedules` rows, ticks in progress | tick, trigger, create, pause, delete | tables, job submission |
| Dependencies (`scheduler/DependencyResolver.ts`) | an in-memory graph per process, `resolved_dependency_count` | register, deregister, state change, resolve, find cycles, sort | API process registers, worker process resolves |
| Worker (`workers/WorkerNode.ts`) | per slot: entry, row read, step | `processJob`, `handleFailure`, shutdown | tables, queue, dead letters |
| Job requests (`services/JobService.ts`, `services/RetryService.ts`, `api/routes/jobs.ts`) | requests in flight | submit, cancel, retry, replay | tables, queue |
| Job executor (`workers/JobExecutor.ts`) | custom handlers | race of handler and timeout | worker |
| Worker registry (`db/repositories/WorkerRepository.ts`, `WorkerNode.ts`) | `workers` rows, heartbeats under way | register, heartbeat, drain, go offline | PostgreSQL |
| Health check, alerts (`monitoring/HealthCheck.ts`, `AlertManager.ts`, `services/WorkerService.ts`) | reports to send, alert state, per process | mark lost, notify, evaluate | `workers` rows |
| Node registry (`distributed/NodeRegistry.ts`, `app.ts`) | a Redis key per process, heartbeat timer | register, heartbeat, deregister | Redis |
| Worker pool (`workers/WorkerPool.ts`) | the list of workers, checks in progress | start, stop, autoscale; never started | queue depth |
| Leader election (`distributed/LeaderElection.ts`) | role, timers, commands without an answer | start, stop, campaign, renew, step down; never started | Redis |
| Priority queue, load balancer (`scheduler/`) | heap; round robin index | push, pop, clear; select a worker (never asked) | – |
| Metrics, API middleware, config | counters | – | – |

What is hard here: every update is unconditional and by id, so each
read-then-write is a race (cancel, retry, recovery, failure handling, cron
advance); the row and the queue entry are written by separate calls that may
fail or be cut by a crash; BullMQ silently ignores an `add` whose id exists;
the stalled threshold (two minutes) is shorter than the default job timeout
(five minutes), so healthy jobs are "recovered"; leadership is a lease, so there
may be two leaders or none; intervals (cron, renewal, autoscaling, health check)
start a callback whether or not the previous one has ended; dependency state is in the memory of one process
and needed in another. `PROJECT.json` lists each hazard at its line.

What makes the parts correct: one execution at a time per job; no execution
nobody asked for; retries counted exactly and bounded; nothing submitted,
queued or running is forgotten; a cancel holds; a leader notices the loss of
its lock; cron belongs to the leader and its count matches the jobs created;
a worker that is gone is noticed and reported, one that is not is taken back;
the pool keeps its bounds; somebody who campaigns comes to lead; the heap is a
priority queue, and the graph algorithms agree with their definitions.

## 2. Modules

```
Environment ── JobRepository ─┬─ JobScheduler ─┐
            └─ JobQueue ──────┼─ WorkerNode ───┼─ Orchestration ─ DocumentedClaims ─ MCOrchestration
                              └─ JobService ───┘        │    └─ OrchestrationProofs ─ DeliveryProofs
                                     RetryBudget ◄──────┘ (refinement)
ClusterEnvironment ─┬─ DistributedLock ─┬─ SchedulerCluster ─ MCSchedulerCluster
                    ├─ CronScheduler ───┘                  └─ SchedulerClusterProofs
                    ├─ WorkerRegistry ─ Monitoring ─ MonitoringProofs
                    ├─ NodeRegistry ────┐
   DistributedLock ─┴─ LeaderElection ──┤
WorkerPool ─────────────────────────────┤
Arrays ─┬─ LoadBalancer ────────────────┼─ SeparateParts ─ MCSeparateParts
        │  PriorityQueue ───────────────┤            └─ SeparatePartsProofs
        │     └─► PriorityBag (refinement)
        └─ DependencyGraph ─┬─ ResolverLife ─┘
                            └─ DependencyResolver ─ MCDependencyResolver
JobExecutor ─ WorkerNode

SchedulerCluster, Monitoring ─ ClusterParts ─ MCClusterParts
ResolverLife ─ ResolverClaims ─ MCResolverClaims

LoadBalancer, PriorityQueue ─ SelectionProofs ─┐
ResolverLife ─ ResolverProofs ─────────────────┴─ SeparatePartsProofs
Counting: extended by all proof modules but OrchestrationProofs
```

**Environment, ClusterEnvironment** bound what the outside may do (crashes,
failing calls, lost locks, expiries, client requests). Every disturbance spends
from a budget, and a property can ask how much was spent.

**JobRepository.** `jobs` keeps status, retry count, and the three timestamps
as what the queries compare them with (`startedAt` is null, recent or stale
against `stalledJobThresholdMs`). `toRow` keeps a column when the dto says
undefined, as the code does. A claim is one statement; `Batches` are the sets
that `ORDER BY priority ... LIMIT` may return. Ties within a priority (by
`scheduled_at`, `created_at`) are left open. `logs` counts inserted rows and
rows closed per status.

**JobQueue.** The entry `job_<id>` is named by its job, replayed entries by
`ReplayIds`. `add` ignores an existing id. BullMQ is a library, modelled from
how the code configures it: attempts, lock, stalled check, removal of finished
entries.

**JobScheduler.** The two halves of `poll()`. A half keeps what it claimed or
read until it has written it. Schedulers are poll loops that believe they lead:
any number of them, which is the worst case the leadership admits. The halves
are not synchronised with each other, since `Promise.all` gives up when one
throws and the other goes on.

**WorkerNode.** A worker is one processing slot; a process that dies is a
crash of its slots, and `close(true)` on shutdown is one too. One action per
statement of `processJob` and `handleFailure`; the row read at the start and
the insert of the slot's own log row are one action, because nobody else sees
that row. `Promise.all` of the success path is two writes in either order. A
statement that throws is taken as not applied. A write of a rejected `Promise.all` that lands
later is not modelled.

**JobExecutor.** The results each type of job may come to, with the timeout
where the handler waits for something; `JobType` gives each job its type. What
a handler does to the outside, also after the timeout won the race, is not
modelled.

**JobService.** Cancel and retry are a check and a write; a replay is get, add,
remove. A bulk cancel is a sequence of cancels. At most one cancel and one
retry per job is in flight. Rows are never deleted, so "job not found" is
unreachable. `RetryService.manualRetry` has no caller.

**Orchestration** composes them and states the properties. **RetryBudget** is
the abstract specification they implement. **DocumentedClaims** holds what
comments and documents say and the code does not do.

**DistributedLock, CronScheduler, SchedulerCluster.** The Redis key with the
token's owner (`Orphan`: a token no living process remembers), who leads, whose
renewal timer runs, who sleeps before trying again; the `schedules` table and
the ticks in progress, which may overlap. A renewal in time and a renewal that
throws change nothing and are stuttering. Overlapping renewals of the scheduler
are not modelled (`LeaderElection` has them). The resume request is left out: it throws before its write on
every call.

**WorkerRegistry, Monitoring.** A worker process with its row and the heartbeats
under way. The interval of `startHeartbeat` sends one whether or not the one
before has been answered, so there may be several (`MaxHeartbeats`, a bound of
the model); they land in any order, and are applied whatever has become of the
process meanwhile. `late` records how many were under way when the process
stopped sending. `last_heartbeat_at` is kept as recent or stale against the 30
second threshold, also in a heartbeat under way. Each monitor is an API process
with its health check and its alert state; a restart forgets both. `Alerting`
are the monitors whose alerts are followed: an `AlertManager` reads the table
and its own memory, never that of another. Of the alert rules NO_ACTIVE_WORKERS
is modelled: read, then compare with the state. A second signal during a
shutdown is not modelled.

**ClusterParts** is the two models above next to each other. They share the
mishaps and nothing else, so a behaviour is one of the schedulers or one of the
workers and monitors, as in `SeparateParts`.

**DependencyGraph, DependencyResolver, ResolverLife, ResolverClaims.** The operations of the
in-memory graph as operators; `DependencyResolver` puts a graph into each
process, where API processes register jobs and worker processes call
`onJobCompleted`; `ResolverLife` takes one graph through any sequence of
registrations, ends and deregistrations; `ResolverClaims` adds what each job
was registered with, and states what a comment and a unit test say of the
class. A job the graph has met only as a
dependency is a placeholder that keeps no dependencies when it is registered
later. `RequireStatus` is the same for all dependencies. The core model leaves
dependencies out (`dependency_count = 0`). The two depth first searches and the
loop over the dependents are recursive functions: a search goes from what it has
marked so far and the jobs still to be looked at, to the same after the first of
them. `Below`, against which the searches are checked, is not a search: it is the
least set with the dependencies of a job that is closed under dependencies.

**LeaderElection.** What the class does once started. An interval starts a
renewal whether or not the previous one has an answer, a campaign on its way
does not know of `stop()`, and nothing keeps two campaigns of one process apart.
The commands a process has sent and has no answer for are a sequence (one
connection); `current` says whether a command carries the token the process
remembers by now. `leaked` counts intervals that `this.renewalTimer` has been
overwritten on.

**NodeRegistry.** The Redis key of each API process, from `bootstrap()` to its
end by `deregister`, `exit(1)` or a crash. Heartbeats that set a key that is
there, and heartbeats that throw, change nothing.

**WorkerPool.** The number of workers, and the checks of `autoScale` that may
overlap. Additions await settled promises, so only another check whose answer
has come may run between two of them. `raced` and `orphans` record that a check
got its answer while another was adding, and that `stop()` came while one was
waiting.

**LoadBalancer.** The strategies as operators, the round robin as an action,
over `workers` rows that change between selections. Ratios are compared by
cross multiplication. `turns` is a history of the latest selections from one
list. A random choice is any member of the list and has nothing to check. The
passes of `filter` (in **Arrays**, which `deregister` uses too) and `reduce` over
a list are recursive functions.

**PriorityQueue, PriorityBag.** The binary heap, and the bag it implements. The
loops of `bubbleUp` and `sinkDown` are recursive functions of the array and the
position reached.

**SeparateParts.** The parts above share no state with the job path or each
other; a behaviour is one of one part, so that the states add up rather than
multiply.

**...Proofs, Counting.** The theorems of a component, in a module that extends
it. `Counting` has the facts they share: what one step does to the size of a set,
that a set of numbers has a least one, induction up to a number, that a recursive
definition defines a function and what holds of its values (`Iteration`,
`Recursion`, `RecursionOK`), and what `filter` returns.

## 3. Runs

| Run | Instance | Shows |
|---|---|---|
| job_path | 2 jobs of different priority, the first slow, the second deferred, 2 slots, 2 schedulers, batches of 1, and what may go wrong in two scenarios: a lost lock and nothing else; or one job, one scheduler at a time and any three out of two requests (cancel, retry, replay), a worker crash, a scheduler crash, a failing add whose revert fails too and an expiry | types; a job is in two slots only after a lost lock or a replay; a QUEUED row always has an entry or a scheduler about to add it; FAILED means retries used up; no retry without a failed log row; a log row with nobody at work on it is open only after a worker crash (or a failed statement); every execution paid for; refinement of RetryBudget |
| progress | 1 job, 2 slots, fairness, 2 crashes, 1 failing statement, 1 cancel | RUNNING rows and entries settle, submitted jobs are executed, a cancel with nobody at work is final |
| processes | schedulers: 2 processes, 1 schedule; workers: 1 with up to 2 heartbeats under way, 2 monitors, the alerts of 1; one mishap of each kind, fairness | leaders renew, cron follows leadership, triggers are counted, a lost lock is noticed; a loss is reported, at most once for the end of the worker, once for each heartbeat under way then and once for each hold-up; a shutdown that left no heartbeat behind is never taken for a loss; a false loss heals; the row of a worker that is gone ends as OFFLINE or LOST although its last heartbeats may overwrite that (DRAINING only after a crash); the alert fires and is resolved |
| parts | election: 2 processes, one mishap of each kind, 2 campaigns ahead; nodes: 2; pool: 1 to 3 workers, 2 overlapping checks; balancer: 3 workers, 2 job types; heap: 4 items with ties, up to 6 entries; resolver: 3 jobs with up to 2 dependencies, 1 deregistered, asked about every list of up to 2 jobs | below |

What `parts` shows, part by part:

* *election*: while somebody runs, somebody comes to lead (`SomeoneLeads`), a
  leader without the key steps down (`StaleLeadersStepDown`), unless the lock is
  squatted: renewed for ever by a process that does not lead. That happens in
  two ways only (`SquattersAreKnown`): a renewal overtook the next, so that two
  failures start two campaigns and the second, refused by the key of the first,
  makes a follower of the winner; or `stop()` came before the answer to a
  campaign.
* *nodes*: a process that is down does not stay listed, one that beats does
  (`NodesAreCurrent`).
* *pool*: `PoolBounds`, with the two ways out of it.
* *balancer*: while the list of eligible workers is the same, nobody is selected
  twice before everybody was (`TurnsAreFair`), wherever the shared index stood;
  the strategies by load return a least loaded worker, among the matching ones
  if there are any (`SelectionIsBest`).
* *heap*: `ImplementsPriorityBag`, with ties and duplicates.
* *resolver*: `validateNoCycles` throws exactly for the cycles the graph has
  (`GraphCyclesAreFound`; which of the registered dependencies the graph has is
  another matter: see `cycle_test`), `topologicalSort` returns each job it
  reaches once and after its dependencies (`SortRespectsDependencies`), and a
  job is unblocked only after one of its dependencies ended as required and,
  unless something was deregistered, each of them was unblocked
  (`UnblockedInOrder`; that each of them has ended is what
  `all_dependencies` refutes).

Eight runs each refute one documented or tested statement; the finding in `PROJECT.json`
quotes it.

| Run | What happens |
|---|---|
| retrying | A failed job with retries left is RETRYING for ever: `processJob` returns, BullMQ completes the entry, nothing selects RETRYING rows |
| manual_retry | The retried job is claimed, BullMQ ignores the add of the known id, the row stays QUEUED |
| stale_recovery | The recovery writes a row it read while RUNNING over COMPLETED |
| takeover | The leader dies, the follower never asks for the lock again |
| triggers | Two overlapping ticks create two jobs for one occurrence |
| dependents | The worker's own graph is empty; dependents stay PENDING |
| cycle_test | The calls of `tests/unit/DependencyResolver.test.ts:127`: `register(a)` leaves a placeholder for `b`, `register(b)` keeps it and drops its dependency on `a`, and `validateNoCycles` does not throw |
| all_dependencies | A job with two dependencies is unblocked by the first that ends: the other, which depends on nothing, counts as met from the start ("requires ALL deps to be met", `DependencyResolver.ts:100`) |

**Bounds.** Two slots and two schedulers are what any race between them needs,
since every property is about a pair or about one actor against the tables. One
retry gives a job both a failure that is retried and one that is final, and the
proofs cover every `MaxRetries`. `MaxStalledCount` is 1 (2 in the code) so that
two crashes pass it. In `job_path` the slow job may succeed or time out (a
report; a timeout differs from a failure in the name of the status only), and
the other may succeed, fail or time out (a custom job), as in `progress`. The
constraint `Scenarios` of `job_path` keeps apart the two kinds of trouble that
need different actors: two slots on one job, with two schedulers and a second
job in the batches; and requests, crashes and failing calls on one job. TLC does
not go on from a state outside both, and the theorems have no such bound. In
`processes`, one tick per scheduler and one occurrence suffice because a former
leader's tick overlaps the new leader's; `triggers` has two ticks in one
process. Symmetry is used in safety runs only.

One worker suffices because no statement relates two rows but the count of
active ones; the properties are about a row against its process, or monitors
against each other. Two heartbeats under way are what it takes for one to land
out of order, or to bring a row back a second time. One monitor's alerts are
enough since no monitor reads another's.

In `parts`, two processes and two checks are the pairs that race; a heap of six
has nodes with two, one and no children below the root; three jobs make cycles of
two and three, diamonds and placeholders.

**Deadlock** is checked in every run but those of the processes (`processes`,
`takeover`, `triggers`), where schedulers may all end up as followers (see
`takeover`) once the bounded occurrences are used and a worker that is gone
leaves nothing to do, and `parts`, where a stopped pool rests for good.

**Fairness.** Weak fairness of each scheduler half (the poll timer is set again
in every poll), of each slot (BullMQ's loop; an execution ends because
`JobExecutor` races it against a timeout), of the stalled check, and of time. Of the
schedulers: renewal timer, sleep, key expiry, cron interval and the 30 second
forced exit. Of workers and monitors: heartbeat, health check and alert intervals, and
the age of a row nobody refreshes; not that a worker starts or that its
shutdown ends. In `parts`: Redis answers, timers and heartbeats fire, and a key
that nobody renews expires. Clients, crashes and failures owe nothing.

## 4. Proofs

`OrchestrationProofs` proves, for any sets of jobs, slots, schedulers and
replay ids, any retry budgets and any number of disturbances:

* `TypeCorrect`: `Spec => []TypeOK`. The inductive invariant `WellFormed` adds
  to the types that a slot at work has an entry that names its job
  (`SlotsHaveEntries`, `EntriesNameJobs`), that a lock is held only by the slot
  that works on the entry (`LocksAreHeld`), and that a replay names its job.
* `DeliveryIsSingle`: SingleDelivery, from `WellFormed`: two slots with the
  same scheduled job have the same entry, whose lock has one owner.
* `RetriesLogged`: RetriesAreLogged, by `LogInv`: a slot about to settle has
  already closed a log row that its count plus one may claim.
* `FailedIsExhausted` and `RefinesRetryBudget`, under the assumption that no
  live slot loses its BullMQ lock (`Limits["lockLoss"] = 0`), by `RetryInv`:
  every slot at work holds its lock, so the count read in `handleFailure` is
  current when it is written; counts are bounded by `MaxRetries`; a dead letter,
  its replay and its entry belong to a job with no retries left; a recovery's
  snapshot is never ahead of the row. Without the assumption two slots may fail
  one job at once, one after the other marked it FAILED, and RETRYING is
  written over it.

`DeliveryProofs` goes on from `WellFormed`, for the same constants:

* `QueuedIsDelivered`: QueuedHasEntry. It is inductive once budgets are known to
  be only used up: whoever makes a row QUEUED has it in its batch
  (`QueuedSteps`), a job leaves a batch by being added or reverted or by a
  disturbance (`ClaimedSteps`), and an entry goes by expiry only (`EntrySteps`).
* `OpenLogsExplained`: OpenLogsAreExplained, by `OpenInv`: the log rows of a job
  that are not closed are the slots between insert and close, up to one for each
  crash and each failed statement.
* `ExecutionsPaid`: ExecutionsArePaid. The bound on executions so far is not
  inductive; `PaidInv` counts executions to come with them: log rows, plus slots
  about to insert one, plus entries that can still be delivered, are at most one,
  plus the replays added, plus what was suffered. Taking an entry moves it from
  one summand to the next; a second `add` of a known id adds nothing; a crash
  may give the entry back and is paid for.
* `CancelIsFinal`: CancelHolds, under the hypothesis that nobody asks for a retry
  (`"retry" \notin Requests`, as in run `progress`; with it the statement is
  false, since a retry is there to take a cancel back). "CANCELLED and nobody at
  work on it" is inductive: a slot that takes the entry reads the row and skips
  it, claims and recoveries do not look at CANCELLED rows.

The slots, entries and replays that are counted are not assumed to be finitely
many: the invariants say that those at work are finite sets, since each joins in
a step of its own.

`SchedulerClusterProofs` proves, for any processes, schedules and overlapping
ticks:

* `ClusterTypeCorrect`, `LeadersKeepRenewing` and `CronInLeaders`. The inductive
  invariant `LeaderInv` adds that a process that is down neither leads nor renews
  nor sleeps before another attempt (`DownIsIdle`; otherwise a restart that finds
  the lock taken would lead on the strength of its former life) and that mishaps
  are only used up.
* `TriggersCounted`: TriggersAreCounted, by `TriggerInv`, which is sharper than
  the property: a process that is stopping has been signalled and still has its
  ticks, so they are lost to it only when it ends, one by one at most (`Ends`
  leaves the stopping processes out). Ticks of one process are assumed finite
  (`CronAssumption`), since the bound multiplies by their number.

`MonitoringProofs` proves, for any workers, monitors and heartbeats under way:

* `PresenceTypeCorrect` (`PresenceInv` adds that a process that has not started
  has neither a row nor a heartbeat).
* `ReportsPaidFor`: ReportsArePaidFor, and `LostAlertsReal`. Both follow from
  `LossInv`: reports sent, reports owed by some monitor, and one each for the row
  and the heartbeats under way that may still lead to one (stale ones while the
  worker is up, all of them afterwards), are at most the times it was held up, plus, once the worker has ended, one and
  those under way then. That the last are all that is left to come is
  `LateBeats`: a worker that has ended sends none. Marking a row moves it from
  "at risk" to "owed", and a restarted monitor forgets what it owed.
* `ShutdownIsKept`: ShutdownHolds, from `LateBeats` too.

The theorems are about `ClusterSpec` and `PresenceSpec`; the two sides of
`ClusterParts`, which run `processes` checks, take the same steps.

`SelectionProofs` proves of the load balancer, for any table with each worker
once (`FleetAssumption`), any capacities and any changes of the rows:

* `SelectionBest`: SelectionIsBest, by what `filter` returns (the members to
  keep, all of them, each once: `FilterOK`) and what `leastLoaded` returns (a
  member such that none is less loaded: `LeastLoadedOK`, which needs that the
  comparison of cross-multiplied ratios is transitive: `RatiosOrdered`).
* `TurnsFair`: TurnsAreFair, by `TurnsInv`: the selections remembered are the
  places before the index, backwards round the list, so less than a round of
  them are different places.
* `BalancerTypeCorrect`: the index stays within the table although lists of
  different lengths share it.

and of the heap, for any items with whole numbers as keys and any size:

* `HeapIsAPriorityQueue`: the heap implements `PriorityBag` step by step, and
  keeps its type. The invariant is that no item is before its parent. Inside the
  loops it is broken in one place: on the way up only between the position and its
  parent (`NearlyUp`), on the way down only between the position and its children
  (`NearlyDown`), and in both cases the children of the position are not before
  its parent, which is what makes a swap move the fault by one level and no
  further. That the loops lose nothing is a fact about `ToBag`, by counting the
  places of an item before and after a swap.

`ResolverProofs` proves, for any finite set of jobs, any number of dependencies
and any graph that registrations, ends and deregistrations in any order can build:

* `OnlyEndsUnblock`: the types and UnblockedInOrder, which are inductive together
  with a bound on the length of the lists (`ResolverInv`): `onJobStateChange`
  resolves nobody but jobs that depend on the one that ended and all of whose
  dependencies are unblocked (`ResolvedInOrder`), nothing but a deregistration
  takes an unblocked job out of the graph, and `register` leaves the nodes it
  finds as they are, placeholders included.
* `CyclesDetected`: GraphCyclesAreFound. `Searched` says what a search may return: it
  goes on from jobs done with, which are closed under dependencies and on no cycle
  (`DoneIsSound`), and from a stack whose members all lead to the jobs to be
  looked at (`StackIsPath`), so that meeting the stack is a cycle; if it does not
  throw, the stack is what it was and the jobs looked at are done with.
* `SortIsTopological`: SortRespectsDependencies, in the same way (`Visited`): the
  jobs visited and not yet put down are the same before and after, what is put
  down is without repetition and, unless a cycle was reached, each job comes after
  its dependencies.

Both theorems include that the searches end: `Ahead`, the jobs not yet visited
times the length of a list, plus the jobs to be looked at, gets smaller with every
call, for the dependencies of a job as well as for the rest of a list.

`SeparatePartsProofs` proves, for the remaining parts and for all of them together:

* `SquattersKnown`, for any processes and any number of campaigns.
  SquattersAreKnown speaks of the key and the commands without an answer; what
  makes it true is `ThreadInv`: as long as no renewal overtook the next, a running
  process has one thread of control, which campaigns (one command, one sleep or
  one timer) or leads (one interval, at most one renewal); and a process that does
  not run has left nothing behind unless it was stopped.
* `PoolStaysInBounds`, for every configuration with `minWorkers <= maxWorkers` and
  a positive `scaleUpThreshold`, every depth and any number of overlapping checks.
  `PoolBounds` is not inductive: `PoolInv` adds that a check owes additions
  exactly while it is adding, that without a race one check adds at a time and
  what it owes fits under the maximum, and that a pool that is new, or stopped
  with nobody waiting, has no check under way.
* `PartsTypeCorrect` and `PartsAreCorrect`: the specification that run `parts`
  checks has the types and all safety properties of its parts, and refines
  `PriorityBag`. Pool, balancer, heap and resolver share nothing, so that a
  behaviour of the whole is one of each (`PartsAlone`); the election and the
  registry spend from the same mishaps, so their invariants are carried through
  each other's steps (`SharedInv`).

**Recursion.** The library's theorems on induction and recursive definitions take
an operator, which the provers cannot instantiate. `Counting` has them with sets
and functions as parameters: induction with a *set* of numbers (`UpTo`, from
`LeastNumber`), definitions that go from each number to the next (`Iteration`), and
well-founded ones (`Recursion`): the body of the definition is a function `g` of
the function defined and the argument, `m` the measure that gets smaller, `R[x]`
the values allowed at `x`. If `g` maps functions that are right wherever the
measure is smaller to right values, and looks nowhere else, the definition has a
solution and all its values are right (`RecursionOK`). A proof about a loop or a
search is then the choice of `m` and `R`, and one lemma about one turn
(`DfsTurn`, `VisitTurn`, and the swaps of the heap).

**Model-checked only:** what must eventually happen, under fairness, which the
prover does not treat (RunningSettles, DeliveryCompletes, SubmittedIsExecuted,
LostLockIsNoticed, LossesAreReported, FalseLossesHeal, GoneIsNoticed,
OutageIsAlerted, AlertIsResolved, SomeoneLeads, StaleLeadersStepDown,
NodesAreCurrent). Every invariant, action property and refinement of the passing
runs is a theorem. Three of them have a hypothesis: CancelHolds (nobody asks for a
retry, as in run `progress`), and FailedOnlyWhenExhausted and the refinement of
RetryBudget (no live slot loses its lock; the one lost lock of `job_path`, where
no retry or replay follows it, does no harm to them either).

**Assumptions on constants** are named in the module that declares them and
evaluated by TLC in every run: finite `Jobs` of the graph (`FiniteJobs`), keys of
heap items that are whole numbers (`ItemsAssumption`), a table with each worker
once (`FleetAssumption`), finitely many ticks per process (`CronAssumption`), and
the ranges of the configuration and of the bounds.

## 5. Plan

Modelled: job lifecycle, leadership with cron, dependencies across processes and as
algorithms, worker registry with health check and alerts, results of job types,
leader election, node registry, worker pool, load balancer, priority queue.
Proved: every safety property of these. What is left is the liveness under
fairness, for which the prover has no rules.

## 6. Not modelled

* REST and GraphQL plumbing, authentication, validation, rate limits: they
  decide whether a request is served and keep no state the job path reads. What
  a served request does is in JobService and CronScheduler.
* Metrics, logging, configuration, migrations: written by everybody, read by
  nobody in the program.
* What job handlers do to the outside, also after the timeout won the race:
  no state of the system shows it.
* The embedded deployment, where worker and scheduler share one graph: the
  workers a `WorkerPool` makes are never started, so no such process exists.
* `JobQueue.addBulk`, `pause`, `resume`, `drain`, `removeJob`,
  `DistributedLock.withLock`, `NodeRegistry.updateLeaderStatus`, `RetryService.manualRetry`,
  `WorkerRepository.findBestWorker`: no caller.
* The resume request on a schedule (`api/routes/schedules.ts:72`): it takes the
  single row of `first()` apart as an array and answers 500 on every call.
* A process that ends because a renewal of `LeaderElection` is rejected
  (`app.ts:183` shuts down on it): the model goes on with the process, and may
  let it crash at any time. Nothing starts the class.
* `WorkerPool.stop()` during `start()`, and `start()` after `stop()`: no caller
  does either.
* The alert rules on queue depth and dead letters: edges of the same kind as
  NO_ACTIVE_WORKERS on other counts.
