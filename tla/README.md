# A TLA+ model of v40-sorry-resolver

The program finds the `sorry` holes of a Lean project, tries to prove them with
rules, language models and search, has Lean check every proof, and keeps its
results in a checkpoint file over many runs.  This directory holds TLA+ modules
of its core, TLC configurations that check them on small instances, and proofs
of the main theorems.

| file | contents |
|------|----------|
| `Pipeline.tla` | the resolution pipeline: workers, phase chain, books, checkpoint, resume |
| `Ledger.tla` | what the checkpoint file promises, as a specification of its own |
| `ReplPool.tla` | the pool of resident REPL sessions and its memory guard |
| `Cache.tla` | the persistent cache: LRU map, write queue, writer, disk |
| `LLMClient.tla` | the LLM providers: health gate, routing of roles, breaker, the life of a call |
| `LeanText.tla` | how the scanner and the verifier find declarations and holes in a file |
| `SubprocessVerify.tla` | the default verifier: splice, base copy, run directories, verdicts |
| `VerifierSessions.tla` | the verifiers that keep Lean processes between calls |
| `Apollo.tla`, `Axprover.tla` | the decomposer, and the agentic loop that calls it |
| `TacticSearch.tla` | the beam search |
| `StrategyControl.tla` | plan and evaluations: who sets the strategy, and when |
| `Download.tla`, `Boot.tla` | the standalone program: downloads, and what a run makes of the disk |
| `PipelineProofs.tla`, `LLMClientProofs.tla`, `ReplPoolProofs.tla`, `CacheProofs.tla`, `SubprocessVerifyProofs.tla`, `VerifierSessionsProofs.tla`, `BootProofs.tla` | proofs about the module of that name (`Boot` with `Download`, `SubprocessVerify` with `LeanText`) |
| `AgentProofs.tla` | proofs about `Apollo`, `Axprover`, `TacticSearch` and `StrategyControl` |
| `MC*.tla`, `MC*_<run>.cfg` | the instances for TLC |
| `PROJECT.json` | components, runs, source lines of every definition, hazards, findings |

Paths below are under `src/v40_sorry_resolver/`, but for `tools/`, which is `src/tools/`.

## 1. The system

| component | state | operations | talks to |
|-----------|-------|------------|----------|
| resolution pipeline `engine/orchestrator.py` | tasks, `_results`, axiom count, queue, started ids, shutdown event | `run`, `_worker`, `_run_task`, `_phase_chain`, `_account`, `_mark_axiom`, `_resume_merge`, `_save_checkpoint`, signal handlers | verifier, lemma cache, checkpoint, agents |
| checkpoint `checkpoint.py` | one JSON file | `save` (temporary file, fsync, `os.replace`), `load` (None on any error) | pipeline |
| lemma cache `engine/lemma_cache.py` | goal -> proof, in the cache | `get`, `put` | pipeline, agents |
| REPL pool `verify/repl_pool.py` | idle, live and registered sessions, places reserved, closed flag | `acquire`, `release`, `close`, memory guard, rebuild; `verify_proof`, `run_tactic` of its verifier | Lean processes |
| persistent cache `cache.py` | LRU map, write queue, sqlite | `get`, `set`, `flush`, `close`, writer task | clients, lemma cache |
| LLM client and router `llm/` | breaker, enabled flag, semaphore; role -> client | `generate`, `health_check`, `_resolve` | HTTP services |
| subprocess verifier `verify/subprocess_lean.py` | compiled base copies by key | `verify_proof`, splice, integrity check | Lean, file system |
| dojo, interactive, hybrid verifiers `verify/` | sessions or servers by key, agreement counts | `verify_proof`, `open_task`, `run_tactic` | Lean |
| agents `engine/axprover.py`, `decompose.py`, `tactic_search.py` | lessons, budgets, beam | `solve`, `attempt`, `search` | router, verifier, lemma cache |
| strategy and critic `engine/agents.py`, `StrategyConfig` | current strategy, adjustment log | `plan`, `evaluate_and_adjust`, `degraded`, `for_tier`; `review_proof` | router, pipeline |
| task sources `sorrydb.py`, prediction `progress.py` | none that lasts | scan, download, predict | pipeline |
| metrics, configuration, command line | counters; settings | record, snapshot; parse, validate, build | all |
| standalone program `tools/make_standalone_bundle.py` | Lean toolchains, archives, clones and reports on disk | `_download`, `ensure_lean`, `bootstrap_keys`, `fetch_github_project`, `run_self_test` | network, `git`, command line |

Everything but the threads of `asyncio.to_thread` runs on one asyncio loop: a
coroutine is undisturbed between two suspension points, and anything may happen
at one.  What makes the system hard is what meets there: several workers on one
queue, timeouts that cancel whatever is awaited, signals that schedule an
emergency checkpoint among the workers, threads that go on after the coroutine
that awaits them was cancelled, and kills at any moment with a resume from the
last file.  The standalone program is sequential; its difficulty is what earlier,
killed runs have left on the disk.  `PROJECT.json` lists these hazards at the lines where they bite.

What makes each component correct:

* pipeline: nothing is booked as solved that Lean does not accept for that very
  task; the axiom quota holds over all runs; a task is escalated once per run;
  a run decides all its tasks unless it is cut short, and ends in any case;
* checkpoint and resume: a saved verdict is never lost, changed or worked on
  again; a crash loses few results; the two halves of the file agree;
* REPL pool: one user per session, broken sessions are not handed out, the size
  is kept, waiters are woken, no process is forgotten;
* cache: nothing is lost on the way to the disk, what a flush reports is there, rows
  never go back, `flush` and `close` end;
* client and router: an open breaker admits no call and was earned, every call ends
  and is counted once, an unavailable role falls back to a provider that answered;
* subprocess verifier: what it accepts proves the very hole that was asked for, and a
  right proof is not refused, whatever else is in the file and on the disk;
* session verifiers: one user per process, a spoiled process is not found again, no
  process escapes those who are to close it;
* agents: a result was verified and reviewed in its own solve, the shared cache takes
  only what was verified, budgets are kept; the strategy moves by one step at a time;
* standalone program: what it downloads, installs, clones and reports is whole and is
  what was asked for.

## 2. Modules and code

### Pipeline

One worker is a `pc` with these places, in the code's own order:

| `pc` | where the coroutine is |
|------|------------------------|
| `new`, `idle` | at the loop head of `_worker` |
| `enter` | `_run_task` has been entered, the chain has not begun |
| `lemma` | awaits `verify_proof` for a proof from the lemma cache |
| `phase` | awaits `_run_phase` |
| `recheck` | awaits the verification that every success must pass |
| `return` | the chain has returned a result that is not booked yet |
| `stopped` | the coroutine has returned |

`turn` names the worker that is in the middle of a turn of the loop; while it is
set no other coroutine, signal or timer acts.  A turn may thus consist of
several actions (`Account`, then `Take` or `StopEarly`).  The workers'
first turns come in a row, as `create_task` schedules them (`LoopIsFree`).
`ChainInOwnTask` tells the two implementations of `asyncio.wait_for` apart: before
Python 3.12 it runs the chain as a task of its own, and the loop turns before the
caller sees its result.  The cache, the metrics lock and the checkpoint are
awaited but never suspend, so accounting and saving are one turn.

| code | action or operator |
|------|--------------------|
| `run` up to `_plan`, `_resume_merge`, cross-run axioms | `Start`, `Resumed` |
| queue and sentinels, `create_task` | `LaunchWorkers`, `SentinelsForWorkers` |
| `_worker` | `Take`, `TakeTooLate`, `TakeSentinel`, `StopEarly` |
| `_phase_chain` | `BeginChain`, `LemmaVerdict`, `EnterPhase`, `PhaseEnds`, `RecheckVerdict`, `Solve` |
| `wait_for` in `_run_task` | `Return`, `TimeOut` |
| agents storing lemmas | `LearnLemma` |
| `_account`, `_mark_axiom` | `Account`, `BookFailure` |
| signals, `_emergency_save`, the clock | `Signal`, `EmergencySave`, `WallClockExpires` |
| drain, last save, report | `Drain`, `Finish` |
| a kill of the process | `Crash`: only the checkpoint and the lemma cache remain |

The handler for unexpected errors in `_worker` (orchestrator.py:618) ends like
`PhaseEnds` with a failed result; a worker never dies of an exception.

Abstractions: the four `SOLVED_*` statuses are one; a proof is a model value and
`Accepts[t]` is the set that Lean accepts for `t`; goals are compared, not
normalized; a phase is what it may return.  The lemma cache may miss at any time,
and the agentic phase may store any proof for any goal: it verifies them, but in
the context where it found them.  Tasks have different ids, and saving does not
fail.

### Ledger

The verdicts on the tasks and their proofs, with one action: enter some, never
touch one again, stay within the quota.  `CheckpointIsLedger` says that the
checkpoint file of `Pipeline` implements it.  It does so if every run has the same
tasks and resumes; otherwise it does not (section 5, task limits).

### ReplPool

A section under the condition variable contains no await, so it is one action,
and so is what follows it up to the next await.  Sessions are identified with
their processes.  `idle` is a sequence in the order of release, which stands for
the ticks; the last session of a key is the one `acquire` pops, the first one of
the others is the LRU victim.

| code | action |
|------|--------|
| `acquire` | `Refused`, `Reuse`, `ReapBroken`, `StartSpawn`, `EvictLRU`, `Wait`, then `Spawned` or `SpawnFails` |
| `verify_proof`, `run_tactic` | `Call`, `Verdict`, `ToolError`, `TacticTimesOut` |
| `release` | `Release` |
| `_close_session` and its thread | `Unregistered`, `CloseEnds` |
| cancellation of the caller | `Cancel`; its thread ends later: `StrayEnds`, `OwnerlessStarts` |
| guard | `GuardSweep`, `GuardNext`, `GuardMeasures`, `GuardRebuild`, `GuardSpawned` |
| `close` | `Close`, `CloseSessions`, `CloseReturns` |

`Cancels` turns cancellations of callers on.  The pipeline cancels a chain at its
time budget, so they do happen; they are a constant because with
them a place and a session may be lost for good (section 5), and only `CapacityIsKept`
is claimed.  The branches of `_rebuild_idle` for a closed pool are not
there: `close` cancels the guard in the turn in which it sets the flag, and a guard
that is started later finds no live session.

### Cache

`get` and `set` are coroutines that never suspend, so each is one action; a `set`
stores its number, which makes "newer" the order of numbers.  The writer suspends
only on an empty queue; as long as it is `running`, nobody else acts, as in the
code, where it takes all that is queued in one turn of the loop.  A full batch is
written at once, and a partial one stays in the writer (`pending`) until more
comes or a barrier.

| code | action or operator |
|------|--------------------|
| `get`, `set`, `_lru_put` | `Get`, `Set`, `LruPut` |
| `_ensure_writer` | `WriterEnsured` |
| `flush`, `close` up to the event, and after it | `Flush`, `Close`, `FlushReturns`, `CloseReturns` |
| `_writer_loop`, `_write_batch` | `WriterTakes` (`Collect`, `ReachBarrier`), `Write` |
| an exception in `_write_batch` that is no `sqlite3.Error` | `WriterDies` |
| end of `async_main`; kill; next start | `Exit`; `Crash`; `Restart` |

Opening the database is part of each access, which may fail.  The program has two
caches on one file, of the router and of the pipeline.  They use different
namespaces and commit without suspending, so that each is an instance of the module;
`ClosedAtExit` tells them apart.  A commit is taken to survive a kill of the process;
the loss of power, which `synchronous=NORMAL` does not cover, is left out.
`latest`, `due`, `dropped` and `unbacked` are history variables.  `Unwritten` is what the
writer and the queue hold; a key enters `unbacked` when it leaves the LRU while it is there.

### LLMClient

One call is a `pc` with the await it is at: `lookup` (the response cache), `queued` (the
semaphore), `sending`, `backoff`, `store`.  What a provider answers is left open.

| code | action or operator |
|------|--------------------|
| `health_check`, `_probe` | `ProbeSucceeds`, `NoChatRoute`, `ProbeFails`, `Adopted` |
| `health_check_all`, refusal of the command line | `HealthChecked`, `Survivors`, `Gate` |
| `_resolve` | `Resolve` |
| `generate` up to its first await | `Generate`, `BreakerTest` |
| `_cache_get`, `_cache_set` | `CacheHit`, `CacheMiss`, `Store` |
| `async with self._semaphore` | `GetSlot`, `Holders`, `LeavesQueue` |
| answers, `_record_success`, `_error_response` | `Succeeds`, `ClientError`, `RetryableError`, `BackedOff`, `Fails` |
| the task budget's cancellation | `Cancel` |

The slot is held during a backoff, as in the code.  `answered` (the models that answered a
probe of a provider), `made`, `taken` and `dropped` (the calls made, and those a provider got
and those it lost to a cancellation) are history.  `LLMClientAssumption` has each provider in
the fallback chain, which lists the primaries of all roles (llm/router.py:39-47).

### LeanText and SubprocessVerify

`LeanText` is pure: a file is a sequence of lines with what they declare, whether the
regular expressions see it, and their holes.  `Scan` and `Fetch` are the two sources of
tasks; `FindDecl`, `Block`, `FindSorry` and `Spliced` are the verifier's search; `Owner`
and `Warned` are Lean's own view.  The two views differ (private and nameless
declarations, primed names), which is what makes the verdict's soundness worth checking.
`Longer` are the pairs of names where the search for one also matches the other: `foo` and
`foo'` or `foo.bar`, since `\b` holds before a prime and a dot.  `ContentAssumption` says what
a text is: sequences of lines with names and holes, in which a line that the expressions match
declares something.

| code | action or operator of `SubprocessVerify` |
|------|--------|
| `verify_proof` up to the semaphore | `Verify`, `Begin`, `Found`, `MayRun`, `Integrity` |
| `_verify_isolated`, `_build_synthetic_task` | `VerifyIsolated`, `Isolable`, `SubTask`, `File` |
| `_ensure_base`, `_materialize_run` | `Start`, `EnsuredBase`, `Snapshot` |
| `_run_lean`, verdict, `finally` clauses | `LeanEnds`, `TimesOut`, `Cancel`, `Returns`, `Accepts` |
| a user's edit; a kill | `Edit`; `Crash`, with `Cut`, `Leaves` and `HalfCopy` |

`Finds` is all that can be found for any task in any text, precomputed.  `imports` is the
version of the files that the file imports: the base keeps the one it was copied at.

A kill removes nothing.  It falls between two turns or, by `Cut`, between two writes to the
disk within one, so that run directories, synthetic files and half a copy of the project may
be there for ever after.  What is on disk has names: `Own(c)` pairs the caller with the number
of its process and stands for the uuid in the name, which no other process gives again, and a
caller has one call at a time.  `FilesInOrder` says that the names do their work: a later call
meets none of it.  A timeout is no verdict (`last` stays `None`).

### VerifierSessions

One module for `dojo_v2.py`, `lean_interact.py` and the map of pools in
`repl_pool.py`, which share the shape "find in a table or open, use, drop on failure":
`backend` says which one runs.  A call's `pc` is its await; `openers` and `checkers` are
the threads whose coroutine has gone.

| code | action |
|------|--------|
| `open_task`, `run_tactic`, `verify_proof` up to the lock | `Call`; `CallPool`; `CheckFresh` |
| `_session_for`, `_server_for`, `_build_server` | `GetLock`, `FindSession`, `StartSession`, `Opened`, `OpenFails` |
| the use, its failure, `_drop_session` | `GetServer`, `UseEnds`, `UseFails`, `DropEnds` |
| whole-proof checks of dojo | `CheckFresh`, `FreshEnds`, `FreshTimesOut` |
| cancellations and the threads they leave | `Cancel`, `ThreadLooks`, `ThreadOpens`, `CheckerEnds` |
| `close` | `Close`, `CloseNext`, `Closed` |

A process that nothing refers to gives its identity to a new one; one that still runs
does not, so that `NoProcessEscapes` can count it.

### Apollo, Axprover, TacticSearch, StrategyControl

What the prover writes and what the verifier and the critic think of it are left open, so
that all interleavings of failures are explored; only the loops' own state decides
what happens next.  `builds` says whether each isolated file of this task can be built.  If not,
`Accepts(g, p)` may have judged `p` for the whole theorem (`Judged`), as the fallback of
`_verify_isolated` does, and `Earned` is what is left to say of a sub-lemma.  `Axprover` EXTENDS `Apollo`: `stage` is where the decomposer is while
`pc = "apollo"`.

| code | action |
|------|--------|
| `solve` up to the loop, `_try_cached_proof` | `Begin`, `TryCached` |
| head of a round, `_apollo_attempt` | `RoundHead`, `DuringApollo`, `ApolloReturns` |
| `_propose`, the verification, `_push_lesson`, replanning | `Propose`, `ProposeFails`, `Verified`, `Rejected`, `VerifyRaises`, `RoundFails`, `PushLessons` |
| `review_proof` | `Approve`, `Disapprove` |
| `attempt`, `_prove_sublemma`, `_recursive_decompose` | `RequestSkeleton`, `Lookup`, `Direct`, `DirectFailed`, `RecursiveDecompose`, `CloseInner`, `Assemble` |
| `search`, `_propose_next` | `ProposeNext`, `SkipSeen`, `Solves`, `VerifierRaises`, `Ranked`, `NextState`, `NextRound`, `Exhausted` |
| `plan`, `evaluate_and_adjust`, `_apply_adjustment`, `_account`'s trigger | `Plan`, `TaskDone`, `Evaluated`, `Adjustment` |
| the end of `run` | `RunEnds`, `EvaluationDropped` |

When a solve is cancelled its locals go (`Fresh`); the lemma cache stays.

### Download and Boot

`Boot` EXTENDS `Download`.  A file is the sequence of the pieces in it, each with the
version it is of, so that torn and mixed archives can be told from whole ones.  A run
is a record that a crash wipes; toolchains, archives, clone, unpacked zips and reports stay.

| code | action |
|------|--------|
| `_download` | `AskFails`, `AnswersNoMore`, `Answers`, `Chunk`, `BodyFails`, `BodyEnds` |
| `ensure_lean`, `_try_elan_install` | `FindsLean`, `NoScript`, `ElanInstalls`, `ElanFails`, `ElanStalls`; `InstallerGoesOn` |
| `_install_lean_manually`, `_unpack_tar_zst` | `Unpacks`, `UnpackFails`, `Present`, `PlaceBegins`, `PlaceEnds`, `PlaceFails` |
| `ensure_python_deps`, `bootstrap_keys`, the gate | `EnsureDeps`, `Keys` |
| `fetch_github_project` | `Reuses`, `CloneBegins`, `CloneEnds`, `CloneFails`, `CloneTimesOut`, `Unzips`, `UnzipFails`, `Moves` |
| command line, `run_self_test` | `CannotImport`, `Resolves`, `SelfTestRuns`, `Judges` |

elan's installer is a child of the shell that the program starts and kills: after the 300 s, or
when the run is killed, it may go on (`installer`) and write to `~/.elan` whatever this run or
a later one does.  What it may have made by any moment is `ElanWrites`: its directory, the `lake`
command, a part of the toolchain or the whole.  A kill cuts short what is being written
(`CutShort`): a clone, a toolchain on the move, the files of a zip, the move of the project.

The definitions name lines of `tools/make_standalone_bundle.py`, the template;
`v40_standalone.py` repeats its text.

## 3. Runs

| run | instance | checks |
|-----|----------|--------|
| `resume` | 2 workers, 2 tasks with one goal, 2 proofs, quota 1, threshold 2, checkpoint every 2, 3 runs, rule and agentic phases | `VerifiedSolutions`, `BooksAgree`, `AxiomsWithinQuota`, `AxiomsAreEarned`, `ReportIsTrue`, `OneWorkerPerTask`, `DecidedNeverRestarted`, `CheckpointIsLedger`: the books, the file, the quota, division of work, no repeated work |
| `ends` | 2 workers, 5 tasks that nothing proves, checkpoint every 2, fair loop | `BoundedLoss`, `RunEnds`: what a crash may lose; every run ends |
| `pool_guarded` | 2 callers, 2 theorems of 2 files, size 1, guard | `ExclusiveUse`, `MonitorInvariant`, `AtMostOneOver`, `BrokenNeverHandedOut` |
| `pool_ends` | 3 callers, size 1, fair loop | `NoProcessLeaks`, also with `close` at any point; `WaitersWake` |
| `pool_cancels` | 2 callers, size 1, cancellations | `CapacityIsKept`: what survives them |
| `cache` | 2 coroutines, 2 keys, LRU of 1, batches of 2, 3 sets, 2 lives, writes that fail or kill the writer; 110 559 states | `WriteBehindInvariant`, `BarrierPersists`, `ReadsLastSet`, `RowsMoveForward`, `BarriersEndIfAlive` |
| `llm` | 2 providers, one with an alias; 3 callers, semaphores of 1, threshold 2, 1 retry, 4 calls; 144 643 states | `CallsInOrder`, `BreakerIsEarned`, `OpenBreakerAdmitsNone`, `CallsEnd` |
| `verify` | 2 callers, a file of 8 lines in 2 versions, 2 proofs, 1 edit, 1 crash; 101 720 states | `VerdictIsSound`, `RightProofAccepted`, `FilesInOrder` |
| `sessions` | 3 backends, 2 callers, 2 keys, 5 processes, 1 abandoned thread; 1 855 119 states | `TableInOrder`, `OneUser`, `NoProcessEscapes` |
| `agents` | agentic loop: 2 solves of 2 or 4 rounds, 2 sub-goals, 2 proofs, patience 1, 1 replan, 2 lessons; search in 3 shapes with 2 tactics; strategy with 3 knobs; 1 501 946 states | `LoopsInOrder`, `SolvedIsEarned`, `BudgetsAreKept`, `CacheIsEarned`, `OneStepAtATime` |
| `boot` | 2 runs, 1 crash, 2 mirrors of which 1 announces lengths, 2 attempts, archives of 1 and 2 pieces, 2 refs; 4 123 455 states | `DownloadIsWhole`, `RunsOnWholeParts`, `PassIsEarned` |
| `primed` | as `verify`, with a theorem named with a prime | `EveryTheoremIsFound`, which fails (section 5) |

Several properties are conjunctions of named parts, each with its own comment in the module
that defines it: `MonitorInvariant` (types, books, no poisoned idle session, reasons to wait),
`WriteBehindInvariant`, `CallsInOrder`, `FilesInOrder`, `TableInOrder`, `LoopsInOrder`, etc.

Bounds.  Two tasks with the same goal and one proof that is right for only one of
them are what a wrong reuse of a lemma needs.  Two workers are what a race needs;
quota 1 with two tasks makes them compete for the last axiom; threshold 2 needs a
failure in each of two runs, and the third run sees the result.  `ends` has more
tasks than an interval and the workers together.  In `ReplPool` two callers of
two theorems on a pool of size 1 reach reuse, eviction, waiting and overshoot, and
four sessions are as many as can be alive, opening and closing at once there.  In the
runs with fewer sessions `Fresh` delays a spawn until an identity is free.  In `Cache` an
LRU of one entry and two keys evict at once, three sets fill a batch and start the
next, and the second life starts with rows on disk.  In `LLMClient` three callers on a
semaphore of one are a call on the wire, one behind it and one at the breaker; four calls
are two strikes, one call behind them and one more.  In `SubprocessVerify` the file has
each kind of declaration the searches treat differently, and each pair of neighbours
that can be mistaken for each other; one edit moves all lines.  One proof is right for some
of the holes and wrong for the ones that could be taken for these, the other has a `sorry`.  In `VerifierSessions` two
callers and one abandoned thread are three users of one table; five processes are never all
taken.  In `Axprover` four rounds with patience 1 and one replan leave room for the
decomposition (after two failures), a new plan and an early end; a second solve starts
with the cache that a first, maybe cancelled one left; earlier runs have left one proof at
most.  Only in the first can isolated files fail to be built (`Unbuildable`), so that the second
meets what it has cached.  `TacticSearch` runs with budget factor 1 (the code: 4), where the budget does bind,
and the strategy is evaluated every 2 tasks (the code: 25).  In `Download` two attempts (the
code: 6) are a first one and one that resumes.  `MaxRuns`, `Sessions`, `MaxSets`, `MaxLives`,
`MaxCalls`, `MaxEdits`, `MaxCrashes`, `MaxAbandoned`, `Procs`, `MaxSolves`, `Unbuildable` and the sets of
tasks, texts and proofs are the only bounds; no counter is cut off but `sinceEval`, which
stays at the threshold that is all the code compares it with.

`CHECK_DEADLOCK FALSE` stands in the configurations of `Pipeline`, `Cache` and
`LLMClient`: after the last run, life or call there is nothing left to do.  The other modules have
an explicit last step (`Over`, `Spent`, `Searched`, `Settled`) or never end.

Fairness.  The loop runs what is ready, so worker steps are weakly fair; a chain
ends because `wait_for` bounds it and every verifier has a timeout.  In the pool
threads end because Lean sessions have timeouts.  The cache's
writer and whoever's event is set go on.  In `LLMClient` every request has a timeout and
every backoff an end, and health probes are requests too.  Nothing forces a signal, a crash, a
timeout, a cancellation, a call or a close.  The other modules claim safety only.

Every property of a passing run has a mutant (listed in `PROJECT.json`, defined
just before the operator that it replaces): a plausible mistake in the code under
which TLC finds the property violated.

## 4. Proofs

Every safety property of section 3 is a theorem for all values of the constants: any numbers
of tasks, workers, callers, processes, files, runs, kills, any sizes and thresholds.  Each proof
module names the inductive invariants of its properties, proves one lemma per action, and joins
them by `PTL`.  The assumptions are the named ASSUMEs of the modules (types, finite sets,
positive sizes) and, where a theorem says so, a setting, which the run that checks the property
has too; section 5 says what the code does outside it.

### Pipeline

`PipelineProofs`, from `ConstantsAssumption`:

| theorem | says | needs |
|---------|------|-------|
| `WorkIsDivided` | types; `OneWorkerPerTask` | |
| `SolutionsAreVerified` | `VerifiedSolutions` | |
| `QuotaIsNeverExceeded` | `AxiomsWithinQuota` | |
| `AxiomsTakeFailures` | `AxiomsAreEarned` | |
| `HalvesAgree` | `BooksAgree` | `ChainInOwnTask = FALSE`: the `wait_for` of Python 3.12 |
| `ReportsAreTrue` | `ReportIsTrue` | the same tasks in every run |
| `DecidedAreSkipped` | `DecidedNeverRestarted` | the same tasks, and resume |
| `CheckpointImplementsLedger` | `CheckpointIsLedger` | the same tasks, and resume |
| `LossIsBounded` | `BoundedLoss` | resume, and some phase: the code's list is fixed (orchestrator.py:59-72) |

* `InOrder` = `TypeOK` and `OneWorkerPerTask`.  Without the latter one worker's
  step could change the status of another one's task.
* `InFlight`: while a worker has a task, that task is undecided, unless the chain
  has just returned a solution that is to be booked, with an accepted proof.
  `VerifiedSolutions` alone is not inductive: a result is booked one turn after
  the verification that justifies it.
* `QuotaKept`: `marked` equals the number of axioms in `results`, tasks and
  results agree on them, and the file is within the quota; the counter and the
  set it counts are otherwise unrelated.
* `EarnedKept`: a task that is queued or with a worker was escalated by earlier runs only, so
  that the escalation of this run, which follows, is the first of the run.
* `BooksKept`: `InTurn`, a chain that has returned is booked in the same turn, so that no save
  falls between; `RunBooks`, in the run a decided task that no worker has has its result.
* `LedgerKept`: what the file has decided, the tasks in memory have too, so that
  the next save repeats it; `ResultsDecided`: a task with a verdict in the results, of the run
  or the file, has one itself, which is what `_resume_merge` and the skip look at.
* `Reported`: nothing that was started is queued, a task in progress is with a worker, and only
  a run that is being stopped leaves a task open outside the queue or lets a worker go.
* `Lossless`: the unsaved tasks and those in the workers' hands are at most one for each other
  worker and one for each task taken since the last multiple of the interval (`Since`); an idle
  worker is in the turn that has just booked and, when due, saved.  `BoundedLoss` counts only
  the unsaved, which grow when a task in hand is booked.

`StepKinds` sorts the actions into six kinds first, since most of them touch nothing the later
invariants mention.

### LLM client

`LLMClientProofs`, from `LLMClientAssumption`:

| theorem | says |
|---------|------|
| `BreakerOpensWhenEarned` | `BreakerIsEarned`: an open breaker has as many counted errors behind it as it takes strikes |
| `OpenBreakerKeepsOut` | `OpenBreakerAdmitsNone`: no call joins those that were past the test when it opened |
| `CallsStayInOrder` | `CallsInOrder`: types, each call counted once, calls sent to a model that answered a probe |

* `BreakerKept` adds that strikes never exceed the counted errors: the two are written in
  one turn (`ClientError`), but successes reset only the strikes, so neither bounds the other
  without it.
* `CallsKept` says where the callers are; a call becomes `Underway` only through
  `Generate`, whose guard looks at the breaker of its provider, and no later step changes
  the provider of a call.
* `Orderly` = `Gated` (what the health gate has settled), `Calling` (a call goes on with a client
  that passed the gate), `Counted` (each call that a provider got is in its
  books, was dropped by a cancellation, or is under way) and `BreakerKept`.

### Agents

`AgentProofs`, from the assumptions of the four modules:

| theorem | says |
|---------|------|
| `ResultsAreEarned` | `SolvedIsEarned`: a returned proof has passed Lean and the critic in this call |
| `CacheTakesAccepted` | `CacheIsEarned`: what enters the cache was accepted in this call for its goal, or for the theorem where isolated files cannot be built |
| `StrategyMovesByOne` | `OneStepAtATime`, for any number of workers and any ranges |
| `LoopsStayInOrder` | `LoopsInOrder`: types and order of the four loops |
| `LoopsStayInBudget` | `BudgetsAreKept`: what a solve and a search may ask for, when a solve gives up |

* `OnItsWay` says, for each place of `solve` between a verdict and the return, what the proof
  in hand has passed; `SolvedIsEarned` speaks of the end only.
* `AskedInForce`: the evaluation that is under way was asked for the strategy in force.  Its
  answer comes after an await and is computed from the strategy of its start, so without this a
  late answer could move a knob by two.  It holds since one evaluation runs at a time.
* `AgentInv` = `Work` (where the decomposer is in its skeletons, and that each slot done is
  `Earned`), `Rounds` (the counters of a solve), `Lessons` and `Paid`: what has been asked of the
  prover is one proposal for each round and what the decomposer has used at its place, which is
  at most `MaxAsked` when it returns.
* `Search`: what was seen is what was paid for, and the replies still to be tried are within the
  budget and one state's replies.

### REPL pool

`ReplPoolProofs`, from `ReplPoolAssumption`:

| theorem | says | needs |
|---------|------|-------|
| `WaitersHaveReason` | `AtMostOneOver`, `WaitHasReason` | |
| `CapacityIsNeverExceeded` | `CapacityIsKept` | no guard |
| `SessionsAreExclusive` | `ExclusiveUse`, `NoPoisonIdle` | no cancellation |
| `SoundSessionsAreHandedOut` | `BrokenNeverHandedOut`, of every step | no cancellation |
| `MonitorIsKept` | `MonitorInvariant` | no cancellation |
| `ProcessesAreOwned` | `NoProcessLeaks` | no cancellation, no guard |

* `Apart` says that the places a session can be in exclude each other: an idle session is open,
  sound and nobody's (`IdleApart`), open sessions have their process and held ones differ
  (`LiveApart`, `HeldApart`), a session that is being opened is in no book yet (`SpawnsApart`),
  the ones that the guard or close work on have left the idle list (`GuardApart`, `ClosedPool`).
  `ExclusiveUse` alone is not inductive: a session is opened in a thread, and its number is
  entered later.
* `Room`: a waiter has its reason, and the guard begins a rebuild only in a pool that is within
  its size; it holds whoever is cancelled.
* `Books`: a place is reserved for each session that is being opened (`OpeningCounted`), a live
  session of an open pool is idle or in use, each process is registered, being torn down or
  being opened (`Owned`), and only close() abandons a thread (`Abandoned`).

### Cache

`CacheProofs`, from `CacheAssumption`:

| theorem | says | needs |
|---------|------|-------|
| `BarriersPersist` | `BarrierPersists`: a flush or close that returns has what it waited for on disk | |
| `RowsNeverGoBack` | `RowsMoveForward`, over all lives | |
| `KeysReadAsSet` | `ReadsLastSet` | |
| `ValuesReachTheTable` | `WriteBehindInvariant` | `ClosedAtExit = TRUE`: the pipeline's cache |

* `WriteBehind` follows a value from `set` to its row.  `InOrder`: values increase along the
  batch and the queue.  `Ahead`: what is on its way is newer than its row; with both, the last
  value of a batch for a key is its newest (`LastIsNewest`) and storing it moves the row forward.
  `InFront`: whatever a barrier waits for is in the table or in front of it, and a client has
  one barrier in the queue at most, so the event it gets is its own.
* `Recent`: a key reads as it was last set unless its value was dropped or the key was evicted
  before it was written; an entry that is not written is in the LRU or was evicted.
* `Closing`: close puts the last barrier there is into the queue; `Finished`: so the process
  ends with nothing on its way.  `Newest` and `Bounds` are the numbers these rest on.

### Subprocess verifier

`SubprocessVerifyProofs`, from `SubprocessVerifyAssumption` and `ContentAssumption`, for any texts:

| theorem | says |
|---------|------|
| `AcceptedProofsAreSound` | `VerdictIsSound`: what is accepted proves the hole that was asked for |
| `RightProofsAreAccepted` | `RightProofAccepted`: a right proof for the only hole is not refused |
| `FilesAreInOrder` | `FilesInOrder`: what a live process has on disk is its calls', what killed ones have left is out of every call's way, the base is whole |

* Most of it is about texts: which declaration the scanner, the search and Lean take a line to
  belong to (`OwnerIs`, and the lemmas on `EnclosingDecl`, `FindDecl`, `Block` and `FindSorry`),
  and that splicing moves no line and no other hole (`SameLines`).
* `Inv`: a call underway has looked up declaration and hole in its own text, for a task of this
  run, and while Lean runs its base is a whole copy.  `Verdicts` joins it with the two verdicts.
* `FilesInv`: every name on disk has the number of this process or of an earlier one, and those of
  this process are its calls'.  A kill raises the number, so whatever it leaves (`Cut`) is of an
  earlier one from then on, and no more run directories of it than calls were in Lean
  (`LeftIsFew`).

### Session verifiers

`VerifierSessionsProofs`, from `VerifierSessionsAssumption`, for each of the three backends:

| theorem | says |
|---------|------|
| `TablesAreInOrder` | `TableInOrder`: types, no closed or spoiled process is found, closed means closed |
| `ProcessesHaveOneUser` | `OneUser` |
| `FewProcessesEscape` | `NoProcessEscapes`: each abandoned thread costs one process at most |

* `Safe`: a process is in one place (`Apart`), callers that share one found it under their key
  (`SharedByKey`), one caller at a time looks and opens (`Locked`), a spoiled process is not in the
  table nor on its way there (`Unspoiled`, `NoneClosed`), and after close nothing goes on (`Shut`).
* `Counted`: the orphans, the threads that open and the caller that such a thread has overtaken
  are together no more than the threads left alone.  The orphans alone are not bounded
  inductively: an overtaken caller makes one without any thread.

### Standalone program

`BootProofs`, about `BootSpec`, from the assumptions of `Download` and `Boot`:

| theorem | says |
|---------|------|
| `DownloadsAreWhole` | `DownloadIsWhole`, for any sizes, mirrors, attempts, runs and kills |
| `WholePartsAreRun` | `RunsOnWholeParts`: types, `EnsuredIsUsable` and `FetchedIsAsked` |
| `LeanIsUsable` | `EnsuredIsUsable` by itself |
| `PassesAreEarned` | `PassIsEarned`, for any reports and any baseline |

* `InPlace`: piece i of a file is piece i of the archive it comes from, and while a body is
  written the file ends where the next piece goes.  That a length matches says nothing without
  it.  `FetchesRefs` has the types of the process and of the reports.
* `MovedIsWhole`: a toolchain is there in part only while it is moved, and only in the place
  it is moved to, or elan's once an installer was cut short; a run that has found or installed
  Lean has a whole one (`HasWhole`) with the same exception.  elan's `lake` without a toolchain
  exists only after such a cut (`ElanCut`), which is why the exception can be so narrow.
* `Bounded` and `Placing`: what a process that downloads or moves has in hand.
* `Fetching`: what is on the disk of a project, in the zip, unpacked or cloned, comes from a run
  that asked for it; a torn clone means that git was cut short or that several refs were asked
  for.  `FetchedIsAsked` is a statement about one ref and needs it of all.
* `OwnIsLast`: the report that a run wrote is the newest when it is judged.

### What is only model-checked

Liveness: `RunEnds`, `WaitersWake`, `BarriersEndIfAlive` and `CallsEnd` stay with TLC, since the
provers do not treat fairness.  No run claims more than the theorems: where one needs a
setting, the run has it.  `EveryTheoremIsFound` has no theorem, since it is false.

## 5. Where the code and its documents disagree

`primed`: `_find_decl` looks for the name followed by `\b` (verify/subprocess_lean.py:417,
and engine/decompose.py:46 the same), and after a name that ends in a prime there is no
word boundary.  The module promises to "locate the theorem block by theorem_name +
line_number" (:8); for `foo'` every proof is rejected.

Also seen, without a run of its own.

Pipeline:

* On Python 3.10 and 3.11 (not what `resume` checks) an emergency checkpoint between the end of a chain and its
  accounting contains a solved task without its result (orchestrator.py:641); later runs
  skip the task and never count it.
* After a run with `--task-limit` the checkpoint has lost the records of the other tasks,
  and solved ones are started again (:1101).
* A task popped when the budget has just run out is neither run nor reported as
  untouched (:596).  `UntouchedWasNotRun` is the other direction.
* Task ids leave out the project path (sorrydb.py:217): tasks of two projects may share one.

REPL pool:

* A caller cancelled while its session is opened leaves a place reserved for good
  (repl_pool.py:382); with size 1 nobody gets a session any more.
* A caller cancelled during a tactic returns the session as healthy while the
  tactic's thread still drives it (:653).
* The guard's rebuild exceeds the pool's size when a waiter has taken the evicted
  session's place (:530).  `AtMostOneOver` shows that it is by one at most; `SizeKept`
  is checked without the guard.
* With the guard, `close` during a rebuild leaves a REPL process that no code of the
  pool closes (the garbage collector may); so `NoProcessLeaks` is checked without it.
* `ReplPoolVerifier.verify_proof` does not look at `_ready`: a call after `close` makes a
  new pool (:587).

Cache:

* The command line never closes the router's cache (cli.py:236): the LLM responses of the
  last partial batch (fewer than 200) are lost at every regular end.
* A value that sqlite cannot encode ends the writer task (cache.py:193); a queued `flush` or
  `close` never returns, and `close` at the end of the program hangs.
* A key that is evicted from the LRU before its write reads as missing or as its
  older row, which goes back into the LRU and stays there after the newer row is on
  disk (:147).  `ReadsLastSet` excludes the keys in `unbacked`, and shows that
  there is no other way to a stale read.

LLM client and router:

* The breaker never closes again after the start, and a success that comes late resets the
  strikes of an open one; an open breaker does not make the router use another provider.
* Thinking calls of DeepSeek go to a reasoner model that no probe has tried;
  `SendsToProbedModel` excepts them.
* A direct answer that did not prove its task is replayed from the cache in later runs.

Subprocess verifier:

* A killed process leaves its run directories, `_build_` copies and `.apollo_tmp/*.lean`
  (subprocess_lean.py:225, :537, decompose.py:427-429), and no code ever collects them.  No later
  call meets them, as `FilesInOrder` shows; the scanner skips directories with a dot
  (sorrydb.py:158-172), but the copies of a work directory inside the project would be scanned.
* The same is left while the process lives when `rmtree(ignore_errors=True)` or `unlink` fails
  silently (:233, decompose.py:382-389), or `copytree` raises half way (:538).  This is not modelled:
  `NothingLeftBehind` takes removals to succeed.  Nor is Lean itself, which runs in a session
  of its own and goes on in the directory of a killed process; an edit during the copy, which
  counts as before or after it; and two programs on one work directory at once.
* A task names a line, and the file is read again at each call.  After an edit of the file the
  line and the name may be those of another hole, and a proof that is right for that one is
  accepted.  `VerdictIsSound` speaks of calls that read the file as it was scanned
  (`j.text = scanned`), whatever is edited later; the others it only says to have closed what was
  looked up.
* The synthetic file of a sub-lemma is not in a base that already exists, so the run
  directory lacks it and every isolated check is rejected under the default verifier, against
  decompose.py:9-15.
* The base is found by the path of the project: after an edit of an imported file proofs are
  checked against the old one (subprocess_lean.py:504).  The verdict is stated for the
  imports in the base.
* A nameless `example` is never found; a task of SorryDB without a name in one gets the
  hole of the theorem above.  A theorem with two holes is never accepted, and of two holes on
  a line the first is meant.
* A `private` or attributed declaration counts as part of the one above.  When a block end lies
  between them (`end`, `namespace`...), the hole is not in the block that the verifier
  searches (subprocess_lean.py:416-440): the proof is spliced into a hole of the theorem above
  and accepted if it proves that one.  The same holds for the second hole on a line of such a
  declaration.  `Locatable` excepts these tasks, and those above, from `VerdictIsSound`.
* The search for `foo` also matches `foo'` and `foo.bar`; the line decides between them.
* Comments are stripped differently by scanner and verifier (strings), and an error of
  `_ensure_base` escapes `verify_proof`.

Sessions:

* A whole-proof check that fails drops and closes the tactic session that another call is
  using (dojo_v2.py:269).
* A cancelled tactic leaves its session in the table while its thread still drives it, and a late
  opener overwrites what the table has meanwhile: the older process is an orphan.  A
  server that was built after the 1800 s or after a cancellation is never stored.
  `OneUser` counts callers: such a thread is no user to it, and would not be caught.
  `ProcessesAccounted` shows that each abandoned thread costs one process at most.
* lean-interact keeps a server after a failed use.

Agents and strategy:

* Where no isolated file can be built (a theorem without a name or not found by it, a file that
  is not there or cannot be read, a directory that cannot be written: decompose.py:394-412,
  :432-434), `_verify_isolated` verifies the proof of a sub-lemma against the task itself (:376-378).
  If the verifier accepts it there, it fills the slot and is cached under the goal of the sub-lemma
  (:158-162, :173-176), which Lean has not judged.  The whole proof is verified all the same, and
  so is every hit of the cache, so that no wrong result follows.  `SlotsAreProved` and
  `CacheIsEarned` except just these tasks (`Earned`); the comment of the fallback (:373-374)
  speaks of tasks in memory only.
* `_reassemble` puts the parts in by name (:341-348): two `have` of one name get the same part,
  and only the verification of the whole tells.
* The decomposer caches its whole proof before the critic has seen it, and sub-lemma proofs
  that may rely on the ones before them; a hit is verified again.
* An unparseable or failed review counts as approval.
* `degraded()` sets 4 iterations, more than LIGHT's 3, and raises a depth of 1 to 2
  (orchestrator.py:113).
* With width up to 4 the expansion budget of the search never binds at factor 4; with width
  1 and a share over one half two replies are asked for.

Standalone program:

* A corrupt archive, or one of another version, is never deleted: the answer 416 counts as
  complete, and the route is blocked until somebody removes the file.  CHANGELOG.md:33-39 and
  docs/LOCAL_GUIDE.md:130 still describe 416 as a failure.
* Clone directory and zip are named without the ref: another `@ref` is silently the old
  one, or mixes archives.  A clone cut short by its timeout or a kill is reused ("clone" in `cut`);
  a git that outlives its run may go on writing to it.
* A toolchain directory cut short by a kill is accepted if it has `bin/lake`, and blocks the
  route if not.
* elan's `lake` is taken for Lean without a look at its toolchain (:503-510): after an installer
  that failed, stalled (:384-390, only its shell is killed) or lost its run, a later run goes on
  with the command and a toolchain that is torn or missing, and the manual route takes elan's torn
  directory for an installed one (:484).  `EnsuredIsUsable` excepts these ("elan" in `cut`), and a
  move that was cut short ("place"); it still claims that nothing else is ever taken for Lean, in
  particular nothing a download or an unpacking leaves, and nothing under `~/.v40` but a whole one.
* A stalled mirror is tried six times, though the docstring says that it "quickly falls
  through"; answers without a length are accepted truncated; the self-test with a real LLM
  bypasses the key gate, and judges an older report when its own cannot be read.

## 6. Not modelled, and the plan

Not to be modelled: prompts and texts, HTTP and parsing, stripping of comments, indentation and
the axiom check, premise retrieval (off by default), heuristics of `progress.py`, the mock
verifier (a stub), metrics and logs, parsing of settings, the packing scripts, tier presets and
degradation (pure record updates), `verify/dojo.py` (the older form of `dojo_v2.py`) and
`verify/hybrid.py` (it combines two verdicts and keeps counters only).

What is left is liveness, which stays with TLC, and the parts above.
