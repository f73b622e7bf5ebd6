# A verification development for markdown-linkerator

TLA+ models of markdown-linkerator, the TLC instances that check them, and TLAPS
proofs of what matters most for every value of the constants.
Paths are relative to the repository; `PROJECT.json` maps each definition to the
lines it stands for.

## 1. The system

The program crawls inputs for Markdown files, extracts their links, decides local ones
on the spot and checks each distinct URL once, under one rate limiter per host.

```
crawl --filesCh--> parse workers --jobsCh--> dispatcher --> pacer per host --readyCh--> executors --> Collector
                      |  dedup.add                            HostState.Acquire            | HTTPChecker.Check
                      +--> offline links --> Collector                                     | HostState, cache.Put, dedup.complete
```

| Component | State | Operations | Interacts through |
|---|---|---|---|
| crawl (`pipeline/crawl.go`) | position in the inputs | send a source, fail | filesCh, errgroup |
| parse stage (`pipeline/pipeline.go`) | sources, links of each | read, handleTarget, close jobsCh | filesCh, jobsCh, dedup, Collector |
| extraction (`extract/*.go`) | none | directives, targets, slugs and ids of a file | called by parse workers |
| offline checks (`checker/checker.go`, `pipeline.go`) | anchors of other files, under a mutex | CheckFile, CheckHash, checkFileTarget, fileAnchors | the files, which others edit; Collector |
| dedup (`pipeline/dedup.go`) | per URL: pending or done, occurrences, result | add, complete | called by parse workers and executors under two locks |
| dispatcher and pacers (`pipeline/pacer.go`) | queue and done flag per host | dispatch, enqueue, close, run | jobsCh, condition variable, HostState, readyCh |
| executors (`pipeline.go`) | jobs in hand | execute | readyCh, checker, HostState, cache, dedup, Collector |
| HTTP checker (`checker/http.go`, `retrystate.go`) | retryState of the check | Check, checkRetry, backoff, OnRetry callback; headers, checkRedirect | network, HostState (via OnRetry) |
| rate limiter (`ratelimit/ratelimit.go`) | rate, notBefore, success count | Acquire, ArmCooldown, Penalize429, OnSuccess | pacer and executors of the host |
| disk cache (`cache/cache.go`) | map, file, temp file | New, Get, Put, Save | dedup, executors, engine; other processes through the file |
| collector (`report/report.go`, `progress.go`) | results, gauges, ticker goroutine | Add, Net*, StartProgress, Finish | all stages, under one mutex |
| configuration (`config/*.go`, `cli/config.go`) | the Resolved settings, fixed at start | layers, Merge, Resolve, CacheFingerprint | every component reads it; the fingerprint guards the cache file |
| engine, CLI (`engine/engine.go`, `cli/cli.go`, `main.go`) | error of the run | Run, exit code | context: signals and `--max-time` |

What is hard here: two locks taken one after the other in `dedup.add`; a condition
variable that is also broadcast, without its mutex, by cancellation; channels closed
by the stage before; a context that may end between any two steps; retries with
three budgets over two methods; windows computed before a lock is taken; a file that
several processes replace; a ticker to be stopped by a function that needs its lock; an
anchor cache filled outside its lock from files that change; a setting that may be
written in three layers and under two names, and a fingerprint that has to know which of
them a verdict depends on; credentials on a redirect that leaves and comes back.
`PROJECT.json` lists each hazard at its line, with the properties about it.

What makes each component correct: the pipeline reports every link exactly once,
with one verdict per URL, ends, and exits 0 or 1 only if it did all of its work; the HTTP
checker keeps its budgets and never blames a link for a cancellation; the host keeps
its rate within bounds and its cooldowns honoured and capped; the cache serves and
stores only what checks found, and what it serves is what the run's own policy would
have found; headers go only where their rules say; a local verdict is true of a content the
file had; slugs are numbered; the collector's gauges are true and its report is last.

## 2. Modules

**`Pipeline`** models a whole run. A source item, a link and a job each have a
stage, and a channel is the set of the items in its stage: capacity is kept, order
is forgotten (no property depends on it). A job is identified with its `Sample`, the
link whose first sight created it. Each critical section and each channel operation
is one action: `AddCacheHit`, `AddMiss` and `AddLookup` are the first critical section of
`dedup.add`, `AddDone` and `AddPending` the second; `Execute` is `Check`, `cache.Put`
and `dedup.complete` (the cache entry cannot be looked up again: its URL is
registered), and `FanOut` is one iteration of the loop after it. A pacer
that decides to wait holds its mutex until it is on the wait list (state "parking"),
so that a broadcast may come too early (`CancelWakes`). A limiter's bucket is full at first
(`Burst`), so that under a deadline `Acquire` is refused (`AcquireWouldExceedDeadline`) only when as many of its
host's URLs have got through (`Granted`); that tokens come back in time is a success of `AcquireOK`. The cache is
on, and `Warm` says
which entries are fresh when the run looks them up. A verdict is alive, dead for
a stable reason, dead for a transient one ("flaky"), or error.

**`RunContract`** is the abstract specification: verdicts, reports, the cache file and
the exit status, without goroutines. `Pipeline` maps `result`, `outcome` and `disk` to
its variables.

**`PipelineInv`** holds the inductive invariant in named parts, `Ledger` and `Control`;
**`PipelineProofs`** and **`PipelineControlProofs`** the proofs; **`MCPipeline`** the instances.

**`HTTPCheck`** is one call of `Check`: HEAD and perhaps GET through retryablehttp's
`Do` loop (external: an attempt, `CheckRetry`, `Backoff`, a wait, up to `RetryMax`),
with `checkRetry`, the backoffs and `retryState` as in the code. The server answers
anything; the context may end at any time, by a signal or a deadline.
Times are half seconds. `parseRetryAfter`'s 64-bit product is kept: it wraps at
`DurationLimit`, which stands for 2^63 ns. A header that `Atoi` cannot read is no header.
Proofs: **`HTTPCheckProofs`**.

**`HostState`** is one host over time: its pacer, the workers that check its URLs, and
its limiter and gate. Every time is a distance from now and `Tick` decrements them all;
rates are in thousandths per second. `Throttle` is the OnRetry path up to the
computation of the window, `Arm` and `Penalize` the critical sections after it.
Proofs: **`HostStateProofs`**. **`MCHostState`** has the delays.

**`CacheFile`** is the cache file over several runs of two configurations, overlapping
at will, with a failure at each step of `Save` and a crash between any two.
Proofs: **`CacheFileProofs`**. **`MCCacheFile`** has the policies.

**`Progress`** is the collector's gauges, its ticker and `Finish`.
Proofs: **`ProgressProofs`**. **`MCProgress`** has the instance.

**`Config`**, **`Requests`** and **`Policy`** follow one link through its policy. `Config`
is pure: what a layer can say (a pointer can be unset, a plain value cannot be
told from its zero), `Merge`, `Resolve` with the alias of the retry limit, `CacheFingerprint`.
`Requests` adds what goes on the wire: the headers of `do`, `ruleMatches`, what net/http
(external) carries over a redirect, and `checkRedirect`. `Policy` is the sequence: a run is
configured from what a user wrote in the file, the environment and the flags, looks up the
shared cache file, sends the chain of requests, judges the answer, saves; then another
user's run does the same. The world (a chain of redirects, the header its last page
asks for, the status it answers) is chosen once, so that verdicts differ only by policy. HEAD
and GET send the same chain, so one stands for both. Tokens are equally good or equally
bad (`WorldsAssumption`): the fingerprint has only whether there is one (resolve.go:124-136).
Proofs: **`PolicyProofs`**. **`MCPolicy`** has what users write and the worlds.

**`Markdown`** and **`Offline`** are the local half. In `Markdown` a file is a sequence
of lines of kinds (a heading, an id, a link, a code fence, a disable directive, text), and
a name is a base and numbers, so that "foo-1" is `<<"foo", 1>>` and can meet the first
repetition of "foo". `Offline` has the parse workers, each step of `fileAnchors` an
action of its own (`Lookup`, `Open` or `OpenFail`, `Store`), and `Edit`, somebody who replaces or deletes a file.
`os.ReadFile` may fail on a file that is there, for a source (`ReadSource`) as for a file that is linked to
(`OpenFail`); the history variable `unread` has the links that are alive for that reason.
Proofs: **`OfflineProofs`**. **`MCOffline`** has the pages.

The modules meet in operators with the same meaning: `HTTPCheck`'s Result supplies
the verdicts that `Pipeline.Execute` and `CacheFile.Put` choose from and the `saw429`
and delays that `HostState` takes; `HostState.AllServed` (a pacer gets through) is what
`Pipeline.AcquireOK` relies on; `CacheFile.ServedIsHonest` justifies `Warm`, for runs of one
fingerprint, and `Policy.ServedIsOwn` says that runs of one fingerprint judge alike;
`Offline`'s results are the choice in `Pipeline.HandleOffline`.

## 3. Runs

Small instances, each for one question. `CHECK_DEADLOCK FALSE` everywhere: a run of the
program stops. Passing runs:

| Run | Instance | Shows |
|---|---|---|
| `pipeline_races` | a file and a URL argument with a URL in common, another URL twice in the file and fresh in the cache, a local link; 2 parse and 2 URL workers | at most once, one verdict, one check, nothing lost, green means complete, the saved file is what was reported, under cancellation and failing sources; `RunContract` is implemented; `Ledger` and `Control` hold |
| `pipeline_stages` | 3 URLs of 2 hosts, all capacities and limits 1, `--max-time` | back-pressure through every stage, two pacers, the limiter's early error and the shutdown order end in termination; no send on a closed channel |
| `http_budgets` | 1 rate-limit retry, 2 connection retries, six statuses, Retry-After within, above and beyond a Duration | budgets, GET's word on hard-dead links, Retry-After, cancellation, remembered throttling; `Accounting` holds |
| `host` | 5 URLs, 2 workers, delays that are zero, small, capped, overflowed | rate bounds, caps, gate, recovery; every URL is served |
| `cache_runs` | 3 runs, 2 configurations, a URL, TTL 1 | honest entries, whole file, no litter |
| `progress` | 3 checks on 2 hosts, 2 ticks | gauges, last word of the report, Finish returns |
| `policy` | 2 runs, each under any of 150 ways to write a file, the environment and the flags; 5 chains over 3 origins, guarded or not | precedence of the layers, no verdict of another policy, no header off its origins |
| `offline` | 2 workers, a page of every form of up to 3 lines and some longer, two pages that link to it, an edit, reads that fail | true verdicts, bounded reads, links inside and from outside agree, slug numbers |

The configurations in which a bound matters most (no rate-limit retries, 429 retries off, a
configured rate below the penalty floor) need no run of their own: the theorems about
`BudgetsHold`, `ThrottlingRemembered` and `RateBounds` cover them.

Bounds. A file and a URL argument with a common URL are the smallest in which `dedup.add` races with
itself and with `complete`; capacities of one make every channel fill; two hosts are the smallest in which
`closeAndWait` waits for one pacer while another works. One and two retries, with
budgets that differ, tell a shared budget from a doubled one. Two workers are what it
takes to arm windows in the other order. Three runs are a writer, a writer in its way
and a reader, and the clock bound (`MaxClock` 2) passes the TTL of 1. `MaxTicks` bounds the
ticker. `Delays`, `RetryAfters` and `DurationLimit` are scaled so that each comparison
goes both ways. `MaxRuns` 2 is a run that stores and one that may be served; users differ in
one or two settings of a layer at a time, every class of setting among them, and chains have up to
four URLs because leaving an origin and coming back takes three. Three lines are a repeated
heading around a directive or a literal "foo-1" around two headings; four add what a fence
takes, and `Cut` is the one longer page, a disabled region that cuts a code block. `MaxEdits` 1 is an
edit or a deletion between any two steps of a reader; workers are symmetric. `OneToken` is a burst of 1, which two
URLs of a host exceed.

Runs that TLC must find violated, each a disagreement with what the repository says
(quoted under `findings`):

| Run | Disagreement |
|---|---|
| `pipeline_deadline_green` | with more URLs of a host than its burst, `rate.Limiter.Wait` fails at once if the next token would be late; the pacer leaves, and the run may exit 0 before the deadline with unchecked links |
| `http_overflow` | a Retry-After above 2^63 ns wraps and is retried at once |
| `http_retry_after` | the Retry-After of a final 429 is not in the Result, and arms no cooldown |
| `policy_redirects` | `checkRedirect` refuses when `len(via)` has reached `MaxRedirects`, and so follows one fewer than the flag's text says (cli.go:66) |

Smaller disagreements between code and comments that the models keep as the code has
them, without a run:

* "in-flight checks resolve as errors" (cli.go:95-96) is so of those that are executing at cancellation; jobs whose send is
  cancelled, or that are still in a pacer's queue, get no result (`DropJob`, `PacerAbandon`);
* a mail address whose MX lookup is cancelled is dead (checker.go, hasMX), although the run then exits 2; the models
  take which addresses are valid as a constant (`Deliverable`);
* a section of a page that exists but cannot be read is alive (pipeline.go:211-214, as its comment says; `OpenFail`);
* a transport failure is StateDead and not StateError (model.go:53-54; `GiveUp`);
* HEAD and GET are recorded as one request (ratelimit.go:154-155; the statistics are not modelled);
* a request may start inside an armed window, from readyCh or as another check's retry
  (ratelimit.go:170; `Release`, `Arm`, `Start`);
* a 403 is cached (cache.go:87-89; `StableClientError`);
* `fileAnchors` parses a file once per run (pipeline.go:226-227) except when workers race for it: at most
  once per worker (`ReadsBounded`);
* slugs repeat when a literally numbered heading comes before its base ("foo-1", "foo", "foo"; `SlugsAreNumbered`
  says that there is no other case);
* the disable directives count for a file's own anchors and not for links into it from other files
  (`ReadSource`, `Open`), so that a directive that cuts a code block can make them disagree (`Ordinary`);
* a host override with only a burst gets the floor rate (ratelimit.go:70, 113-116);
* a plain value's zero (`--rate 0`, `--github-token ""`) cannot override a lower layer (`UnsetValue`);
* a root that is itself named vendor, node_modules or .git yields no file, and a `**` followed by a directory
  matches it only directly below the walk's root (crawl.go:87, 103-120; not modelled).

## 4. Fairness

Liveness is checked under weak fairness only of what the Go scheduler and the timers
guarantee. `Pipeline`: `WF_vars(System)`, some runnable goroutine goes on; since every
behaviour of an instance is finite, that is enough for termination, and it needs no
fairness among goroutines. `Cancel`, `CrawlFail` and `ReadFail` are the environment's and have
none. `HostState`: each worker, the pacer and the clock. `Progress`: the workers, the ticker and
`Finish`; a `select` may prefer the ticker, but its ticks are finitely many here, as they
are 10 s apart in the code. That a check returns rests on bounded attempts
(`BudgetsHold`) and on the timeout of each.

## 5. Proofs

All are for arbitrary constants under the named assumptions of each module.

* **Pipeline.** `AtMostOnce` is not inductive: a link's second result would come from a
  record or a fan-out that still lists it. `Ledger` says where an unreported link is: in
  `occs` of a pending record, in `fanout` of the completed job, or not registered; that a URL
  has one job and its record is done exactly when that job is completed; and that what was
  reported is the record's result, from which `VerdictAgreement` follows. One step lemma
  per stage, one case per action.
* `Control` adds what the stages know of each other: a closed channel means that the stage
  before is over, a handled link is reported, recorded or about to be fanned out, a
  pending record has a job, and a job is given up only in a run that is cancelled, failed, or `Hurried`: it has a
  deadline and a host with more links than its burst. `NoSendOnClosed`, `NoLinkLost` and, unless `Hurried`,
  `GreenMeansComplete` follow; if `Hurried` the latter is false, as `pipeline_deadline_green` shows.
* Its part `Store` says where verdicts come from: the map in memory is the entries of the start
  overwritten by definitive results, a fresh entry excludes a job, any other verdict has one, the report that
  is not Reused is that job's own link. `OneCheckPerURL` follows, and with the completed job's
  sample reported, `DiskMatchesReport`.
* **Refinement.** `RunKeepsItsContract`: unless `Hurried`, `Pipeline` implements `RunContract`.
  `Execute` maps to `Judge`, `AddCacheHit` to `JudgeAndReport`, `AddDone` and `FanOut` to
  `Report`, `HandleOffline` to `ReportLocal`, a successful `Save` to `Persist`, the process's exit to `Quit`
  (allowed because `GreenMeansComplete` holds after it), and all the rest to a stutter.
* **HTTPCheck.** `Accounting` ties retryState to what happened, in the phases where the client
  goes on, and says what HEAD may hand over to GET; the budgets, `HardDeadIsGETs`,
  `CancelIsNotDeath` and `ThrottlingRemembered` are parts of it. `RetryAfterHonoured` needs only that the answer in hand has a
  Retry-After if it is a 429 or 503 (`Waits`), and that a delay a Duration holds is parsed exactly.
* **HostState.** The invariant `Throttling` adds to the bounds that each window under way is capped, that the gate
  is as far as the longest window armed, and that the code's count is at most what was earned;
  the two action properties follow step by step.
* **CacheFile.** `Provenance` follows an entry from the check through the map, the temp
  file and the cache file to another run's map: everywhere it is what some check found under
  the policy it is stored with. `ServedIsHonest` and `FileIsWhole` are its reader's and its `Rename`'s
  part; `NoLitter` is inductive.
* **Progress.** `Gauges`: each gauge is the cardinality of a set of jobs, per host and in total; by `Quiet` the
  report is written by a Finish that has seen the ticker gone.
* **Policy.** For `Precedence`, `MergedAt` says what two merges and the defaults make of a setting, and `MergedRetries`
  of the retry limit and its alias. For `HeadersStayHome`, what was sent is a prefix of the chain (`Chain`), and a
  header on its k-th request is one of the first that the origins in between allow (`RuleStaysHome`,
  `TokenStaysHome`). For `ServedIsOwn`, equal fingerprints give equal headers, tokens apart, equal
  answers and equal verdicts (`SameHeaders`, `SameAnswer`, `SameVerdict`), so that an invariant on the file (`Judged`)
  needs only that some configuration of its fingerprint would come to its verdict.
* **Offline.** `ReadsBounded`: until a file's anchors are stored, all who read them are still about to
  store them; afterwards only those who missed them before may read, and each stops being one by doing so (`Reads`).
  `VerdictsAreTrue` is not inductive, since a verdict comes from what a worker has had in hand since it read
  the file. `Truth` says of everything in hand, in the anchor cache and collected of which content of which file it is;
  `had` and `unread` only grow, so that it stays so under every step (`EarnedStays`).
* **Lines.** `SlugsAreNumbered` and `SelfLinkAgrees` follow from `Truth` and facts about folds over files of any
  length, whose passes write their result as they go. `Induction` is the least number principle for a set of
  numbers, from the well-foundedness of `<`; `FoldExists` constructs the function that a community module's fold
  chooses, `FoldPath` turns it into its accumulators, one per line, and the rest is induction over that path.
  The n-th heading of a base meets a counter of n - 1 (`PlainSlugs`);
  a counter only falls back to 0 where a literally numbered heading lets it (`DistinctSlugs`). For `SelfLinkAgrees`, each pass of
  stripDisableDirectives leaves lines in order (`KeptAt`), code blocks stay what they were if no fence goes (`SameBlocks`),
  and fewer headings of a name give no number that more would not (`NamesWithin`).

Assumed of the limiters (`TokensAssumption`): every burst is at least 1, as newHostState makes it, and the links are finitely many.
Assumed of the files (`ContentsAssumption`): they are sequences of lines, headings are a
base followed by numbers, and links to files are to `Files`.

Only model-checked: liveness (`Termination`, `AllServed`, `FinishReturns`), which is out of this prover's reach.
Every other property of a passing run is a theorem (`GreenMeansComplete` and `ImplementsContract` unless `Hurried`).

## 6. Not modelled

Goldmark, the characters of a slug, line numbers, decoding of files and durations, compilation of patterns, the
expansion of tokens in headers, rendering of reports, the config subcommands and version: pure, and
the models take their results as constants or as what a user wrote. Which files an input stands
for. Request statistics. A `BackoffMax` of zero (no cap). A cache that is switched off, except in `Policy`. A wall clock that
steps back, and power loss (the code does not sync the file). The rounding of floating-point
rates. The headers on HEAD alone.

## 7. Plan

Done: 1 `Pipeline` and its instances, 2 `RunContract`, 3 `Ledger`, `Control` and their
proofs, 4 `HTTPCheck`, 5 `HostState`, 6 `CacheFile`, 7 `Progress`, 8 `Markdown` and `Offline`, 9 `Config`,
`Requests` and `Policy`, 10 the refinement of `RunContract` and the proofs of 6 to 9, those about folds included.

Next, in this order:

11. Two hosts with redirects and spellings: OnRetry arms the host that answered, `execute` penalizes the
    host of the link, and `hostOf` keeps the case that `NormalizeKey` folds.
12. Crawl: what inputs, skipped directories and globs stand for.
13. Composition: an executor whose check is `HTTPCheck` and whose pacer is `HostState`, refining `Pipeline`'s
    `Execute` and `AcquireOK`.
