# Verification of the LexBrowser training stack

TLA+ specifications, TLC configurations and TLAPS proofs for
`training/h100` of lexmount-browser-lab: GRPO training of a browser agent
whose rollouts drive remote Lexmount browsers. Paths below are relative to
`training/h100/runtime/` unless they start with `training/`.

    tlc -workers 2 -config SessionPool_safety.cfg MCSessionPool.tla
    tlapm SessionPoolProofs.tla

`PROJECT.json` maps every definition to the source lines it stands for, and
lists the runs, the mutants, the findings, the hazards and the theorems.

## 1. The system

    RayPPOTrainer.fit            patches/ray_trainer.py
      -> AgentLoopManager/Worker patches/agent_loop.py      rollouts, collation
           -> LexBrowserToolAgentLoop, BrowserTool          lexbrowser_verl_agent.py
                -> HTTP: /reset /step /close
                   WebVoyagerResourcesServer                nemo_gym_webvoyager_server.py
                     -> LexmountDOMMode                     environment.py
                          slots, sessions, sweeper, CDP
      <- compute_advantage, GRPO patches/core_algos.py      advantages
      -> actor update, checkpoint, publication of weights

| Component | State it keeps | Operations | What makes it correct |
| --- | --- | --- | --- |
| LexmountDOMMode pool | `_slots`, `_live_session_ids`, background tasks, the slot flag in each state dict | `setup_state`, `cleanup_session`, late-create, close-retry and delete-orphan tasks | no slot lost or doubled; no session used without a slot; provider sessions within the quota; slots come back |
| Orphan sweeper | `_sweeper_candidates` | list, compare, delete | spares owned sessions, reclaims abandoned ones |
| LocalCDPMode | local contexts and slots | same interface without background tasks | as the pool |
| TrajectoryGuard, browser tools | per-episode failure counts, termination | observe, act, navigate in worker threads | a terminated episode acts no more; failures are attributed to the right party |
| LexmountCDPSession | socket, `_next_id` | `call`, `navigate`, `evaluate` | every caller gets its own reply |
| Resources server | `_sessions`, `_close_results`, `_close_futures`, expiry tasks | `/reset`, `/step`, `/close`, expiry, discard, shutdown | close is idempotent; the judge sees what the policy saw; every browser is released |
| Reset circuit breaker | outcome window, cooldown | record, reject | opens under an outage and closes after it |
| BrowserTool, agent loop | `_sessions` by request id | `_state`, `execute`, `finalize`, `run`, `_run_episode` | outages are told apart from policy failures; the rollout returns |
| Metrics writer, judge audit | a bounded queue; a file | emit; append | never block or fail the training |
| Agent loop workers | none across batches | fan out, gather, collate, concatenate | a failed rollout does not lose the batch |
| GRPO estimator | none | group, drop, centre | outages move no weight; healthy groups train |
| Tokens and policy update | `agent_data` of an episode; the padded rows | turns, cut, pad, place the score, balance, estimate, aggregate | rows stay aligned; the better rollout is reinforced whatever its layout; the loss does not depend on the number of ranks |
| RayPPOTrainer | `global_steps`, dataloader, weights, checkpoints | loop, save, load, dump | data order across resumes; on-policy rollouts; truthful tracker |
| verify_rollout_groups | none | count groups in the rollout files | rejects broken groups |
| Other losses, distributed.py, scripts, data builders | none | vendored arithmetic, sequential shell | outside this project |

What is hard: the pool runs many coroutines on one event loop, each cancellable
at every await by a budget, while a create runs on in a thread nobody can
cancel; client and server have independent deadlines, so handlers outlive their
callers and retries meet their originals; failures of the browser service must
be told apart from failures of the policy all the way into the group baseline;
tool threads outlive their timeouts on a socket that the next tool uses; rows of
very different layouts (empty, cut, ending in an observation) go through index
arithmetic that no error would reveal; the trainer crashes and resumes between the steps of a save. `PROJECT.json`
lists these hazards at their lines, with the properties that cover them.

## 2. Modules

| Module | Models | Role |
| --- | --- | --- |
| `SlotPool` | what the quota promises: a call takes a slot once and gives it back once | abstract specification |
| `SessionPool` | the pool, its background tasks, the reset's cancellation, the provider, the sweeper | component, refines `SlotPool` |
| `MCSessionPool` | symmetry set for the runs of `SessionPool` | MC module |
| `SessionPoolProofs` | | proofs |
| `EpisodeProtocol` | agent loop and resources server as two processes over unreliable calls | composition of client and server |
| `EpisodeProtocolProofs` | | proofs |
| `BrowserTools` | one session's tool threads over its CDP socket, the guard, step, capture and close | component with real threads |
| `BrowserToolsProofs` | | proofs |
| `RolloutBatch` | rollouts of a step, collation, GRPO advantages | component and pure algorithm |
| `MCRolloutBatch` | two prompts with `GroupSize` rollouts each | MC module |
| `RolloutBatchProofs` | | proofs |
| `PolicyUpdate` | tokens of an episode, rows, balancing, estimators, GAE, policy loss | component and pure algorithms |
| `PolicyUpdateProofs` | | proofs |
| `BatchDealingProofs` | | proofs about balancing and the aggregated loss |
| `Sums` | | lemmas about the sum of a function over a finite set |
| `TrainerCheckpoint` | the loop of `fit`, save, load, dump executor, launcher | component with crashes |
| `TrainerCheckpointProofs` | | proofs |

### SessionPool

A call `c` is one `setup_state` invocation and the state dict it fills. `reset`
builds a fresh dict per attempt, so the attempts of one reset are different
calls, and every call creates at most one session. `pc[c]` is the await at which
the call's coroutine stands; an action is the code from one await to the next,
which the event loop runs without interleaving. `thread[c]` is the SDK's create
in its worker thread, `provider[c]` the session as the provider sees it.
`flagged` is the `lexbrowser_slot_acquired` flag, `transferred` the slot in the
hands of a background task (`_hand_over` of the flag to
`_cleanup_late_session_create`, `_delete_orphan_then_release` or
`_retry_close_then_release`), `task[c]` that task. `Cancel` is the
`CancelledError` that `asyncio.timeout` of `reset` throws into the await the
call stands at. `Faults` says which provider requests may fail, `BudgetExpires`
whether `Cancel` happens.

`GraceHolds` is the one timing assumption: a create whose caller still waits
does not stay active and unregistered over two listings of the sweeper, which
are `LEXMOUNT_SWEEP_INTERVAL_S` (60 s) apart. The comment of
`sweep_orphan_sessions` rests on the same.

The sweeper reads one page of the provider's listing. `PageSize` is the length of
that page and `SweepList` picks any page of the active sessions if there are more
of them. Sparing owned sessions does not depend on it. Reclamation does: an orphan
that is never on two pages in a row is never condemned, as
`_list_provider_session_ids` says itself ("reclamation coverage is reduced").
`Reclaimed` therefore assumes that the active sessions come to fit the page
(`<>[]FitsOnePage`); up to then nothing is promised. The run has a page of one
for two sessions, so that both cases occur.

### EpisodeProtocol

One rollout: `run` plays at most `MaxAttempts` episodes under fresh session ids.
`client[e]` is the await of the agent loop, `reset`, `pending` and `closing` the
handlers of the server, which run on when their client has given up: an answer
reaches the client only if it still waits for that call. `Deadline` collects the
client's timeouts (`/reset` 120 s, `/step` 35 s, `/close` 90 s, the episode's).
`ReceiveClose` is the idempotence logic of `close` with its three cases (replay,
join, execute) plus the unknown session; `answers` is a history variable. The
judge's verdict is a nondeterministic choice. A failed `/close` and its retry are
two steps (`retry` between them), so that the first invocation may end in between
and the retry finds its cached result, no record, or the invocation at work.

`Lossy` lets a connection break at every call. A `/reset` that was served loses its
answer (one lost on its way is to the client a refused one). A `/step` may not
arrive; if its answer is lost the client times out. Either `/close` may not arrive
(`PostClose`): after two of them the result is `close_rpc_failed`, excluded from
training, and the session stays registered until it expires. `DeadlineHits` are the
awaits of the loop at which the episode deadline may strike. The passing run has
every loss and the deadline everywhere.

The two properties about outages name the gaps that the code has:

* `OutageIsInvalid`: every reward that enters the baseline is earned, but for
  `CutOff` (the deadline's `CancelledError` leaves `_state` before its entry is
  stored) and `Unheard` (no step of a session that came up was answered, so the
  transcript is empty). `InfraIsInvalid`, the property without the gaps, is what
  `episode_slow_reset_reward` and `episode_lost_steps` refute, one gap each.
* `NoOrphanRegistered`: a session outlives its client only if the client did not
  learn of it (its reset was lost or cut off) or neither `/close` arrived
  (`Unreached`). A close that does arrive leaves nothing registered, also when it
  raises.

### BrowserTools

One browser session on the server. `threads[w]` is a worker of the executor that
runs a tool, the capture or `session.close`; its `todo` are the CDP requests it
still makes, and `Number`, `Send` and `Receive` are the three steps of
`LexmountCDPSession.call` between which another thread may run: take
`_next_id`, read it again for the request, compare it with a reply. Of the
counter only one thing matters to a reply, whether its request has the newest
number; `inflight` records that and the thread that sent it, so a reply taken by
another thread is seen (`own`). A tool's timeout turns its thread into an
`abandoned` one that goes on. `tool` is the handler that holds the record's
lock, `steps` the handlers behind it, `guard` the `TrajectoryGuard`, `final`
what the capture found, `settled` a history variable: the episode left no tool
at work when `/close` came. `Tools` are the operations that exist: the client sends
whatever the policy names, and `step` answers an operation that does not exist with
an error and an event, past the guard (`RefuseOperation`, which also answers after
the guard has ended the trajectory). Such an event says nothing of the browser and
is left out of `events`. Page contents are abstracted to whose reply they
are. `ToolsAssumption` gives the session at least four workers: the executor of
`setup_webserver` is sized beyond the threads its sessions can occupy, and a
session never occupies more than three (`WorkersSuffice`, proved).

### RolloutBatch

`result[i]` is what a rollout returned, in the classes that `finalize` and
`_run_episode` tell apart; `InfoKeys` are the groups of keys in its
`reward_extra_info`, `Flag` and `HasTokens` the explicit invalid flag and the
response mask. `Collate` is `_postprocess`, which reads the first sample's keys
from every sample; `Concat` may refuse columns that differ between workers
(`DataProto.concat` is not in the repository). `Estimate` is
`compute_grpo_outcome_advantage`. Advantages are integers: the centred score
times the number of valid rollouts, without the division by `std + epsilon`;
both are positive factors, so sign, zero and the comparison of two advantages of
one group are unchanged. The fraction limit is a quotient of two integers.

### PolicyUpdate

`agent` is the `agent_data` of the episode that is played: its tokens, their mask
and their log-probabilities, each token reduced to its origin (prompt, policy,
tool). `Generate`, `Observe` and `EpisodeTimeout` are the turns of the loop,
`Return` the cut, the fabricated EOS of an empty response, the mask of an invalid
one, and the padding of `_agent_loop_postprocess`: the mask is filled with the pad
token's id, a number other than 0, which its product with the attention mask
clears. With `CalculateLogProbs` off the engine returns no log-probabilities and a
row has no such column, that of an empty response excepted; `Collated` is what
`_postprocess` demands of the rows it concatenates. Rollouts share nothing before
collation, so they are played in turn. `BalanceBatch` deals any partition into
equal shares (the code picks one by workload) and orders each share as the code
does; `ComputeAdvantage` picks one of nine registered estimators. `Gae` and
`TokenLoss` / `AggWeight` are pure operators, compared with definitions that do
not mention observations, ranks or micro-batches. Advantages are fractions, ratios
are counted in steps of 1/`Unit`, and the discounts of GAE are all multiples of
1/`DiscountUnit`.

A division by a standard deviation is left out (a positive factor: it keeps
order and equality), and with it the whitening of GAE. `TokenReward` uses the
row's score as the reward: the recipe has no KL in the reward. REINFORCE++ has the
default discount of 1.

Seven estimators add up the rewards of the whole row before anything else, so
where the score was put does not matter to them. ReMax masks the rewards first: a
row that ends in an observation is a failure to it. REINFORCE++ starts its running
return anew at each observation: only the tokens of the last turn are credited.
`ScoreReaches` says so, and `BetterIsReinforced` compares the tokens of two
rollouts by the score that reaches them. The recipe's own estimator is `grpo`, which
adds up the row (`RolloutBatch`).

### TrainerCheckpoint

Weights are the sequence of batches they were trained on, a batch being its
position in an epoch. `disk[s]` is the folder `global_step_s` with its shards
(`partial`, `whole`, or `mixed` of two saves), the weights in them, and the
dataloader state in `data.pt`. A save is five steps (`SaveActor`,
`ActorSaved`, `SaveData`, `OpenTracker`, `WriteTracker`) and `Crash` may come
between any two. A launch either follows the tracker (the same `STAMP`,
`resume_mode` auto) or names a checkpoint that passes the launcher's check
(`RESUME_FROM_PATH`, with a new `STAMP` and so a new directory). Naming an older
checkpoint under the same `STAMP` is left out.

## 3. Runs

| Run | Instance | Shows |
| --- | --- | --- |
| `pool_safety` | 2 calls, 1 slot, 2 attempts, a page of 1, failing creates and closes, budget | `QuotaConserved`, `SlotCoversWork`, `SweeperSparesOwned`, `ImplementsPool`; `SlotReturned`, `NoStarvation`, `Reclaimed` |
| `pool_reliable` | 3 calls, 2 slots, no faults, no budget | `ProviderBound`, `AbandonedIsReclaimable` |
| `pool_quota_budget` | no faults, budget | violation of `ProviderBound` |
| `pool_untracked` | failing closes | violation of `AbandonedIsReclaimable` |
| `episode` | 2 episodes of 2 tool calls, breaking connections, the deadline at every await | `CloseIsIdempotent`, `SeenIsJudged`, `OutageIsInvalid`, `NoOrphanRegistered`, `BrowserReleased`, `RolloutEnds` |
| `episode_slow_reset_reward` | no losses, the deadline in resets | violation of `InfraIsInvalid` |
| `episode_lost_steps` | no losses, no deadline | violation of `InfraIsInvalid` |
| `batch_safety` | 2 prompts of 3 rollouts, 2 workers | `OutageMovesNothing`, `HealthyGroupTrains` |
| `batch_collation` | 2 prompts of 2 rollouts, 1 worker | violation of `CollationSurvives` |
| `tools` | 3 calls of navigate, fill or an unknown operation after the setup navigation, 3 equal tool calls in a row are too many | `HeardIsOwn`, `SuccessIsSettled`, `EvidenceIsOwn`, `NoProgressIsARun`, `ThreadsReturn` |
| `policy_update` | 3 rollouts, rows of 3 tokens, turns of up to 2, groups of 1 or 3, 1 or 3 ranks, 9 estimators, discounts 0, 1/2 and 1, an engine with log-probabilities | `RowIsAligned`, `BetterIsReinforced`, `ParallelismIsInvisible`, `MovesWithinTheClip`, `ObservationsAreTransparent` |
| `trainer` | 3 steps an epoch, 2 epochs, 5 steps, a save per step, 5 launches | `DataInOrder`, `OnPolicy`, `TrackerIsWhole`, `RolloutsKept`, `FinishedIsTrained`, `Overrun`, `RunFinishes` |

Why the bounds are enough. Two calls on one slot already contend for it, and a
hand-over of the one meets the queueing of the other; a third call on two slots
lets one exceed the quota while another is cleaned up. Two attempts distinguish
the last failed attempt from an earlier one (the code has three). Two episodes
are the default (`LEXBROWSER_ENV_FAILURE_RETRIES` = 1); two tool calls let a late
step handler and a new call coexist. For the tools, three calls after the setup navigation
let a tool that timed out, the next tool, the capture and `close` be alive on
one socket at a time, with six workers (four are enough for any instance). They
also make runs that end, the setup navigation included, that another tool breaks
or an unknown operation interrupts; the code's limit is larger than two
repetitions. `navigate` takes two threads one after the other, `fill` one; `observe`
(whose request the capture makes too), `click` and `fill_click` differ in the number
of their requests only, and the invariants are proved for them.
Rows of three tokens have every layout that the arithmetic distinguishes: empty,
a turn, a turn that an observation follows (a deadline), a turn, an observation
and a turn again, and rows that are cut; longer ones are left to the proofs. Three rollouts are one group of three or
three of one, on one rank with two micro-batches or on three ranks. Groups of three reach both limits from both
sides (two of three valid is exactly the minimum and exactly the maximal
fraction). Five steps over epochs of three put saves before, on and after an
epoch boundary and on the last step; five launches allow crashes in
several saves, a second crash in the save of the same step, a resume of what is
left, and launches of a run that is already finished. The last launch does not
crash.

`CHECK_DEADLOCK FALSE` is set where the system stops by design: a rollout
returns, a batch is updated, fit returns. The pool never stops (its sweeper
runs for ever) and is checked for deadlock.

Fairness. `SessionPool`: every await of a started call, task or thread is
bounded by a timeout (create, attach, close and delete requests, the SDK's poll)
and the event loop runs what is ready, hence weak fairness; `SweepDelete` has
strong fairness of its success, because a delete may fail in any sweep but not
in all. `EpisodeProtocol`: handlers end, deadlines fire, records expire.
`BrowserTools`: handlers and threads go on, tool timeouts fire, the browser
executes a request to close its target; `recv`'s own timeout is only assumed
once the target is closed, because a live page may send frames for ever.
`TrainerCheckpoint`: the driver and its writer thread run on, and an operator
launches a run that is down again.

### Findings

* `pool_quota_budget`: a create returns a session without a CDP URL, which
  `setup_state` closes from its local variable. If the budget of `/reset` expires
  during this close, `_release_slot` is skipped and nothing knows the session;
  `reset`'s cleanup then returns the slot while the session is active. (When
  closes fail, an unconfirmed close in `setup_state` and three failed retries
  return a slot too early as well.) The README of the training calls the bound a
  hard invariant, and the comment in `setup_state` says that a cancelled caller
  leaks neither the session nor its slot.
* `pool_untracked`: attach and both closes fail, the id stays in
  `_live_session_ids`, and the sweeper takes the session for a live one.
* `episode_slow_reset_reward`: an episode deadline during `/reset` is reported
  as `no_browser_session`, a valid reward 0.
* `episode_lost_steps`: every `/step` of an episode fails, the transcript is empty,
  and `no_tool_calls` is a valid reward 0, although the client has recorded the
  errors. No deadline and no loss is needed: the server's handler may raise.
* `batch_collation`: `_postprocess` raises `KeyError` when the rollouts of one
  worker return different keys, which one lost session suffices for.

What the finding of `pool_untracked` does not say: with reliable closes
(`pool_reliable`) the property holds.

### Observations

Met while modelling; the models contain the behaviour, and no run is spent on
them.

* `reset` does not look at the string that `navigate` returns
  (`nemo_gym_webvoyager_server.py:385`). The docstring of
  `wait_for_usable_document` (`environment.py:500`) wants an error page found in
  setup, so that a fresh session is tried; but `navigate` turns its exceptions into
  strings, and after a setup timeout the guard is terminated, so that the session
  is registered and refuses every tool. `BrowserTools.Finish` has this.
* A step's handler classifies by exception type: a `RuntimeError` of the page's
  "selector not found" counts as infrastructure, a `JSONDecodeError` of a closed
  socket (a `ValueError`) as the policy's mistake.
* A browser error inside a tool becomes the text of its event
  (`ERROR_ENVIRONMENT_...`) and the episode is judged as usual; the comment on
  Chrome's error document (`environment.py:584`) wants that it "cannot silently
  become a valid reward=0 trajectory". It is shown to the judge, but carries no
  invalid flag. In `EpisodeProtocol` it is a step like any other.
* Operations that do not exist are answered past the guard, also after a
  trajectory has ended, and are judged with the rest; only the turns and the deadline
  bound them.
* The comment at `patches/core_algos.py:763` says that REINFORCE++ resets its running
  return "after EOS". It does so at every token of mask 0, the observations of a
  multi-turn row included, so that only the last turn is credited with the outcome.
  `BetterIsReinforced` has it as it is (`ScoreReaches`).
* The comment at `lexbrowser_verl_agent.py:630` wants log-probabilities to exist
  consistently across the batch. With an engine that returns none (`CalculateLogProbs`
  off) the placeholder of an empty response has one all the same: collation raises if
  that row is the first of its worker, and drops the column otherwise.
  `RowIsAligned` therefore speaks of it with the option on only.
* A close that finds its session gone already is a failed close, retried and counted
  as a leak (`environment.py:1265`); the delete path takes the same error for success.
* For groups of one, `compute_rloo_outcome_advantage` keeps the score and its
  vectorised form gives 0. OPO divides 0 by 0 in a group without policy tokens,
  and token-mean does in a mini-batch without any.
* `_balance_batch` with `keep_minibatch` sorts across mini-batches again
  (`patches/ray_trainer.py:1216`); it is never called that way.
* `verify_rollout_groups.py:36` reads TransferQueue keys from a field `uid`.
  The dump of `RayPPOTrainer` (`patches/ray_trainer.py:472`) writes no such field.
  The class is marked deprecated in favour of `trainer.use_v1`, and the trainer
  behind that switch is not in the repository; the models are of the class that is.

## 4. Proofs

`SessionPoolProofs`, from `SessionPoolAssumption` (finitely many calls, a
positive quota and number of attempts), for every fault model:

* `TypeCorrect`, `QuotaIsConserved`, `WorkIsCovered`, `OwnedAreSpared`:
  `Spec => []Inv` for the four invariants of `pool_safety`;
* `PoolImplementsSlotPool`: `Spec => Pool!PoolSpec`.

None of the invariants is inductive alone. `IInv` adds three conjuncts: a call
that has not left the queue has touched nothing (`FreshIsUntouched`, so that a
slot taken is a new one), the session of a call that attaches or uses it is
tracked (`OwnedIsTracked`, so that the sweeper's comparison spares it), and no
session that the listing under way can condemn is being created
(`ListedTwiceIsNotCreating`, where `GraceHolds` enters). The proof first sorts
every action by what it does to the slots: take, return by the state, return by
a task, hand over, or nothing (`CallStepEffect`, `TaskStepEffect`,
`OthersKeepSlots`). `QuotaConserved` and the refinement then need these five
cases only, not the actions.

`RolloutBatchProofs`, from `BatchAssumption` (finitely many rollouts, limits in
their ranges), for every grouping: `TypeCorrect`, `OutagesMoveNothing`,
`HealthyGroupsTrain`. The inductive invariant ties the advantages of the update
phase to `Estimate`; the lemmas show that the valid rollouts of a group are its
answerable ones and compute the centred score by cardinalities.

`EpisodeProtocolProofs`, from `EpisodeAssumption`, for every number of episodes
and tool calls, with and without `Lossy` and for all `DeadlineHits`: `TypeCorrect`,
`IdempotentClose`, `JudgeSeesAll`, `RewardsAreEarned`, `NothingOrphaned`. An
action of one episode leaves the others alone (`Others`), so the invariant is
`TypeOK` and a conjunction `Good(e)` over the episodes, and one lemma per action
shows what it does to its own. `Good` says what the properties leave out: a
client in its loop has made no `/close`; the first invocation that pops the
record is the only one (`closing[e] # "none"` means the record is gone); nothing
is answered while it executes, and afterwards only its cached result, or it
raised (`AnswersAgree`); a step handler, an event and a pending reset each stem
from a tool call of their own (`CallsCounted`), which bounds the handlers that
are still queued when `/close` arrives. The gaps of the two outage properties enter
where they arise: a judge without a transcript has seen no step that the client
heard (`Unheard`), a client that gave up twice either reached the server, and then
the record is gone, or did not (`Unreached`).

`TrainerCheckpointProofs`, from `TrainerAssumption`, for every epoch length,
number of steps, save frequency and number of launches: `TypeCorrect`,
`DataStaysInOrder`, `RolloutsAreOnPolicy`, `TrackerIsTruthful`, `RolloutsAreKept`,
`FinishedRunsAreTrained`, `OverrunIsOneStep`. The inductive invariant ties step,
epoch and loader position at every program point to the number of batches the
weights have seen, every folder to the step it was saved at, the tracker to a
folder that was complete when it was written, and the queued files to the steps
of the launch. The arithmetic of epochs (quotient and remainder of a step) is in
lemmas of its own. The attempt to prove `Overrun` in an earlier wording failed for
a run launched six times: each launch of a finished run trains one step more, so
the property now compares a launch with the step it resumed from.

`SessionPoolProofs` also has the two invariants of `pool_reliable`, each under
the part of its fault model that it needs: `ProviderStaysBounded` when no request
fails and no reset is cancelled (`Reliable`), `AbandonedAreReclaimable` when
closes succeed and no reset is cancelled, answers to creates possibly being lost
(`ClosesSucceed`). The violations of section 3 show that these hypotheses cannot
be dropped. `BoundInv` says that a visible session's call holds a slot; each
action that returns a slot must then find the session gone or never created,
which takes three more facts: a create under way is awaited by its call or by the
late-cleanup task, an error that names no session leaves none, and a setup that
raised keeps no flag. The cardinalities follow from `QuotaConserved`.

`BrowserToolsProofs`, from `ToolsAssumption`, for every number of handlers,
calls and requests of a tool and every limit of the guard: `TypeCorrect`,
`WorkersSuffice`, `SuccessesAreOwn`, `SuccessesAreSettled`,
`EvidenceOfTheCapture`, `RunsEndTheTrajectory`. That no success rests on a
foreign reply is not inductive: it holds because at most one abandoned thread
exists (`FewAbandoned`: the tool that follows a timeout is refused by the guard),
because a thread's last request decides its answer (`SuccessIsLast`), and because
a handler and its thread agree on which tool runs (`HandlersAgree`,
`ThreadsAwaited`, `OnlyTheTool`, `OnlyTheCapture`). `GuardCounts` ties the
guard's counter to the history of calls, up to the first run of equal calls; the
lemmas about `Streak` say what one more call does to it. An operation that does not
exist leaves counter and history alone.

`PolicyUpdateProofs`, from `UpdateAssumption`, for every number of rollouts,
response length, turn length, group size, unit of the discounts and setting of the
clip: `RowsAreAligned`, `ScoresDecide`, `ClipBoundsMoves`, `ClipBoundsEveryMove`,
`ObservationsStayInvisible`.
The inductive invariant says how the columns of `agent_data` go together
(`AgentFits`), that a row is what the cut, the fabricated EOS and the padding make
of such columns (`RowsFit`, lemma `RowFits`), and that the advantages are those of
the rows as they are (`AdvantagesAreCurrent`). The score of a row is the sum of
its token rewards, because the last attended token is one of its columns. Each
estimator is shown to give the rollouts of a group fractions with a common
positive denominator whose numerators are ordered as the scores (`Ordered`,
which `Minus` and `Times` by the same fraction keep). For pass@k the group must
have a second member, which it has because the batch is a multiple of the group
size. For REINFORCE++ and ReMax the sum over a row is replaced by what reaches a
token: `ReturnIsCredit` shows from the last token back that the running return at a
policy token is the score if no observation follows, and 0 otherwise.
The loss of a token is minus its advantage times a function of the ratio
that grows by one or stays at each step. The recursion of `Gae` is followed from
the last column back (`BackwardInduction`, `GaeExists`): a stretch of observations
hands on value and advantage of the policy's next token unchanged (`GaeHandsOn`),
or zero if there is none, so that the step at a policy token is one step of the
recursion over the policy's tokens (`GaeOfOwned`). The property is stated as this
step, which fixes the advantages from the last token back, and not with a closed sum
of powers of the discounts.

`BatchDealingProofs`, from the same assumption, for every number of rollouts and
ranks and every cut into micro-batches: `TypeCorrect`, `EveryRowIsDealtOnce`,
`LossIgnoresParallelism`. A share can be sorted and the sorted share is
arranged without repeating a row (`SortedShare`, `ArrangedShare`); the shares are
of equal length, so a row's place in the batch determines rank and place within
the rank (`PlaceIsUnique`, `FlattenPlaces`); an order that repeats nothing is a
permutation. Hence of all micro-batches of a step exactly one has a given row
(`ShareOfRank`, `MicroBatches`). `TotalIsWorth` adds up the ranks: the factor of a
token, over the denominator of its aggregation mode, is that of the whole step.
That this denominator is one of the step and not of a micro-batch is what the
proof needs (`WeightOfToken`) and what the mutant `BatchNumTokensLocal` breaks.

`Sums` has what these proofs use of `SumFunctionOnSet`, which is defined by a
recursive function on the subsets of a set. The induction theorems of the library
take an operator as a parameter, which the provers cannot instantiate; the lemmas
therefore look at a smallest subset for which a statement fails
(`SubsetInduction`), and that the recursive function exists is shown the same way
(`IterExists`).

Three definitions were made unambiguous on the way: `ActProgram` and `PageProgram`
of `BrowserTools` and `Classify` of `EpisodeProtocol` had CASEs whose guards
overlap, of which TLC takes the first and a proof may assume none. The estimators'
sums are written with `SumFunctionOnSet` of a function, the sorted share and the
sum over ranks without operators that the provers cannot unfold (`SortSeq`, folds
with an operator argument).

Only model-checked: all liveness (`SlotReturned`, `NoStarvation`, `Reclaimed`,
`BrowserReleased`, `RolloutEnds`, `ThreadsReturn`, `RunFinishes`), which TLAPS
cannot prove under fairness, and how the reclaimed sessions depend on the page. Every invariant and every action property of a passing run
is the property of a theorem.

## 5. Not modelled

The Stagehand client, the direct mode of `BrowserTool`, `LocalCDPMode` (the slot
discipline of the pool without its concurrency), `LexBrowserEnv`, the metrics
queue, audit files and `/health` gauges; the window arithmetic of the reset
circuit breaker (a refused reset is in `EpisodeProtocol`);
`verify_rollout_groups` (one pass over files that `RolloutsKept` shows complete);
page scripts, text rendering and parsing; `_discard` of a reused session id and
shutdown; the eviction of cached close results; `teardown`; position ids and
multi-modal collation; GDPO and the optimal token baselines,
the other policy losses, KL and value losses; the `keep_minibatch` and
prefix-grouping branches of `_balance_batch`; critic, validation, asynchronous
saves and deletion of old checkpoints; the vendored process-group file; shell
scripts other than the resume check. `PROJECT.json` gives the reason per
component.

## 6. Plan

Done: all modules above, with the proofs of section 4.

If a run is to be spent on it: the circuit breaker's window together with the
attempts of concurrent resets.
