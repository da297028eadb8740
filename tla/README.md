# Miloco backend: specifications

TLA+ models of the concurrent core of the Miloco backend
(`src/backend/miloco/src/miloco`, written `M/` below): what decides when a home
rule fires, when a task is on, when the agent is woken and when a reminder is
sent; and how the backend keeps up with the devices of a cloud account. The
modules are checked with TLC on small instances; the theorems in the eight
`...Proofs` modules are checked by TLAPS for every value of the constants.

## 1. The system

A home server watches cameras and smart devices, evaluates the user's rules and
wakes an LLM agent on an external platform. The backend is one asyncio process:
what runs between two `await`s is atomic, and the interleavings are those of
tasks, timers, callbacks and HTTP handlers on one loop. SQLite holds what
survives a restart; rule states, queues and timers do not.

| Component (code) | State | Operations | Talks to |
|---|---|---|---|
| Agent dispatcher (`M/dispatch/dispatcher.py`) | per-session queues, `_draining`, drainer tasks, delivered futures | `dispatch`, drain loop, `stop`, `start` | producers (rules, welcome, onboarding, suggestions), agent platform |
| Rule condition layer (`M/rule/runner.py`, `condition.py`) | per source: last value, pending exit or enter; per rule: confirmed value, exit debounce task, duration window, fired mark | `update_state`, `mark_source_unknown`, `_debounced_exit`, `_reset_runtime_state`, `force_cross_day_reset`, `trigger_rule` | perception client and iot source (frames), state machine (edges), dispatcher and devices (actions) |
| Task state machine (`M/task/state_machine.py`) | topology and runtime state per task | `submit` (enter, exit, milestone), `reconfigure`, `suspend`, `forget` | condition layer (asks whether a condition holds), boundary actions |
| Rule and task configuration (`M/rule/service.py`, `M/task/service.py`) | rows `rule`, `task` | create, update, patch, delete, enable, disable; pause, resume, delete a task | runner, state machine, schedule |
| Schedule (`M/schedule`) | rows `cron`, APScheduler jobs in memory | create, delete, enable, disable, `_fire`, retries, rebuild | agent platform (directly, not through the dispatcher) |
| Derived milestones, record source (`M/rule/record_source.py`) | coroutines that arm, target timers, rounds; the condition of the derived rule | arm, settle, disarm, roll over; derive, seed | state machine, task records, rule log |
| Iot rule source (`M/rule/iot_source.py`) over the state store (`M/state`) | leaves, subscriptions and their queue; index of watched devices, pending rules, diagnoses | write, deliver, consume and judge; seed, rebuild; start, stop | runner |
| Task records (`M/task_record`) | record rows, archived days, open sessions | session start and end, progress, rollover at midnight | state machine, runner (`force_cross_day_reset`) |
| Onboarding trigger (`M/home_profile/onboarding_trigger.py`) | a lifelong KV mark, a lock, `_fired` | `maybe_trigger` at start and after an authorization | dispatcher (delivered future) |
| Welcome (`M/miot/welcome_service.py`, listeners in `mips_listeners.py`) | two debounce timers, flagged devices, who was greeted lately | bind and home-change pushes, settling, `welcome` | device list, dispatcher |
| Device state (`M/miot/state_align.py`, `state_push.py`, `client.py`, drivers in `M/manager.py`) | device cache, leaves, scope and aligned scope, top-ups, pulls | push, refresh, alignment, top-up, pull after a reconnection, switch of the home | cloud, state store, iot rule source |
| Subscriptions (`M/miot/client.py`, SDK `client.py` and `mips_cloud.py`) | mirrors with a generation, sync loop; SDK sets; topics of the connection | reconciliation rounds, bind and unbind, SUBACKs, reconnection, rebuild and replay | broker, device list |
| Camera sessions (`M/miot/client.py`, `M/miot/ws.py`, `M/perception/collect`) | native session, its table of callbacks and the numbers its listeners hold | refresh, rebuild after silence, connect and disconnect, watchers and recordings | cloud, SDK, perception, browser |
| Perception (`M/perception`) | windows with their completion marks, a lock per camera, permits and lines of the limiter; worker loop, engine state | admission, preparation, request, turn, commit, effects; or one cycle per interval | model, runner (`update_state`) |
| The hub and transcoders of camera streams, authentication, Home Assistant, admin, observability, persons, database, shell; SDK, CLI, web, plugins | see `PROJECT.json` | | |

What is hard here, and what each component owes the user:

* **Dispatcher.** Drop paths (eviction, expiry, failure, cancel, stop) multiply
  while producers wait on futures; the wake-up of a drainer races with its exit;
  urgent types starve others. It owes: one drainer per session, no queue without
  a drainer, no future left hanging, one fate per event, no event sent after its
  TTL, a clean stop.
* **Rules and tasks.** Two layers keep their own idea of "the user is here": the
  condition layer (per source, with a two-frame filter, a sleeping exit debounce
  and a sampled duration window) and the state machine (on or off). Every
  configuration call changes both while a debounce may sleep. They owe: no
  on_exit on a condition nobody can vouch for, on_exit exactly once for each
  on_enter, a session that is on can end, and does when nobody is there.
* **Schedule.** Jobs live in memory, rows in the database, turns take minutes.
  It owes: no enabled row forgotten, no turn outside its window, a fresh
  idempotency key after a refusal and the same key after a doubt, an end.
* **Records and milestones.** Midnight, target timers and the state machine meet.
  That the user was told is kept only by a condition that
  stays true. They owe: who reaches the target in a session is told, once a day.
* **Iot rules.** A rule is judged long after the write that woke the consumer, from
  what the store holds then. They owe: no rule left on an old value.
* **Devices.** Four roads write one leaf (push, refresh, alignment, top-up or pull),
  each with a call to the cloud between its decision and its write; three layers keep
  one set of subscriptions. They owe: at rest, what the cloud says.
* **Cameras.** One session serves perception and watchers, and is destroyed and made
  again beneath them; a number of the old one may be somebody else's in the new. They
  owe: nobody takes another's callback, and perception gets its frames again.
* **Perception windows.** Several windows of a camera ask the model side by side, on two
  loops with threads, and are cancelled from either. They owe: one window at a time in a
  camera's tracker, effects in the order of the windows, a line that is served, and nothing
  left behind by who ends early.
* **Invitation and welcome.** What is done is remembered after the fact, and the
  process may die in between; two chains announce one arrival. They owe: one
  invitation, one greeting, and none forgotten.

## 2. Modules

| Module | Models |
|---|---|
| `AgentDispatcher` | `dispatcher.py`, whole: queues, TTL, cap, drainers, futures, stop and start |
| `SessionMailbox` | what a producer sees of it (abstract specification) |
| `AgentDispatcherProofs` | theorems about `AgentDispatcher` |
| `RuleTask` | one task with its rules: condition layer, state machine and configuration together |
| `TaskActions` | the actions a task dispatches, on their way to the home |
| `CronSchedule` | `schedule/` over APScheduler |
| `RuleTaskProofs` | theorems about `RuleTask` |
| `IotSource` | the iot rule source over the state store |
| `RuleView` | what a rule sees of it (abstract specification) |
| `Milestone` | the record source, the daily duration record, its rollover, the derived milestone rule |
| `Invitation` | the onboarding trigger, the session its event waits in, deaths of the process |
| `CameraSession` | the native session of one camera and who listens to it |
| `Arrivals` | the bind and meta listeners and the welcome service |
| `DeviceState` | the device leaves against the cloud |
| `SubscriptionSync` | mirror, SDK and connection of the subscriptions |
| `Windows` | the windows of perception, several at once, and the limiter of their requests |
| `MCAgentDispatcher`, `MCRuleTask`, `MCCronSchedule` | instances for TLC |
| `MCRuleTasks`, `MCRuleSources`, `MCHousehold`, `MCBackground` | sums: parts that do not meet, explored apart from each other in one run |
| `RuleTasksProofs` | theorems about `MCRuleTasks` and its part `TaskActions` |
| `RuleSourcesProofs` | theorems about `MCRuleSources` and its parts `IotSource`, `Milestone`, `CameraSession` |
| `HouseholdProofs` | theorems about `MCHousehold` and its parts `Invitation`, `Arrivals`, `SubscriptionSync` |
| `BackgroundProofs` | theorems about `MCBackground` and its part `CronSchedule` |
| `DeviceStateProofs`, `WindowsProofs` | theorems about `DeviceState` and `Windows` |

A sum has a variable that says which part moves; the other parts stay in one
initial state. The proof module of a sum shows that each behaviour of the sum is, seen
through the variables of a part, a behaviour of that part (`TasksAreParts`,
`SourcesAreParts`, `HouseholdAreParts`, `BackgroundAreParts`), so that what is proved of the part for all
constants holds of what the run explores. Where a part has a proof module of its own,
the sum is an instance of that module, which adds nothing to the part but its theorems.
`AgentDispatcher` and `SessionMailbox`, `IotSource` and `RuleView`
are joined by a refinement; `RuleTask` composes the condition layer, the state
machine and the configuration; `Invitation` contains the session of the dispatcher
as its caller sees it; `DeviceState` and `SubscriptionSync` contain their cloud.

### AgentDispatcher

An element of `Event` is a call of `dispatch()`; when its outcome is known and
the dispatcher no longer holds it, the same element may be used for another
call, so a finite set stands for an endless stream. `queued`, `older` and `age`
are the per-session lists (`older` is their order), `pc`, `sess` and `batch` the
drainer tasks, `fut` the `delivered` futures. A drainer is `new` (created, not
yet run), `loop` (it holds the event loop), `sending` (inside `send_turn`, the
platform has not started), `running` (the platform runs the turn). Only
`send_turn` awaits, so `loop` excludes every other action (`LoopFree`).
`TakeBatch` is `_drain`'s round up to `send_turn`; `TurnEnds`, `TurnTimesOut`,
`SendFails`, `DrainDies` are its outcomes; `DrainExit` is the `finally` with the
second kick. `stop()` is two steps (`Stop`, `FinishStop`) with the cancelled
drainers unwinding in between. The platform is the environment: it may start a
turn or not, end it, or leave it running after a timeout (`orphans`).
Log lines, metrics and message building are left out.

### RuleTask

One task, because rules of different tasks share nothing. `val`, `pexit`,
`penter` are `PerSourceState`; `base`, `leaving`, `window`, `fired` are
`RuleRuntimeState` (`leaving` = the debounce task sleeps); `topo`, `on` belong
to the state machine; `rules`, `enabled`, `paused`, `timed` are the
configuration. `owing` is a history variable: `on_enter` was dispatched and its
`on_exit` was not. `Frame` is the whole of `update_state`: the two-frame filter
(`Absorb`), the diff (`Edge`), the duration window (`Sample`, `Evaluate`) and
the call into the state machine (`Entered`). Time is not modelled: the debounce
may end at any moment (`DebounceEnds`), a duration round may have missed any
number of rounds (`gap`), a window holds `MaxLen` samples of which `Need` must be
true. Actions are modelled by the moment they are dispatched; what becomes of them is
in `TaskActions`. Milestone signals are left out, and so are
`manual_inject` and the signal queue, which nothing wires up.

### TaskActions

A fire is a task of the event loop that `_spawn_fire` or `_spawn_force_fire` created, or
the end of a debounce, which goes on as the fire itself (`woken`). `kind` says what each
of the two slots holds: a property that is read before it is set (`compared`), a scene,
a speech or another action with a cooldown (`limited`), a prompt for the agent, or
nothing. `Begins` is `_fire` up to its first await; `Looks` and `Compares` are the read
and what is made of it, with other fires in between; `Obeys` is the device, which may do so
after the call was given up (`TimesOut`). `Offers` is one attempt of
`_send_dynamic_with_retry`, by which the prompt is told if the dispatcher accepts it.
`cooling` has the cooldowns, kept by `(did, iid)` without the value, so that two slots of
one session rule may share one (`shared`). `settled` and `excuse` are history: whether the
last fire had its way, and why it may not have the last word. `Enters`, `Exits`,
`DebouncedExit` and `CrossDay` are the edges of `RuleTask` that dispatch. One action per
slot (several run one after the other); new actions while a fire is under way, the
debug trigger and restarts are left out.

### CronSchedule

`row`, `due`, `delay`, `attempt` are columns of a row, `job` the jobs APScheduler
holds for it (`main` and `retry`), `turn` the turns under way with the attempt
their idempotency key carries, `refused` a history of the attempts answered
`error`. APScheduler is the environment: it runs a due job, skips it while the
last run is under way, reports it missed when it comes too late, and coalesces
runs of a periodic row. A clock tick is one minute or so (`RetryDelay` ticks make
`_RETRY_DELAY_MS`). Down time is a stretch of ticks in which no job runs,
followed by `Restart`. A turn ends in one of four ways: `TurnOver` (`ok`,
`no-channel`), `TurnLost` (`timeout`, a transport error), `TurnFailed` (`error`) and
`TurnUnknown`, the last `else` of `_fire`: `run_agent_turn` passes on whatever status
the platform answers (`agent_client.py:184`), and one that `_fire` does not know is
logged and nothing else (`runner.py:331`). The same step stands for an exception other
than `AgentWebhookException` (a reply whose JSON is no object, say), which `_on_error`
logs. `unknown` is a history of the `at` rows whose last turn ended so; another outcome,
enabling the row and a restart take it off. Rows of an external owner have no job; the
kill switch, the branches on `fired_at`, which no code sets, and errors of the database
are left out.

### IotSource

`online` and `prop` are the leaves of a device, `queue` the changes the store has
committed and not yet handed to the subscribers, `index` the lookups of
`rebuild_index`, `pending`, `wake` and `batch` the consumer's set, its event and
what is left of the set it took, `diag` `_diagnostics`, `seen` the runner's
`last_bool`. `Write` is any write of the store; `Deliver` the two change callbacks;
`EvaluateOne` one rule of a batch, judged from the leaves of that moment. Between
two rules `feed()` may wait, so everything else interleaves there. `ConfigureRule`,
`RemoveRule`, `PauseTask` and `ResumeTask` are the calls that must rebuild or seed;
`Life` is the start and the stop in the order of `lifespan`. The comparison itself
is abstracted to its outcome: true, false, or not comparable.

### Milestone

One task with a target notification. `done`, `open`, `run` are the duration record in
minutes, `target` its target; the derived rule exists as long as there is one. `cond` is
its condition, `arming` the coroutines that `arm` started and that have not run, `timer`
the timer; `live` stands for "of the present `_arm_round`" (`disarm` and `reset` void
what is there, `Void`), `night` marks what a rollover armed while the task was off.
`on` and `paused` are the state machine and the task's status, which `RuleTask` has in
detail: here `Enter`, `Exit`, `StillHeld` and `Reconfigure` are any edges and calls that
reach the source. Reading, settling and feeding do not suspend, so a coroutine is one
step. The rollover works in a thread: the snapshot (`RollRead`), the new row
(`RollCommit`), and the call on the loop (`RollOver`), with everything else in between;
`Midnight` is the end of the log's day, five minutes before. `log` is the entry by which
a rule derived anew knows that it was told; it is written when the action is through
(`FireEnds`). `told`, `twice`, `forgot`, `seeded`, `eve` are history: `forgot` that neither
record nor log could tell, `seeded` that the code took for granted that the user was
told. The clock of a timer is not kept: it may be late, and early against a record whose
session was closed. A step of a rollover is shorter than a minute, and no start is
reported back in time in between. Left out: a read that fails, a task without
`on_target` action, `trigger_rule` on the milestone, deletion of the task.

### Invitation

`maybe_trigger` has no await between taking the lock and `wait_for`, so `Enter` is
one action; `holder` waits for the future, `waiting` for the lock. The session is
seen from the event: turns of others before it (`ahead`), the running turn with its
age, expiry by TTL, eviction (in `OtherEvent`). A turn lasts at most `Worst`, all
attempts together, as `send_turn` guarantees. `PlatformStarts` and `SendEnds` may
disagree: an answer can be lost. `Crash` may happen anywhere; a request on its way
may still arrive. `invited`, `behind`, `slip` and `cause` are history: `slip` is how
this process failed to record an invitation, `cause` why the next one is excused.

### Arrivals

One device, two managed homes and a foreign one. `wire` holds pushes on their way,
`timer` the two trailing debounces, `pending` the flag of the meta listener, `fires`
the listeners at work, whose three stages are the awaits of `_fire`: the refresh is
asked for, answered, taken over, then cameras and scenes. A listener started twice
works twice. `refresh_devices` swallows a failure, so `RefreshFails` goes on with the
list of before. The rebuilding of the listeners (`deinit`) and changes of the managed
homes are left out.

### CameraSession

One camera with one channel. `session` is its entry in `_camera_img_managers` and how the
native part is (`dying` while it is destroyed, `dead` when that failed, `mute` when it is
connected without frames), `calls` the session's table of callbacks, `next` its
`_next_reg_id`; `killer` holds `_refresh_cameras_lock` across a destruction, the one long
wait under it. `eye` is perception's number, `reg` the channel's, 0 without one; `sync`
is where the adapter's round is: check for silence (`Round`, `RoundStalled`), rebuild
(`Rebuild`, `RebuildCreate`, `Resubscribe`), refresh on demand (`Demand`), connect or
disconnect (`Connect`). `closing` is the watcher whose socket closes under the lock of the
channel. A refresh decides and creates in one step: what the cloud says while the session
is made is not distinguished from what it says afterwards. `severed` is a history of
listeners whose callback a refresh took without telling them, `spare` of callbacks that a
second registration of the channel left behind, `robbers` of those who took another's
callback and were not severed. Left out: sound, the JPEG callback, a second lens, the caps,
a `start_async` that raises, a registration that raises.

### DeviceState

`where`, `up`, `report` are the cloud; `home`, `alive` `_device_info_dict`; `online`,
`prop` the leaves; `scope` and `alignedScope` the manager's scope numbers. `Refresh`,
`Align`, `TopUp` and `Pull` are split at their awaits, and what a step reads before
an await it keeps. `excuse` is a history of the events after which the code does not
follow the cloud; the properties name, cause by cause, what remains guaranteed.
One account: a change of account goes through the same `_reset_state_scope`.
`RefreshFail` also stands for a shrunk list that is set aside. A failing read of a
device's specification is left out.

### SubscriptionSync

`mirror` and `gen` are the intent of `miot/client.py`, `running`, `rerun`, `before`,
`round` its sync loop, `sdk` the sets of the SDK, `topics` those of the connection,
`flying` the SUBSCRIBEs that wait for a SUBACK. `direct` tells the kinds that a bind
event subscribes at once from those that only rounds subscribe; the four kinds meet
in the generation and in the loop, which waits for all of them, so one is kept. A
round takes all its differences in one step and waits for each answer apart. `init`
and `deinit` of the client and topics left over by a SUBACK that never came are left
out, and so is the wait of the second direct kind: on a bind the code asks for the meta of
a device only when the SUBACK for its state has come or failed (`client.py:1407-1419`).

### Windows

A window is its task on the main loop (`task`) and its coroutine on the worker's loop
(`work`), which is where the code keeps them apart: `Cancelled` ends the task at once
(`_process_window`'s `finally`, `finish`) and leaves a request to stop, `Stop` is the moment
the coroutine hears of it. The places of a coroutine are its awaits: the lock, the
preparation in a thread, the line of the limiter, the answer, the predecessor's completion
(`turn`), the lock again, the write. `linked` is `previous`, `completed` the future that the
successor waits for, `bytes` what `retain_cleanup` keeps. `Admit` is one round of
`_tick_concurrent`, which goes on only when the last window is prepared; any camera may be
next. `NoRequest` stands for all that goes on to its turn without an answer: the gate, the
breaker, a full limiter, a window that is too old; `NothingToSee` and `Fail` end without a
turn. `limiter` is the `RequestLimiter`; `Pump` gives permits as its loop does. `shown` is
a history of the last window with an effect, `slipped` of windows that were over before
their turn while their predecessor was not; `left` are threads that outlive their window.
Left out: the cycle that takes one window of all cameras together (a limit of one with
nothing under way, no lock), the questions of the user, the windows' content, streams that
are parsed while they arrive, a change of model that is taken back. Left out as well is the
mark `inflight` of a track, the one piece of the identity engine that is written without
the camera's lock: a fused request that fails or is cancelled takes it off its tracks
(`omni.py:205-225`, `engine/identity/engine.py:1307-1314`) at the moment of `Answer` or
`Stop`. That is on the worker's loop and touches neither tracker nor identities, which are
what the lock is for; whether a track is asked about again is not in the model.

## 3. What the runs show

| Run | Instance | Checks |
|---|---|---|
| `dispatcher_safety` | 4 events of 3 types in a shared session and 1 of its own, 3 drainer slots, cap 2, TTL 1 tick | types, `NoDanglingFuture`, `SingleFlight`, `QueueIsServed`, `HeldOnce`, `EvictsLeastUrgent`, `NoZombieSent`, `StoppedIsClean` |
| `dispatcher_liveness` | 3 events, 1 session, fairness | refinement of `SessionMailbox` (one fate per event: a future is never set twice, and says delivered only at the end of a turn it was in); every future resolves |
| `dispatcher_platform` | violation | a session can have two turns on the platform |
| `ruletask` | sum of: a task with any of a session rule (timed or not, ratio 1) on two cameras, an enter rule (timed or not), an exit rule and an iot guard, every configuration call, fairness; an iot session rule and guard with cross-day reset and debug trigger; three dispatched actions, a prompt offered twice | types, `LeavingIsFalse` (the second task too), `Paired`, `OnCanEnd`, `LayersStayTogether`, `ExitSlipsOnlyFromUnknown`, `AbsenceEnds`; `HomeFollowsTask` |
| `ruletask_late_entry`, `ruletask_touch`, `ruletask_rollover_stuck` | violations | see section 6 |
| `background` | sum of: a reminder with delay 0, 1 or 2 and a periodic row, fairness; three windows of one camera, room for 2 requests, one disturbance (reconnection, restart, another model), fairness; three windows of two cameras under a limit that is lowered | types, `EnabledIsAlive`, `TurnsStartInWindow`, `NewKeyAfterError`, `AtEnds`; `WindowsAreOrderly` (`TrackerAlone`, `LinesAreServed`, types of `Windows`), `EffectsInOrder`, `WindowsEnd` |
| `cron_parallel` | violation | a reminder with two turns at once |
| `rule_sources` | sum of: two rules that may compare one device, fairness; a task with a target of 1 or 2 minutes or none, in days of 3 minutes, a start reported 1 minute late; a camera with a watcher and a recording, 4 changes, 1 failure, fairness | `NoStaleRule`, `DiagnosesCurrent`, refinement of `RuleView` with its liveness (`ViewSpec`); `MilestoneInStep` (`TimersFollowSession` and `ToldOnce`), `ReachIsTold`; `NumbersAreOwn` (`NobodyIsRobbed` and `NumbersAreCallbacks`), `PerceptionIsFed` |
| `milestone_muted` | violation | the condition of a milestone is true and nobody was told |
| `household` | sum of: an invitation over 3 processes with 2 callers, one turn of others; the greeting of one device, 3 homes, 2 moves; the state of one device, 2 homes, 2 values, 1 switch, 2 pushes on their way, 3 moves of the cloud; subscriptions of one device, 3 moves, 2 bind events on their way; fairness | `InvitedOnce`, `GuardOnlyBehind`; `ArrivalsGreeted` (`GreetedAsArrived` and `NoArrivalLost`); `LeavesFollow` (types, online flags, properties, nobody without); `SubscriptionsFollow` (types, account, mirror, SDK, connection); devices and subscriptions come to rest (`AllRest`) |

The types of `IotSource`, `Invitation`, `Milestone` and `CameraSession` are theorems and not
checked a second time.

Bounds, and why they are enough:

* `MaxTurns` (platform turns per session that nobody waits for): 1, since one is
  enough to break the platform-side promise and no other property counts them.
  `MaxQueue` 2 with three types in one session makes a newcomer evict, be evicted
  and tie; TTL 1 makes events fresh, old and expired. Three drainer slots for two
  sessions leave one for a second drainer that must not exist. Drainer slots are
  symmetric in the safety runs, and symmetry is off where liveness is checked.
* In `RuleTask` nothing is counted but the window: `MaxLen` 3 with `Need` 2 or 3
  separates ratio 1 from a ratio below it. Two cameras are needed for a source
  that is false while another is true; a third adds no case to `or3`. An iot rule
  has one source, as in the code.
* In `TaskActions` three fires are a pair that may overtake each other and a third that
  finds both under way (4 were checked apart); two attempts separate a prompt that is
  offered again from one that is not. A static action names one device.
* In `CronSchedule`, `MaxTime` 6 lets the longest window (`MaxDue` + 2) pass and
  one tick more; `Period` 3 lets a periodic run be on time, late within its grace
  and missed; `MaxAttempt` 2 has a chain of two refusals. Rows influence each
  other through the clock and the restart only.
* In the run `ruletask` one task may have all kinds of rules (`OneFamily` keeps the
  first task from having a session rule together with enter or exit rules: a task
  that is on under separate rules and is then given a session rule has no session
  rule that was entered, and `OnCanEnd` does not speak of it).
* `IotSource` has no bound: a set of devices with changes in flight, not a sequence,
  is what the code keeps (a change carries no value that is used).
* In `Milestone` a target of 1 and one of 2 in a day of 3 minutes can be raised, lowered
  and passed; `MaxWork` ends the minutes of one day, not the number of days. Nothing else
  is counted, and the theorems hold for any targets and days.
* In `CameraSession` 4 changes are enough for a camera that falls silent, goes and comes
  back, and whose session then falls silent; it was checked apart with 5 changes and 2
  failures (450,000 states). `MaxIds` bounds first viewers of one session, each of whom
  takes a number. The theorems have none of these bounds.
* In `Invitation` two attempts of two ticks separate one attempt from the worst case,
  a TTL of 2 lets an event expire or be taken behind a turn; 3 processes let an
  invitation be forgotten twice; one turn of others is enough to be behind one.
* In `Arrivals` a push takes less than a debounce (an assumption on the network); a
  listener may work for one tick longer than a debounce, which is enough to greet
  twice (cause `slow`). Two moves from any initial place are an arrival and a
  departure in either order; 3 moves were checked apart (2.2 million states).
* In `DeviceState` devices share the scope, the refresh and the order of pushes only,
  so there is one; if it begins away it begins online (the flag may change at once); one timer top-up and one drain top-up per device. The invariants
  were checked apart with 4 moves (9.2 million states). In `SubscriptionSync` they
  were checked apart with 6 moves of one device (10.4 million states) and with 2
  devices and 3 moves.

* In `Windows` three windows are a predecessor, one that ends without its turn and one that
  comes after; a camera then waits for its own lock, its own line and its own predecessor
  at once. Two cameras share the limiter only, so there the limit changes and nothing grows
  old (`OnlyLimit`). Checked apart: one camera whose limit changes as well (280,000 states),
  and two cameras with every disturbance and three windows (1.5 million, invariants).

Deadlock is checked in every run but `household`, where everything really is at rest
once the cloud stands still: `AllRest` asserts it.

Fairness:

* Dispatcher: a created task runs and `send_turn` returns within its time limit.
  The fairness of a drainer is strong because another drainer may hold the loop
  in between; asyncio's ready queue is first in, first out. Time passes.
* RuleTask: the perception client reports every source of an enabled rule each
  cycle, and the loop wakes a debounce whose delay is over. Only `AbsenceEnds`
  uses it, under the assumption (part of the property) that from some moment on
  frames are false and nobody reconfigures.
* IotSource: the store's delivery task, the consumer and its judging run.
* DeviceState, SubscriptionSync: of the steps that are possible in each, other than the
  cloud's moves, one is taken: the SDK reconnects and delivers, calls to the cloud
  end (each has a time limit), tasks and timers run. The cloud's moves are not fair.
  Only `AllRest` and nothing else uses it; `Invitation`, `Arrivals` and `Milestone` have none.
* CameraSession: the adapter's round goes on for ever, a destruction and the closing of a
  socket end. Strong, because the thresholds and cooldowns of a round pass again and
  again: one of `RoundStalled`, `Demand` and `Resubscribe` comes if one of them is
  possible again and again. Only `PerceptionIsFed` uses it.
* Windows: the two loops and the threads go on and time passes (one of these steps is taken
  while one is possible, `Goes`). Nobody promises that the model answers: a window that waits
  for it ends by its age. Only `WindowsEnd` uses it, for one camera.
* CronSchedule: time passes, APScheduler wakes for due jobs, and a turn ends in one of
  the four ways within `wait_timeout_ms` and the HTTP buffer. Which way is not assumed: an
  unknown status may come every time, so `AtEnds` lets a row end without a job then.

## 4. What is proved

`AgentDispatcherProofs` proves, for every set of events, sessions and drainer
slots, every route, cap and TTL (assumptions `RouteAssumption`,
`SessionAssumption`, `BoundAssumption`):

* `TypeCorrect`, `DrainersAreSingle`, `FuturesAreHeld`, `EventsAreHeldOnce`,
  `NoLostWakeup`, `DeliveryIsReal`, `StopIsClean`;
* `Refinement` (`ImplementsMailbox`): every step is one of `SessionMailbox` or unseen;
* the action properties `NothingStaleIsSent` (`NoZombieSent`) and `EvictionIsFair`
  (`EvictsLeastUrgent`).

None of the invariants is inductive alone: that an event has one holder depends
on a batch being empty outside `_send_batch`; that a queue has a drainer depends
on `_draining` naming live drainers only, which holds until `stop()` clears it;
single flight depends on the converse. `IInv` is the conjunction of all of them
with `BatchesIdle`, `RunningReached`, `DrainersRegistered`, `DrainingIsLive`. The
proof has one step per action, and lemmas for the helpers they share (`Kick`,
`DrainExit`, `Dequeue`, `Resolve`).

The refinement maps the turn of a session to the batch of its drainer (`Turns`). It is
single flight that makes this a function, and idle batches that make a drainer's end
the end of a turn. Eviction needs `OrderInv`: the order of arrival is a strict total
order of each session's queue, and the queue is finite. What outlasts an event outlasts
whatever that event outlasts, so the cap can be shown to drop from the far end only
(`CapIsFair`).

`BackgroundProofs` proves, for every set of rows, every set of delays, every
period and retry delay (assumptions `CronAssumption`, `TimeAssumption`):

* `TypeCorrect`, `NoRowForgotten`, and the action properties `TurnsInWindow` and
  `FreshKeys`. `NoRowForgotten` (`EnabledIsAlive`) says that an enabled row has a job or a
  turn, through every outcome of a turn, with one exception: an `at` whose last turn
  ended with a status that `_fire` does not know. For a periodic row it says so without
  exception.

The strengthening `IInv` adds four parts. `UnbornIsBlank`: a row that was never
created has no job, turn or attempt, so creating one starts from nothing. `AtDue`:
nothing that can run an `at` lies before its time, and an existing one has a time
that is not zero; without it enabling a row could schedule nothing, and the lower
end of the window would be lost. `PeriodicIsScheduled`: an enabled periodic row
keeps its main job through its own runs, so it needs no retry. `KeysInOrder`:
refused keys lie below the row's `attempt` and no turn is ahead of it; this is why
a new turn carries a key nobody refused, also when two turns of a reminder run at
once. An action touches one row, so the proof of each is the same argument
(`OneRow`): what the action leaves of its row satisfies the parts, the other rows
are untouched. `Restart` touches all of them and has a proof of its own. The
bound `MaxTime` is only used for the type of `now`.

`RuleTaskProofs` proves, for every set of rules and sources, every direction and
every duration window (assumptions `RuleAssumption`, `WindowAssumption`):

* `TypeCorrect` and `ExitsRestOnKnowledge`. The two are inductive together
  (`IInv`): a debounce that sleeps belongs to a rule that listens, and each reset
  empties what it resets. The first part of the module is about the duration
  window as a sequence (`SampledIsWindow`).
* `EnterIsPaidBack` (`Paired`), for tasks without a daily record and without the
  debug call: `force_cross_day_reset` and `trigger_rule` dispatch actions without
  the state machine, and with them it is false. `StateStep` names what the state
  machine may do in one step, and `StateStepFacts` shows that each keeps the pair.
* `TopologyFollows`: the state machine's topology is the set of enabled rules of
  the database after every step.
* `ExitIsHeard` (`ExitSlipsOnlyFromUnknown`), for tasks of enter, exit and guard
  rules, without the debug call. It rests on `FalseIsOut`: a condition known to be
  false has no entered baseline, so its next true frame is an edge and reaches the
  state machine.
* `TaskCanEnd` (`OnCanEnd`), for tasks of one family of rules (a session rule and
  guards, or enter, exit and guard rules: `OneFamily`) without a daily record and the
  debug call, and with durations of ratio 1. The invariant is `Ends`: a rule whose
  condition is true is in, one that leaves was fired if it is timed, and a task has one
  session rule at most, which is where the check of the rule set is used
  (`AloneStep`). `LastIsTrue` is the part about numbers: with ratio 1 a window that is
  met ends with a true sample, so who fires is in. Each of the assumptions is needed: a
  smaller ratio and a daily record fail in `ruletask_late_entry` and
  `ruletask_rollover_stuck`, the mixed family is explained under the bounds.
* `HeldStaysOn` (`LayersStayTogether`), for the same tasks, with a daily record too. The
  invariant `Layers` adds that what is in or fired listens (`InListens`: each call that
  silences a rule resets it) and that a session rule that was fired is in or leaving
  (`FiredIsIn`). So a reconfiguration hears "false" of a held rule only while it leaves.

`RuleTasksProofs` proves of the sum `MCRuleTasks`:

* `RunActionsSettle` (`HomeFollowsTask`), from `ActionsSettle`: for any kinds of the two
  actions, any number of fires and of attempts (`ActionsParameters`). `ActionsInv` has five
  parts beside the types. `Numbered`: no fire is younger than `made`, and the youngest has
  the slot of the state. `OnTheWay`: each kind of action takes its own way. `Decided`: the
  last fire, once it has obeyed or found the home right, is known by it (`settled`). The
  heart, `CommandCounts` and `PromptCounts`, says what is still owed: unless a cause stands
  in `excuse`, the home is as the last fire wants it, or that fire is still under way; an
  older command that arrives after it puts `overtaken` there.
* `IotExitsRestOnKnowledge` (`IotLeavingIsFalse`): `LeavingIsFalse` of the second task.

`RuleSourcesProofs` proves of the part `IotSource` of `MCRuleSources`, for every set of
rules, devices and readings (assumption `NoneAssumption`):

* `TypeCorrect`; `NoRuleStale` (`NoStaleRule`): what a rule was last told of its
  condition is what the store says now, or a reminder of it is on its way;
  `NoDiagnosisStale` (`DiagnosesCurrent`), the same of the reasons shown to the user.
* `TellsOnlyTheTruth`: the initial states and steps of `RuleView` are refined (its
  liveness is checked by TLC).

The strengthening is one conjunct, `IndexFollows`: while the source runs, the lookup
tables are those of the rules. Without it a change would be delivered to tables that
do not name the rule, and its reminder be lost. A write is the hard case: it changes
the truth of any number of rules at once, and each of them must be found through the
queue, the tables or the reminders (`WriteStep`, `VerdictFrame`).

`HouseholdProofs` proves of the part `Invitation`, for any length and number of attempts,
any margin, TTL and number of processes (`InvitationParameters`):

* `InvitationTypeCorrect`; `NoSecondInvitation` (`InvitedOnce`); `MarkTellsTheTruth`
  (`MarkIsTrue`); `GuardIsLongEnough` (`GuardOnlyBehind`).

`InvitationInv` has five parts beside the types and the mark. `Waits`: who waits has an event
or its fate. `Abandoned`: an event without a caller was given up by the guard, and this
process invites no more. `Sent`: what is called sent was taken by the platform.
`Remembered`: an invitation that no mark records and nothing excuses is one this very
process knows of, by `fired` or by the caller that still waits; this is what makes the
check under the lock enough. `Prompt`: an event that did not have to wait is no older
than its turn, so its age stays within `Worst`, which `Guard` exceeds (`Numbers`).

`RuleSourcesProofs` proves of the part `Milestone`, for any targets and any length of a
day (`GoalParameters`):

* `GoalTypeCorrect`; `SessionsAreTimed` (`TimersFollowSession`); `NobodyToldTwice`
  (`ToldOnce`); `SettledInTime` (`ReachIsTold`); of the sum `MilestoneStaysInStep`
  (`MilestoneInStep`) and `RunReachIsTold` (`ReachIsTold`).

`GoalInv` adds `WithinDay` (minutes are counted once), `OnIsActive` (the state machine is on
for tasks that are not paused) and `ToldIsCarried`: what was told of a milestone that
exists, is not paused and was not forgotten is carried by its condition. That is the
argument of the code's comments, that the edge of the condition replaces a mark; the
proof shows which calls must seed for it. Feeding true is the only road to a second
notification, and it needs a condition that is false (`FeedStep`).

`RuleSourcesProofs` proves of the part `CameraSession`, for any watchers and recordings and
any number of changes, failures and numbers (`CameraParameters`):

* `CameraTypeCorrect`; `NobodyRobbed` (`NobodyIsRobbed`); `NumbersAreHeld`
  (`NumbersAreCallbacks`); of the sum `NumbersStayOwn` (`NumbersAreOwn`).

`CameraInv` says whose each callback is. `TableIsOfSession`: no session, no callbacks.
`EyeHasOne`: perception has one at most, under its number, and none during a rebuild; this
is why a watcher's number of the old session can be given back then without harm.
`EyeHolds`, `ChannelHolds`: who was not severed finds his callback under his number, the
channel only outside a rebuild. `ChannelHasOne`: what else the channel has is `spare`. The
lemmas `RegisterStep` and `UnregisterStep` say once what the two do to the table.

`HouseholdProofs` proves of the part `Arrivals`, for any homes, any debounce and listener
duration and any delay of a push shorter than a debounce (`GreetParameters`):

* `GreetTypeCorrect`; `ArrivalsAreKept` (`NoArrivalLost`); `GreetedOnce` (`ArrivalsGreeted`,
  the conjunction of `GreetedAsArrived` and `NoArrivalLost`); of the sum
  `RunArrivalsGreeted`.

Two arguments. `Owed`: an arrival nobody greeted and nothing excuses is on its way, as a
push, a timer, a flag or a listener that will greet (`WillGreet`). The hard case is a
listener whose answer is older than the arrival: it must not take the list back between
another listener's refresh and its look at it, and it cannot, because
one answer at most lies between the cloud and the list. `Timely`: there is a clock, the
time since the arrival, that everything which may still greet shows to within the delay
of a push. So the second of two greetings falls within the memory of the first, unless a
listener was slow or renames came in a burst. `Unannounced` says that what did
not arrive is in no list a greeting listener reads.

`DeviceStateProofs` proves, for any devices, homes and values, any limit of top-ups and of
rounds, and any number of moves and of pushes on their way (`Parameters`: the bounds are
numbers, and no value is the mark of a missing leaf):

* `TypeCorrect`; `OnlineIsFollowed` (`OnlineFollows`); `PropIsFollowed` (`PropFollows`);
  `NobodyIsForgotten` (`NobodyForgotten`); of the sum `RunLeavesFollow` (`LeavesFollow`).

The three invariants speak of moments when nothing is under way, so `IInv` says of every
other moment what is still to come. `QueueRight`: the last push of a kind that is on its
way says what is true; a write by a push can be wrong only while another follows. `Scopes`:
an alignment is the scope's, and a refresh of an older scope has a successor. `HomeKnown`,
`AliveAt`: the cache has the cloud's answer, or a refresh will bring it. `TreeAt`: the
leaves are those of the cache. `PropAt`, `FreshAt`, `GotAt`: a leaf is right, or what
has been read and not yet written is, or a push, a pull or the next pull will write it;
this is where the pull's `Kept` and the top-up's writing of missing leaves only are needed,
since both write what they read before others wrote. `CoveredAt`: who has no leaf is asked
by the alignment, a timer or a top-up, or has used all of his. `PropFollows` needs no
exception for a failed refresh or a scope that is not aligned.

About `SubscriptionSync`, `HouseholdProofs` also proves, for any devices and any number of
moves and events (`SubsParameters`):

* `SubsTypeCorrect`; `AccountIsMirrored` (`MirrorFollowsAccount`); `SdkIsMirrored`
  (`MirrorFollowsSdk`); `TopicsAreKept` (`SurvivesReconnect`); of the sum
  `RunSubscriptionsFollow` (`SubscriptionsFollow`).

`SubsInv` follows the loop through a round. `LoopShape`: what a round adds is listed and what
it removes is not, unless the loop will run once more. `Flights`: who waits for a SUBACK,
and that without a connection he waits in vain. `AddedHeld` and `Same`: mirror and SDK agree
on each device but those the round has come through with and not yet noted, and a round whose
generation still counts has subscribed what it says; the exception is `torn`. `Known` and
`Follows`: the list is the account's and the mirror the list's, or a refresh or another
round is to come. In `Shape`, a generation costs a move of the world, so no event
can raise it beyond what the rounds were counted with. `MirrorFollowsSdk` needs no
exception but `torn`.

`WindowsProofs` proves, for any finite set of cameras, any number of windows, any limits of at
least one and any lengths of the lines (`Parameters`):

* `TypeCorrect`; `TrackersAreAlone` (`TrackerAlone`); `LinesAreKept` (`LinesAreServed`);
  `EffectsKeepOrder` (the action property `InOrder`). Of the sum `BackgroundProofs` has
  `RunWindowsAreOrderly` (`WindowsAreOrderly`) and `RunEffectsInOrder` (`EffectsInOrder`); a
  run with one camera and a run with two are behaviours of two instances of `Windows`.

`IInv` has four parts beside the types. `LinesOK` is about the limiter in itself (`LimiterOK`:
each line holds windows of its camera, once and without a permit; a camera has one turn as long
as its line is not empty) and about who is in it. `Join`, `Leave` and `Grant` keep it, each by
what it does to a sequence (`AppendOnce`, `RemoveOnce`, `TailOnce`), and `Pump` since it is a
number of `Grant`s; that it leaves nobody to wait for nobody needs the limit to be at least one.
`OwnsAlone`: the lock of a camera has one owner; that who is at work owns it is in `Stages`,
which says how far a window is by its marks. `OrderOK` is the argument for the order of the
effects. A window is dead when it is completed, too old or no longer valid, and no rule is told
of a dead one. `TurnsOK`: who had its turn, or has nobody to wait for, has a predecessor that is
completed. `AgesOK`: windows grow old in order. `DoneOK`: before a completed window all are dead
but for those behind one that slipped, which is the exception of `InOrder`, and `ShownOK` says
the same of the last window that had an effect. `KnownOK`: a camera whose last window is not
known (after a restart) has none under way; without it the first window after a restart would
have no predecessor and others before it.

Only proved: `DeliveryIsReal` (a future says delivered only of an event the platform
had), `MarkTellsTheTruth` and `TopologyFollows` are checked by no run of their own.

Only model-checked: all liveness (`EveryFutureResolves`, `AbsenceEnds`, `AtEnds`, `AllRest`,
`PerceptionIsFed`, `WindowsEnd`, the liveness of `ViewSpec`), since TLAPS has no fairness.
Of how many samples of a window are true only `LastIsTrue` is proved.

## 5. Model-checked against a mutated model

Each property of a passing run is paired with a mutant of the model: a plausible
slip of the code (a guard dropped, a reset forgotten, an order swapped) written
as an operator beside the definition it replaces and marked `MUTANT of`. Under
it the property fails.

## 6. Where the code does something else than it says

* `dispatcher_platform`: after `status="timeout"` the drainer goes on while the
  platform still runs the turn, although the module promises at most one turn in
  flight per session on the platform's side.
* `ruletask_late_entry`: with a duration ratio below 1, false samples after the
  confirmed exit can complete the window; `on_enter` runs with nobody there, and
  no edge is left that would end it.
* `ruletask_touch`: a reconfiguration (a PATCH of any field) during the exit
  debounce ends the session at once and leaves the debounce running; somebody who
  comes back within it is absorbed as "still in" and the task stays off.
* `ruletask_rollover_stuck`: the cross-day reset clears the fired mark of a timed
  session and leaves the task on; the next full window is refused as "already
  on", the mark does not come back and the exit is ignored.
* `cron_parallel`: enabling a reminder in its retry chain re-adds its main job
  beside the retry.
* `milestone_muted`: `_debounced_exit` settles also when the task is off already. The
  milestone is refused, its condition stays true until the rollover, and a target that is
  reached in a session later that day is not told. `roll_over` arms a task that is off,
  which is a second road to the same end.

Smaller ones, met while modelling. Each is a step the models have; the properties name
it as a cause they except.

* Rules. An entry refused by a guard is not tried again when the guard comes true
  (`state_machine.py:355` says so); a timed rule is. `LayersStayTogether` excepts it.
* Actions. The cross-day reset starts on_exit and on_enter at once
  (`runner.py:1606`). If both are idempotent, on_enter sees the value it wants before the
  command of on_exit arrives, skips, and the lamp goes off with somebody there
  (`overtaken`); the same befalls a re-entry that follows an exit closely. A prompt that the
  dispatcher rejects is offered again after a later one (`retried`). A cooldown is kept
  without the value, so on_enter may hold up the on_exit of one session rule on the same
  property (`cooled`). The end of a debounce goes on as its fire and overtakes one that was
  created and has not begun (`ahead`).
* Schedule. `agent_client.py:137` says that a turn ends with one of four statuses, and
  nothing checks it: `data.get("status", "error")` passes on any (line 184). With another
  one `_fire` only logs (`runner.py:331`). The date job of an `at` has run, no retry is
  scheduled and the row stays: enabled, listed, and without a job, past its window too,
  until somebody enables it again or the process starts (`unknown`). Without the
  exception `EnabledIsAlive` and `AtEnds` fail at the first such answer.
* Milestones. A task that is resumed is seeded from its record, also when it was active
  and has just reached its target, so nobody is told (`seeded`). A restart seeds paused
  tasks, and the rollover cannot reset them (`update_state` ignores a paused task): the
  seed outlives its day, until a rollover finds the task active. The log's day ends
  at midnight and the record's with the rollover: a rule derived anew in the first five
  minutes does not find the entry of the day its record is still in, and one told in
  those minutes is found the whole next day. A session ended back in time after its
  target was told leaves a record from which a restart cannot tell that it was.
* Refreshes. A refresh whose answer the cloud made before a push puts the
  older online flag back, in the cache and in the store, until the next push or refresh
  (`overtaken`, `client.py:1285`); `state_push.py:19-23` says that the order of the two
  roads makes no difference, `client.py:1298` that a refresh sets the cache right.
* Device state. A push or the alignment writes back the flag of a device that left
  meanwhile (`ghost`). A device that moves into the home after the alignment has no
  properties until it pushes or comes online again (`movedIn`), and a refresh that finds
  a device online starts no top-up. What is pushed while the alignment has not yet
  covered the scope is dropped (`dropped`). An unlinked leaf is put back by a top-up or
  a pull that was under way.
* Subscriptions. A round that was thrown away may have subscribed what nobody keeps
  (`torn`, against the docstring at `client.py:117`): a device is bound, the round
  subscribes it, an unbind moves the generation, and the next list no longer has it.
  A bind whose SUBACK comes after its own refresh is noted for a device nobody looks
  at again (`late`).
* Cameras. A refresh that destroys a session (the camera was not seen on the LAN, slept, or
  left the scope) and one that makes it again tell nobody, as the rebuild does. The
  watcher's picture stands still; a stale number is given back all the same, and since the
  numbers of the new session begin at 1, the last watcher who leaves may unregister
  perception's callback, which `resubscribe_camera` warns of (`miot/ws.py:523-539`). The
  check for silence brings perception's frames back after its cooldown (`severed`).
  `resubscribe_camera` does not ask whether the channel has registered with the new session
  already: if the last viewer leaves and another comes before it gets the lock, the
  channel is registered twice, its frames are handled twice, and one of the two
  registrations stays until the session ends (`spare`, `ws.py:561`).
* Windows. Effects are to come in order (`window_runtime.py:3-5`), but a window that ends
  without its turn (no input once the sound is taken away, an engine that is not ready, an
  error on the way) marks itself completed while its predecessor still waits for the model;
  the next window takes that mark for its turn, and the rules hear of the older window after
  the newer (`slipped`; `api.py:999` says "after predecessor side effects complete"). A
  window that is cancelled while its frames are analysed leaves its lock, and the thread
  goes on: the next window of the camera may be prepared beside it (`left`;
  `engine/identity/identity.py:65`). `runner.py:246` says that one unencoded window is
  prepared at any instant, and the wait for it ends with the cancellation.
* Invitation. The guard's clock starts when the event is handed in
  (`onboarding_trigger.py:51` speaks of the moment the batch is taken): 300 s in the
  queue and 586 s of attempts exceed its 616 s, so behind another turn the guard gives
  up, the invitation arrives later, and the next start invites again (line 164 says that
  it should not happen). The conditions are not looked at again: an invitation that
  waited can reach a family that is known by then.
* Greeting. `refresh_devices` swallows its failures, so the `except` of the listeners
  (`mips_listeners.py:208`, `300`) never runs and they go on with the list of before:
  a device that was unbound is greeted as new, the flag of one that moved in is lost.
  Renames of other devices restart the timer of the move (`burst`), and with a slow
  listener (`slow`) the two greetings of one arrival can be a whole window apart.

Others stand in the notes of `PROJECT.json`'s hazards.

## 7. Not modelled

`PROJECT.json` lists every component with its reason. In short: SQL, validation,
formatting and HTTP have no interleaving of their own; the perception engine is
numeric, but for the order of its windows; the SDK, CLI, web panel and plugins are clients; the components below
are planned.

## 8. Plan

Done in this order: dispatcher with its abstract mailbox and proofs; rule task with
its proofs; schedule with its proofs; iot rule source with its abstract view and
proofs; device state; subscriptions; invitation and arrivals with their proofs; milestones with
their proofs; camera sessions with their proofs; the order of a task's actions; the windows
of perception; the proofs about a task's actions, device state, subscriptions and windows.
What is left:

1. The other task records (progress, events, windows other than a day) and the boundaries
   between `Milestone` and `RuleTask`, which has the edges in detail.
2. The store's subscriptions with their bounded queues, camera viewers (`StreamHub`), sound,
   the perception cycle of one window for all cameras, the questions of the user beside it, the
   circuit breaker, the last administrator.
