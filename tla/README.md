# porchlightd in TLA+

A verification project for the doorbell in this repository: the daemon
`porchlightd` (C++), the processes it runs (`pi/*.py`), and the A/B image they
live in. It holds TLA+ modules translated from the source, TLC configurations
that check them on small instances, and theorems that TLAPS proves for every
value of the constants.

Contents: [inventory](#1-the-system) · [modules](#2-the-modules) ·
[time and data](#3-abstractions) · [runs](#4-the-runs) ·
[fairness](#5-fairness) · [findings](#6-where-the-code-and-its-comments-part) ·
[proofs](#7-what-is-proved) · [not modelled](#8-what-is-not-modelled-and-why) ·
[plan](#9-plan)

## 1. The system

One device: a button, a motion sensor, one camera, one light, a chime, and a
WebSocket to a server. One single-threaded daemon decides everything; what is
slow or may crash runs in processes it starts and watches.

| component | state it keeps | operations | must hold |
|---|---|---|---|
| alert queue (`core/alert_queue.*`, `core/backoff.h`) | entries, in-flight flag, retry time, backoff | push, expire, ready, mark_sent, on_result, link_lost, next_deadline | bounded; the alert in flight stays the front until it is answered; nothing waits for ever |
| clip spool (upload half of `core/core.cpp`) | clips, in-flight flag, retry time, backoff | enforce_spool_cap, pump_uploads, on_upload_finished | the clip being sent is the front one; no clip disappears unannounced |
| core rules (`core/core.*`) | viewers, recording state and event, held alert, deferred viewer, four deadlines, link flags, light | one per event of `Core::handle` | the camera has one owner; a held alert is settled once; a press rings; nothing starts after a shutdown |
| daemon and loop (`daemon.*`, `reactor.*`, `timer_fd.*`) | pending events, the draining flag, armed timers | deliver, drain, execute, wake, signal | one event at a time; events raised inside an action wait; a shutdown ends |
| recorder (`io/gst_recorder.*`) | phase, child, pipe, one timer, killed, verdict sent | start, stop, on_timer, read_detector, on_child_exit | exactly one end per start, at most one verdict, in that order; always ends |
| call supervisor (`io/script_media.*`) | viewers, child, time of the last request | start_call, stop_call, on_child_exit | the books agree with the core's; every viewer is told once; no endless restart |
| uploader (`io/script_uploader.*`) | clip, child | upload, discard, on_child_exit | one upload at a time; confirmed by exit code only |
| server link (`io/bridge_server_link.*`) | child, awaited alert and its timer, restart timer and backoff, what has been reported | send_alert, on_readable, on_ack_timeout, on_bridge_lost, try_spawn | each alert is answered; the core sees the link as it is; one process or one restart |
| bridge (`pi/server-bridge.py`) | socket, ready, backoff, watches | hello, event, ack, update, wifi, faces | online and offline lines tell the truth; a permanent refusal is final |
| recording script (`pi/record-clip.py`) | the pipeline's state, exit code; the detector's thread, one frame handed over, the last three scores, `finished` and what is said | attach, offer, judge, look for a face, say, finish, EOS, SIGINT | one verdict, before the exit; silence is earned; no model keeps it from ending |
| call script (`pi/webrtc-video.py`) | two room connections with a task and a deadline each, roster, talkback tasks, `empty_since`, the exit code | join, drop, re-join, resync, play, hush, supervise, end | counts exactly who is in the room; plays nobody else; ends when alone or unreachable |
| upload script (`pi/upload-clip.py`) | one job | presign, PUT, confirm | a clip is confirmed or kept |
| update and A/B slots (`porchlight-update.py`, `boot.cmd`, `porchlight-health`) | request and status files, slot counters | install, reboot, mark good, fall back | a bad image never becomes permanent; an update is reported once |
| set-up and wifi change (`porchlight-setup.py`, `porchlight-wifi.py`) | saved profiles, what the radio is on, the attempt; request and status file | wait, portal, attempt; join, check, keep or go back | a network whose check failed is not kept; the way home outlives a change, however it ends |
| first boot (`porchlight-firstboot.py`) | certificate, credential, identity, configuration, marker | provision, overwrite, delete, mark | the secret does not come back; a run that ends well leaves a whole device |
| faces (`porchlight-faces.py`, bridge) | the store, the list being applied and the one that waits, the answer unsent | receive, apply, tell | what the server believes applied is; the newest list is applied |
| input, light, chime, config, logging, ids | debounce and blink phase | — | — |

**Interaction.** Backends call `Daemon::deliver`; `drain` gives `Core::handle`
one event, executes every action it returns, and only then takes the next, so an
event raised *inside* an action (a refused upload, an alert with no bridge, a
call that cannot start) is handled after the actions already under way. Children
are seen through pipes and pidfds. `Reactor::run` takes a batch of readable
descriptors from one `epoll_wait` and runs their callbacks one by one: a callback
may re-arm a timer whose old expiry is still further down the batch.

**What is hard.** Verdict, verdict deadline, press, viewer, end of recording and
shutdown race for one held alert. One camera is shared by recordings and calls,
with a flush in between. Queues work at their limits with their front entry in
flight. Answers come late, twice, for something else, or never. Timers are stale
in a batch. Children ignore signals, die at once, or die while something is being
written to them. The link goes away while things are on it. In the scripts threads
and tasks share what no lock covers: a frame that is judged as the recording ends,
a viewer who leaves between a drop and the join after it, an answer that is read by
one thread and cleared by another. And the power goes at any step of provisioning,
of an update or of a change of network. `PROJECT.json` lists
each hazard at its line, with the properties that guard it or the reason none
does yet.

## 2. The modules

```
Basics ── AlertQueue ──┐
   └───── Spool ───────┴─ Core ── Doorbell ── MCDoorbell      the daemon's rules
                                     ┆ assumes of its backends what these keep:
Reactor ── Recorder ──▷ RecorderPromise                       (▷ implements)
           CallProcess ──▷ CallPromise
CallScript ── LiveCall ──▷ CallProcess                        a call, both sides
Detector                                                      the script of a recording
AlertQueue, Bridge, Reactor ── ServerLink                     link and bridge
Slots ── Updates                                              updates and A/B slots
Network ── Setup ── WifiChange                                the radio and who drives it
FirstBoot          Faces                                      provisioning; known people
```

* **Basics** – deadlines as ticks to go, `Doubled` (`Backoff::fail`), `Drop`.
* **AlertQueue** – the class as operators on a record
  `[entries, inFlight, retryAfter, backoff]`, one operator per method, and
  `PumpAlerts`, the core's use of it.
* **Spool** – the clips waiting to go up, the cap, upload backoff.
* **Core** – one action per event of `Core::handle`, each the *whole* call:
  `Lapse` (deadlines that have passed), the handler, then `Settle` (verdict
  deadline, both pumps, light). What `handle` returns is the variable `out`.
* **Doorbell** – the daemon: `React` carries out `out` (`Daemon::execute`), the
  backends are reduced to what they promise, and the reactor listens only when
  nothing is pending (`refused` is the one event raised inside an action that
  outlives it here).
* **MCDoorbell** – the small file and verdict sets of the runs, and symmetry.
* **Reactor** – a batch of readiness; used by the modules where a stale entry
  matters.
* **Recorder** – `GstRecorder` with its child, its pipe and its one timer, driven
  by a core that starts when it knows of no recording and stops at most once.
  `RecorderPromise` is the abstract recorder of `gst_recorder.h`.
* **Detector** – the child: `record-clip.py` with its main loop, the detector's
  thread and the loading of the face models, against a pipeline that ends with EOS,
  with an error or not at all. `Recorder` takes any lines and any exit; this module
  says which there are.
* **CallProcess** – `ScriptMedia`: one process for every viewer, the race window,
  the call that cannot be started. `CallPromise` is what `Doorbell` assumes in
  `calls`.
* **CallScript** – `webrtc-video.py`: a `connect` task for each of its two rooms,
  the callbacks that wait for the loop (`soon`), the supervisor. **LiveCall** is the
  daemon's side and the script's together: a process that is started is a run of
  the script, and all the daemon learns of it is that it has ended, and whether
  with `EXIT_CONFIG`.
* **Bridge**, **ServerLink** – the bridge process with the socket and server
  behind it, and `BridgeServerLink` with the core's queue (the operators of
  `AlertQueue`). A callback of the link is one step, because every event it
  raises is handled, and what the core then sends is written, before it returns.
* **Slots** – the two system slots: U-Boot's `boot.cmd` (order, attempts, the
  reset when nobody has any), `porchlight-health` (is this slot on trial, has the
  daemon been steady, mark good, or fall back) and RAUC, which is external: it
  takes its target out of use and voids its account, writes it, then puts it first.
  Whether a slot marked bad also leaves the order is left open. The proof of a trial is
  only in memory until the kernel writes it back (`unsynced`): a power cut may lose it, an
  orderly restart does not.
* **Updates** – an update from the app on top of `Slots`: the bridge's
  `start_update` and `watch_update`, `porchlight-update.py` step by step, systemd
  stopping it, an install whose client has gone, and power cuts between any two
  steps of all of them.
* **Network** – the one radio and its saved profiles, as `class Network` drives it;
  NetworkManager itself is external: it goes back to a saved network when it likes
  and promises nothing of what a failed join leaves behind. **Setup** is
  `porchlight-setup.py` on it: wait, access point, one attempt at a time.
  **WifiChange** adds the bridge's request and its two watches, the helper
  `porchlight-wifi.py` step by step, systemd's time limit, checks that raise, and
  power cuts - after
  which a request left behind is served while set-up drives the same radio.
* **FirstBoot** – every write of `porchlight-firstboot.py`, with what a program reads
  and what the card holds as two things; only the certificate that is overwritten is
  synced.
* **Faces** – the lists of faces by revision, from the server through the socket and
  the two threads of the bridge into the store, and the answer on its way back.
* **\*_proofs** – the theorems and their lemmas.

Definitions marked `Fault:` are not used by any specification. Each is the mutated
form of the definition it stands before or near - a bug someone could plausibly
write there - and `PROJECT.json` pairs it with the property that catches it.

Correspondence of names: variables carry the source's member name in a comment
where they are declared; actions are named after the event (`MotionDetected`,
`ViewerRequested`, `RecordingFinished`, …), the callback (`OnTimer`, `OnExit`,
`OnAckTimeout`, …) or the function (`Receive` for `start_faces`, …). `map` in
`PROJECT.json` gives the lines of every definition.

## 3. Abstractions

* **Time.** A steady time point is kept as *ticks to go* (0: reached, `None`:
  unset) or as an *age*; one `Wait` step is a tick and may happen at any moment
  between events, so no order of two timers is assumed but that of their
  deadlines. Ages stop at the value after which nothing depends on them
  (`AlertMaxAge`, `RaceWindow`), so there is no bound on how long a run lasts.
* **Ids** are random in the code and never repeat. Here there are finitely many,
  and one is used again once nothing refers to it (`InUse`, `Mentioned`).
* **Data.** A clip is its id, size and what the cap and the confirm need; a file
  is whether it exists, is playable, is long enough, and its size; faces are
  opaque; the JSON on the pipes is its fields. A pipeline's command line, log
  messages and wording are left out.
* **Children.** They may hang, exit at any moment, cleanly or not, and write
  anything; SIGKILL ends them. The server may store, refuse for good or say
  nothing, in any order, and what was on a lost socket may have been stored.
* **Configuration.** `ASSUME`s state what `validate` in `config.cpp` enforces,
  no more: `ack_timeout`, a cooldown or a linger of zero are allowed because it allows
  them, and so is a linger that is longer than the idle time (`calls` passes with
  (idle, linger) = (2, 0) and (1, 2) too, and the proofs cover them all).

## 4. The runs

Each `.cfg` is named after its run. All but `MCDoorbell`'s take the component
itself as the root module, since their constants are model values and numbers.

| run | instance | shows |
|---|---|---|
| `detect` | 4 ids, 2 viewers, queue of 2, detector on, all verdicts, a ring waits for a name, shutdowns | `TypeOK`, `CameraOwnership`, `FrontInFlight`, `QuietAfterShutdown`, `HeldAlertSettled`, `AlertedOnce`, `PressAlerts` |
| `camera_liveness` | 2 ids, one viewer over judged motion, a ring that waits for a name; clips come to nothing | `HoldEnds`, `DeferredCallResolved`, `ShutdownCompletes` |
| `queue_liveness` | 2 ids, unjudged motion, link and outcomes free, clips of every kind, uploads that fail, are refused, finish late, a cap of 2; nobody watches | `AlertLeaves`, `ClipSent`, `UploadInFlight`, `ClipAccountedFor` |
| `recorder` | clip and grace of 2 ticks, 2 detector lines, batches in any order; the child owes nothing | `VerdictHeard`, `PromiseKept`, `RecordingEnds` |
| `verdict` | a window of 3 ticks, 1 to settle; 3 frames for a silence, 4 at most; dark, empty and with a person, models that fail or hang | `OneLine`, `VerdictEarned`, `EndsAnyway` |
| `calls` | 1 viewer, race window, patience, idle time and linger of 1, 2 waiting callbacks; the script runs for real | `BooksAgree`, `PromiseKept`, `CrashLoopEnds`, `ViewersTracked`, `NoGhostTalk`, `GivesUp`, `EndsWhenAlone` |
| `link` | both kinds of one event, wire and lines of 2, restart backoff 1 to 2 | `LinkSeen`, `BridgeTended`, `LeavesForAReason` |
| `updates` | a release that works and one that does not, 2 tries, power cuts without bound | `WayBack`, `RebootingIsTrue`, `ComesUp` |
| `network` | 2 networks that lead to the server, right and wrong keys, a name that is none, 2 attempts, joins and `connection up` that fail for no reason, checks that raise, routers that fade and return, a helper that is killed, power cuts without bound | `OnlyProvedKept`, `WayHomeKept`, `TellsItsOwn` |
| `firstboot` | the whole of it: it has no parameters; cards minted again, errors, power cuts without bound | `SecretGone`, `ProvisionedIsWhole` |
| `faces` | 2 photos, 3 lists, a socket that comes and goes, a helper that fails, a bridge that dies | `DeletedIsForgotten`, `CaughtUp` |
| `idle_timer` | 3 ids, one alert after the other | a counterexample, section 6 |

**Why the bounds are enough.** In `detect` four ids let a queue of two be full
with its front in flight while a held event and a new one compete for the room,
and two viewers let one wait while another arrives, replaces it or gives up. The
queue's limit, the entry in flight and the newcomer are the only positions
`push` and `expire` tell apart, so longer queues add repetitions; the theorems
cover every capacity. Times of one to three ticks put every pair of deadlines in
each order and at the same instant. In `queue_liveness` a clip's size is one or two
against a cap of two, so that the cap drops one clip or several.
In `recorder` two detector lines give a noise line before
a verdict and a second verdict after one. In `verdict` three frames are what a
silence takes and four let the window of three scores move on; a frame may come
before the light has settled, a model may load or judge past every deadline, and
`Tick` is the second for which `finish` waits. In `link` two alerts are what it takes
for an acknowledgement to be for another alert, and two lines for one to be read
with or after the other. `WireMax` and `LineMax` bound what is on the socket and in the
pipe; a bridge at the bound waits, and everything else goes on. In `updates` two
tries tell a first, a last and a spent attempt apart as three do, and one release
of each kind lets a good one follow a bad one and the other way round, in either
slot; requests and power cuts are not counted. A slot being written holds `Torn`,
which may boot as far as `porchlight-health` or not at all. In `calls` one viewer
is enough to come, go and come back around each drop and join while the callbacks
about it wait; a second adds nothing the roster tells apart, `SoonMax` makes the SDK
wait and not the loop, and the theorems of `LiveCall_proofs` cover any number of
both. Deadlines of one tick race each other as longer ones do. In `network` the two
networks are the old and the new one; whether one leads to the server is a matter of
the check, which fails at will. In `faces` three lists are one applied, one being
applied and one that waits; a photo is kept, deleted or brought back.

`CHECK_DEADLOCK FALSE` stands where the system really stops: the loop ends after
a shutdown, and a script with its process. The recorder, the link, the slots, the
radio, first boot and the faces never stop and are checked for deadlock.
The liveness runs are small because a liveness check keeps the whole graph: one
place in the alert queue and one clip make every newcomer compete with what is
waiting, and no symmetry is used there.

**What the properties say of the code.** Each is stated in words where it is
defined. The ones worth arguing about:

* `CameraOwnership` relates five pieces of the core's state to what the recorder
  and the call process are really doing, across the flush in which neither is.
* `HeldAlertSettled`, `AlertedOnce`: six events can end a hold, in any order and
  at the same tick; exactly one of them must queue the alert. `PressAlerts` needs
  an explicit exception: in a queue for two with one in flight, a hold that runs
  out at the instant of the press pushes the ring out again.
* `LeavesForAReason` is the queue's integrity across the whole link: late
  acknowledgements for the other kind of the same event, answers lost after the
  server stored the row, and restarts, and yet no alert leaves that the server
  neither has nor refused, unless it was too old or made room.
* `VerdictHeard` is the ordering `on_child_exit` takes care of: the pidfd and the
  pipe are two descriptors in one batch.
* `BooksAgree` with `CrashLoopEnds`: a viewer is never forgotten (light on,
  uploads held back for ever) and never served by a process nobody is counted for.
  In `calls` both are checked, with `PromiseKept`, of the supervisor and the real
  script together.
* `ViewersTracked` and `NoGhostTalk` are about callbacks that run late: the SDK's
  news of a room waits for the loop while the room drops and is joined again, and
  the script counts viewers by looking at the roster when the callback runs, not
  when it was queued. One viewer too many and the call never ends; one too few and
  it ends while somebody watches. With them `EndsWhenAlone` and `GivesUp`: the idle
  time, the linger and the deadline of each connection are set, cleared and checked
  in three places, and whatever mixture of refused tokens, failed joins and drops
  there is, a call that serves nobody is over in the end.
* `VerdictEarned` is judged on `looked`, every frame the answer can rest on, where the
  code keeps three scores and a count: too dark, too few frames, no appsink or a model
  that broke may never silence an alert. `OneLine`: the thread, `finish` and the exit
  compete for the one line.
* `OnlyProvedKept`: "any failed first join of a new profile" leaves something behind,
  retries run over it, and a power cut may fall between the join and the check. What
  is saved without having worked belongs to an attempt under way, or to one that was
  cut short (`known` remembers which those were): by a power cut, by systemd's limit, or
  by an exception that `check_server` does not catch. The last is the program's own
  doing, and is listed in section 6 (`NotKept`).
* `WayHomeKept` is about every way in which a change can end, with a helper that is
  killed and one that dies of an exception among them: the old network is still saved
  with its key; and when the end is "failed", the new one is neither saved nor what the
  radio is on, so nothing stands between NetworkManager and the old one. It does not say
  that the device *is* back. `restore` does not look at the answer of `connection up` and
  writes "failed" after a minute either way, and the rest is up to NetworkManager, which
  promises nothing here. Its exceptions are the very network the new key was for
  (section 6) and a set-up in progress on the same radio (`alone`).
* `SecretGone` holds because the overwritten certificate is the one thing that is
  synced. `ProvisionedIsWhole` needs its exception (`lossy`): everything else is
  written back when the kernel likes.
* `DeletedIsForgotten`: a face the owner deleted is still known to the device until
  its list is applied; what must not be is that the server believes it has been.
* `WayBack` and `ComesUp` are what two slots are for: a slot that has proved itself
  and runs always remains, and U-Boot finds it again and again, whatever was
  installed and whenever the power went. Both take the proof of a slot to be about
  the bytes now in it, which is why RAUC's time stamp and `/data/rauc/proven-x` are
  two variables. Their exception is `hasty`: neither `start_update` nor
  `read_request` asks whether the running slot is still on trial, and an update
  taken up then overwrites the only slot that was proved. Only the server
  knows to wait (it keeps the trial itself, `docs/server-brief.md:192`); nothing on
  the device refuses. `hasty` also stands for the seconds after the trial:
  `porchlight-health:91` writes the proof without a sync (`unsynced`), and if an install
  begins and the power goes before the kernel has written it back, the slot is on trial
  again at the next boot with nothing behind it.
* `RebootingIsTrue`: "rebooting" is the last thing the server hears of an update, so
  it had better be one that is whole and tried first - not the last line of an
  earlier attempt at the same version, which lies in the same file.

## 5. Fairness

* `Doorbell!FairSpec` assumes only the daemon's own loop: time passes, an armed
  wake-up is taken, an event raised inside an action is drained. `HoldEnds` needs
  nothing else.
* What the daemon cannot do by itself stands in each property as its premise:
  `RecorderLetsGo` (`DeferredCallResolved`, `ShutdownCompletes`) - the recorder
  ends, which the run `recorder` shows of `GstRecorder` whatever its child does;
  `LinkKeepsWord` (`AlertLeaves`) - the link answers, because of the
  acknowledgement timer; `UploadsEnd` (`ClipSent`) - every request of the upload
  script has a timeout and a bounded number of tries. They are strong fairness: a
  backend's news lies in the reactor while a refused upload is being handled, and
  is there again afterwards. The link's word has an exception,
  `ServerLink!AnswerAwaited` (section 6): there it owes an answer it never gives, and
  `AlertLeaves` then holds only once the link drops or the daemon restarts. Sensors,
  viewers, the network and the operator are not fair.
* `Recorder!Fairness`: the loop's callbacks, the waking of the loop when something
  of the recorder's is readable, and time. Nothing of the child.
* `Detector!DetectorFairSpec`: the main loop and the clock; the daemon's SIGINT, at the
  latest when the clip has its length; and after that an EOS from the pipeline or the
  daemon's SIGKILL, which `recorder` shows it sends. The models may hang at each
  of the three places where they are called.
* `LiveCall!LiveFairSpec`: the daemon's loop, the script's loop, and the clock. A
  request for a token, a join and a publication come to some end because each has a
  time limit; how they end is free. The people in the room, the network and the
  pipelines owe nothing. A script may run for ever as long as somebody watches;
  `CrashLoopEnds` is about one that ends.
* `Updates!FairSpec`: U-Boot runs while there is power, and `porchlight-health` comes
  to an end - it reads, and then gives up on a slot or keeps it, however the daemon
  behaves (its loop is bounded by a clock). No update has to finish and a good slot
  has to be neither steady nor marked good; the power may go at every step.
* `Faces!FairSpec`: both threads of the bridge run, the helper has a time limit, and
  a lost socket is tried again for ever. That the connection lasts in the end is a
  premise of `CaughtUp`, not an assumption.
* `link`, `network` and `firstboot` check safety only and assume nothing.

## 6. Where the code and its comments part

The run `idle_timer` checks one sentence of the repository and TLC finds it violated
by what the code does:

| run | said | happens |
|---|---|---|
| `idle_timer` | "Nothing pending means no timer at all." (`core.h:29`) | an alert that fails and then expires leaves `retry_after_` in the past; an empty queue keeps arming the timer at once |

The other sentences that the models contradict are stated at the end of their
modules, under "What the comments say and the code does not do". They have no run of
their own; to see the counterexample, give the definition to the configuration of
the run named here in place of its properties, and the module's `Spec` (of `Detector`,
`DetectorSpec`; of `FirstBoot`, `BootSpec`) in place of its fair specification.

| definition (configuration) | said | happens |
|---|---|---|
| `Doorbell!SendingClipKept` (`queue_liveness`) | the clip in flight is never dropped by the cap (`core.cpp:414`) | after the link drops it is no longer counted as in flight while its upload goes on, and its file may be deleted |
| `Recorder!KilledAfterGrace` (`recorder`) | the muxer gets a grace after SIGINT (`gst_recorder.cpp:22`) | the expiry of the clip's length is taken for the end of the grace if a stop came earlier in the same batch |
| `ServerLink!AnswerAwaited` (`link`) | an alert with no reply in time is `Failed` (`bridge_server_link.h:23`) | a late acknowledgement of another alert disarms the timer; the alert in flight is then waited for by nobody |
| `LiveCall!TalkbackOnly` (`calls`) | a speaker that does not start "costs talkback and nothing else" (`webrtc-video.py:672`) | its bus watch is already there, and the error it posts ends the whole call |
| `LiveCall!PublisherTended` (`calls`) | the connection is re-joined "if dropped" (`webrtc-video.py:859`) | an exception after the join, in `on_ready`, ends the task for good; nobody looks at it before the call's end |
| `Detector!RecordingUnharmed` (`verdict`) | "Nothing the detector does can fail the recording" (`record-clip.py:41`) | without an appsink the thread is never started and `finish` joins it: a clip that ended well exits with 1 |
| `WifiChange!PutBack` (`network`) | anything short of success "puts the doorbell back where it was" (`porchlight-wifi.py:25`) | a wrong key for the network it is on overwrites the profile it would go back to; and a `connection up` that fails is not noticed: after a minute the change is "failed" with the radio on nothing (`porchlight-wifi.py:119-126`) |
| `WifiChange!NotKept` (`network`) | "Not kept: a profile that does not work would be retried on every future boot" (`porchlight-setup.py:801`) | an answer that breaks off (`RemoteDisconnected`, `ConnectionResetError`, `IncompleteRead`) is not among what `check_server` catches (496-518): the thread of the attempt ends with the network saved and the access point down; the helper ends with "joining" as its last word |
| `FirstBoot!CanRunAgain` (`firstboot`) | a card that lost power halfway "has to be able to run this again" (`porchlight-firstboot.py:149`) | the overwritten certificate is synced and the credential is not: a cut in between can lose both |
| `Faces!AnswerReaches` (`faces`) | the answer is kept "until it has reached the server" (`server-bridge.py:485`) | two threads test and clear it without the lock, and `send` is true for a frame that the dying socket loses |

Each needs two things in one batch, a late answer, or a failure in one particular
line - rare, and out of reach of a unit test that drives one thing at a time.

Seen while modelling, and in the model, without a definition of their own:

* on the end of a recording at a shutdown "the alert goes out as it always did"
  (`core.cpp:187`); it is queued, but `pump_alerts` returns because of the shutdown
  (`core.cpp:379`);
* `cut_short` is for a recorder the core stops "before its time is up" (`core.h:44-48`);
  a viewer who comes while a clip of full length is being flushed sets it too
  (`core.cpp:165-166`);
* a request that arrives while an update is being worked on is removed by
  `ExecStopPost` (`porchlight-update.service:13`) and never attempted, where
  `porchlight-update.py:98-99` promises one attempt for one request;
* an update taken up by a slot on trial, or before its proof is on the card (`hasty`,
  section 4);
* the timer of one alert, expired behind its acknowledgement in the same batch,
  fails the next alert at once (`bridge_server_link.cpp:267-268`);
* a viewer who joins and leaves between two looks of the call's supervisor gives the
  next one no linger; a talkback task that is over stays in the table while its
  viewer is there, and the sound's pump is not restarted; a cancelled token request
  can hold up the script's exit for its full time limit;
* the set-up portal does not look at whether the access point came back after a
  failed attempt (`porchlight-setup.py:809`); forgetting the failed profile also
  deletes a saved one of the same name; and the check that ends an attempt asks
  whether the server answers, not over which network;
* a faces helper that is killed between saving and printing has applied a list the
  server never hears of.

Seen, and *not* in the model: `faces_once` catches four kinds of exception, and any
other (an answer that is not an object, say) ends the thread with `faces_running` set,
after which every list waits until the bridge restarts (`server-bridge.py:799-805`). No
action of `Faces` leaves `running` set without a worker, so `CaughtUp` is about a helper
that prints its own answer or fails in one of those four ways.

## 7. What is proved

TLAPS checks everything in the eight `*_proofs.tla`, for every value of the constants
that satisfies the named `ASSUME`s: any number of ids, viewers, faces, files, photos
and networks, any queue and spool limit, any durations.

Every invariant and every action property that a run checks is also a theorem, and so
is the one refinement into an abstract specification of `Recorder` and the two of the
call; what stays with TLC is named at the end of this section.

`Queues_proofs` has no theorem of its own: it says what each operation of `AlertQueue`
and `Spool` does to a well formed queue - its type, its length, that an entry in
flight stays in front, which entries it may remove (`Remains`), and what becomes of one
alert or one clip: a queue that is pushed to keeps the new entry, and adding a clip
keeps every other or names it among the dropped. The daemon and the link both rest on it.

**`Doorbell_proofs`** - the daemon.

| theorem | |
|---|---|
| `TypeCorrect` | `Spec => []TypeOK` |
| `OneCameraOneOwner` | `Spec => []CameraOwnership` |
| `AnswerFindsItsAlert` | `Spec => []FrontInFlight` |
| `AlertQueueBounded` | `Spec => []QueueBounded` |
| `UploadsAgree` | `Spec => []UploadInFlight` |
| `SilenceAfterShutdown` | `Spec => QuietAfterShutdown` |
| `ClipsAccounted` | `Spec => ClipAccountedFor` |
| `HeldAlertsSettle` | `Spec => HeldAlertSettled` |
| `AlertsOnceEach` | `Spec => AlertedOnce` |
| `EveryPressAlerts` | `Spec => PressAlerts` |
| `CommandsKept` | `Spec => CommandsInTurn` |

The inductive invariant is `IInv`: `TypeOK`, `CoreOK` (the two queues are well
formed, and no more in flight than there is), `CameraOwnership`, `FrontInFlight`,
`UploadInFlight` and `NobodyAfterShutdown` - after a shutdown no viewer is inside
or waiting. None of the properties is inductive without the others:
`CameraOwnership` alone does not survive the end of a recording with a viewer
deferred, `QuietAfterShutdown` needs `NobodyAfterShutdown` to know that the end of
a recording starts no call, and `FrontInFlight` needs the bound on what `push` and
`expire` may remove. The first part states one *contract* per event of `Core` - what
it leaves in the state, and what it may have asked for - with `SettleContract` for the
part every call shares. The second adds the backends: `ReactContract` for
`Daemon::execute`, one lemma `...Keeps` per action, `NextKeeps` for all of them.

The last five are about a step, and follow from `IInv` and what each handler does to
one clip, one alert or one command. `SettleAsks` is used by all: the part every call
shares adds a send, an upload and a light to what the handler asked for, and takes
nothing away. For the alerts `AlertsKept` says what a step leaves of the hold and what
joins the queue; the handlers that have nothing to do with the hold share
`HoldLeftAlone` (it goes on, or its deadline has come and its alert is pushed), the
others have a lemma each, with `PushThenPump` and `SettleAlerts` for an alert that is
pushed and then perhaps sent. The exception in `PressAlerts` is exactly what `RingStays`
needs: a fresh ring may be followed, in the same call, by a hold that is overdue, and
in a queue for three or more the second push never takes the first one's place; in a
queue for two it does. `CommandsInTurn` is what the modules `Recorder` and `CallProcess`
assume of the core (their `core` and `viewers`): a recording is started only when none
runs and stopped at most once, it is over only when the recorder says so, and a viewer
whom the core lets in is one whose call it starts, never beside the recorder. (It is
stated in `Doorbell_proofs` and has no run of its own; TLC confirms it with the
constants of `detect`.) With
`RecorderPromiseKept` and `CallPromiseKept` below, neither side of those two interfaces
is taken on trust.
Assumptions: `BasicsAssumption`, `AlertQueueAssumption`, `SpoolAssumption`,
`CoreAssumption`, `DoorbellAssumption` (what the configuration and the types
allow), and `OptionalAssumption`, `AbsenceAssumption` (`None` is not a viewer, an
event, a hold or an id).

**`ServerLink_proofs`** - the link and the bridge process.

| theorem | |
|---|---|
| `LinkTypeCorrect` | `Spec => []TypeOK` |
| `LinkIsSeen` | `Spec => []LinkSeen` |
| `BridgeIsTended` | `Spec => []BridgeTended` |
| `NoneLeavesUnasked` | `Spec => LeavesForAReason` |

The invariant `LInv` ties the two ends of the pipe together. `Words`: the last line
about the link that has not been read, or what was reported if there is none, agrees
with the socket - a core that reads on will know. `Ended`: "fatal" is the last line a
bridge writes, and a process, a restart to come and having given up exclude each
other. `Reported`: what the core believes is what was reported. `AcksTrue`: an
acknowledgement on its way, on the socket or in the pipe, is about an alert that the
server has or has refused. `NoneLeavesUnasked` follows from `AcksTrue` and what
`Queues_proofs` says of each operation: an entry goes because of an acknowledgement,
because of its age, or because a newer one needs its place. Assumptions:
`ServerLinkAssumption`, `BridgeAssumption`, `AlertQueueAssumption`,
`BasicsAssumption`. They hold for any `LineMax` and `WireMax`, so the bounds of the run
cost nothing here.

**`LiveCall_proofs`** - a call, both sides.

| theorem | |
|---|---|
| `BooksAlwaysAgree` | `Spec => []BooksAgree` |
| `CallPromiseKept` | the supervisor implements `CallPromise` |
| `LiveImplementsCall` | the supervisor with the real script implements `CallProcess` |
| `LiveBooksAgree`, `LivePromiseKept` | so the two results hold with the real script too |
| `ViewersFollowRoom` | `LiveSpec => []ViewersTracked` |
| `NoGhosts` | `LiveSpec => []NoGhostTalk` |

What `Doorbell` assumes of `calls` is by these not an assumption about code but a
theorem about `script_media.cpp` and `webrtc-video.py`. `ScriptInv` is about the
script: `RosterTrue` - for as long as the SDK hears of the room its roster is the room,
and the script's viewers are the roster but for a count that is still to come;
`QuietAlone` - a listener that has not joined has no callback waiting and no voice;
`TalkFollows` - who is played is counted or about to be stopped, whatever the order of
the callbacks that wait.
Assumptions: `CallAssumption`, `LiveAssumption`.

**`Recording_proofs`** - the recorder in the daemon and the detector in the script.

| theorem | |
|---|---|
| `RecorderTypeCorrect` | `Recorder!Spec => []TypeOK` |
| `AlwaysTimed` | a recording whose process has not ended has its timer armed |
| `LastWordsHeard` | `Recorder!Spec => VerdictHeard` |
| `RecorderPromiseKept` | the recorder implements `RecorderPromise` |
| `DetectorTypeCorrect` | `DetectorSpec => []DetectorTypeOK` |
| `OneVerdict` | `DetectorSpec => []OneLine` |
| `SilenceIsEarned` | `DetectorSpec => []VerdictEarned` |

`RecorderInv` is what `GstRecorder` relies on without saying so: `OneJob` (the phase,
the process and the core's view of it agree, and a refused start is never beside a
running one), `Listens` (the detector's pipe is watched while, and only while, a
verdict may still come), `Collected` (an exit delivered is the exit of this process)
and `TimeTaken`. `AlwaysTimed` is the safety half of `RecordingEnds`: without a timer
nothing would end a child that hangs. The refinement maps the job and the refusal to
the promise's state; each callback is one of its steps or a stutter, for every length,
grace and number of lines. Assumptions: `RecorderAssumption`, `RecorderAbsence`.

The detector's invariant relates the three scores and the count that the code keeps
to `looked`, every frame ever judged: `WindowKept` (the window is the end of `looked`),
`Undecided` (while the thread goes on, nothing it has seen is convincing), `Spoken` and
`AllEarned` (what is about to be said is earned when it is said, and stays so),
`FramesFit`; any window, settling time and number of frames. Assumption:
`DetectorAssumption`.

**`Boot_proofs`** - `UpdatesTypeCorrect`, `AlwaysAWayBack` (`Spec => []WayBack`) and
`RestartsTold` (`Spec => []RebootingIsTrue`), for any releases, good or bad, any
number of tries, and power cuts anywhere. The invariant says who is trusted and why:
`TrustEarned` (a trusted slot runs; a slot RAUC's account lost is not proved),
`HealthHere` (a slot marked good has been steady, on that very slot), `TrustKept`
(unless hasty, whoever works on an update runs on a trusted slot, and its proof is on
the card, so that the one overwritten is the other and no power cut takes the trust
away: `Safe`), `WorkKnown` (whose install this is and how far) and
`RestartTrue` (from the end of the install to the restart nothing touches the new
slot: a stray status, an orphaned install or a second request would).
`SlotsAssumption`, `NoSlotAssumption` and `UpdatesAssumption` say that the factory
system runs, that there is at least one try, and that `None` and `Torn` are names of
nothing else.

The same module has the first boot: `SecretStaysGone` (`BootSpec => []SecretGone`) and
`EndsWellEndsWhole` (`BootSpec => []ProvisionedIsWhole`). The module has no constants and
no bounds, so TLC has seen every state of it; the proof says why it holds.
`SecretFollows` says when the card has caught up with memory: the overwritten
certificate is on the card before anything says so. `WholeOrLossy` says which files are
of the new mint at each step, so that a boot that finds the certificate overwritten
finds the products whole, unless the power took one of them that was never synced.

**`WifiChange_proofs`** - `WifiTypeCorrect`, `KeptIsProved` (`Spec => []OnlyProvedKept`),
`ToldIsItsOwn` (`Spec => []TellsItsOwn`) and `WayHomeStays` (`Spec => WayHomeKept`), for any
networks and any number of attempts. `WInv` knows whose each unproved profile is
(`AccountedFor`, `AttemptOfNet`: the helper's or set-up's attempt of that very
network, or one that was cut short), how many tries are left (`AttemptsLeft`), what
the helper works on and what became of it (`JobKnown`, `RequestTold`). `WayHomeStays`
needs one thing more, `HomeSaved`: while the helper works alone, the network it came
from is still saved with a key that works, unless that is the network it was asked
to join; and once it has forgotten the one it tried, that one is neither saved nor in
use until it ends. Assumption: `RadioAssumption`.

**`Faces_proofs`** - `FacesTypeCorrect` and `DeletedStaysForgotten`
(`Spec => []DeletedIsForgotten`), for any photos and any number of lists. `InOrder` is
the argument: the revisions in the store, being applied, waiting, unread and on the
server stand in that order, so no older list is applied over a newer; `RunsIfBusy` says
when there is a worker, `Listed` and `TrueOf` that store and answers hold only
what their list names. Assumption: `FacesAssumption`.

Every named assumption is evaluated by TLC in the run of its module.

**Only model-checked.** Liveness, since fairness and ENABLED are out of the prover's
reach: `HoldEnds`, `DeferredCallResolved`, `AlertLeaves`, `ClipSent` and
`ShutdownCompletes` of the daemon, `RecordingEnds`, `EndsAnyway` of the detector,
`CrashLoopEnds`, `GivesUp` and `EndsWhenAlone` of the call, `ComesUp` of the slots and
`CaughtUp` of the faces. The safety half of two is proved: a recorder that is waited
for has its timer armed (`AlwaysTimed`), and U-Boot has a slot to find (`AlwaysAWayBack`).
Facts that need induction over data -
what a fold computes for a queue of any length - are avoided rather than proved:
expiry keeps a set of positions, the spool cap removes a least number of clips. And
`NothingPendingNoTimer` and the sentences of section 6, which the code violates.

## 8. What is not modelled, and why

`PROJECT.json` lists every component with its status. Left out for good:

* the button, the motion sensor, light and chime: debounce and blinking over kernel
  interfaces, one callback each, with no state that anything else shares;
* process spawning and descriptors (system calls in a row), configuration, logging,
  ids and time stamps (formatting; the ranges `validate` enforces are the `ASSUME`s);
* `upload-clip.py` and the stand-ins for tests: requests in a straight line, of which
  the daemon sees an exit code, which `Doorbell` takes as it comes;
* the data partition, provisioning and diagnosis scripts, the image build, patches and
  kernel configuration: run once, in a straight line, most of them by hand.

Left out inside modelled components:

* *daemon*: descriptor bookkeeping, the wiring of backends; the stop grace of
  `ScriptMedia`, which cannot fire - it is armed only by a shutdown with a viewer
  present, there is then no recording to wait for, and the loop stops before the next
  callback; the credential check of `try_spawn` (its outcome is a choice);
* *uploads*: the sidecar file;
* *bridge*: the RSSI reports, the lock around a frame and the thread of the hello
  timer; a frame is sent whole or not at all;
* *recording and call script*: building the pipelines, pixels and sound, the queue of
  sound on its way to the SDK and its pump, the overlay, the printed reports,
  `--check` and `--dry-run`;
* *updates*: the bundle file and its download's progress (a failed one is removed, a
  finished one verified); the moment between a written request and the time its watch
  counts from (`start_update` is one step);
* *faces*: finding and coding a face, and the commands used by hand; a thread that reads
  `faces_unsent` and sends it does so in one step (`server-bridge.py:843-844`), and clears
  it in another, which is where an answer can be lost; a helper ends with its bridge, as
  it does when their service stops; an exception nobody catches (section 6);
* *set-up and wifi change*: the page, the light and the pretend radio. NetworkManager is
  external: it may go back to a saved network by itself and may not, so no run claims
  that the device is back on one.

## 9. Plan

In order; each step brings its runs, its mutants and, where marked, a proof.

1. **Uploads to the end**: `upload-clip.py` (presign, PUT, confirm, retries), the
   sidecar, a crash between them and the leftover on the card; abstract specification:
   a clip is deleted only once confirmed.
2. **Bridge threads**: the hello timer against hello-ok, link reports and the lock
   around a frame, interleaved with the watches that are modelled already.
3. **Pure functions** against reference definitions: LED patterns and their phases,
   debounce, backoff sequences, the window of scores.
