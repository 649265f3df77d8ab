# Verification of the pccx KV260 runtime

TLA+ models of the software around the pccx v002 NPU on a KV260 board: the chat
daemon, the drivers that talk to the NPU, and the scripts that deploy to the
board and gather evidence. TLC checks them on small instances; TLAPS proves
every safety property the passing runs check, two refinements among them, for
every value of the constants. Paths below are those of the repository.

    tlc -config TraceEmitter.cfg MCTraceEmitter        # a run
    tlapm TraceEmitterProofs.tla                       # the proofs

## 1. The system

    browser, launcher                     build host
      | /api/chat (WebSocket)               | deploy_to_kv260.sh, run_gemma3n_e4b_smoke.sh (ssh)
      | /api/trace (HTTP stream)            v
    +-----------------------------------------------------------------------+
    | board   daemon: routes_ws, routes_http -> ServerState, TraceEmitter   |
    |           | worker thread per answer                                  |
    |         GemmaInferenceSession -> NpuTokenRuntime -> UIO registers     |
    |  or     gemma_inference.c -> npu_driver.c, uCA driver (no OS)         |
    +-----------------------------------------------------------------------+
                         NPU (RTL in a submodule, external here)

### Inventory

| Component | State it keeps | Operations | Talks to | What is hard |
| --- | --- | --- | --- | --- |
| Trace emitter, `server/trace_emitter.py` | replay deque, list of subscribers, a bounded queue each | emit, subscribe (replay), unsubscribe, deferred `_offer` | every emitter in the daemon; `/api/trace` | delivery is deferred with `call_soon_threadsafe`; replay and live delivery must not overlap; emit from worker threads |
| HTTP routes, `server/routes_http.py` | a coroutine per request | trace stream, health, status, options | emitter, server state | readers that stall, leave, or leave while `prepare` is awaited |
| Chat WebSocket, `server/routes_ws.py` | a coroutine and a generator thread per answer | user, reset, ping frames | server state, inference session, emitter | several connections in one session, sockets that close in an answer, history copied before an await and extended after it |
| Server state, `server/app.py` | histories, counters, the session, load task, telemetry task | start, load, sample, clean up, close | all routes | cancellation, threads that cannot be cancelled, one accumulator fed by several samplers |
| Telemetry, `server/telemetry.py` | remembered kernel lines, key of the last failure, log files | read dmesg, append | emitter | the same lines seen again, a window that forgets |
| Inference session, `gemma/inference.py` | backend, weights-loaded flag, globals, a state per session id | generate (NPU or CPU), close | NPU token runtime, weights | one device and one set of caches shared by worker threads without a lock |
| Weights, `gemma/weights.py` | index, scales, mapped tensors, layers | scan, load, close | inference session | lazy dictionaries filled by several threads and emptied by another |
| K/V cache, `gemma/attention.py`, `arch.py` | rows per layer and position | store, read for a layer | decoder layers | layers that read rows of another layer |
| NPU token runtime, `npu/npu_core.py` | one global runtime | availability, load weights, reset, prompt, next token | registers | write, kick and poll are separate accesses; timeouts |
| Simulated NPU, `npu/sim_mmio.py` | command list, status, tokens | read64, write64 | runtime | stands in for the device |
| Program FIFO, `runtime/uio.py` | mapped window | submit a program, wait for it | FIFOs of the NPU | blocking reads, FIFO depth, a DONE nobody waits for any more |
| DataMover channels, `npu/dma.py`, `npu/address_map.py` | the discovered map | issue, poll | FIFOs of each channel | bases from three sources, 72 bits over three registers, late statuses, reused tags |
| Command words, `runtime/isa.py` and `baremetal/npu_driver/` | none | encode, decode | the NPU | written twice, in Python and C |
| Bare-metal program, `baremetal/gemma_inference.c` | buffers behind a data cache | one fixed program | register driver | cache lines, bounded polling, errors hidden or passed on |
| uCA driver, `driver/uCA_v1_*.c` | mapped base | five calls, sync | registers | bit packing, poll counter |
| Board smoke runner, `scripts/kv260/run_gemma3n_e4b_smoke.sh` | evidence directory, run directory on the board | one run | ssh, board script | errexit, broken connections, shared run ids |
| Local candidate runner, `scripts/v002/run-local-candidate.sh` | evidence directory, counters | one run | simulators, Vivado, generators | return codes through nested functions |
| Hand-off generators, `tools/v002/generate_*.py` | files only | generate a program, a hand-off; validate | local candidate runner | files of an earlier run, files cut short |
| Deployment, `hw/scripts/` | build tree, firmware tree, PL | pre-check, deploy, smoke test | ssh, `xmutil` | any command fails half way, reboots |

Not modelled, with the reason:

- **Tensor arithmetic** (`gemma/ops.py`, `ffn.py`, `tokenizer.py`, the matrix
  products of `attention.py` and `decoder_layer.py`, `npu/cpu_fallback.py`):
  floating-point code without control worth a state machine. What surrounds it,
  the caches and who fills and reads them, is in `GemmaSession`.
- **The knowledge rules of `pre_deploy_check.py`**: functions of report files that
  the deployment script does not pass, so that those on timing and resources
  always pass in a deployment; the others judge the content of the files and are
  one nondeterministic outcome in `DeployFlow`.
- **Evidence readers** (`estimate_tokens_per_second.py`, `run-timing-evidence.sh`,
  `run-throughput-report.sh`, the claim scan): straight-line programs that print
  what they parsed. `run-timing-evidence.sh` takes whichever report lies in the
  build tree, after a failed synthesis an earlier one; it says what the report
  says, and its summary says that the synthesis failed.
- **Telemetry files, argument parsing, the browser page, the model guard**: input
  and output or constants.
- **RTL and Vivado flow**: the RTL is a submodule and not in the tree; the Vivado
  scripts are straight-line batch commands. Modules that drive the NPU model it
  as an external party that does what the drivers read and write.

## 2. Modules

| Module | Models | State and actions |
| --- | --- | --- |
| `TraceEmitter` | `trace_emitter.py` and `trace()` of `routes_http.py`, emissions on the loop thread | `events`, `subscribers`, `queue` are the fields of the classes; `pending` is what `call_soon_threadsafe` holds; `handler` is where a request's coroutine is. `Subscribe`, `Replay`, `Subscribed` are one uninterrupted call (guard `LoopFree`), split so that its loop is visible. `Emit` appends and schedules in one step, as it does on the loop thread |
| `LossyFanout` | what a trace reader is promised | abstract: a history, a backlog per reader, drop-oldest |
| `TraceThreads` | `emit` called from a worker thread | `emit` split into append, copy of the subscriber list, schedule |
| `ChatSessions` | `chat`, `_handle_text_frame`, `_stream_response`; histories of `ServerState` | `handler[c]` is the coroutine of a connection: reading, generating (waits for the thread), sending and replying (wait for the drain). An action runs from one await to the next |
| `ChatMemory` | what a client of `/api/chat` is promised | abstract: the turns each session remembers, who is being answered on what memory, who was told "done" |
| `ServerDaemon` | startup, `load_model`, cleanup and the samples of `app.py`; `/api/health`, `/api/status`; `DmesgWatcher` | `phase` is the application's, `task` the load task and `loader` its thread, which no cancellation stops; `loop` is the telemetry task between its awaits |
| `NpuTokenRuntime` | `_generate_with_npu`, `NpuTokenRuntime`, `TokenSimMmio` | `phase[t]` is the place in the generator, `bus[t]` in `_submit_command`; `Write`, `Kick` and the reads are single register accesses, the points where threads switch |
| `GemmaSession` | the CPU path of `generate`, `attention.py`, `decoder_layer.py`, `weights.py`, the routing of `arch.py` | `chat[c]` is the place in the generator and in the weight look-ups below it; an action is one look into, or one assignment of, a shared dictionary; `state[c]` the position and the K/V rows, each of which says who stored it for which token |
| `GemmaBackends` | `_resolve_backend`, `npu_available`, `npu_backend_readiness` | composes the two: `backend` is resolved once from a request and an environment, then every call takes one path |
| `HostCommands` | both encoders and decoders of the 64-bit words | operators only; a word is the set of its one bits |
| `BitFields` | | shifts, fields and ranges of such words |
| `BareMetal` | `gemma_inference.c` on `npu_driver.c` | `IssueWord`, `Kick`, one action per outcome of a poll, `Readback`; `NpuCompletes` is the device |
| `UcaEncoding`, `UcaDriver` | `uCA_v1_api.c` on `uCA_v1_hal.c` | layouts and routes; `Issue` builds and writes one instruction, `Sync`, `Poll`, `TimeOut` are `uca_hal_wait_idle` |
| `UioAccess` | `NpuMmio` of `uio.py` | `SubmitProgram` and one `Push` per word, the turns of `wait_done`; `Decode` and `Report` are the device, by the docstrings of the file |
| `DataMover` | `dma.py` on `address_map.py` | `CreateChannels` with the map as discovered, `IssueCommand`, `PollStatus` with `Pop` and `PollTimesOut`; `Moves` is the AXI DataMover |
| `RegisterDrivers` | | composes the last four: `user` is the build that runs |
| `BoardSmoke` | both scripts of the smoke runner | `at` is the place in the host script, `remote[r]` in the board script of run `r`, which goes on when the connection breaks |
| `HandoffTools` | `generate_smoke_program.py`, `generate_driver_handoff.py` | operators only: what files each leaves for every way it may end, torn ones included |
| `LocalCandidate` | `run-local-candidate.sh` | one action per kind of step; `check` and `passed`/`failed` are kept apart, as the code does; `files` are those of its runtime dry run |
| `EvidenceScripts` | | composes the two runners: a behaviour runs one of them |
| `DeployFlow` | `deploy_to_kv260.sh`, `pre_deploy_check.py`, `post_deploy_smoke.py` | `step` is the line of the deploy script; `CommandFails` may leave half a file |
| `MC*` | values, sets of inputs and symmetry for TLC | |
| `TraceEmitterProofs`, `TraceThreadsProofs`, `ServerDaemonProofs`, `ChatSessionsProofs`, `GemmaBackendsProofs`, `RegisterDriversProofs`, `EvidenceScriptsProofs`, `DeployFlowProofs` | theorems, section 5 | |

`TraceEmitter` implements `LossyFanout` through `Fanout == INSTANCE LossyFanout
WITH ...`: a reader's backlog is its queue followed by the offers still
scheduled, and a subscription exists for the abstract fan-out from the moment
`subscribe()` has returned. `ChatSessions` implements `ChatMemory` through `Memory ==
INSTANCE ChatMemory WITH ...`: a session remembers the turns whose messages are in its
history, a handler that generates or sends is asking with the history it copied,
and a client is told "done" by the last frame of its reply; tokens, drains and lost
connections are stutters. `BareMetal` extends `HostCommands`: its words are
built by the C encoder and read by the Python decoder. `LocalCandidate` extends
`HandoffTools`, which extends `UcaEncoding`, so that the words of the tool's
program can be compared with those the uCA driver would issue.

`GemmaBackends`, `RegisterDrivers` and `EvidenceScripts` compose parts that never
run together: a selector variable, fixed in the initial state, says which part
takes its steps. The parts share vocabulary, checks and a run, not state.

Conventions. Variables marked *history* in a declaration are not in the code:
they record what a property needs to look back at. Names that end in an
underscore and a word (`Offered_KeepOldest`) are variants of the definition they
are named for, with the mistake the word says; no specification uses them.
`PROJECT.json` names for each property of a passing run a variant that breaks
it, and for each definition the lines it models.

## 3. Runs, bounds and what they show

| Run | Bounds | Shows |
| --- | --- | --- |
| `trace_emitter` | 2 requests, 1 session and the unnamed one, buffer 3, queue 2, 3 events, 2 clock readings | order, filtering, resumption, exact content of a replay; the emitter implements `LossyFanout` |
| `trace_emitter_live` | 2 requests, buffer 1, queue 2, 2 events | offers run and queued events are taken whatever clients do |
| `trace_threads` | a worker and the loop, 2 subscribers, buffer 2, 3 events | nothing is lost between replay and live delivery; at most two copies, and of a loop event one |
| `chat_sessions` | 2 connections, 1 session, 4 messages kept, 3 requests of up to 2 tokens | history equals the transcript of finished turns; answers well formed; token count within one per request; the daemon implements `ChatMemory`; handlers return |
| `gemma_backends` | every request and environment. NPU: 2 chats, also at once, prompts of 2, up to 2 tokens each, 3 tokens in the device, 2 timeouts, 6 commands between resets. CPU: 2 chats at once under one session id, 4 layers of which 2 share, 2 positions, prompts of 1 and 2, 2 calls | NPU: a chat alone on the device gets its own context and new tokens; weights before everything, loaded at most once per chat and timeout. CPU: every layer reads this chat's rows, whole weights, failures only for a cause |
| `server` | log windows of 2 lines, 3 kernel lines, 2 ticks, the signal at any time | health answers true; nothing left open; busy time and kernel lines counted once; every load settles and the daemon exits |
| `register_drivers` | bare metal: prompts of 4 characters, operands empty, lowest bit, highest bit or full, 3 polls. uCA: fields alone or all but one at their highest bit, all routes, 2 instructions in flight, syncs of 0 to 6 us with 3 polls per us and a counter of 16 values. UIO: FIFO of 3, programs of 0 to 4 words, 3 programs. DataMover: FIFOs of 2 and 1, all channels, 2 bases from 3 sources, 3 commands | same words on both hosts; order; success is complete; `main` returns; instruction intact; timeouts not early unless the counter wrapped; programs whole and waits matched; commands reach their channel; statuses ours until a timeout |
| `uca_routes` | the same | *violated*: see section 6 |
| `evidence_scripts` | board: 2 runs, any inputs, own or shared directory. Candidate: unbounded (finite by itself), files of an earlier run present or not | exit codes are earned, blocks are explained, NPU passes were reported; failures are on record, a ready hand-off is whole |
| `board_smoke_summary`, `local_candidate_verdict` | the same | *violated*: see section 6 |
| `deploy` | 3 attempts, 1 rebuild, reboots and smoke tests at any time | the PL is programmed only from one attempt's whole files; a checked deployment programs the current bitstream; a smoke test passes only on what was deployed |

Why the bounds are enough to be interesting:

- Three events against queues of two make every queue overflow, in the replay
  and live, and let a client resume in the middle. Two clock readings give
  events that share a time stamp. The buffer's own overflow is reached in
  `trace_emitter_live` and `trace_threads`, where it is shorter than the log;
  the theorems cover every length.
- Three finished turns against room for two make the history trim. Two
  connections suffice for every interleaving between a copy of the history and
  its extension. One session is the shared one; the instance with two sessions
  (720 591 states) was checked as well and holds, but takes long.
- Six commands between resets hold a prompt, two tokens of the owner and what
  an intruding chat adds; three tokens are fewer than two chats ask for, so the
  exhausted device is reached.
- Four layers hold one of each kind (local or global, with rows of its own or
  shared), as the 35 of E4B do; that the pattern of E4B itself shares soundly is an
  assumption (`GemmaOK`) TLC evaluates with the real numbers. Two positions are
  fewer than prompt and answer need, so a chat runs out of them.
- A watcher window of two lines against three in the log forgets while it looks;
  two ticks separate the beginning of a busy interval, a sample and its end.
- Programs of up to four words against a FIFO of three are refused, just fit
  without their marker, and fit; three programs leave a DONE behind and meet it.
  Three DataMover commands with two tags repeat a tag after a timeout.
- Two runs of the smoke runner suffice for an orphaned board script, an old
  result file and an old blocker; three attempts of a deployment for a half
  finished one between two others.

**Symmetry** is used for slots, sessions and threads in runs without a liveness
property only. **Deadlock** is checked in `trace_threads`, `chat_sessions` and
`deploy`, and not where the program ends or a bound stops it: `trace_emitter*` (the
bound on events, with requests leaked by a failing `prepare`), `gemma_backends`
(the bounds on commands and calls), `server`, `evidence_scripts` and its violated
companions (the program has ended), `register_drivers` and `uca_routes` (`main` has
returned, or a read of the empty status FIFO blocks for ever, as in the code).

**Input ranges.** Set-valued inputs are small on purpose: texts, sampling
parameters, file contents and error messages are dropped or reduced to the
distinctions the properties make. The frames of `ChatSessions` start after JSON
parsing; every frame that is refused is one action.

## 4. Fairness

- `TraceEmitter`: asyncio runs ready callbacks in the order they became ready, so
  a `subscribe()` in progress ends (WF) and a scheduled offer or a
  `queue.get()` that can return is not passed over for ever although others
  disable it for a while by running (SF). Nothing is assumed of clients: a write
  may never complete, a connection may never close, `prepare` may hang.
- `ChatSessions`: the generator thread returns from every `next()`, with a
  token, the end or an exception (WF of the three together); a drain ends since
  the client reads or the 30 s heartbeat closes the connection (WF). Clients are
  not assumed to send or to stay.
- `ServerDaemon`: threads return, since constructing a session, `dmesg` (which is
  given a timeout) and a generator's next item end, and the event loop runs what
  is ready (WF each of `LoaderEnds`, `LoadModelEnds`, `LoadModelCancelled`,
  `ChatEnds`, `CleanUp`, `LoopCancelled`, `Exit`). No signal and no client is
  assumed.
- `RegisterDrivers`: the processor runs nothing but the bare-metal program, so it
  takes its next step (WF of `GemmaStep`). The NPU is not assumed to complete
  anything.

The other specifications are checked for safety only.

## 5. What is proved

Each module of proofs extends the one its name begins with. A theorem holds for
every value of the constants that the `ASSUME` of the module admits: any number
of requests, connections, threads, chats, runs and attempts, any length of
buffers, queues, FIFOs, windows and counters. TLC checks the inductive
invariants too, on the instances of section 3 (`HandoffInv` with one board run, and
`TypeOK` of the emitter, which no cfg lists either); it cannot evaluate `BusyInv` and
`UioInv`, which quantify over numbers and functions.

| Theorem | States |
| --- | --- |
| *`TraceEmitterProofs`* | |
| `TypeCorrect` | `Spec => []TypeOK`, with the bounds of the buffer and of every queue |
| `EmitterConsistent`, `OrderedDelivery` | `Spec => []Consistent`, `Spec => []DeliveredInOrder` |
| `ReplaysNewest` | `Spec => []ReplayIsNewest` |
| `ResumeNeverRepeats` | `Spec => NeverHandedTwice`, an action property |
| `SessionsKeptApart` | `Spec => []OnlyWanted` |
| `ImplementsLossyFanout` | `Spec => FanoutSpec`, the refinement |
| *`TraceThreadsProofs`* | |
| `NothingLostBetween` | `Spec => []NoSilentLoss` |
| *`ServerDaemonProofs`* | |
| `HealthTruthful`, `CleanupComplete` | `Spec => []HealthIsTruthful`, `Spec => []NothingLeftOpen` |
| `BusyTimeSampled` | `Spec => []BusyIsSampledTime` |
| `KernelLinesReported` | `Spec => []KernelLinesOnce` |
| *`ChatSessionsProofs`* | |
| `HistoriesKeepNewest`, `RepliesComeWhole` | `Spec => []KeepsNewestTurns`, `Spec => []RepliesWellFormed` |
| `ImplementsChatMemory` | `Spec => MemorySpec`, the refinement |
| *`GemmaBackendsProofs`* | |
| `TokensOfOwnContext`, `TokensComeOnce`, `WeightsComeFirst` | `OwnContext`, `TokenOnce`, `WeightsFirst` of the NPU path |
| `LayersReadOwnPast`, `WeightsAreWhole`, `FailuresHaveCause` | `ReadsOwnPast`, `WeightsWhole`, `FailsForCause` of the CPU path |
| *`RegisterDriversProofs`* | |
| `HostsSpeakAlike`, `CommandsInOrder`, `ReturnsTheToken` | `HostsAgree`, `InOrder`, `SuccessIsComplete` of the bare-metal program |
| `CallsArriveIntact`, `TimeoutsAreKept` | `InstructionIntact`, `TimeoutIsThatLong` of the uCA driver |
| `ProgramsAreRun` | `ProgramsRunWhole` of the UIO runtime |
| `CommandsArrive`, `StatusesAreTheirs` | `CommandsReachChannel`, `StatusIsOurs` of the DataMover |
| *`EvidenceScriptsProofs`* | |
| `ExitCodesAreEarned`, `NpuPassesWereReported` | `ExitCodeIsEarned`, `NpuPassWasReported` of the smoke runner |
| `FailuresAreOnRecord`, `HandoffsAreWhole` | `FailuresOnRecord`, `HandoffIsWhole` of the local candidate |
| `WordsAgree`, `SmokeWordsAreIssued` | the tools and the C driver encode a call as the same word, for all arguments; so the words of the smoke program are those the driver issues |
| *`DeployFlowProofs`* | |
| `NeverMixed`, `CompleteMeansProgrammed` | `Spec => []NeverLoadsMixed`, `Spec => []CompleteIsProgrammed` |
| `CheckedMeansProgrammed` | `Spec => CheckedIsProgrammed`, an action property |

The theorems of a composed module (`GemmaBackends`, `RegisterDrivers`,
`EvidenceScripts`) are about its specification. Its invariant is the conjunction
of those of the parts, and a part keeps its own since the steps of the others
leave its variables alone.

### The inductive invariants and why they are needed

None of the properties is inductive by itself. What was added:

- **Trace emitter**: `TypeOK /\ Consistent /\ DeliveredInOrder`. That the next
  replayed event is newer than what the client has already read follows only
  since the buffer is in emission order and the clock does not step back, so
  that `since` cuts the buffer where the client stopped; that a replay and live
  delivery do not overlap follows only since nothing is scheduled for a request
  whose `subscribe()` still runs. For `ReplayIsNewest` the loop of the replay
  has its own invariant: what is queued is the newest of what was offered so
  far. The refinement uses the same invariants: `Subscribed` maps to the
  abstract attachment, with the replayed events as the backlog; `RunOffer` to an
  abstract loss when the queue is full and to a stutter when it is not; `Get`
  hands over the oldest event.
- **Trace threads**, `ThreadsInv`: `NoSilentLoss` counts what was offered and what
  is scheduled. An `emit()` in progress has still to schedule something for the
  readers it copied; with that (`Due`) the sum is at least one for each event of
  the buffer and at most two, at every step of every thread.
- **Daemon**: `LifeInv` says what startup, the load task and its thread have left
  behind for each state of the task, and in which order cleanup stops them.
  `BusyInv` ties the accumulator to the samples. `WatchInv` says that of the
  lines up to the newest one remembered the last `MaxLines` all are (`Recent`),
  so that what is new in the log is newer than everything seen, and that the
  lines seen and reported are spread: they grow by at least one from each to the
  next, so that forgetting all but `MaxSeen >= MaxLines` keeps the window. This
  needs what the loop over the log leaves, for a log of any length
  (`FilterLeaves`); `New` is written as a recursive function for it, and what it
  computes is proved from the least line at which it could differ
  (`LeastNumber`, from the well-foundedness of the numbers).
- **Chats**, `ChatInv`: what each place of a handler relies on (`Replying`), and
  that tokens counted and not sent, together with the requests being answered,
  are never more than the requests accepted. `Newest` of a concatenation is
  `Newest` of the concatenation of a `Newest`: this is why a history trimmed at
  every turn is the trimmed transcript. The refinement needs one thing more, that
  cutting the messages of a transcript cuts its turns (`TurnsOf`), for a limit that
  is odd and parts a question from its answer as well: then `Finish` maps to
  `Answer`, which reads the memory of that moment and not the one recalled; `Accept`
  to `Ask`, `Reset` to `Forget`; `Fail`, `HandlerEnds` and a token that cannot be
  sent to `GiveUp`, and `Refuse` to its namesake.
- **NPU path**, `NpuInv`: for a chat that has had the device to itself since its
  reset, the commands the device executed are its own up to the place in its
  generator, plus one between kick and read (`Alone`); a thread that goes on
  loading has seen no load return (`Loads`); the tokens handed out are below
  those the device still has (`Tokens`).
- **CPU path**, `GemInv`: only whole tensors are kept in a cache or handed out, and
  once there they stay until the session closes (`Fetching`); the rows of the
  earlier tokens are stored in every layer, and of this one in the layers so far
  (`Past`).
- **Registers**, `RegistersInv`: fields of disjoint slots are read back as they were
  written, for words as sets of bits; `main` is at its next command and those
  before it were executed (`Executing`, `Issuing`, `Written`, `Finishing`); a poll
  has made the polls it has not left (`SyncOK`); while nothing was dropped, the
  decoder walks over the submitted programs (`Ordered`), and markers and DONE
  words can be lost but never made (`Counted`); the commands that are not answered
  are the newest ones, as many as polls timed out and no mismatch made up for,
  besides the one asked for (`InFlightOK`).
- **Scripts**, `SmokeInv`: who may have written each file of a directory, what the
  host has established at each of its points, what scripts on the board can have
  done by then, and that a run alone in its directory finds nothing there but its
  own. `CandidateInv`: a step still to be run waits once, and none of its checks
  has a verdict. `HandoffInv` adds to `HandoffIsWhole` only the types of the files.
  What is behind it is `WordsAgree`: the two encoders cut a field at the same bit
  and put it in the same place, and the tools' one field that the driver lacks is 0.
  Of the concrete words only the five opcodes are computed.
- **Deployment**, `IInv`: how far a running attempt has come says which files on the
  board and in the firmware tree are its own (`Progress`), and what the pre-deploy
  check compared stays what is copied and installed (`Checked`).

### Assumptions

Those of the modules, which TLC evaluates in the runs. The ones that carry an
argument: the session-less marker of the emitter is no session; the loop thread
is neither a worker nor a client; the watcher remembers at least as many lines as
it looks at (1024 and 20 in the code); shared layers are laid out as `SharesSoundly`
says and layer numbers are natural (`GemmaOK`, which TLC evaluates with the numbers
of E4B); operands fit the types of the encoders (`BareMetalAssumption`). One fact
about the world is in a module and therefore in its proofs: the wall clock does not
step back (`Clock` in `Emit` of `TraceEmitter`), without which `since` cannot work.

### Only model-checked

- Liveness: `OffersRun`, `QueuedIsTaken`, `HandlerReturns`, `Settles`, `MainReturns`.
  The prover has no rule for fairness and `ENABLED`.

## 6. Where code and documents disagree

Three disagreements are kept as runs that TLC must find violated:

- `board_smoke_summary`: a board script that ends with a nonzero code ends the
  host script at line 990 of `run_gemma3n_e4b_smoke.sh`, because
  `run_ssh_logged` switches errexit on again before it returns. No summary and
  no blocker is written, although `docs/KV260_BRINGUP.md:82` asks for both.
- `local_candidate_verdict`: `run_logged` and `run_shell` read `$?` after an
  `if` without `else`, where it is 0, so a failed check counts as a passed step
  and the run ends with `PASS`.
- `uca_routes`: `uca_memcpy` writes the lowest bit of the route's device numbers
  where `docs/ISA_QUICK_REFERENCE.md:54-55` and the smoke program have a
  direction, and the host's number is 0: a copy from the host says `FROM_NPU`.

Others were seen while modelling. The modules have the behaviour, and the
properties of the passing runs are stated so that they say what remains true:

- A reset that is handled while another connection of the session is being
  answered is undone when that answer is appended (`routes_ws.py:174`;
  `docs/RUNTIME_DAEMON.md:98-100` says the frame clears the session).
  `KeepsNewestTurns` and `ChatMemory` therefore count turns *finished* since the reset.
- Two chats that generate at once mix their commands on the device: a step can
  return a token computed from both prompts, and the register between a write
  and its kick may hold the other's command (`inference.py:223`;
  `npu/README.md:13-16` describes one user). `OwnContext` and `TokenOnce`
  speak of a chat that has the device to itself; what others left behind by
  timeouts or abandoned generators is included.
- Two first chats both load the weights (`inference.py:220`; `npu/README.md:4-5`
  says once). `WeightsFirst` says how often it can happen.
- After a `BLOCKED_RTL` the board script goes on to the software fallbacks, which
  overwrite the status (line 657 against `docs/KV260_BRINGUP.md:94`).
- With a shared `PCCX_RUN_ID` a summary may be written from an earlier run's
  result when the fetch fails (line 994). `NpuPassWasReported` accepts a pass of
  any run of that directory, `ExitCodeIsEarned` asks for a blocker only in a
  directory of the run's own.
- When the generator of the hand-off fails, the wrong status above lets the
  dry run go on, and a readable hand-off of an earlier run is reported as ready
  (`run-local-candidate.sh:360-398`). `HandoffIsWhole` says of such a file only
  that it can be read and claims nothing.
- `post_deploy_smoke.py` prints sticky FIFO errors and kernel warnings and exits
  0 (lines 311 and 321-340; its docstring, lines 34-35, says 0 means none).
- `uca_memcpy` keeps one bit of each device number (`uCA_v1_api.c:120-121`), so
  that `UCA_ROUTE_L2_TO_L1_GEMV` and `UCA_ROUTE_GEMV_RES_TO_L2` are the same
  instruction. `InstructionIntact` compares the bits there is room for.
- The poll counter of `uca_sync` wraps from 10737419 us on (`uCA_v1_hal.c:59`);
  `TimeoutIsThatLong` is stated for timeouts below the wrap.
- `NpuMmio.submit_program` accepts eight words and pushes a ninth entry, the kick,
  to a FIFO of eight (`uio.py:132`). `ProgramsRunWhole` is stated for programs
  that found room for the marker too.
- `wait_done` tests its deadline between reads that block while the status FIFO is
  empty (`uio.py:142`), so that it may never return, and a wait that gave up leaves
  its DONE to the next one. `ProgramsRunWhole` compares the number of waits that
  returned True with the number of programs.
- A mismatch of `poll_status` has popped the status it complains about
  (`dma.py:94`), and a tag used again makes a late status pass for the new
  command's. `StatusIsOurs` allows both after a timeout only.
- Cancelling the load leaves its thread to construct a session that nobody closes
  (`app.py:151`). `NothingLeftOpen` says that it never becomes the server's.
- A failure of `dmesg` like the last one is not reported even if successes came in
  between (`telemetry.py:175`). `KernelLinesOnce` says what the remembered key is.
- `close()` empties the weight caches while a generator may be between the test
  for a key and its use (`weights.py:166-168`), which then raises. `FailsForCause`
  accepts that, and a chat that has run out of positions.

## 7. Plan

The order in which the modules were written follows what a user depends on most:
trace stream and its promise; chat; the device path; words and drivers; the
scripts that decide what is claimed about the board; then the daemon's life, the
CPU path, the remaining register primitives and the hand-off generators. Next:

1. **Abstract specifications.** The NPU as an atomic "prompt, then tokens" object
   that `NpuTokenRuntime` implements for one chat at a time; the board as a
   firmware tree and a PL that `DeployFlow` changes file by file. Each refinement is
   to be checked by a run and proved from the invariants of section 5.
2. **Models.** The knowledge rules of `pre_deploy_check.py` as operators on
   abstracted reports; the statuses that `run-timing-evidence.sh` and
   `estimate_tokens_per_second.py` derive from stale or missing reports.
