---------------------------- MODULE ServerDaemon ----------------------------
(***************************************************************************)
(* The life of the daemon process: create_app's startup and cleanup,       *)
(* ServerState.load_model and the NPU samples of app.py, /api/health and   *)
(* /api/status of routes_http.py, and the kernel log watcher of            *)
(* telemetry.py. One event loop runs everything between two awaits as one  *)
(* step; the constructor of the session, the generators of chats and       *)
(* dmesg run in worker threads, which no cancellation stops.               *)
(***************************************************************************)
EXTENDS Integers, Sequences, FiniteSets

CONSTANTS MaxLines,   \* newest kernel lines the watcher looks at (20)
          MaxSeen,    \* line hashes it remembers (1024)
          MaxClock,   \* bound of the model: the time
          MaxKernel   \* bound of the model: kernel lines

ASSUME DaemonOK ==
  /\ MaxLines \in Nat \ {0} /\ MaxSeen \in Nat /\ MaxLines <= MaxSeen
  /\ MaxClock \in Nat /\ MaxKernel \in Nat

VARIABLES phase,      \* of the application, from "starting" to "exited"
          modelPath,  \* was a model asked for?
          task,       \* the load task
          loader,     \* the thread that constructs the session
          session,    \* ServerState.session
          loading,    \* ServerState.loading
          loadError,  \* ServerState.load_error is not None
          chatting,   \* a worker thread is generating
          loop,       \* the telemetry task
          clock,      \* time.monotonic()
          npuBusy,    \* BUSY in the last status word the runtime saw
          busySince,  \* npu_busy_started_at, as a set of at most one time
          busyTotal,  \* npu_busy_total_sec
          sampled,    \* history: the last sample, and the time that samples
                      \* found the NPU busy at their beginning
          kernel,     \* lines the kernel logged
          seen,       \* DmesgWatcher._seen
          seenSet,    \* DmesgWatcher._seen_set
          lastError,  \* DmesgWatcher._last_error_key
          found,      \* what collect() returns: lines, or at most one error
          emitted     \* history: the lines of dmesg_event, the last dmesg_watch_error

lifeVars == <<phase, modelPath, task, loader, session, loading, loadError, chatting>>
npuVars == <<clock, npuBusy, busySince, busyTotal, sampled>>
watchVars == <<kernel, seen, seenSet, lastError, found, emitted>>
vars == <<lifeVars, loop, npuVars, watchVars>>

Nothing == [lines |-> <<>>, error |-> {}]

\* main() and create_app; --no-model starts without one.
Init ==
  /\ phase = "starting" /\ modelPath \in BOOLEAN
  /\ task = "none" /\ loader = "none" /\ session = "none"
  /\ loading = FALSE /\ loadError = FALSE /\ chatting = FALSE
  /\ loop = "none"
  /\ clock = 0 /\ npuBusy = FALSE /\ busySince = {} /\ busyTotal = 0
  /\ sampled = [at |-> 0, busy |-> FALSE, sum |-> 0]
  /\ kernel = 0 /\ seen = <<>> /\ seenSet = {} /\ lastError = "none"
  /\ found = Nothing /\ emitted = [lines |-> <<>>, error |-> "none"]

-----------------------------------------------------------------------------
(* Loading.                                                                *)

ModelLoaded == session # "none" /\ ~loading /\ ~loadError

\* health_payload; "loading" and "error" are answered with 503.
HealthStatus == IF loading THEN "loading" ELSE IF loadError THEN "error" ELSE "ready"

\* _on_startup. The load task runs up to its first await before the server
\* accepts connections. A telemetry interval of 0 starts no loop.
Startup ==
  /\ phase = "starting"
  /\ phase' = "serving"
  /\ loading' = modelPath
  /\ task' = IF modelPath THEN "running" ELSE "none"
  /\ loader' = IF modelPath THEN "running" ELSE "none"
  /\ loop' \in {"none", "sleeping"}
  /\ UNCHANGED <<modelPath, session, loadError, chatting, npuVars, watchVars>>

\* _construct_gemma_session returns or raises; nobody may be waiting any more.
LoaderEnds ==
  /\ loader = "running"
  /\ loader' \in {"built", "raised"}
  /\ UNCHANGED <<phase, modelPath, task, session, loading, loadError, chatting,
                 loop, npuVars, watchVars>>

LoadModelEnds_NoError ==
  /\ task = "running" /\ loader \in {"built", "raised"}
  /\ task' = "done" /\ loading' = FALSE
  /\ session' = IF loader = "built" THEN "open" ELSE "none"
  /\ UNCHANGED <<phase, modelPath, loader, loadError, chatting, loop, npuVars, watchVars>>

\* load_model after to_thread; the session has no load, open or initialize.
LoadModelEnds ==
  /\ task = "running" /\ loader \in {"built", "raised"}
  /\ task' = "done" /\ loading' = FALSE
  /\ session' = IF loader = "built" THEN "open" ELSE "none"
  /\ loadError' = (loader = "raised")
  /\ UNCHANGED <<phase, modelPath, loader, chatting, loop, npuVars, watchVars>>

\* CancelledError passes `except Exception` and the finally clause.
LoadModelCancelled ==
  /\ task = "cancelled"
  /\ task' = "done" /\ loading' = FALSE
  /\ UNCHANGED <<phase, modelPath, loader, session, loadError, chatting, loop,
                 npuVars, watchVars>>

-----------------------------------------------------------------------------
(* Samples of the NPU.                                                     *)

Annotated_KeepsStart(busy) ==
  /\ busySince' = IF busy /\ busySince = {} THEN {clock} ELSE busySince
  /\ busyTotal' = IF ~busy /\ busySince # {}
                  THEN busyTotal + clock - (CHOOSE t \in busySince : TRUE) ELSE busyTotal

\* annotate_npu_sample
Annotated(busy) ==
  /\ busySince' = IF ~busy THEN {} ELSE IF busySince = {} THEN {clock} ELSE busySince
  /\ busyTotal' = IF ~busy /\ busySince # {}
                  THEN busyTotal + clock - (CHOOSE t \in busySince : TRUE) ELSE busyTotal

\* npu_busy_duration_ms of the sample just taken.
BusyDuration ==
  busyTotal + IF busySince = {} THEN 0 ELSE sampled.at - (CHOOSE t \in busySince : TRUE)

\* read_npu_status and npu_status do not ask the device: they tell what the
\* last word said that the token runtime read.
ReadNpuStatus == npuBusy

\* status_payload
Sample ==
  /\ Annotated(ReadNpuStatus)
  /\ sampled' = [at |-> clock, busy |-> ReadNpuStatus,
                 sum |-> sampled.sum + IF sampled.busy THEN clock - sampled.at ELSE 0]
  /\ UNCHANGED <<clock, npuBusy>>

Tick ==
  /\ clock < MaxClock /\ phase = "serving"
  /\ clock' = clock + 1
  /\ UNCHANGED <<lifeVars, loop, npuBusy, busySince, busyTotal, sampled, watchVars>>

\* GET /api/status; the telemetry loop samples on its own.
Status ==
  /\ phase = "serving"
  /\ Sample
  /\ UNCHANGED <<lifeVars, loop, watchVars>>

ChatStarts ==
  /\ phase = "serving" /\ ModelLoaded /\ ~chatting
  /\ chatting' = TRUE
  /\ UNCHANGED <<phase, modelPath, task, loader, session, loading, loadError, loop,
                 npuVars, watchVars>>

\* The generator's thread reads status words; it may give up at any of them.
ChatPolls ==
  /\ chatting
  /\ npuBusy' \in BOOLEAN
  /\ UNCHANGED <<lifeVars, loop, clock, busySince, busyTotal, sampled, watchVars>>

\* The end of an answer takes a sample, unless its handler is gone.
ChatEnds ==
  /\ chatting /\ chatting' = FALSE
  /\ \/ phase \in {"serving", "draining"} /\ Sample
     \/ UNCHANGED npuVars
  /\ UNCHANGED <<phase, modelPath, task, loader, session, loading, loadError, loop, watchVars>>

-----------------------------------------------------------------------------
(* The telemetry loop and the kernel log.                                  *)

LoopWakes ==
  /\ loop = "sleeping"
  /\ loop' = "collecting"
  /\ Sample
  /\ UNCHANGED <<lifeVars, watchVars>>

KernelLogs ==
  /\ kernel < MaxKernel /\ phase = "serving"
  /\ kernel' = kernel + 1
  /\ UNCHANGED <<lifeVars, loop, npuVars, seen, seenSet, lastError, found, emitted>>

\* _tail_nonempty, oldest first.
Tail20 == [i \in 1 .. (IF kernel < MaxLines THEN kernel ELSE MaxLines) |->
             (IF kernel < MaxLines THEN 0 ELSE kernel - MaxLines) + i]

\* The lines that are not known, in the order of the loop over them.
Unknown(lines, known) ==
  LET kept[n \in 0 .. Len(lines)] ==
        IF n = 0 THEN <<>>
        ELSE IF lines[n] \in known THEN kept[n - 1] ELSE Append(kept[n - 1], lines[n])
  IN kept[Len(lines)]

New == Unknown(Tail20, seenSet)

Newest(list, n) == SubSeq(list, IF Len(list) > n THEN Len(list) - n + 1 ELSE 1, Len(list))

Remembered_Newest(lines) ==
  /\ seen' = SubSeq(seen \o lines, 1, IF Len(seen \o lines) > MaxSeen THEN MaxSeen ELSE Len(seen \o lines))
  /\ seenSet' = {seen'[i] : i \in DOMAIN seen'}

\* _remember of every line: the oldest leave the list and the set.
Remembered(lines) ==
  /\ seen' = Newest(seen \o lines, MaxSeen)
  /\ seenSet' = {seen'[i] : i \in DOMAIN seen'}

\* DmesgWatcher.collect in its thread; dmesg may fail in several ways, and a
\* failure like the last one is not reported again.
Collect ==
  /\ loop = "collecting"
  /\ loop' = "collected"
  /\ \/ Remembered(New) /\ found' = [lines |-> New, error |-> {}] /\ UNCHANGED lastError
     \/ \E key \in {"exc", "returncode"} :
          /\ found' = [lines |-> <<>>, error |-> {key} \ {lastError}]
          /\ lastError' = key
          /\ UNCHANGED <<seen, seenSet>>
  /\ UNCHANGED <<lifeVars, npuVars, kernel, emitted>>

LoopEmits ==
  /\ loop = "collected"
  /\ loop' = "sleeping"
  /\ emitted' = [lines |-> emitted.lines \o found.lines,
                 error |-> IF found.error = {} THEN emitted.error
                           ELSE CHOOSE key \in found.error : TRUE]
  /\ found' = Nothing
  /\ UNCHANGED <<lifeVars, npuVars, kernel, seen, seenSet, lastError>>

-----------------------------------------------------------------------------
(* Shutdown.                                                               *)

LoopAlive == loop \in {"sleeping", "collecting", "collected"}

\* SIGTERM: aiohttp stops listening, waits for the handlers and cancels them.
Stop ==
  /\ phase = "serving"
  /\ phase' = "draining"
  /\ UNCHANGED <<modelPath, task, loader, session, loading, loadError, chatting, loop,
                 npuVars, watchVars>>

CleanUpTelemetry_NoCancel ==
  /\ phase = "draining" /\ phase' = "telemetry"
  /\ loop' = loop
  /\ UNCHANGED <<modelPath, task, loader, session, loading, loadError, chatting, npuVars, watchVars>>

\* _on_cleanup, up to the first await.
CleanUpTelemetry ==
  /\ phase = "draining" /\ phase' = "telemetry"
  /\ loop' = IF LoopAlive THEN "cancelled" ELSE loop
  /\ UNCHANGED <<modelPath, task, loader, session, loading, loadError, chatting,
                 npuVars, watchVars>>

\* The loop is woken at its await with CancelledError; what a collection
\* found is lost.
LoopCancelled ==
  /\ loop = "cancelled" /\ loop' = "done"
  /\ found' = Nothing
  /\ UNCHANGED <<lifeVars, npuVars, kernel, seen, seenSet, lastError, emitted>>

CleanUpLoad ==
  /\ phase = "telemetry" /\ loop \in {"none", "done"} /\ phase' = "load"
  /\ task' = IF task = "running" THEN "cancelled" ELSE task
  /\ UNCHANGED <<modelPath, loader, session, loading, loadError, chatting, loop,
                 npuVars, watchVars>>

CleanUpSession_Unawaited ==
  /\ phase = "load" /\ phase' = "stopped"
  /\ UNCHANGED <<modelPath, task, loader, session, loading, loadError, chatting, loop, npuVars, watchVars>>

\* close_session
CleanUpSession ==
  /\ phase = "load" /\ task \in {"none", "done"} /\ phase' = "stopped"
  /\ session' = IF session = "open" THEN "closed" ELSE session
  /\ UNCHANGED <<modelPath, task, loader, loading, loadError, chatting, loop,
                 npuVars, watchVars>>

\* The interpreter joins the worker threads.
Exit ==
  /\ phase = "stopped" /\ loader # "running" /\ ~chatting
  /\ phase' = "exited"
  /\ UNCHANGED <<modelPath, task, loader, session, loading, loadError, chatting, loop,
                 npuVars, watchVars>>

CleanUp == CleanUpTelemetry \/ CleanUpLoad \/ CleanUpSession

Next ==
  \/ Startup \/ LoaderEnds \/ LoadModelEnds \/ LoadModelCancelled
  \/ Tick \/ Status \/ ChatStarts \/ ChatPolls \/ ChatEnds
  \/ LoopWakes \/ KernelLogs \/ Collect \/ LoopEmits
  \/ Stop \/ CleanUp \/ LoopCancelled \/ Exit

\* The event loop runs what is ready and threads return: construction and
\* dmesg, which has a timeout, end, and so does a generator's next item.
Fairness ==
  /\ WF_vars(LoaderEnds) /\ WF_vars(LoadModelEnds) /\ WF_vars(LoadModelCancelled)
  /\ WF_vars(ChatEnds)
  /\ WF_vars(CleanUp) /\ WF_vars(LoopCancelled) /\ WF_vars(Exit)

Spec == Init /\ [][Next]_vars /\ Fairness

-----------------------------------------------------------------------------
\* Whoever asks /api/health or starts a chat learns the truth: a model that
\* was asked for counts as loaded exactly when there is a session to
\* generate with, and the load that failed is told from the one that runs.
HealthIsTruthful ==
  phase \in {"serving", "draining"} =>
    /\ ModelLoaded <=> session = "open"
    /\ HealthStatus = "ready" /\ modelPath => ModelLoaded
    /\ HealthStatus = "error" => loader = "raised"

\* Wherever the signal meets the load, once cleanup is over no session is
\* left open and none is stored any more: one that was loaded is closed, one
\* whose load was cancelled never became the server's.
NothingLeftOpen ==
  phase \in {"stopped", "exited"} =>
    session # "open" /\ ~loading /\ task \in {"none", "done"}

\* However the telemetry loop, /api/status and the ends of chats share the
\* accumulator, the duration reported is the time between two samples, the
\* first of which found the NPU busy: nothing counted twice or dropped.
BusyIsSampledTime == BusyDuration = sampled.sum

\* The watcher reports a kernel line once, in order, though it looks at the
\* same lines again and again and forgets the oldest, and what it remembers
\* it has reported or is about to; so with the way dmesg failed last. Only
\* shutdown loses what it found.
KernelLinesOnce ==
  LET lines == emitted.lines \o found.lines IN
  /\ \A i, j \in DOMAIN lines : i < j => lines[i] < lines[j]
  /\ loop \notin {"cancelled", "done"} =>
       /\ seenSet \subseteq {lines[i] : i \in DOMAIN lines}
       /\ lastError \in found.error \cup {emitted.error}

\* A load ends in an answer of /api/health, and after the signal the daemon
\* exits, whichever of its tasks and threads are running.
Settles ==
  /\ loading ~> ~loading
  /\ phase = "draining" ~> phase = "exited"
=============================================================================
