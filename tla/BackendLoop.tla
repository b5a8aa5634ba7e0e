----------------------------- MODULE BackendLoop -----------------------------
(***************************************************************************)
(* The life of a backend process: run_backend_loop and BackendEnv          *)
(* (backends/common/mod.rs), the RPC listener (backends/common/rpc.rs) and *)
(* the vhost-user serving loop (backends/vhost/backend_loop.rs).           *)
(*                                                                         *)
(* The main thread builds the environment, starts the background worker    *)
(* and waits for its report, starts the RPC listener and serves one client *)
(* after the other until an error; leaving run_backend_loop drops the      *)
(* environment, which stops and joins the worker.  Any step that can fail  *)
(* may fail, and the worker's thread may panic.  A new process may follow  *)
(* on the files that the last one left.                                    *)
(***************************************************************************)
EXTENDS Naturals, Sequences, FiniteSets

CONSTANTS
    MaxFetches,     \* bound on the requests queued for the worker
    MaxRuns,        \* bound on the number of processes
    MaxServes       \* bound on the clients one process serves

VARIABLES
    pc,         \* where the main thread is
    conf,       \* [metadata, rpc]: what the configuration asks for
    env,        \* BackendEnv: [config, sender, thread], what its Options hold
    worker,     \* the bgworker thread: none, building, up, ended
    startup,    \* the startup channel: none, empty, ok, err, gone
    requests,   \* the request channel of the worker
    io,         \* the threads that serve a client: none, running
    files,      \* the socket files, by name
    listener,   \* the RPC listener's thread: none, running
    serves, runs

vars == <<pc, conf, env, worker, startup, requests, io, files, listener, serves, runs>>

NoEnv      == [config |-> FALSE, sender |-> FALSE, thread |-> FALSE]

Start ==
    /\ pc = "build" /\ env = NoEnv /\ worker = "none" /\ startup = "none"
    /\ requests = <<>> /\ io = "none" /\ listener = "none" /\ serves = 0

BInit ==
    /\ Start /\ runs = 1
    /\ conf \in [metadata : BOOLEAN, rpc : BOOLEAN]
    /\ files \in [{"rpc", "vhost"} -> {"absent", "unremovable"}]

-----------------------------------------------------------------------------
(* The main thread.                                                        *)

\* An error leaves run_backend_loop; the environment is dropped on the way.
Fails == pc' = "exit_send"

\* BackendEnv::build: without a metadata path there is no worker.  A device,
\* the metadata or the lazy device may fail, and then there is no environment.
Build ==
    /\ pc = "build"
    /\ \/ pc' = "ended" /\ env' = NoEnv
       \/ /\ pc' = "start_worker"
          /\ env' = [config |-> conf.metadata, sender |-> conf.metadata, thread |-> FALSE]
    /\ UNCHANGED <<conf, worker, startup, requests, io, files, listener, serves, runs>>

\* run_bgworker_thread, first half; a failed spawn drops the worker's
\* configuration and with it the receiver.
SpawnWorker ==
    /\ pc = "start_worker"
    /\ \/ ~env.config /\ pc' = "start_rpc" /\ UNCHANGED <<worker, startup>>
       \/ env.config /\ pc' = "recv_startup" /\ worker' = "building" /\ startup' = "empty"
       \/ env.config /\ Fails /\ worker' = "ended" /\ UNCHANGED startup
    /\ env' = [env EXCEPT !.config = FALSE, !.thread = worker' = "building"]
    /\ UNCHANGED <<conf, requests, io, files, listener, serves, runs>>

\* ... second half: recv fails when the sender is gone, and a reported error
\* is returned.
RecvStartup ==
    /\ pc = "recv_startup" /\ startup # "empty"
    /\ IF startup = "ok" THEN pc' = "start_rpc" ELSE Fails
    /\ UNCHANGED <<conf, env, worker, startup, requests, io, files, listener, serves, runs>>

\* A socket is bound under UmaskGuard, so that it is never open to others.
Bind(file) == files' = [files EXCEPT ![file] = "restricted"]

\* start_rpc_server: remove what is there, bind, set the permissions, spawn
\* the listener.  (The permissions are already those that set_permissions sets.)
StartRpc ==
    /\ pc = "start_rpc"
    /\ \/ ~conf.rpc /\ pc' = "serve" /\ UNCHANGED <<files, listener>>
       \/ conf.rpc /\ files["rpc"] = "unremovable" /\ Fails /\ UNCHANGED <<files, listener>>
       \/ /\ conf.rpc /\ files["rpc"] # "unremovable" /\ Fails /\ UNCHANGED listener
          /\ \/ files' = [files EXCEPT !["rpc"] = "absent"]     \* bind fails
             \/ Bind("rpc")                                     \* spawn fails
       \/ /\ conf.rpc /\ files["rpc"] # "unremovable" /\ pc' = "serve"
          /\ Bind("rpc") /\ listener' = "running"
    /\ UNCHANGED <<conf, env, worker, startup, requests, io, serves, runs>>

\* serve_vhost up to daemon.start: a new backend with its queue threads.
Serve ==
    /\ pc = "serve" /\ serves < MaxServes
    /\ \/ Fails /\ UNCHANGED <<files, io>>
       \/ /\ files["vhost"] # "unremovable" /\ Bind("vhost")
          /\ \/ pc' = "serving" /\ io' = "running"
             \/ Fails /\ io' = io
    /\ serves' = serves + 1
    /\ UNCHANGED <<conf, env, worker, startup, requests, listener, runs>>

\* daemon.wait returns and the queue threads are told to exit; a client that
\* went away is served by the next round of the loop, another error is returned.
ServeEnds ==
    /\ pc = "serving" /\ io' = "none"
    /\ pc' = "serve" \/ Fails
    /\ UNCHANGED <<conf, env, worker, startup, requests, files, listener, serves, runs>>

\* stop_bgworker_thread, from BackendEnv::drop.  The sender is one of several
\* (the lazy device has a clone), so the worker needs the message.
StopSend ==
    /\ pc = "exit_send"
    /\ requests' = IF env.sender /\ worker \in {"building", "up"}
                   THEN Append(requests, "Shutdown") ELSE requests
    /\ env' = [env EXCEPT !.sender = FALSE] /\ pc' = "exit_join"
    /\ UNCHANGED <<conf, worker, startup, io, files, listener, serves, runs>>

\* Mutant of StopJoin: the thread is detached.
StopJoinDetached ==
    /\ pc = "exit_join"
    /\ env' = NoEnv /\ pc' = "ended"
    /\ UNCHANGED <<conf, worker, startup, requests, io, files, listener, serves, runs>>

StopJoin ==
    /\ pc = "exit_join" /\ (env.thread => worker = "ended")
    /\ env' = NoEnv /\ pc' = "ended"
    /\ UNCHANGED <<conf, worker, startup, requests, io, files, listener, serves, runs>>

\* The process is gone, its threads with it; the socket files stay.
Restart ==
    /\ pc = "ended" /\ runs < MaxRuns /\ runs' = runs + 1
    /\ files' = [f \in DOMAIN files |->
                   IF files[f] = "restricted" THEN "stale" ELSE files[f]]
    /\ pc' = "build" /\ env' = NoEnv /\ worker' = "none" /\ startup' = "none"
    /\ requests' = <<>> /\ io' = "none" /\ listener' = "none" /\ serves' = 0
    /\ UNCHANGED conf

-----------------------------------------------------------------------------
(* The bgworker thread.                                                    *)

\* build_bgworker succeeds or fails and reports; a report nobody waits for
\* ends the thread, which cannot happen while the main thread is in recv.
WorkerBuilt ==
    /\ worker = "building"
    /\ \/ worker' = "up" /\ startup' = "ok"
       \/ worker' = "ended" /\ startup' = "err"
    /\ UNCHANGED <<pc, conf, env, requests, io, files, listener, serves, runs>>

\* The unwinding thread drops the sender of the startup channel.
WorkerPanics ==
    /\ worker \in {"building", "up"}
    /\ worker' = "ended"
    /\ startup' = IF startup = "empty" THEN "gone" ELSE startup
    /\ UNCHANGED <<pc, conf, env, requests, io, files, listener, serves, runs>>

\* run: one request at a time until Shutdown; without requests the thread
\* blocks in recv, as some sender always exists.
WorkerRuns ==
    /\ worker = "up" /\ requests # <<>>
    /\ requests' = Tail(requests)
    /\ worker' = IF Head(requests) = "Shutdown" THEN "ended" ELSE "up"
    /\ UNCHANGED <<pc, conf, env, startup, io, files, listener, serves, runs>>

-----------------------------------------------------------------------------
(* The queue threads and the RPC listener.                                 *)

SendFetch ==
    /\ io = "running" /\ conf.metadata /\ worker = "up" /\ Len(requests) < MaxFetches
    /\ requests' = Append(requests, "Fetch")
    /\ UNCHANGED <<pc, conf, env, worker, startup, io, files, listener, serves, runs>>

\* run_listener on an error of accept other than Interrupted.
ListenerEnds ==
    /\ listener = "running" /\ pc # "ended" /\ listener' = "none"
    /\ files' = [files EXCEPT !["rpc"] = "absent"]
    /\ UNCHANGED <<pc, conf, env, worker, startup, requests, io, serves, runs>>

MainStep   == Build \/ SpawnWorker \/ RecvStartup \/ StartRpc \/ Serve \/ StopSend \/ StopJoin
WorkerStep == WorkerBuilt \/ WorkerRuns

BNext == MainStep \/ ServeEnds \/ Restart \/ WorkerStep \/ WorkerPanics
         \/ SendFetch \/ ListenerEnds

\* Threads that can run do run; clients, panics and faults need not happen.
BSpec == BInit /\ [][BNext]_vars /\ WF_vars(MainStep) /\ WF_vars(WorkerStep)

-----------------------------------------------------------------------------
\* When run_backend_loop has returned no background worker is left, on every
\* path, so that its metadata writes never outlive the process's main thread.
NoWorkerLeft == pc = "ended" => worker \in {"none", "ended"}

\* A client of a device with metadata is only served after the worker has
\* reported that it could be built.
ServedWithWorker == pc = "serving" /\ conf.metadata => startup = "ok"

\* While clients are served a live RPC socket file has a thread behind it.
RpcSocketAnswers ==
    pc = "serving" /\ files["rpc"] = "restricted" => listener = "running"

=============================================================================
