----------------------------- MODULE DaemonMain -----------------------------
(***************************************************************************)
(* The daemon process from start to exit (daemon/main.rs): the secrets are *)
(* loaded or created, hooks, API, LocalSend receiver, native listener and  *)
(* WAN loop are started in this order, and stopped in the reverse order    *)
(* after a signal. An error ends the process wherever it is. Commands of   *)
(* the CLI load or create the same identity meanwhile.                     *)
(***************************************************************************)
EXTENDS Vaults, EventHooks

CONSTANTS Daemon,        \* the daemon process
          Cli,           \* the process of a CLI command
          Enabled,       \* runtimes that arguments and configuration enable
          HttpWatcher,   \* the watchers that use the HTTP API; others use gRPC
          MaxSpent       \* bound on what users, networks and disks do

ASSUME DaemonAssumption ==
  /\ Process = {Daemon, Cli} /\ Daemon # Cli
  /\ Enabled \subseteq {"api", "localsend", "native", "wan"}
  /\ "wan" \in Enabled => "native" \in Enabled
  /\ HttpWatcher \subseteq Watcher
  /\ MaxSpent \in Nat

VARIABLES pc,            \* pc[p]: the point that process p has reached
          mem,           \* the daemon's token and certificates
          spent,         \* choices of users, networks and disks so far
          identities,    \* history: identities that some process has used
          served,        \* history: served[v]: <<cert, key>> that a daemon used
          disturbed      \* history: an identity was saved by two processes at
                         \* once, or replaced by `identity rotate`

mainVars == <<pc, mem, spent, identities, served, disturbed>>

Starting == {"config", "identity", "token", "trust_store", "grpc", "http", "localsend",
             "localsend_bind", "native", "native_bind", "wan"}
Stopping == {"stop_wan", "stop_native", "stop_localsend", "stop_http", "await_http",
             "stop_grpc", "await_grpc", "stop_hooks", "await_hooks"}

\* The runtime that a step of main starts.
RuntimeOf == [grpc |-> "api", http |-> "api", localsend_bind |-> "localsend",
              native_bind |-> "native", wan |-> "wan"]

NoMem == [token |-> Empty, localsend |-> Empty, native |-> Empty]

MainInit ==
  /\ pc = [p \in Process |-> "off"]
  /\ mem = NoMem
  /\ spent = 0
  /\ identities = {}
  /\ served = [v \in Vault |-> {}]
  /\ disturbed = FALSE

Spend == spent < MaxSpent /\ spent' = spent + 1
NoHooks == UNCHANGED hookVars
NoHistory == UNCHANGED <<identities, served, disturbed>>

\* The APIs accept connections until they are told to stop.
GrpcUp == pc[Daemon] \in {"http", "localsend", "localsend_bind", "native", "native_bind", "wan",
                          "running", "stop_wan", "stop_native", "stop_localsend", "stop_http",
                          "await_http", "stop_grpc"} /\ "api" \in Enabled
HttpUp == GrpcUp /\ pc[Daemon] \notin {"http", "await_http", "stop_grpc"}

Goto(p, to) == pc' = [pc EXCEPT ![p] = to]

(***************************************************************************)
(* Exit: at an error, at the end of main, or because the process is killed *)
(***************************************************************************)
exit ==
  /\ Goto(Daemon, "off")
  /\ mem' = NoMem
  /\ saving' = [saving EXCEPT ![Daemon] = NoSave]
  /\ drop_tasks
  /\ UNCHANGED <<file, tmp, minted>> /\ NoHistory

start_process ==
  /\ pc[Daemon] = "off"
  /\ Goto(Daemon, "config")
  /\ UNCHANGED <<mem, vaultVars>> /\ NoHooks /\ NoHistory

killed == pc[Daemon] # "off" /\ Spend /\ exit

(***************************************************************************)
(* Secrets                                                                 *)
(***************************************************************************)
Uses(k) == identities' = identities \cup {k}

\* A save begins. Two at once on the identity disturb it.
Begins(p, f) ==
  /\ saving[p] = NoSave
  /\ minted < MaxMinted
  /\ minted' = minted + 1
  /\ saving' = [saving EXCEPT ![p] = Saves(f, minted + 1)]
  /\ disturbed' = (disturbed \/ (f = "identity" /\ \E q \in Process : saving[q].file = f))
  /\ UNCHANGED <<file, tmp, identities, served>>

\* A step of the save that p is in, up to the rename.
Writes(p) ==
  /\ open_tmp(p) \/ write_tmp(p)
  /\ UNCHANGED <<pc, mem>> /\ NoHooks /\ NoHistory

\* load_or_create_identity
load_or_create_identity ==
  /\ pc[Daemon] = "identity" /\ saving[Daemon] = NoSave
  /\ \/ /\ load("identity") = "found"
        /\ Uses(file["identity"])
        /\ Goto(Daemon, "token")
        /\ UNCHANGED <<vaultVars, mem, served, disturbed>> /\ NoHooks
     \/ load("identity") = "error" /\ exit
     \/ load("identity") = "none" /\ Begins(Daemon, "identity") /\ UNCHANGED <<pc, mem>> /\ NoHooks

\* FsApiTokenVault::load_or_generate
load_or_generate_token ==
  /\ pc[Daemon] = "token" /\ saving[Daemon] = NoSave
  /\ \/ /\ load("token") = "found"
        /\ mem' = [mem EXCEPT !.token = file["token"]]
        /\ Goto(Daemon, "trust_store")
        /\ UNCHANGED vaultVars /\ NoHooks /\ NoHistory
     \/ load("token") = "error" /\ exit
     \/ load("token") = "none" /\ Begins(Daemon, "token") /\ UNCHANGED <<pc, mem>> /\ NoHooks

BindOf == [localsend |-> "localsend_bind", native |-> "native_bind"]

\* load_or_generate of TlsIdentityVault and NativeTlsVault, when the runtime is
\* enabled at all.
load_or_generate(v) ==
  /\ pc[Daemon] = v /\ v \in Enabled /\ saving[Daemon] = NoSave
  /\ \/ /\ load_pair(v) = "found"
        /\ mem' = [mem EXCEPT ![v] = file[cert_path[v]]]
        /\ served' = [served EXCEPT ![v] = @ \cup {<<file[cert_path[v]], file[key_path[v]]>>}]
        /\ Goto(Daemon, BindOf[v])
        /\ UNCHANGED <<vaultVars, identities, disturbed>> /\ NoHooks
     \/ load_pair(v) = "error" /\ exit
     \/ load_pair(v) = "none" /\ Begins(Daemon, cert_path[v]) /\ UNCHANGED <<pc, mem>> /\ NoHooks

\* The rename of the daemon's save: the secret is in use from here on. After the
\* certificate comes its key.
renamed ==
  LET f == saving[Daemon].file
      value == saving[Daemon].value
      certs == {v \in Vault : f = cert_path[v]}
      keys == {v \in Vault : f = key_path[v]}
      keyOf == key_path[CHOOSE v \in certs : TRUE]
      v == CHOOSE x \in keys : TRUE
  IN  /\ rename_tmp(Daemon, IF certs # {} THEN Saves(keyOf, value) ELSE NoSave)
      /\ UNCHANGED minted /\ NoHooks
      /\ \/ f = "identity" /\ Uses(value) /\ Goto(Daemon, "token")
            /\ UNCHANGED <<mem, served, disturbed>>
         \/ f = "token" /\ mem' = [mem EXCEPT !.token = value] /\ Goto(Daemon, "trust_store")
            /\ NoHistory
         \/ certs # {} /\ UNCHANGED <<pc, mem>> /\ NoHistory
         \/ /\ keys # {}
            /\ mem' = [mem EXCEPT ![v] = value]
            /\ served' = [served EXCEPT ![v] = @ \cup {<<value, value>>}]
            /\ Goto(Daemon, BindOf[v])
            /\ UNCHANGED <<identities, disturbed>>

\* A command of the CLI has renamed the daemon's temporary file away.
rename_fails == RenameFails(Daemon) /\ exit

(***************************************************************************)
(* The other steps of main                                                 *)
(***************************************************************************)
\* main goes on with the next point.
Proceed(from, to) ==
  /\ pc[Daemon] = from
  /\ Goto(Daemon, to)
  /\ UNCHANGED <<mem, vaultVars>> /\ NoHistory

\* A file that is not there means the defaults.
load_daemon_config == Proceed("config", "identity") /\ NoHooks

\* TrustStore::open, and the hook dispatcher subscribes before there is an API.
open_trust_store ==
  /\ Proceed("trust_store", "grpc")
  /\ start_hook_dispatcher
  /\ UNCHANGED <<next_id, sent, call, skipped, delivery, stream>>

start_grpc_runtime == Proceed("grpc", "http") /\ NoHooks
start_http_runtime == Proceed("http", "localsend") /\ NoHooks

\* After the TLS identity: the server is bound and its tasks are spawned.
start_localsend_v2 ==
  /\ \/ Proceed("localsend_bind", "native")
     \/ "localsend" \notin Enabled /\ Proceed("localsend", "native")
  /\ NoHooks

start_native_runtime ==
  /\ \/ Proceed("native_bind", "wan")
     \/ "native" \notin Enabled /\ Proceed("native", "wan")
  /\ NoHooks

start_wan_runtime == Proceed("wan", "running") /\ NoHooks

start_runtime ==
  \/ load_daemon_config \/ open_trust_store
  \/ start_grpc_runtime \/ start_http_runtime
  \/ start_localsend_v2 \/ start_native_runtime \/ start_wan_runtime

\* A file that cannot be read or parsed, or that validate refuses.
load_config_fails == pc[Daemon] = "config" /\ Spend /\ exit

\* A database that does not open, a port that is taken.
start_fails ==
  /\ pc[Daemon] \in {"trust_store", "grpc", "http", "localsend_bind", "native_bind", "wan"}
  /\ pc[Daemon] \in DOMAIN RuntimeOf => RuntimeOf[pc[Daemon]] \in Enabled
  /\ Spend /\ exit

wait_for_shutdown ==
  /\ pc[Daemon] = "running"
  /\ Spend
  /\ Goto(Daemon, "stop_wan")
  /\ UNCHANGED <<mem, vaultVars>> /\ NoHooks /\ NoHistory

HttpStreams == {w \in HttpWatcher : stream[w] # 0}
GrpcStreams == {w \in Watcher \ HttpWatcher : stream[w] # 0}
Busy == {c \in Call : call[c].pc \in {"starting", "running", "ending"}}

\* A graceful shutdown waits for streams and calls that are still open.
Waits(at) == \/ at = "await_http" /\ (HttpStreams # {} \/ Busy # {})
             \/ at = "await_grpc" /\ GrpcStreams # {}
             \/ at = "await_hooks" /\ dispatcher # "ended"

stop_wan_runtime == Proceed("stop_wan", "stop_native") /\ NoHooks

\* The endpoint is closed, and with it every connection and its handler.
stop_native_runtime == Proceed("stop_native", "stop_localsend") /\ NoHooks

stop_localsend_v2 == Proceed("stop_localsend", "stop_http") /\ NoHooks

\* The signal, and then the task.
stop_http_runtime ==
  /\ \/ Proceed("stop_http", "await_http")
     \/ ~ Waits("await_http") /\ Proceed("await_http", "stop_grpc")
  /\ NoHooks

stop_grpc_runtime ==
  /\ \/ Proceed("stop_grpc", "await_grpc")
     \/ ~ Waits("await_grpc") /\ Proceed("await_grpc", "stop_hooks")
  /\ NoHooks

tell_dispatcher ==
  /\ Proceed("stop_hooks", "await_hooks")
  /\ dispatcher' = "told"
  /\ UNCHANGED <<next_id, sent, call, next, skipped, delivery, stream>>

stop_runtime ==
  \/ stop_wan_runtime \/ stop_native_runtime \/ stop_localsend_v2
  \/ stop_http_runtime \/ stop_grpc_runtime \/ tell_dispatcher

\* The LocalSend server or announcer had ended with an error: main returns and the
\* runtimes after it are not stopped.
stop_fails == pc[Daemon] = "stop_localsend" /\ "localsend" \in Enabled /\ Spend /\ exit

\* The end of stop_hook_dispatcher, and of main.
stop_hook_dispatcher == pc[Daemon] = "await_hooks" /\ ~ Waits("await_hooks") /\ exit

(***************************************************************************)
(* CLI commands that need the identity                                     *)
(***************************************************************************)
\* load_or_create_keypair and `identity show`
load_or_create_keypair ==
  /\ pc[Cli] = "off"
  /\ Spend
  /\ \/ load("identity") = "found" /\ Uses(file["identity"])
        /\ UNCHANGED <<pc, vaultVars, served, disturbed>>
     \/ load("identity") = "error" /\ UNCHANGED <<pc, vaultVars>> /\ NoHistory
     \/ load("identity") = "none" /\ Goto(Cli, "saving") /\ Begins(Cli, "identity")
  /\ UNCHANGED mem /\ NoHooks

\* `identity rotate --yes`
rotate ==
  /\ pc[Cli] = "off"
  /\ Spend
  /\ saving[Cli] = NoSave /\ minted < MaxMinted
  /\ minted' = minted + 1
  /\ saving' = [saving EXCEPT ![Cli] = Saves("identity", minted + 1)]
  /\ disturbed' = TRUE
  /\ Goto(Cli, "saving")
  /\ UNCHANGED <<file, tmp, mem, identities, served>> /\ NoHooks

cli_renamed ==
  /\ rename_tmp(Cli, NoSave)
  /\ Uses(saving[Cli].value)
  /\ Goto(Cli, "off")
  /\ UNCHANGED <<minted, mem, served, disturbed>> /\ NoHooks

\* The rename finds nothing to rename, or the command is interrupted.
cli_ends ==
  /\ pc[Cli] = "saving"
  /\ (RenameFails(Cli) /\ UNCHANGED spent) \/ Spend
  /\ saving' = [saving EXCEPT ![Cli] = NoSave]
  /\ Goto(Cli, "off")
  /\ UNCHANGED <<file, tmp, minted, mem>> /\ NoHooks /\ NoHistory

(***************************************************************************)
(* API calls, event streams and hooks                                      *)
(***************************************************************************)
\* The bearer token is checked by each API in its own way.
authorize(token) == token # Empty /\ token = mem.token
authorize_metadata(token) == token # Empty /\ token = mem.token

\* Clients other than the desktop application read the token file.
load_api_token == file["token"]

send_transfer(c) ==
  /\ HttpUp /\ authorize(load_api_token)
  /\ Spend /\ take_id(c, "idle", "starting")

hooks_step ==
  /\ \/ \E c \in Call : send_transfer(c)
     \/ \E c \in Call : (emit(c) \/ take_id(c, "running", "ending")) /\ UNCHANGED spent
     \/ (recv \/ run_dispatcher) /\ UNCHANGED spent
     \/ \E d \in DOMAIN delivery :
          (exec_ends(d) \/ webhook_ends(d) \/ is_retryable(d)) /\ UNCHANGED spent
  /\ UNCHANGED <<vaultVars, pc, mem>> /\ NoHistory

StreamsOnly ==
  /\ UNCHANGED <<next_id, sent, call, dispatcher, next, skipped, delivery, vaultVars, pc, mem>>
  /\ NoHistory

\* A client other than the desktop application follows the events of EventsService.
follow(w) ==
  /\ \/ /\ stream[w] = 0 /\ GrpcUp /\ authorize_metadata(load_api_token)
        /\ Spend /\ subscribe(w)
     \/ stream[w] # 0 /\ close(w) /\ UNCHANGED spent
     \/ watch(w) /\ UNCHANGED spent
  /\ StreamsOnly

\* What main does by itself, and what others do to it.
main_step ==
  /\ \/ load_or_create_identity
     \/ load_or_generate_token
     \/ \E v \in Vault : load_or_generate(v)
     \/ Writes(Daemon) \/ renamed \/ rename_fails
     \/ start_runtime
     \/ stop_runtime
     \/ stop_hook_dispatcher
  /\ UNCHANGED spent

world_step == load_config_fails \/ start_fails \/ wait_for_shutdown \/ stop_fails \/ killed

cli_step ==
  \/ load_or_create_keypair
  \/ rotate
  \/ (Writes(Cli) \/ cli_renamed) /\ UNCHANGED spent
  \/ cli_ends
=============================================================================
