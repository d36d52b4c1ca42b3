------------------------------ MODULE Desktop -------------------------------
(***************************************************************************)
(* The desktop application: the manager of the embedded daemon and the     *)
(* settings file (gui/src), and the web UI that calls them (webui/src). A  *)
(* click starts a chain of asynchronous steps (a job); jobs interleave at  *)
(* every await. Commands to the application are handled one at a time and  *)
(* answered in order. What is only displayed is left out.                  *)
(***************************************************************************)
EXTENDS DaemonMain

CONSTANTS Job,           \* chains that may run at once
          Ui,            \* the event stream of the web UI
          TokenReadable  \* api_token_path is where the daemon keeps its token

ASSUME DesktopAssumption == HttpWatcher = {Ui} /\ TokenReadable \in BOOLEAN /\ Job # {}

VARIABLES settings,      \* the settings file: mode and token
          child,         \* the manager holds a child process
          ipc,           \* commands on their way: sequence of [job, cmd]
          answers,       \* answers on their way: sequence of [job, value]
          job,           \* job[j]: what the chain awaits
          ui,            \* appState: guiMode, apiBase, token and standalone
          feed           \* the event stream: its state, and what it was opened with

deskVars == <<settings, child, ipc, answers, job, ui, feed>>
vars == <<vaultVars, hookVars, mainVars, deskVars>>

GuiMode == {"standalone", "remote"}
Awaits == {"idle", "gui_load_settings", "gui_save_settings", "gui_start_embedded_daemon",
           "gui_stop_embedded_daemon", "gui_embedded_daemon_status", "snapshot", "event_snapshot"}
Command == Awaits \ {"idle", "snapshot", "event_snapshot"}

RemoteToken == MaxMinted + 1     \* what the user enters for a remote daemon
Token == 0 .. RemoteToken

\* GuiSettings. A remote daemon has an endpoint, the embedded one needs none.
GuiSettings == [mode : GuiMode, token : {Empty, RemoteToken}]
Standalone == [mode |-> "standalone", token |-> Empty]
Remote(token) == [mode |-> "remote", token |-> token]
NoSettings == Remote(Empty)
Base(mode) == IF mode = "remote" THEN "remote" ELSE "none"

\* What a command answers: an error, EmbeddedDaemonStatus, GuiSettings or nothing.
Reply == [ok : BOOLEAN, running : BOOLEAN, token : Token, settings : GuiSettings]
Failed == [ok |-> FALSE, running |-> FALSE, token |-> Empty, settings |-> NoSettings]
NotRunning == [Failed EXCEPT !.ok = TRUE]
Running(token) == [NotRunning EXCEPT !.running = TRUE, !.token = token]

NoFeed == [state |-> "off", token |-> Empty, base |-> "none"]
Idle == [awaits |-> "idle", saves |-> NoSettings]

\* The application has been launched: onMount has called loadDesktopSettings.
Init ==
  /\ VaultInit /\ HooksInit /\ MainInit
  /\ settings \in {NoSettings, Standalone}
  /\ child = FALSE
  /\ answers = <<>>
  /\ LET j == CHOOSE j \in Job : TRUE IN
       /\ ipc = <<[job |-> j, cmd |-> "gui_load_settings"]>>
       /\ job = [i \in Job |-> IF i = j THEN [Idle EXCEPT !.awaits = "gui_load_settings"] ELSE Idle]
  /\ ui = [mode |-> "remote", base |-> "none", token |-> Empty, standalone |-> "stopped"]
  /\ feed = NoFeed

(***************************************************************************)
(* The manager. A daemon that it starts is the only one on these files.    *)
(***************************************************************************)
\* Where the daemon that is started listens and where its token is looked for.
DaemonSpec == [base |-> "embedded", token_path |-> IF TokenReadable THEN {"token"} ELSE {}]

\* No file and an empty file are both no token.
read_optional_token ==
  IF \E f \in DaemonSpec.token_path : file[f] # Absent THEN file["token"] ELSE Empty

Answer(value) == answers' = Append(answers, [job |-> Head(ipc).job, value |-> value])

status ==
  /\ child' = (child /\ pc[Daemon] # "off")
  /\ Answer(IF child' THEN Running(read_optional_token) ELSE NotRunning)
  /\ UNCHANGED <<settings, mainVars, vaultVars>> /\ NoHooks

\* With a child, dead or alive, start is status. Otherwise the process is spawned,
\* unless its directories or its executable are missing, and the token read at once.
start ==
  \/ child /\ status
  \/ /\ ~ child
     /\ child' = TRUE
     /\ Answer(Running(read_optional_token))
     /\ start_process /\ UNCHANGED <<settings, spent>>
  \/ /\ ~ child
     /\ Spend
     /\ Answer(Failed)
     /\ UNCHANGED <<settings, child, pc, mem, vaultVars>> /\ NoHooks /\ NoHistory

\* Mutant: the handle is dropped, which does not end the process.
stop_forgets ==
  /\ child' = FALSE
  /\ Answer(NotRunning)
  /\ UNCHANGED <<settings, mainVars, vaultVars>> /\ NoHooks

\* kill and wait
stop ==
  /\ child' = FALSE
  /\ Answer(NotRunning)
  /\ IF child /\ pc[Daemon] # "off"
       THEN exit /\ UNCHANGED <<settings, spent>>
       ELSE UNCHANGED <<settings, mainVars, vaultVars>> /\ NoHooks

\* The file may be unreadable.
gui_load_settings ==
  /\ \/ Answer([NotRunning EXCEPT !.settings = settings]) /\ UNCHANGED spent
     \/ Answer(Failed) /\ Spend
  /\ UNCHANGED settings

gui_save_settings ==
  \/ /\ settings' = job[Head(ipc).job].saves
     /\ Answer(NotRunning)
     /\ UNCHANGED spent
  \/ Answer(Failed) /\ Spend /\ UNCHANGED settings

gui_settings ==
  /\ IF Head(ipc).cmd = "gui_load_settings" THEN gui_load_settings ELSE gui_save_settings
  /\ UNCHANGED <<child, pc, mem, vaultVars>> /\ NoHooks /\ NoHistory

gui_command ==
  /\ ipc # <<>>
  /\ ipc' = Tail(ipc)
  /\ CASE Head(ipc).cmd = "gui_start_embedded_daemon" -> start
       [] Head(ipc).cmd = "gui_stop_embedded_daemon" -> stop
       [] Head(ipc).cmd = "gui_embedded_daemon_status" -> status
       [] OTHER -> gui_settings
  /\ UNCHANGED <<job, ui, feed>>

(***************************************************************************)
(* The web UI. Pieces of a chain that run without an await are one step.   *)
(***************************************************************************)
Await(j, what) == job' = [job EXCEPT ![j] = [Idle EXCEPT !.awaits = what]]

invoke(j, cmd, saves) ==
  /\ job' = [job EXCEPT ![j] = [awaits |-> cmd, saves |-> saves]]
  /\ ipc' = Append(ipc, [job |-> j, cmd |-> cmd])
  /\ UNCHANGED feed

\* abort of the stream that was open
disconnectEvents == feed' = NoFeed

connectEvents(to) ==
  feed' = IF to.token = Empty THEN NoFeed
          ELSE [state |-> "opening", token |-> to.token, base |-> to.base]

\* refreshSnapshot and then connectEvents, after the state has become `to`.
refreshThenConnect(j, to) ==
  /\ ui' = to
  /\ UNCHANGED ipc
  /\ IF to.token = Empty THEN Await(j, "idle") /\ connectEvents(to)
     ELSE Await(j, "snapshot") /\ UNCHANGED feed

applyEmbeddedDaemonStatus(reply) ==
  IF reply.running
    THEN [mode |-> "standalone", base |-> DaemonSpec.base, token |-> reply.token,
          standalone |-> "running"]
    ELSE [ui EXCEPT !.standalone = "stopped"]

\* setGuiMode, setDaemonApiBase and setToken
Applied(s) == [ui EXCEPT !.mode = s.mode, !.base = Base(s.mode), !.token = s.token]

loadDesktopSettings(j, reply) ==
  \/ ~ reply.ok /\ refreshThenConnect(j, ui)
  \/ /\ reply.ok /\ reply.settings.mode = "standalone"
     /\ ui' = Applied(reply.settings)
     /\ invoke(j, "gui_embedded_daemon_status", NoSettings)
  \/ /\ reply.ok /\ reply.settings.mode = "remote"
     /\ refreshThenConnect(j, Applied(reply.settings))

\* A save that fails ends the chain.
saveDesktopSettings(j, reply) ==
  LET to == Applied(job[j].saves) IN
  \/ ~ reply.ok /\ Await(j, "idle") /\ UNCHANGED <<ui, ipc, feed>>
  \/ /\ reply.ok /\ to.mode = "standalone"
     /\ ui' = [to EXCEPT !.standalone = "starting"]
     /\ invoke(j, "gui_start_embedded_daemon", NoSettings)
  \/ reply.ok /\ to.mode = "remote" /\ refreshThenConnect(j, to)

startStandaloneDaemon(j, reply) ==
  refreshThenConnect(j, IF reply.ok THEN applyEmbeddedDaemonStatus(reply)
                        ELSE [ui EXCEPT !.standalone = "error"])

stopStandaloneDaemon(j) ==
  /\ ui' = [ui EXCEPT !.base = "none", !.standalone = "stopped", !.token = Empty]
  /\ disconnectEvents /\ Await(j, "idle") /\ UNCHANGED ipc

\* The continuation of job j with the answer of its command.
continue(j, reply) ==
  CASE job[j].awaits = "gui_load_settings" -> loadDesktopSettings(j, reply)
    [] job[j].awaits = "gui_save_settings" -> saveDesktopSettings(j, reply)
    [] job[j].awaits = "gui_stop_embedded_daemon" -> stopStandaloneDaemon(j)
    [] OTHER -> startStandaloneDaemon(j, reply)

NoDaemon == UNCHANGED <<vaultVars, pc, mem>> /\ NoHistory

\* Closing or replacing the feed closes the stream in the daemon.
FeedStream ==
  stream' = IF feed.state = "open" /\ feed' # feed THEN [stream EXCEPT ![Ui] = 0] ELSE stream

HooksButStream == UNCHANGED <<next_id, sent, call, dispatcher, next, skipped, delivery>>

answered ==
  /\ answers # <<>>
  /\ answers' = Tail(answers)
  /\ continue(Head(answers).job, Head(answers).value)
  /\ FeedStream /\ HooksButStream
  /\ UNCHANGED <<settings, child, spent>> /\ NoDaemon

\* loadSnapshot succeeded or failed, which only the display tells apart.
snapshot(j) ==
  /\ job[j].awaits \in {"snapshot", "event_snapshot"}
  /\ Await(j, "idle")
  /\ IF job[j].awaits = "snapshot" THEN connectEvents(ui) ELSE UNCHANGED feed
  /\ FeedStream /\ HooksButStream
  /\ UNCHANGED <<settings, child, ipc, answers, ui, spent>> /\ NoDaemon

\* saveDesktopConnection, stopStandalone, and saveToken with the token shown, which
\* is also what an endpoint that is refused comes down to.
click(j) ==
  /\ job[j].awaits = "idle"
  /\ Spend
  /\ \/ \E saves \in {Standalone, Remote(RemoteToken)} :
          invoke(j, "gui_save_settings", saves) /\ UNCHANGED ui
     \/ invoke(j, "gui_stop_embedded_daemon", NoSettings) /\ UNCHANGED ui
     \/ refreshThenConnect(j, ui)
  /\ FeedStream /\ HooksButStream
  /\ UNCHANGED <<settings, child, answers>> /\ NoDaemon

\* The fetch of streamEvents: authorize, then subscribe. A remote daemon is outside.
open_feed ==
  /\ feed.state = "opening"
  /\ IF HttpUp /\ authorize(feed.token) /\ feed.base = DaemonSpec.base
       THEN feed' = [feed EXCEPT !.state = "open"] /\ subscribe(Ui)
       ELSE feed' = NoFeed /\ UNCHANGED stream
  /\ HooksButStream
  /\ UNCHANGED <<settings, child, ipc, answers, job, ui, spent>> /\ NoDaemon

\* An event refreshes the snapshot, in a chain of its own.
on_event(j) ==
  /\ feed.state = "open" /\ stream[Ui] # 0
  /\ job[j].awaits = "idle"
  /\ watch(Ui)
  /\ IF ui.token = Empty THEN UNCHANGED job ELSE Await(j, "event_snapshot")
  /\ HooksButStream
  /\ UNCHANGED <<settings, child, ipc, answers, ui, feed, spent>> /\ NoDaemon

\* The daemon has ended the stream.
feed_ends ==
  /\ feed.state = "open" /\ stream[Ui] = 0
  /\ disconnectEvents
  /\ UNCHANGED <<settings, child, ipc, answers, job, ui, spent>> /\ NoDaemon /\ NoHooks

(***************************************************************************)
(* The specification                                                       *)
(***************************************************************************)
web_ui == answered \/ open_feed \/ feed_ends \/ \E j \in Job : snapshot(j) \/ click(j) \/ on_event(j)

daemon_step ==
  /\ main_step \/ world_step \/ hooks_step \/ \E w \in Watcher \ HttpWatcher : follow(w)
  /\ UNCHANGED deskVars

command_line == cli_step /\ UNCHANGED deskVars

Next == gui_command \/ web_ui \/ daemon_step \/ command_line

\* tokio runs main and the dispatcher when they can go on. Calls, deliveries and
\* clients may take as long as they like.
Fairness ==
  /\ WF_vars(main_step /\ UNCHANGED deskVars)
  /\ WF_vars(run_dispatcher /\ UNCHANGED <<deskVars, vaultVars, mainVars>>)

Spec == Init /\ [][Next]_vars
FairSpec == Spec /\ Fairness

(***************************************************************************)
(* Properties                                                              *)
(***************************************************************************)
\* Every record and counter stays within its type; what a daemon has served are
\* whole TLS identities, never a certificate without a key (load_or_generate).
TypeOK ==
  /\ file \in [File -> Stored \cup {Absent}] /\ tmp \in [File -> Stored \cup {Absent}]
  /\ saving \in [Process -> Save \cup {NoSave}] /\ minted \in Stored
  /\ pc \in [Process -> Starting \cup Stopping \cup {"off", "running", "saving"}]
  /\ mem \in [{"token", "localsend", "native"} -> Stored]
  /\ \A v \in Vault : served[v] \subseteq (1 .. MaxMinted) \X (1 .. MaxMinted)
  /\ identities \subseteq 1 .. MaxMinted
  /\ next \in 1 .. MaxEvents + 1 /\ Len(sent) <= MaxEvents /\ skipped \subseteq Position
  /\ \A c \in Call : call[c].pc \in CallState
  /\ \A i \in DOMAIN answers : answers[i].value \in Reply
  /\ \A i \in DOMAIN ipc : ipc[i].cmd \in Command
  /\ settings \in GuiSettings /\ ui.token \in Token
  /\ \A j \in Job : job[j].awaits \in Awaits

\* The secrets of a node survive restarts, crashes and errors at any point: every
\* TLS identity a daemon has served is one certificate with its own key and is what
\* the vault still holds (the reason given in start_native_runtime for persisting
\* it: peers pin the fingerprint), the token in use is the token on disk, and unless
\* a command of the CLI has interfered every process used the identity on disk.
IdentityKept ==
  /\ \A v \in Vault : \A pair \in served[v] :
       pair[1] = pair[2] /\ pair = <<file[cert_path[v]], file[key_path[v]]>>
  /\ mem.token # Empty => mem.token = file["token"]
  /\ ~ disturbed => \A k \in identities : k = file["identity"]

\* An event that the dispatcher has behind it went to every hook once, with no more
\* attempts than configured, or was lost to lag, and lost only when as many later
\* events as the channel holds had been sent (run_dispatcher, HookSinks::dispatch).
HookAccounting ==
  \A i \in Position :
    LET to == {s \in Sink : delivery[<<i, s>>].state # "none"} IN
    /\ to = IF i < next /\ i \notin skipped THEN Sink ELSE {}
    /\ i \in skipped => i < next /\ i + Capacity <= Len(sent)
    /\ \A s \in to : delivery[<<i, s>>].attempts \in 1 .. Attempts(s)

\* After a signal main comes to its end as long as no client keeps an event stream
\* or a call open: the graceful shutdown of the servers and of the dispatcher does
\* not wait for anything else (main, stop_http_runtime, stop_hook_dispatcher).
ShutdownEnds ==
  []<>(pc[Daemon] \notin Stopping \/ HttpStreams # {} \/ GrpcStreams # {} \/ Busy # {})

\* When the web UI says stopped and no command is on its way, no daemon that the
\* application started is alive, whatever chains of clicks overlapped
\* (EmbeddedDaemonManager::stop, stopStandaloneDaemon).
StoppedMeansDead ==
  ui.standalone = "stopped" /\ ipc = <<>> /\ answers = <<>> => pc[Daemon] = "off" /\ ~ child
=============================================================================
