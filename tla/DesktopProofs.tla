---------------------------- MODULE DesktopProofs ----------------------------
(***************************************************************************)
(* Theorems about the desktop application and its daemon, for any number   *)
(* of calls, hooks, watchers and chains of clicks: secrets survive, every  *)
(* event is accounted for, and a daemon that the web UI shows as stopped   *)
(* is dead.                                                                *)
(***************************************************************************)
EXTENDS Desktop, FiniteSetTheorems, TLAPS

(***************************************************************************)
(* Secrets. Who saves a file has found it missing, a key is only written   *)
(* beside its certificate, and a save that no other process interferes     *)
(* with has its own bytes in the temporary file when it comes to the       *)
(* rename. The identity is the one file that two processes may save.       *)
(***************************************************************************)
Secret == 1 .. MaxMinted
Points == Starting \cup Stopping \cup {"off", "running", "saving"}

PointTypes == pc \in [Process -> Points]

SecretTypes ==
  /\ file \in [File -> Stored \cup {Absent}]
  /\ tmp \in [File -> Stored \cup {Absent}]
  /\ saving \in [Process -> Save \cup {NoSave}]
  /\ minted \in Stored
  /\ mem \in [{"token", "localsend", "native"} -> Stored]
  /\ served \in [Vault -> SUBSET (Secret \X Secret)]
  /\ identities \subseteq Secret
  /\ disturbed \in BOOLEAN

\* No other process can be in the way of a save of f.
Alone(f) == f # "identity" \/ ~ disturbed

\* The save of process p.
SaveInv(p) ==
  LET s == saving[p] IN
  s # NoSave =>
    /\ s.value \in Secret
    /\ p = Cli => s.file = "identity"
    /\ Alone(s.file) => /\ s.step # "open" => s.handle = "tmp"
                        /\ s.step = "rename" => tmp[s.file] = s.value
                        /\ s.file \in {"identity", "token"} => file[s.file] = Absent
    /\ \A v \in Vault :
         /\ s.file = cert_path[v] => file[cert_path[v]] = Absent /\ file[key_path[v]] = Absent
         /\ s.file = key_path[v] => file[cert_path[v]] = s.value /\ file[key_path[v]] = Absent

FileInv ==
  /\ \A f \in File \ {"identity"} : file[f] # Empty
  /\ \A v \in Vault : file[key_path[v]] # Absent => file[cert_path[v]] = file[key_path[v]]
  /\ ~ disturbed => ~ (saving[Daemon].file = "identity" /\ saving[Cli].file = "identity")

SecretInv == SecretTypes /\ FileInv /\ IdentityKept /\ \A p \in Process : SaveInv(p)

(***************************************************************************)
(* Events.                                                                 *)
(***************************************************************************)
DeliveryType == [state : {"none", "sending", "over"}, attempts : Nat]

\* The bus is new until the hook dispatcher has subscribed.
Early == pc[Daemon] \in {"off", "config", "identity", "token", "trust_store"}

\* Calls that have taken an id and have not yet sent their event.
Emitting == {c \in Call : call[c].pc \in {"starting", "ending"}}

EventInv ==
  /\ next_id \in 1 .. MaxEvents + 1
  /\ sent \in Seq(Nat)
  /\ call \in [Call -> [pc : CallState, id : Nat]]
  /\ next \in 1 .. Len(sent) + 1
  /\ skipped \subseteq 1 .. next - 1
  /\ delivery \in [Position \X Sink -> DeliveryType]
  /\ IsFiniteSet(Emitting)
  /\ Len(sent) + Cardinality(Emitting) = next_id - 1
  /\ Early => sent = <<>> /\ \A c \in Call : call[c].pc = "idle"
  /\ HookAccounting

(***************************************************************************)
(* The window.                                                             *)
(***************************************************************************)
\* What the continuation makes of the reply to cmd: the state shown.
SaysRunning(cmd, reply) ==
  /\ cmd \in {"gui_start_embedded_daemon", "gui_embedded_daemon_status"}
  /\ reply.ok /\ reply.running
SaysStopped(cmd, reply) ==
  \/ cmd = "gui_stop_embedded_daemon"
  \/ /\ cmd \in {"gui_start_embedded_daemon", "gui_embedded_daemon_status"}
     /\ reply.ok /\ ~ reply.running

ShowsRunning(a) == SaysRunning(job[a.job].awaits, a.value)
ShowsStopped(a) == SaysStopped(job[a.job].awaits, a.value)

JobState == [awaits : Awaits, saves : GuiSettings]
UiState == [mode : GuiMode, base : {"none", "remote", "embedded"}, token : Token,
            standalone : {"stopped", "starting", "running", "error"}]

WindowTypes ==
  /\ settings \in GuiSettings
  /\ child \in BOOLEAN
  /\ ipc \in Seq([job : Job, cmd : Command])
  /\ answers \in Seq([job : Job, value : Reply])
  /\ job \in [Job -> JobState]
  /\ ui \in UiState

\* A chain awaits the command it has sent, and waits for one answer.
ChainInv ==
  /\ \A i \in DOMAIN ipc : job[ipc[i].job].awaits = ipc[i].cmd
  /\ \A i \in DOMAIN answers : job[answers[i].job].awaits \in Command
  /\ \A i, k \in DOMAIN ipc : ipc[i].job = ipc[k].job => i = k
  /\ \A i, k \in DOMAIN answers : answers[i].job = answers[k].job => i = k
  /\ \A i \in DOMAIN ipc, k \in DOMAIN answers : ipc[i].job # answers[k].job

\* While the manager has a child, an answer that will show it is behind every one
\* that shows none.
ShownInv ==
  /\ pc[Daemon] # "off" => child
  /\ child => /\ ui.standalone = "stopped" => \E k \in DOMAIN answers : ShowsRunning(answers[k])
              /\ \A i \in DOMAIN answers : ShowsStopped(answers[i]) =>
                   \E k \in DOMAIN answers : k > i /\ ShowsRunning(answers[k])

WindowInv == WindowTypes /\ ChainInv /\ ShownInv


(***************************************************************************)
(* The steps, by what they do to the secrets.                              *)
(***************************************************************************)
NoSecrets == UNCHANGED <<file, tmp, saving, minted, mem, identities, served, disturbed>>

\* A secret that was found is used.
FindsIdentity ==
  /\ load("identity") = "found" /\ Uses(file["identity"])
  /\ UNCHANGED <<file, tmp, saving, minted, mem, served, disturbed>>
FindsToken ==
  /\ load("token") = "found" /\ mem' = [mem EXCEPT !.token = file["token"]]
  /\ UNCHANGED <<file, tmp, saving, minted, identities, served, disturbed>>
FindsPair(v) ==
  /\ load_pair(v) = "found"
  /\ mem' = [mem EXCEPT ![v] = file[cert_path[v]]]
  /\ served' = [served EXCEPT ![v] = @ \cup {<<file[cert_path[v]], file[key_path[v]]>>}]
  /\ UNCHANGED <<file, tmp, saving, minted, identities, disturbed>>

\* A secret that was not found is made.
Makes(p, f) == Begins(p, f) /\ UNCHANGED mem

SecretStep ==
  \/ NoSecrets
  \/ exit
  \/ FindsIdentity \/ FindsToken \/ \E v \in Vault : FindsPair(v)
  \/ load("identity") = "none" /\ \E p \in Process : Makes(p, "identity")
  \/ load("token") = "none" /\ Makes(Daemon, "token")
  \/ \E v \in Vault : load_pair(v) = "none" /\ Makes(Daemon, cert_path[v])
  \/ \E p \in Process : Writes(p)
  \/ renamed \/ rotate \/ cli_renamed \/ cli_ends

\* Every step is one of these.
LEMMA SecretForms ==
  ASSUME [Next]_vars
  PROVE  SecretStep
<1> USE DEF NoHistory, vaultVars
<1>0. Daemon \in Process /\ Cli \in Process
  BY DaemonAssumption, Zenon
<1>1. CASE UNCHANGED vars
  BY <1>1, Zenon DEF vars, mainVars, SecretStep, NoSecrets
<1>2. CASE gui_command
  <2>1. CASE status
    BY <2>1, Zenon DEF status, mainVars, SecretStep, NoSecrets
  <2>2. CASE start
    BY <2>1, <2>2, Zenon DEF start, start_process, SecretStep, NoSecrets
  <2>3. CASE stop
    BY <2>3, Zenon DEF stop, mainVars, SecretStep, NoSecrets
  <2>4. CASE gui_settings
    BY <2>4, Zenon DEF gui_settings, SecretStep, NoSecrets
  <2> QED
    BY <1>2, <2>1, <2>2, <2>3, <2>4, Zenon DEF gui_command
<1>3. CASE web_ui
  <2>1. NoDaemon
    BY <1>3, Zenon DEF web_ui, answered, open_feed, feed_ends, snapshot, click, on_event
  <2> QED
    BY <2>1, Zenon DEF NoDaemon, SecretStep, NoSecrets
<1>4. ASSUME NEW from, NEW to, Proceed(from, to) PROVE NoSecrets
  BY <1>4, Zenon DEF Proceed, NoSecrets
<1>5. CASE daemon_step
  <2>1. CASE main_step
    <3>1. CASE start_runtime
      BY <1>4, <3>1, Zenon
      DEF start_runtime, load_daemon_config, open_trust_store, start_grpc_runtime,
          start_http_runtime, start_localsend_v2, start_native_runtime, start_wan_runtime, SecretStep
    <3>2. CASE stop_runtime
      BY <1>4, <3>2, Zenon
      DEF stop_runtime, stop_wan_runtime, stop_native_runtime, stop_localsend_v2,
          stop_http_runtime, stop_grpc_runtime, tell_dispatcher, SecretStep
    <3>3. CASE load_or_create_identity
      BY <1>0, <3>3, Zenon DEF load_or_create_identity, SecretStep, FindsIdentity, Makes
    <3>4. CASE load_or_generate_token
      BY <3>4, Zenon DEF load_or_generate_token, SecretStep, FindsToken, Makes
    <3>5. ASSUME NEW v \in Vault, load_or_generate(v) PROVE SecretStep
      BY <3>5, Zenon DEF load_or_generate, SecretStep, FindsPair, Makes
    <3>6. CASE Writes(Daemon) \/ renamed \/ rename_fails \/ stop_hook_dispatcher
      BY <1>0, <3>6, Zenon DEF rename_fails, stop_hook_dispatcher, SecretStep
    <3> QED
      BY <2>1, <3>1, <3>2, <3>3, <3>4, <3>5, <3>6, Zenon DEF main_step
  <2>2. CASE world_step
    BY <2>2, Zenon DEF world_step, load_config_fails, start_fails, wait_for_shutdown, stop_fails,
                       killed, SecretStep, NoSecrets
  <2>3. CASE hooks_step
    BY <2>3, Zenon DEF hooks_step, SecretStep, NoSecrets
  <2>4. ASSUME NEW w \in Watcher, follow(w) PROVE SecretStep
    BY <2>4, Zenon DEF follow, StreamsOnly, SecretStep, NoSecrets
  <2> QED
    BY <1>5, <2>1, <2>2, <2>3, <2>4, Zenon DEF daemon_step
<1>6. CASE command_line
  <2>1. CASE load_or_create_keypair
    BY <1>0, <2>1, Zenon DEF load_or_create_keypair, SecretStep, NoSecrets, FindsIdentity, Makes
  <2> QED
    BY <1>0, <1>6, <2>1, Zenon DEF command_line, cli_step, SecretStep
<1> QED
  BY <1>1, <1>2, <1>3, <1>5, <1>6, Zenon DEF Next

\* The names of the files are distinct.
LEMMA Paths ==
  ASSUME NEW v \in Vault
  PROVE  /\ cert_path[v] \in File /\ key_path[v] \in File
         /\ cert_path[v] # key_path[v]
         /\ \A w \in Vault : w # v => cert_path[w] # cert_path[v] /\ key_path[w] # key_path[v]
         /\ \A w \in Vault : cert_path[w] # key_path[v]
         /\ cert_path[v] \notin {"identity", "token"} /\ key_path[v] \notin {"identity", "token"}
BY DEF Vault, File, cert_path, key_path

\* The constants of the vaults.
LEMMA Constants ==
  /\ Process = {Daemon, Cli} /\ Daemon # Cli /\ Daemon \in Process /\ Cli \in Process
  /\ Absent \notin File /\ Absent \notin Stored
  /\ Empty \in Stored /\ Empty \notin Secret /\ Secret \subseteq Stored
  /\ \A k \in Stored : k # Empty => k \in Secret
  /\ {"identity", "token"} \subseteq File
BY DaemonAssumption, VaultAssumption DEF Empty, Stored, Secret, File

\* A process that saves saves some file, and one that does not saves none.
LEMMA SaveFacts ==
  ASSUME SecretTypes, NEW p \in Process
  PROVE  /\ saving[p] # NoSave => saving[p] \in Save /\ saving[p].file \in File
         /\ saving[p] = NoSave => saving[p].file \notin File /\ saving[p].step = "none"
         /\ saving[p].step \in {"open", "write", "rename"} => saving[p] # NoSave
<1>1. saving[p] \in Save \cup {NoSave}
  BY Zenon DEF SecretTypes
<1>2. saving[p] # NoSave => saving[p] \in Save /\ saving[p].file \in File
  BY <1>1 DEF Save
<1>3. saving[p] = NoSave => saving[p].file \notin File /\ saving[p].step = "none"
  BY Constants DEF NoSave
<1> QED
  BY <1>2, <1>3

\* Where the files and the saves stay, what is known about them stays.
LEMMA FilesRest ==
  ASSUME SecretInv, UNCHANGED <<file, tmp, saving, disturbed>>
  PROVE  FileInv' /\ \A p \in Process : SaveInv(p)'
<1>1. FileInv /\ \A p \in Process : SaveInv(p)
  BY Zenon DEF SecretInv
<1>2. FileInv'
  BY <1>1, Zenon DEF FileInv
<1>3. ASSUME NEW p \in Process PROVE SaveInv(p)'
  <2>1. SaveInv(p)
    BY <1>1, Zenon
  <2> QED
    BY <2>1, Zenon DEF SaveInv, Alone
<1> QED
  BY <1>2, <1>3, Zenon

\* A secret that is found is one that was saved whole.
LEMMA FindKeeps ==
  ASSUME SecretInv, FindsIdentity \/ FindsToken \/ \E v \in Vault : FindsPair(v)
  PROVE  SecretInv'
<1>0. UNCHANGED <<file, tmp, saving, minted, disturbed>>
  BY Zenon DEF FindsIdentity, FindsToken, FindsPair
<1>1. FileInv' /\ \A p \in Process : SaveInv(p)'
  BY <1>0, FilesRest, Zenon
<1>2. SecretTypes /\ IdentityKept /\ FileInv
  BY Zenon DEF SecretInv
<1>3. CASE FindsIdentity
  <2>1. file["identity"] \in Secret /\ identities' = identities \cup {file["identity"]}
    BY <1>2, <1>3, Constants DEF FindsIdentity, load, SecretTypes, Uses
  <2>2. UNCHANGED <<mem, served>>
    BY <1>3, Zenon DEF FindsIdentity
  <2>3. SecretTypes'
    BY <1>0, <1>2, <2>1, <2>2, Zenon DEF SecretTypes
  <2>4. IdentityKept'
    BY <1>0, <1>2, <2>1, <2>2, Zenon DEF IdentityKept
  <2> QED
    BY <1>1, <2>3, <2>4, Zenon DEF SecretInv
<1>4. CASE FindsToken
  <2>1. file["token"] \in Stored /\ mem' = [mem EXCEPT !.token = file["token"]]
    BY <1>2, <1>4, Constants DEF FindsToken, load, SecretTypes
  <2>2. UNCHANGED <<identities, served>>
    BY <1>4, Zenon DEF FindsToken
  <2>3. mem' \in [{"token", "localsend", "native"} -> Stored] /\ mem'.token = file["token"]
    BY <1>2, <2>1 DEF SecretTypes
  <2>4. SecretTypes'
    BY <1>0, <1>2, <2>2, <2>3, Zenon DEF SecretTypes
  <2>5. IdentityKept'
    BY <1>0, <1>2, <2>2, <2>3, Zenon DEF IdentityKept
  <2> QED
    BY <1>1, <2>4, <2>5, Zenon DEF SecretInv
<1>5. ASSUME NEW v \in Vault, FindsPair(v) PROVE SecretInv'
  <2> DEFINE pair == <<file[cert_path[v]], file[key_path[v]]>>
  <2>1. /\ file[cert_path[v]] \in Secret /\ file[key_path[v]] = file[cert_path[v]]
        /\ mem' = [mem EXCEPT ![v] = file[cert_path[v]]]
        /\ served' = [served EXCEPT ![v] = @ \cup {pair}]
    <3>1. file[cert_path[v]] # Absent /\ file[key_path[v]] # Absent
      BY <1>5 DEF FindsPair, load_pair
    <3>2. file[cert_path[v]] \in Stored /\ file[cert_path[v]] # Empty
      BY <1>2, <3>1, Paths, Zenon DEF SecretTypes, FileInv
    <3> QED
      BY <1>2, <1>5, <3>1, <3>2, Constants, Zenon DEF FindsPair, FileInv
  <2>2. UNCHANGED identities
    BY <1>5, Zenon DEF FindsPair
  <2>3. mem' \in [{"token", "localsend", "native"} -> Stored] /\ mem'.token = mem.token
    BY <1>2, <2>1, Constants DEF SecretTypes, Vault
  <2>4. pair \in Secret \X Secret /\ pair[1] = pair[2]
    BY <2>1
  <2>5. served' \in [Vault -> SUBSET (Secret \X Secret)]
    BY <1>2, <2>1, <2>4 DEF SecretTypes
  <2>6. SecretTypes'
    BY <1>0, <1>2, <2>2, <2>3, <2>5, Zenon DEF SecretTypes
  <2>7. \A w \in Vault : \A q \in served'[w] : q \in served[w] \/ (w = v /\ q = pair)
    BY <1>2, <2>1 DEF SecretTypes
  <2> HIDE DEF pair
  <2>8. \A w \in Vault : \A q \in served'[w] :
          q[1] = q[2] /\ q = <<file[cert_path[w]], file[key_path[w]]>>
    BY <1>2, <2>4, <2>7 DEF IdentityKept, pair
  <2>9. IdentityKept'
    BY <1>0, <1>2, <2>2, <2>3, <2>8, Zenon DEF IdentityKept
  <2> QED
    BY <1>1, <2>6, <2>9, Zenon DEF SecretInv
<1> QED
  BY <1>3, <1>4, <1>5, Zenon

\* A save that begins has found the file missing.
LEMMA MakeKeeps ==
  ASSUME SecretInv, NEW p \in Process, NEW f \in File, Makes(p, f),
         \/ f = "identity" /\ load("identity") = "none"
         \/ p = Daemon /\ f = "token" /\ load("token") = "none"
         \/ p = Daemon /\ \E v \in Vault : load_pair(v) = "none" /\ f = cert_path[v]
  PROVE  SecretInv'
<1>0. SecretTypes /\ IdentityKept /\ FileInv /\ \A q \in Process : SaveInv(q)
  BY Zenon DEF SecretInv
<1>1. /\ UNCHANGED <<file, tmp, identities, served, mem>> /\ saving[p] = NoSave
      /\ minted \in Stored /\ minted < MaxMinted /\ minted' = minted + 1
      /\ saving' = [saving EXCEPT ![p] = Saves(f, minted + 1)]
      /\ disturbed' = (disturbed \/ (f = "identity" /\ \E q \in Process : saving[q].file = f))
  BY <1>0, Zenon DEF Makes, Begins, SecretTypes
<1>2. minted + 1 \in Secret /\ minted + 1 \in Stored
  BY <1>1, VaultAssumption DEF Stored, Secret
<1> DEFINE s == Saves(f, minted + 1)
<1>3. s \in Save /\ s # NoSave /\ s.file = f /\ s.value = minted + 1 /\ s.step = "open"
  BY <1>2, Constants DEF Saves, Save, NoSave
<1> HIDE DEF s
<1>4. saving'[p] = s /\ \A q \in Process \ {p} : saving'[q] = saving[q]
  BY <1>0, <1>1 DEF SecretTypes, s
<1>5. saving' \in [Process -> Save \cup {NoSave}]
  BY <1>0, <1>1, <1>3, Zenon DEF SecretTypes, s
<1>6. disturbed' \in BOOLEAN /\ (disturbed => disturbed')
  BY <1>0, <1>1, Zenon DEF SecretTypes
<1>7. SecretTypes'
  BY <1>0, <1>1, <1>2, <1>5, <1>6, Zenon DEF SecretTypes
<1>8. IdentityKept'
  BY <1>0, <1>1, <1>6, Zenon DEF IdentityKept
<1>9. FileInv'
  <2>1. ASSUME ~ disturbed', saving'[Daemon].file = "identity", saving'[Cli].file = "identity"
        PROVE  FALSE
    <3>0. PICK q \in Process : q # p
      BY Constants, Zenon
    <3>1. saving'[q] = saving[q] /\ saving'[q].file = "identity"
      BY <1>4, <2>1, <3>0, Constants, Zenon
    <3>2. f = "identity"
      BY <1>3, <1>4, <2>1, Constants, Zenon
    <3> QED
      BY <1>1, <2>1, <3>1, <3>2, Zenon
  <2> QED
    BY <1>0, <1>1, <2>1, Zenon DEF FileInv
<1>10. ASSUME NEW q \in Process PROVE SaveInv(q)'
  <2>1. CASE q = p
    <3>1. p = Cli => f = "identity"
      BY Constants, Zenon
    <3>2. f \in {"identity", "token"} => file[f] = Absent
      BY Paths, Zenon DEF load
    <3>3. \A v \in Vault : f # key_path[v]
      BY Paths, Zenon
    <3>4. \A v \in Vault : f = cert_path[v] => file[cert_path[v]] = Absent /\ file[key_path[v]] = Absent
      <4>1. ASSUME NEW v \in Vault, f = cert_path[v] PROVE load_pair(v) = "none"
        BY <4>1, Paths, Zenon
      <4> QED
        BY <4>1 DEF load_pair
    <3> QED
      BY <1>1, <1>2, <1>3, <1>4, <2>1, <3>1, <3>2, <3>3, <3>4, ZenonT(40) DEF SaveInv
  <2>2. CASE q # p
    <3>1. saving'[q] = saving[q] /\ SaveInv(q)
      BY <1>0, <1>4, <2>2, Zenon
    <3> QED
      BY <1>1, <1>6, <3>1, Zenon DEF SaveInv, Alone
  <2> QED
    BY <2>1, <2>2, Zenon
<1> QED
  BY <1>7, <1>8, <1>9, <1>10, Zenon DEF SecretInv

\* `identity rotate` replaces the identity, which counts as a disturbance.
LEMMA RotateKeeps ==
  ASSUME SecretInv, rotate
  PROVE  SecretInv'
<1>0. SecretTypes /\ IdentityKept /\ FileInv /\ \A q \in Process : SaveInv(q)
  BY Zenon DEF SecretInv
<1>1. /\ UNCHANGED <<file, tmp, identities, served, mem>> /\ disturbed' = TRUE
      /\ minted \in Stored /\ minted < MaxMinted /\ minted' = minted + 1
      /\ saving' = [saving EXCEPT ![Cli] = Saves("identity", minted + 1)]
  BY <1>0, Zenon DEF rotate, SecretTypes
<1>2. minted + 1 \in Secret /\ minted + 1 \in Stored
  BY <1>1, VaultAssumption DEF Stored, Secret
<1> DEFINE s == Saves("identity", minted + 1)
<1>3. s \in Save /\ s # NoSave /\ s.file = "identity" /\ s.value = minted + 1 /\ s.step = "open"
  BY <1>2, Constants DEF Saves, Save, NoSave
<1> HIDE DEF s
<1>4. saving'[Cli] = s /\ \A q \in Process \ {Cli} : saving'[q] = saving[q]
  BY <1>0, <1>1, Constants DEF SecretTypes, s
<1>5. saving' \in [Process -> Save \cup {NoSave}]
  BY <1>0, <1>1, <1>3, Zenon DEF SecretTypes, s
<1>6. SecretTypes' /\ IdentityKept' /\ FileInv'
  BY <1>0, <1>1, <1>2, <1>5, Zenon DEF SecretTypes, IdentityKept, FileInv
<1>7. ASSUME NEW q \in Process PROVE SaveInv(q)'
  <2>1. CASE q = Cli
    BY <1>1, <1>2, <1>3, <1>4, <2>1, Paths, Zenon DEF SaveInv, Alone
  <2>2. CASE q # Cli
    <3>1. saving'[q] = saving[q] /\ SaveInv(q)
      BY <1>0, <1>4, <2>2, Zenon
    <3> QED
      BY <1>1, <3>1, Zenon DEF SaveInv, Alone
  <2> QED
    BY <2>1, <2>2, Zenon
<1> QED
  BY <1>6, <1>7, Zenon DEF SecretInv

\* A process that ends leaves its temporary file behind.
LEMMA EndKeeps ==
  ASSUME SecretInv, exit \/ cli_ends
  PROVE  SecretInv'
<1>0. SecretTypes /\ IdentityKept /\ FileInv /\ \A q \in Process : SaveInv(q)
  BY Zenon DEF SecretInv
<1>1. UNCHANGED <<file, tmp, minted, identities, served, disturbed>> /\ mem' \in {mem, NoMem}
  BY Zenon DEF exit, cli_ends, NoHistory
<1>2. PICK p \in Process : saving' = [saving EXCEPT ![p] = NoSave]
  BY Constants, Zenon DEF exit, cli_ends
<1>3. saving'[p] = NoSave /\ \A q \in Process \ {p} : saving'[q] = saving[q]
  BY <1>0, <1>2 DEF SecretTypes
<1>4. saving' \in [Process -> Save \cup {NoSave}]
  BY <1>0, <1>2, Zenon DEF SecretTypes
<1>5. NoMem \in [{"token", "localsend", "native"} -> Stored] /\ NoMem.token = Empty
  BY Constants DEF NoMem
<1>6. SecretTypes'
  BY <1>0, <1>1, <1>4, <1>5, Zenon DEF SecretTypes
<1>7. IdentityKept'
  BY <1>0, <1>1, <1>5, Zenon DEF IdentityKept
<1>8. FileInv'
  <2>1. \A q \in Process : saving'[q].file = "identity" => saving[q].file = "identity"
    BY <1>0, <1>3, <1>6, SaveFacts, Constants DEF NoSave
  <2> QED
    BY <1>0, <1>1, <2>1, Constants, Zenon DEF FileInv
<1>9. ASSUME NEW q \in Process PROVE SaveInv(q)'
  <2>1. CASE q = p
    BY <1>3, <2>1, Zenon DEF SaveInv
  <2>2. CASE q # p
    <3>1. saving'[q] = saving[q] /\ SaveInv(q)
      BY <1>0, <1>3, <2>2, Zenon
    <3> QED
      BY <1>1, <3>1, Zenon DEF SaveInv, Alone
  <2> QED
    BY <2>1, <2>2, Zenon
<1> QED
  BY <1>6, <1>7, <1>8, <1>9, Zenon DEF SecretInv

\* Two processes save the same file only when the identity is disturbed.
LEMMA Rivals ==
  ASSUME SecretInv, NEW p \in Process, NEW q \in Process, p # q,
         saving[p] # NoSave, saving[q].file = saving[p].file
  PROVE  ~ Alone(saving[p].file)
<1>1. saving[p].file \in File /\ saving[q] # NoSave
  BY SaveFacts, Zenon DEF SecretInv
<1>2. saving[p].file = "identity"
  <2>1. SaveInv(p) /\ SaveInv(q) /\ (p = Cli \/ q = Cli)
    BY Constants, Zenon DEF SecretInv
  <2> QED
    BY <1>1, <2>1, Zenon DEF SaveInv
<1>3. saving[Daemon].file = "identity" /\ saving[Cli].file = "identity"
  <2>1. (p = Daemon /\ q = Cli) \/ (p = Cli /\ q = Daemon)
    BY Constants, Zenon
  <2> QED
    BY <1>2, <2>1, Zenon
<1> QED
  BY <1>2, <1>3, Zenon DEF SecretInv, FileInv, Alone

\* The bytes that are written go to the temporary file, unless the identity is
\* disturbed.
LEMMA WriteKeeps ==
  ASSUME SecretInv, NEW p \in Process, Writes(p)
  PROVE  SecretInv'
<1>0. SecretTypes /\ IdentityKept /\ FileInv /\ \A q \in Process : SaveInv(q)
  BY Zenon DEF SecretInv
<1> DEFINE s == saving[p]
           f == saving[p].file
<1>1. /\ UNCHANGED <<minted, mem, identities, served, disturbed>>
      /\ open_tmp(p) \/ write_tmp(p)
  BY Zenon DEF Writes, NoHistory, open_tmp, write_tmp
<1>2. s # NoSave /\ s \in Save /\ f \in File /\ s.value \in Secret /\ s.value \in Stored
  <2>1. s # NoSave
    BY <1>0, <1>1, SaveFacts, Zenon DEF open_tmp, write_tmp
  <2> QED
    BY <1>0, <2>1, SaveFacts, Constants, Zenon DEF SaveInv
<1>3. /\ saving' \in [Process -> Save \cup {NoSave}]
      /\ \A q \in Process \ {p} : saving'[q] = saving[q]
      /\ saving'[p] # NoSave /\ saving'[p].file = f /\ saving'[p].value = s.value
      /\ saving'[p].step # "open"
      /\ open_tmp(p) => saving'[p].handle = "tmp" /\ saving'[p].step # "rename"
      /\ write_tmp(p) => saving'[p].handle = s.handle
  <2>1. CASE open_tmp(p)
    BY <1>0, <1>2, <2>1, Constants, ZenonT(40) DEF SecretTypes, open_tmp, write_tmp, Save, NoSave
  <2>2. CASE write_tmp(p)
    BY <1>0, <1>2, <2>2, Constants DEF SecretTypes, open_tmp, write_tmp, Save, NoSave
  <2> QED
    BY <1>1, <2>1, <2>2, Zenon
<1>4. /\ tmp' \in [File -> Stored \cup {Absent}]
      /\ \A g \in File \ {f} : tmp'[g] = tmp[g]
      /\ write_tmp(p) /\ s.handle = "tmp" => tmp'[f] = s.value
  BY <1>0, <1>1, <1>2, Constants DEF SecretTypes, open_tmp, write_tmp
<1>5. /\ file' \in [File -> Stored \cup {Absent}]
      /\ \A g \in File \ {f} : file'[g] = file[g]
      /\ Alone(f) => UNCHANGED file
  <2>1. Alone(f) /\ write_tmp(p) => s.handle = "tmp"
    BY <1>0, <1>2, Zenon DEF SaveInv, write_tmp
  <2> QED
    BY <1>0, <1>1, <1>2, <2>1 DEF SecretTypes, open_tmp, write_tmp
<1> HIDE DEF s, f
<1>6. \A g \in File : g # "identity" => file'[g] = file[g]
  BY <1>2, <1>5, Zenon DEF Alone
<1>7. ~ disturbed => UNCHANGED file
  BY <1>2, <1>5, Zenon DEF Alone
<1>8. SecretTypes'
  BY <1>0, <1>1, <1>3, <1>4, <1>5, Zenon DEF SecretTypes
<1>9. \A v \in Vault : file'[cert_path[v]] = file[cert_path[v]] /\ file'[key_path[v]] = file[key_path[v]]
  BY <1>6, Paths, Zenon
<1>10. file'["token"] = file["token"]
  BY <1>6, Constants, Zenon
<1>11. IdentityKept'
  <2>1. ~ disturbed => \A k \in identities : k = file'["identity"]
    BY <1>0, <1>7, Zenon DEF IdentityKept
  <2>2. ASSUME NEW v \in Vault, NEW pair \in served[v]
        PROVE  pair[1] = pair[2] /\ pair = <<file'[cert_path[v]], file'[key_path[v]]>>
    BY <1>0, <1>9, <2>2 DEF IdentityKept
  <2> QED
    BY <1>0, <1>1, <1>10, <2>1, <2>2, Zenon DEF IdentityKept
<1>12. \A q \in Process : saving'[q].file = saving[q].file
  <2>1. saving'[p].file = saving[p].file
    BY <1>3, Zenon DEF f
  <2> QED
    BY <1>3, <2>1, Zenon
<1>13. FileInv'
  BY <1>0, <1>1, <1>6, <1>9, <1>12, Constants, Zenon DEF FileInv
<1>14. ASSUME NEW q \in Process PROVE SaveInv(q)'
  <2>1. CASE q = p
    <3>1. /\ s.value \in Secret
          /\ p = Cli => f = "identity"
          /\ Alone(f) => /\ s.step # "open" => s.handle = "tmp"
                         /\ f \in {"identity", "token"} => file[f] = Absent
          /\ \A v \in Vault :
               /\ f = cert_path[v] => file[cert_path[v]] = Absent /\ file[key_path[v]] = Absent
               /\ f = key_path[v] => file[cert_path[v]] = s.value /\ file[key_path[v]] = Absent
      BY <1>0, <1>2, Zenon DEF SaveInv, s, f
    <3>2. write_tmp(p) => s.step # "open"
      BY DEF write_tmp, s
    <3>3. Alone(f) => /\ saving'[p].handle = "tmp"
                      /\ saving'[p].step = "rename" => tmp'[f] = saving'[p].value
                      /\ f \in {"identity", "token"} => file'[f] = Absent
      BY <1>1, <1>3, <1>4, <1>5, <3>1, <3>2, Zenon
    <3>4. saving'[p].file # "identity" \/ ~ disturbed' => Alone(f)
      BY <1>1, <1>3, Zenon DEF Alone
    <3> QED
      BY <1>3, <1>9, <2>1, <3>1, <3>3, <3>4, Zenon DEF SaveInv, Alone
  <2>2. CASE q # p
    <3>1. saving'[q] = saving[q] /\ SaveInv(q)
      BY <1>0, <1>3, <2>2, Zenon
    <3>2. CASE saving[q] = NoSave
      BY <3>1, <3>2, Zenon DEF SaveInv
    <3>3. CASE saving[q] # NoSave /\ saving[q].file = f
      <4>1. ~ Alone(saving[q].file)
        BY <1>2, <2>2, <3>3, Rivals, Zenon DEF f, s
      <4> QED
        BY <1>1, <1>9, <3>1, <4>1, Zenon DEF SaveInv, Alone
    <3>4. CASE saving[q] # NoSave /\ saving[q].file # f
      <4>1. saving[q].file \in File
        BY <1>0, <3>4, SaveFacts, Zenon
      <4>2. tmp'[saving[q].file] = tmp[saving[q].file] /\ file'[saving[q].file] = file[saving[q].file]
        BY <1>4, <1>5, <3>4, <4>1, Zenon
      <4> QED
        BY <1>1, <1>9, <3>1, <4>2, Zenon DEF SaveInv, Alone
    <3> QED
      BY <3>2, <3>3, <3>4, Zenon
  <2> QED
    BY <2>1, <2>2, Zenon
<1> QED
  BY <1>8, <1>11, <1>13, <1>14, Zenon DEF SecretInv

\* What a rename does to the files and to the saves of others.
Renamed(p) ==
  LET f == saving[p].file IN
  /\ Renames(p)
  /\ file' \in [File -> Stored \cup {Absent}] /\ tmp' \in [File -> Stored \cup {Absent}]
  /\ file'[f] = tmp[f] /\ \A g \in File \ {f} : file'[g] = file[g] /\ tmp'[g] = tmp[g]
  /\ \A q \in Process \ {p} :
       /\ saving'[q] \in Save \cup {NoSave}
       /\ saving'[q].file = saving[q].file /\ saving'[q].value = saving[q].value
       /\ saving[q].file # f => saving'[q] = saving[q]

\* A handle that another process holds on the renamed file follows it.
LEMMA RenameMoves ==
  ASSUME SecretTypes, NEW p \in Process, NEW STATE after, rename_tmp(p, after)
  PROVE  Renamed(p) /\ saving'[p] = after /\ DOMAIN saving' = Process
<1>0. saving[p] # NoSave /\ saving[p].file \in File /\ Renames(p)
  BY SaveFacts, Zenon DEF rename_tmp, Renames
<1>1. saving'[p] = after /\ DOMAIN saving' = Process
  BY DEF rename_tmp
<1>2. /\ file' = [file EXCEPT ![saving[p].file] = tmp[saving[p].file]]
      /\ tmp' = [tmp EXCEPT ![saving[p].file] = Absent]
  BY DEF rename_tmp
<1>3. /\ file' \in [File -> Stored \cup {Absent}] /\ tmp' \in [File -> Stored \cup {Absent}]
      /\ file'[saving[p].file] = tmp[saving[p].file]
      /\ \A g \in File \ {saving[p].file} : file'[g] = file[g] /\ tmp'[g] = tmp[g]
  BY <1>0, <1>2 DEF SecretTypes
<1>4. ASSUME NEW q \in Process \ {p}
      PROVE  /\ saving'[q] \in Save \cup {NoSave}
             /\ saving'[q].file = saving[q].file /\ saving'[q].value = saving[q].value
             /\ saving[q].file # saving[p].file => saving'[q] = saving[q]
  <2>1. CASE saving[q].file # saving[p].file
    <3>1. saving'[q] = saving[q]
      BY <2>1 DEF rename_tmp
    <3> QED
      BY <3>1, Zenon DEF SecretTypes
  <2>2. CASE saving[q].file = saving[p].file
    <3>1. saving[q] \in Save
      BY <1>0, <2>2, SaveFacts, Zenon
    <3>2. saving'[q] = [saving[q] EXCEPT !.handle = Follows[@]]
      BY <2>2 DEF rename_tmp
    <3> QED
      BY <2>2, <3>1, <3>2 DEF Save, Follows
  <2> QED
    BY <2>1, <2>2, Zenon
<1> QED
  BY <1>0, <1>1, <1>3, <1>4, Zenon DEF Renamed

\* The saves of others survive a rename.
LEMMA OthersSave ==
  ASSUME SecretInv, NEW p \in Process, Renamed(p), disturbed' = disturbed, NEW q \in Process \ {p}
  PROVE  SaveInv(q)'
<1>0. SecretTypes /\ SaveInv(p) /\ SaveInv(q) /\ saving[p] # NoSave /\ saving[p].file \in File
  BY SaveFacts, Zenon DEF SecretInv, Renamed, Renames
<1>1. CASE saving'[q] = NoSave
  BY <1>1, Zenon DEF SaveInv
<1>2. CASE saving'[q] # NoSave
  <2>0. saving'[q] \in Save /\ saving[q].file \in File /\ saving[q] # NoSave
    <3>1. saving'[q] \in Save /\ saving'[q].file = saving[q].file
      BY <1>2, Zenon DEF Renamed
    <3> QED
      BY <1>0, <3>1, SaveFacts DEF Save
  <2>1. saving[p].file = "identity" \/ saving[q].file = "identity"
    BY <1>0, <2>0, Constants, Zenon DEF SaveInv
  <2>2. CASE saving[q].file = saving[p].file
    <3>1. saving[q].file = "identity" /\ ~ Alone(saving[p].file)
      BY <1>0, <2>1, <2>2, Rivals, Zenon
    <3>2. /\ saving'[q].file = "identity" /\ saving'[q].value \in Secret
          /\ disturbed'
      BY <1>0, <2>0, <2>2, <3>1, Zenon DEF Renamed, SaveInv, Alone
    <3> QED
      BY <3>2, Paths, Zenon DEF SaveInv, Alone
  <2>3. CASE saving[q].file # saving[p].file
    <3>1. /\ saving'[q] = saving[q]
          /\ file'[saving[q].file] = file[saving[q].file] /\ tmp'[saving[q].file] = tmp[saving[q].file]
      BY <2>0, <2>3, Zenon DEF Renamed
    <3>2. ASSUME NEW v \in Vault, saving[q].file \in {cert_path[v], key_path[v]}
          PROVE  file'[cert_path[v]] = file[cert_path[v]] /\ file'[key_path[v]] = file[key_path[v]]
      <4>1. saving[p].file = "identity"
        BY <2>1, <3>2, Paths, Zenon
      <4> QED
        BY <4>1, Paths, ZenonT(40) DEF Renamed
    <3> QED
      BY <1>0, <3>1, <3>2, Zenon DEF SaveInv, Alone
  <2> QED
    BY <2>2, <2>3, Zenon
<1> QED
  BY <1>1, <1>2, Zenon

\* A rename never replaces a file that is in use.
LEMMA RenameKeeps ==
  ASSUME SecretInv, NEW p \in Process, Renamed(p), disturbed' = disturbed
  PROVE  LET f == saving[p].file IN
         /\ f \in File /\ saving[p].value \in Secret /\ (p = Cli => f = "identity")
         /\ Alone(f) => file'[f] = saving[p].value
         /\ \A g \in File \ {"identity"} : file'[g] # Empty
         /\ \A v \in Vault : file'[key_path[v]] # Absent => file'[cert_path[v]] = file'[key_path[v]]
         /\ \A v \in Vault : \A pair \in served[v] :
              pair[1] = pair[2] /\ pair = <<file'[cert_path[v]], file'[key_path[v]]>>
         /\ f = "token" => mem.token = Empty
         /\ f # "token" => file'["token"] = file["token"]
         /\ f = "identity" /\ ~ disturbed => identities = {}
         /\ f # "identity" => file'["identity"] = file["identity"]
<1> DEFINE f == saving[p].file
<1>0. /\ SecretTypes /\ IdentityKept /\ FileInv /\ SaveInv(p)
      /\ saving[p] # NoSave /\ f \in File /\ saving[p].step = "rename"
  BY SaveFacts, Zenon DEF SecretInv, Renamed, Renames
<1>1. /\ saving[p].value \in Secret /\ (p = Cli => f = "identity")
      /\ Alone(f) => /\ tmp[f] = saving[p].value
                     /\ f \in {"identity", "token"} => file[f] = Absent
      /\ \A v \in Vault :
           /\ f = cert_path[v] => file[cert_path[v]] = Absent /\ file[key_path[v]] = Absent
           /\ f = key_path[v] => file[cert_path[v]] = saving[p].value /\ file[key_path[v]] = Absent
  BY <1>0, Zenon DEF SaveInv
<1>2. file'[f] = tmp[f] /\ \A g \in File \ {f} : file'[g] = file[g]
  BY Zenon DEF Renamed
<1> HIDE DEF f
<1>3. Alone(f) => file'[f] = saving[p].value
  BY <1>1, <1>2, Zenon
<1>4. \A g \in File \ {"identity"} : file'[g] # Empty
  <2>1. f # "identity" => file'[f] # Empty
    BY <1>1, <1>3, Constants, Zenon DEF Alone
  <2> QED
    BY <1>0, <1>2, <2>1, Zenon DEF FileInv
<1>5. ASSUME NEW v \in Vault, file'[key_path[v]] # Absent
      PROVE  file'[cert_path[v]] = file'[key_path[v]]
  <2>1. CASE f = key_path[v]
    BY <1>1, <1>2, <1>3, <2>1, Paths, Zenon DEF Alone
  <2>2. CASE f = cert_path[v]
    BY <1>1, <1>2, <1>5, <2>2, Paths, Zenon
  <2>3. CASE f # cert_path[v] /\ f # key_path[v]
    BY <1>0, <1>2, <1>5, <2>3, Paths, Zenon DEF FileInv
  <2> QED
    BY <2>1, <2>2, <2>3, Zenon
<1>6. ASSUME NEW v \in Vault, NEW pair \in served[v]
      PROVE  pair[1] = pair[2] /\ pair = <<file'[cert_path[v]], file'[key_path[v]]>>
  <2>1. pair[1] = pair[2] /\ pair = <<file[cert_path[v]], file[key_path[v]]>> /\ pair \in Secret \X Secret
    BY <1>0, <1>6, Zenon DEF IdentityKept, SecretTypes
  <2>2. file[key_path[v]] # Absent
    BY <2>1, Constants
  <2>3. f # cert_path[v] /\ f # key_path[v]
    BY <1>1, <2>2, Zenon
  <2>4. file'[cert_path[v]] = file[cert_path[v]] /\ file'[key_path[v]] = file[key_path[v]]
    BY <1>2, <2>3, Paths, Zenon
  <2> QED
    BY <2>1, <2>4
<1>7. f = "token" => mem.token = Empty
  <2>1. f = "token" => file["token"] = Absent
    BY <1>1 DEF Alone
  <2>2. mem.token \in Stored
    BY <1>0 DEF SecretTypes
  <2> QED
    BY <1>0, <2>1, <2>2, Constants, Zenon DEF IdentityKept
<1>8. f # "token" => file'["token"] = file["token"]
  BY <1>2, Constants, Zenon
<1>9. f = "identity" /\ ~ disturbed => identities = {}
  <2>1. f = "identity" /\ ~ disturbed => file["identity"] = Absent
    BY <1>1, Zenon DEF Alone
  <2>2. \A k \in identities : k # Absent
    BY <1>0, Constants, Zenon DEF SecretTypes
  <2> QED
    BY <1>0, <2>1, <2>2, Zenon DEF IdentityKept
<1>10. f # "identity" => file'["identity"] = file["identity"]
  BY <1>2, Constants, Zenon
<1> QED
  BY <1>0, <1>1, <1>3, <1>4, <1>5, <1>6, <1>7, <1>8, <1>9, <1>10, Zenon DEF f

\* The rename of the daemon's save.
LEMMA DaemonRenameKeeps ==
  ASSUME SecretInv, renamed
  PROVE  SecretInv'
<1> DEFINE f == saving[Daemon].file
           value == saving[Daemon].value
           certs == {v \in Vault : f = cert_path[v]}
           keys == {v \in Vault : f = key_path[v]}
           keyOf == key_path[CHOOSE v \in certs : TRUE]
           vault == CHOOSE x \in keys : TRUE
           after == IF certs # {} THEN Saves(keyOf, value) ELSE NoSave
<1>0. SecretTypes /\ IdentityKept /\ FileInv /\ Daemon \in Process
  BY Constants, Zenon DEF SecretInv
<1>1. rename_tmp(Daemon, after) /\ UNCHANGED <<minted, disturbed>>
  BY DEF renamed, NoHistory
<1>2. \/ f = "identity" /\ Uses(value) /\ UNCHANGED <<mem, served>>
      \/ f = "token" /\ mem' = [mem EXCEPT !.token = value] /\ UNCHANGED <<identities, served>>
      \/ certs # {} /\ UNCHANGED <<mem, identities, served>>
      \/ /\ keys # {}
         /\ mem' = [mem EXCEPT ![vault] = value]
         /\ served' = [served EXCEPT ![vault] = @ \cup {<<value, value>>}]
         /\ UNCHANGED identities
  BY DEF renamed, NoHistory
<1>3. Renamed(Daemon) /\ saving'[Daemon] = after /\ DOMAIN saving' = Process
  BY <1>0, <1>1, RenameMoves, Zenon
<1>4. /\ f \in File /\ value \in Secret
      /\ Alone(f) => file'[f] = value
      /\ \A g \in File \ {"identity"} : file'[g] # Empty
      /\ \A v \in Vault : file'[key_path[v]] # Absent => file'[cert_path[v]] = file'[key_path[v]]
      /\ \A v \in Vault : \A pair \in served[v] :
           pair[1] = pair[2] /\ pair = <<file'[cert_path[v]], file'[key_path[v]]>>
      /\ f = "token" => mem.token = Empty
      /\ f # "token" => file'["token"] = file["token"]
      /\ f = "identity" /\ ~ disturbed => identities = {}
      /\ f # "identity" => file'["identity"] = file["identity"]
  BY <1>0, <1>1, <1>3, RenameKeeps, Zenon
<1>5. \A q \in Process \ {Daemon} : SaveInv(q)'
  BY <1>0, <1>1, <1>3, OthersSave, Zenon
<1>6. /\ after \in Save \cup {NoSave} /\ after.file # "identity"
      /\ SaveInv(Daemon)'
  <2>1. CASE certs = {}
    <3>1. after = NoSave
      BY <2>1, Zenon
    <3>2. NoSave.file # "identity"
      BY Constants DEF NoSave
    <3> QED
      BY <1>3, <3>1, <3>2, Zenon DEF SaveInv
  <2>2. CASE certs # {}
    <3>1. PICK v \in Vault : f = cert_path[v] /\ keyOf = key_path[v]
      <4>1. (CHOOSE v \in certs : TRUE) \in certs
        BY <2>2, Zenon
      <4> QED
        BY <4>1, Zenon
    <3>2. after = [file |-> key_path[v], value |-> value, step |-> "open", handle |-> "none"]
      BY <2>2, <3>1, Zenon DEF Saves
    <3> HIDE DEF after, f, value, keyOf, certs
    <3>3. key_path[v] \in File /\ key_path[v] \notin {"identity", "token"} /\ value \in Stored
      BY <1>4, Paths, Constants, Zenon
    <3>4. /\ after \in Save /\ after # NoSave /\ after.file = key_path[v] /\ after.value = value
          /\ after.step = "open"
      BY <3>2, <3>3, Constants DEF Save, NoSave
    <3>5. file'[cert_path[v]] = value
      BY <1>4, <3>1, Paths, Zenon DEF Alone
    <3>6. file'[key_path[v]] = Absent
      <4>1. SaveInv(Daemon) /\ saving[Daemon] # NoSave
        BY <1>0, <1>3, SaveFacts, Zenon DEF SecretInv, Renamed, Renames
      <4>2. file[key_path[v]] = Absent
        BY <3>1, <4>1, Zenon DEF SaveInv, f
      <4>3. key_path[v] # f
        BY <3>1, Paths, Zenon
      <4> QED
        BY <1>3, <3>3, <4>2, <4>3, Zenon DEF Renamed, f
    <3>7. \A w \in Vault : key_path[v] # cert_path[w] /\ (key_path[v] = key_path[w] => w = v)
      BY Paths, Zenon
    <3>8. SaveInv(Daemon)'
      BY <1>3, <1>4, <3>3, <3>4, <3>5, <3>6, <3>7, Constants, Zenon DEF SaveInv
    <3> QED
      BY <3>3, <3>4, <3>8, Zenon
  <2> QED
    BY <2>1, <2>2, Zenon
<1>7. saving' \in [Process -> Save \cup {NoSave}]
  <2>1. saving' = [q \in Process |-> saving'[q]]
    BY <1>1 DEF rename_tmp
  <2>2. \A q \in Process : saving'[q] \in Save \cup {NoSave}
    BY <1>3, <1>6, ZenonT(40) DEF Renamed
  <2> QED
    BY <2>1, <2>2, Zenon
<1>8. FileInv'
  BY <1>3, <1>4, <1>6, Zenon DEF FileInv
<1>9. SecretTypes' /\ IdentityKept'
  <2> HIDE DEF after
  <2>0. file' \in [File -> Stored \cup {Absent}] /\ tmp' \in [File -> Stored \cup {Absent}]
    BY <1>3, Zenon DEF Renamed
  <2>1. CASE f = "identity" /\ Uses(value) /\ UNCHANGED <<mem, served>>
    <3>1. SecretTypes'
      BY <1>0, <1>1, <1>4, <1>7, <2>0, <2>1, Zenon DEF SecretTypes, Uses
    <3>2. ~ disturbed => \A k \in identities' : k = file'["identity"]
      BY <1>4, <2>1, Zenon DEF Uses, Alone
    <3>3. IdentityKept'
      BY <1>0, <1>1, <1>4, <2>1, <3>2, Zenon DEF IdentityKept
    <3> QED
      BY <3>1, <3>3, Zenon
  <2>2. CASE f = "token" /\ mem' = [mem EXCEPT !.token = value] /\ UNCHANGED <<identities, served>>
    <3>1. mem' \in [{"token", "localsend", "native"} -> Stored] /\ mem'.token = value
      BY <1>0, <1>4, <2>2, Constants DEF SecretTypes
    <3>2. file'["token"] = value /\ file'["identity"] = file["identity"]
      BY <1>4, <2>2, Zenon DEF Alone
    <3>3. SecretTypes'
      BY <1>0, <1>1, <1>7, <2>0, <2>2, <3>1, Zenon DEF SecretTypes
    <3>4. IdentityKept'
      BY <1>0, <1>1, <1>4, <2>2, <3>1, <3>2, Zenon DEF IdentityKept
    <3> QED
      BY <3>3, <3>4, Zenon
  <2>3. CASE certs # {} /\ UNCHANGED <<mem, identities, served>>
    <3>1. PICK v \in Vault : f = cert_path[v]
      BY <2>3, Zenon
    <3>2. f # "identity" /\ f # "token"
      BY <3>1, Paths, Zenon
    <3>3. SecretTypes'
      BY <1>0, <1>1, <1>7, <2>0, <2>3, Zenon DEF SecretTypes
    <3>4. IdentityKept'
      BY <1>0, <1>1, <1>4, <2>3, <3>2, Zenon DEF IdentityKept
    <3> QED
      BY <3>3, <3>4, Zenon
  <2>4. CASE /\ keys # {}
             /\ mem' = [mem EXCEPT ![vault] = value]
             /\ served' = [served EXCEPT ![vault] = @ \cup {<<value, value>>}]
             /\ UNCHANGED identities
    <3>1. vault \in Vault /\ f = key_path[vault]
      <4>1. vault \in keys
        BY <2>4, Zenon
      <4> QED
        BY <4>1, Zenon
    <3> HIDE DEF vault, f, value, keys, certs
    <3>2. f # "identity" /\ f # "token" /\ Alone(f) /\ f \notin {cert_path[v] : v \in Vault}
      BY <3>1, Paths, Zenon DEF Alone
    <3>3. file'[key_path[vault]] = value /\ value # Absent /\ value \in Stored
      BY <1>4, <3>1, <3>2, Constants, Zenon
    <3>4. file'[cert_path[vault]] = value
      BY <1>4, <3>1, <3>3, Zenon
    <3>5. mem' \in [{"token", "localsend", "native"} -> Stored] /\ mem'.token = mem.token
      BY <1>0, <2>4, <3>1, <3>3 DEF SecretTypes, Vault
    <3>6. served' \in [Vault -> SUBSET (Secret \X Secret)]
      BY <1>0, <1>4, <2>4, <3>1 DEF SecretTypes
    <3>7. SecretTypes'
      BY <1>0, <1>1, <1>7, <2>0, <2>4, <3>5, <3>6, Zenon DEF SecretTypes
    <3>8. ASSUME NEW w \in Vault, NEW pair \in served'[w]
          PROVE  pair[1] = pair[2] /\ pair = <<file'[cert_path[w]], file'[key_path[w]]>>
      <4>1. pair \in served[w] \/ (w = vault /\ pair = <<value, value>>)
        BY <1>0, <2>4, <3>1, <3>8 DEF SecretTypes
      <4> QED
        BY <1>4, <3>3, <3>4, <4>1
    <3>9. IdentityKept'
      BY <1>0, <1>1, <1>4, <2>4, <3>2, <3>5, <3>8, Zenon DEF IdentityKept
    <3> QED
      BY <3>7, <3>9, Zenon
  <2> QED
    BY <1>2, <2>1, <2>2, <2>3, <2>4, Zenon
<1> QED
  BY <1>0, <1>5, <1>6, <1>8, <1>9, Zenon DEF SecretInv

\* The rename of a command of the CLI.
LEMMA CliRenameKeeps ==
  ASSUME SecretInv, cli_renamed
  PROVE  SecretInv'
<1> DEFINE f == saving[Cli].file
           value == saving[Cli].value
<1>0. SecretTypes /\ IdentityKept /\ FileInv /\ Cli \in Process
  BY Constants, Zenon DEF SecretInv
<1>1. /\ rename_tmp(Cli, NoSave) /\ UNCHANGED <<minted, mem, served, disturbed>>
      /\ identities' = identities \cup {value}
  BY Zenon DEF cli_renamed, Uses
<1>2. Renamed(Cli) /\ saving'[Cli] = NoSave /\ DOMAIN saving' = Process
  BY <1>0, <1>1, RenameMoves, Zenon
<1>3. /\ f = "identity" /\ value \in Secret
      /\ Alone(f) => file'[f] = value
      /\ \A g \in File \ {"identity"} : file'[g] # Empty
      /\ \A v \in Vault : file'[key_path[v]] # Absent => file'[cert_path[v]] = file'[key_path[v]]
      /\ \A v \in Vault : \A pair \in served[v] :
           pair[1] = pair[2] /\ pair = <<file'[cert_path[v]], file'[key_path[v]]>>
      /\ f # "token" => file'["token"] = file["token"]
      /\ f = "identity" /\ ~ disturbed => identities = {}
  BY <1>0, <1>1, <1>2, RenameKeeps, Zenon
<1>4. \A q \in Process : SaveInv(q)'
  <2>1. SaveInv(Cli)'
    BY <1>2, Zenon DEF SaveInv
  <2> QED
    BY <1>0, <1>1, <1>2, <2>1, OthersSave, Zenon
<1>5. saving' \in [Process -> Save \cup {NoSave}]
  <2>1. saving' = [q \in Process |-> saving'[q]]
    BY <1>1 DEF rename_tmp
  <2>2. \A q \in Process : saving'[q] \in Save \cup {NoSave}
    BY <1>2, Zenon DEF Renamed
  <2> QED
    BY <2>1, <2>2, Zenon
<1>6. FileInv'
  <2>1. saving'[Cli].file # "identity"
    BY <1>2, Constants DEF NoSave
  <2> QED
    BY <1>3, <2>1, Zenon DEF FileInv
<1>7. SecretTypes'
  BY <1>0, <1>1, <1>2, <1>3, <1>5, Zenon DEF SecretTypes, Renamed
<1>8. IdentityKept'
  <2>1. ~ disturbed => \A k \in identities' : k = file'["identity"]
    BY <1>1, <1>3, Zenon DEF Alone
  <2>2. file'["token"] = file["token"]
    BY <1>3
  <2> QED
    BY <1>0, <1>1, <1>3, <2>1, <2>2, Zenon DEF IdentityKept
<1> QED
  BY <1>4, <1>6, <1>7, <1>8, Zenon DEF SecretInv

\* A new node has no secrets.
LEMMA SecretInit ==
  ASSUME Init
  PROVE  SecretInv
<1> USE DEF Init, VaultInit, MainInit
<1>1. SecretTypes
  <2>1. 0 \in Stored
    BY VaultAssumption DEF Stored
  <2>2. mem \in [{"token", "localsend", "native"} -> Stored]
    BY <2>1 DEF NoMem, Empty
  <2> QED
    BY <2>1, <2>2, Zenon DEF SecretTypes
<1>2. \A p \in Process : SaveInv(p) /\ saving[p].file # "identity"
  <2>1. NoSave.file # "identity"
    BY Constants DEF NoSave
  <2> QED
    BY <2>1, Zenon DEF SaveInv
<1>3. \A f \in File : file[f] = Absent
  BY Zenon
<1>4. FileInv
  BY <1>2, <1>3, Paths, Constants, Zenon DEF FileInv
<1>5. IdentityKept
  <2>1. mem.token = Empty
    BY DEF NoMem
  <2> QED
    BY <2>1, Zenon DEF IdentityKept
<1> QED
  BY <1>1, <1>2, <1>4, <1>5, Zenon DEF SecretInv

\* Every step keeps the invariant of the secrets.
LEMMA SecretKept ==
  ASSUME SecretInv, [Next]_vars
  PROVE  SecretInv'
<1>1. CASE NoSecrets
  <2>1. SecretTypes' /\ IdentityKept'
    BY <1>1, Zenon DEF SecretInv, SecretTypes, IdentityKept, NoSecrets
  <2>2. FileInv' /\ \A p \in Process : SaveInv(p)'
    BY <1>1, FilesRest, Zenon DEF NoSecrets
  <2> QED
    BY <2>1, <2>2, Zenon DEF SecretInv
<1>2. CASE load("identity") = "none" /\ \E p \in Process : Makes(p, "identity")
  BY <1>2, MakeKeeps, Constants, Zenon
<1>3. CASE load("token") = "none" /\ Makes(Daemon, "token")
  BY <1>3, MakeKeeps, Constants, Zenon
<1>4. CASE \E v \in Vault : load_pair(v) = "none" /\ Makes(Daemon, cert_path[v])
  BY <1>4, MakeKeeps, Paths, Constants, Zenon
<1> QED
  BY <1>1, <1>2, <1>3, <1>4, SecretForms, FindKeeps, EndKeeps, WriteKeeps, DaemonRenameKeeps,
     RotateKeeps, CliRenameKeeps, Zenon DEF SecretStep

\* The invariant of the secrets holds in every state.
LEMMA SecretInvariant == Spec => []SecretInv
<1>1. Init => SecretInv
  BY SecretInit, Zenon
<1>2. SecretInv /\ [Next]_vars => SecretInv'
  BY SecretKept, Zenon
<1> QED
  BY <1>1, <1>2, PTL DEF Spec

\* The secrets of a node survive restarts, crashes and errors at any point of a
\* save, for any number of secrets and commands (load_or_generate of the vaults,
\* load_or_create_identity).
THEOREM SecretsSurvive == Spec => []IdentityKept
<1>1. SecretInv => IdentityKept
  BY Zenon DEF SecretInv
<1> QED
  BY <1>1, SecretInvariant, PTL

(***************************************************************************)
(* The steps, by what they do to the bus and the deliveries.               *)
(***************************************************************************)
NoEvents == UNCHANGED <<next_id, sent, call, next, skipped, delivery>>
BusRests == NoEvents /\ (Early' => Early)

Subscribes ==
  /\ Early /\ ~ Early' /\ next' = Len(sent) + 1
  /\ UNCHANGED <<next_id, sent, call, skipped, delivery>>

EventStep ==
  \/ BusRests
  \/ drop_tasks
  \/ Subscribes
  \/ /\ UNCHANGED pc
     /\ \/ \E c \in Call : ~ Early /\ take_id(c, "idle", "starting")
        \/ \E c \in Call : emit(c) \/ take_id(c, "running", "ending")
        \/ recv
        \/ \E d \in DOMAIN delivery : delivered(d) \/ is_retryable(d)

\* Where main goes on, and that it comes back to the start only through its end.
LEMMA Goes ==
  ASSUME PointTypes, NEW to \in Points, Goto(Daemon, to)
  PROVE  PointTypes' /\ pc'[Daemon] = to /\ pc'[Cli] = pc[Cli]
BY Constants DEF PointTypes, Goto

\* The CLI moves by itself.
LEMMA CliGoes ==
  ASSUME PointTypes, NEW to \in Points, Goto(Cli, to)
  PROVE  PointTypes' /\ pc'[Daemon] = pc[Daemon]
BY Constants DEF PointTypes, Goto

\* main proceeds to a later point.
LEMMA Proceeds ==
  ASSUME PointTypes, NEW from \in Points, NEW to \in Points, Proceed(from, to),
         from \in {"config", "identity", "token", "trust_store"}
           \/ to \notin {"off", "config", "identity", "token", "trust_store"}
  PROVE  PointTypes' /\ (Early' => Early)
         /\ (to \notin {"off", "config", "identity", "token", "trust_store"} => ~ Early')
<1>1. PointTypes' /\ pc'[Daemon] = to /\ pc[Daemon] = from
  BY Goes, Zenon DEF Proceed
<1> QED
  BY <1>1 DEF Early

\* The daemon is in a save of the identity or the token while main loads it, and
\* in none when there is no daemon.
StageInv ==
  /\ \A f \in {"identity", "token"} : saving[Daemon].file = f => pc[Daemon] = f
  /\ pc[Daemon] = "off" => saving[Daemon] = NoSave

\* Every step keeps this.
LEMMA StageKept ==
  ASSUME SecretTypes, PointTypes, StageInv, [Next]_vars
  PROVE  StageInv'
<1> USE DEF NoHistory, vaultVars, mainVars
<1>0. NoSave.file \notin {"identity", "token"} /\ Daemon \in Process /\ Cli \in Process
  BY Constants DEF NoSave
<1>1. ASSUME pc'[Daemon] = pc[Daemon], saving'[Daemon].file = saving[Daemon].file,
             saving[Daemon] = NoSave => saving'[Daemon] = NoSave
      PROVE  StageInv'
  BY <1>1, Zenon DEF StageInv
<1>2. ASSUME saving'[Daemon] = NoSave PROVE StageInv'
  BY <1>0, <1>2, Zenon DEF StageInv
<1>3. ASSUME pc[Daemon] \notin {"identity", "token"}, UNCHANGED saving,
             pc'[Daemon] # "off" \/ pc[Daemon] = "off"
      PROVE  StageInv'
  BY <1>3, Zenon DEF StageInv
<1>4. ASSUME exit PROVE StageInv'
  BY <1>0, <1>2, <1>4, Zenon DEF exit, SecretTypes
<1>5. ASSUME UNCHANGED <<pc, saving>> PROVE StageInv'
  BY <1>1, <1>5, Zenon
<1>6. ASSUME start_process PROVE StageInv'
  BY <1>3, <1>6 DEF start_process
<1>7. CASE UNCHANGED vars
  BY <1>5, <1>7, Zenon DEF vars
<1>8. CASE gui_command
  <2>1. CASE status \/ gui_settings
    BY <1>5, <2>1, Zenon DEF status, gui_settings
  <2> QED
    BY <1>4, <1>5, <1>6, <1>8, <2>1, Zenon DEF gui_command, start, stop
<1>9. CASE web_ui
  BY <1>5, <1>9, Zenon DEF web_ui, answered, open_feed, feed_ends, snapshot, click, on_event, NoDaemon
<1>10. CASE main_step
  <2>1. ASSUME NEW from, NEW to, Proceed(from, to), from \notin {"identity", "token"}, to # "off"
        PROVE  StageInv'
    <3>1. pc[Daemon] = from /\ pc'[Daemon] = to
      BY <1>0, <2>1 DEF Proceed, Goto, PointTypes
    <3> QED
      BY <1>3, <2>1, <3>1, Zenon DEF Proceed
  <2>2. CASE start_runtime
    <3>1. CASE open_trust_store \/ load_daemon_config \/ start_grpc_runtime \/ start_http_runtime
      BY <2>1, <3>1
      DEF open_trust_store, load_daemon_config, start_grpc_runtime, start_http_runtime
    <3>2. CASE start_localsend_v2 \/ start_native_runtime \/ start_wan_runtime
      BY <2>1, <3>2 DEF start_localsend_v2, start_native_runtime, start_wan_runtime
    <3> QED
      BY <2>2, <3>1, <3>2, Zenon DEF start_runtime
  <2>3. CASE stop_runtime
    <3>1. CASE stop_wan_runtime \/ stop_native_runtime \/ stop_localsend_v2
      BY <2>1, <3>1 DEF stop_wan_runtime, stop_native_runtime, stop_localsend_v2
    <3>2. CASE stop_http_runtime \/ stop_grpc_runtime \/ tell_dispatcher
      BY <2>1, <3>2 DEF stop_http_runtime, stop_grpc_runtime, tell_dispatcher
    <3> QED
      BY <2>3, <3>1, <3>2, Zenon DEF stop_runtime
  <2>4. ASSUME saving[Daemon] = NoSave, UNCHANGED saving PROVE StageInv'
    BY <1>2, <2>4, Zenon
  <2>5. ASSUME NEW f, Begins(Daemon, f), UNCHANGED pc, f \in {"identity", "token"} => pc[Daemon] = f,
               pc[Daemon] # "off"
        PROVE  StageInv'
    <3>1. saving'[Daemon].file = f
      BY <1>0, <2>5 DEF Begins, Saves, SecretTypes
    <3> QED
      BY <2>5, <3>1, Zenon DEF StageInv
  <2>6. CASE load_or_create_identity \/ load_or_generate_token
    <3>1. CASE load_or_create_identity
      BY <1>4, <2>4, <2>5, <3>1 DEF load_or_create_identity
    <3>2. CASE load_or_generate_token
      BY <1>4, <2>4, <2>5, <3>2 DEF load_or_generate_token
    <3> QED
      BY <2>6, <3>1, <3>2, Zenon
  <2>7. ASSUME NEW v \in Vault, load_or_generate(v) PROVE StageInv'
    <3>1. cert_path[v] \notin {"identity", "token"}
      BY Paths, Zenon
    <3> QED
      BY <1>4, <2>4, <2>5, <2>7, <3>1 DEF load_or_generate, Vault
  <2>8. CASE Writes(Daemon)
    <3>1. saving[Daemon] # NoSave /\ saving'[Daemon].file = saving[Daemon].file
      <4>1. saving[Daemon] # NoSave /\ saving[Daemon] \in Save
        BY <1>0, <2>8, SaveFacts, Zenon DEF Writes, open_tmp, write_tmp
      <4> QED
        BY <1>0, <2>8, <4>1 DEF Writes, open_tmp, write_tmp, SecretTypes, Save
    <3> QED
      BY <1>1, <2>8, <3>1, Zenon DEF Writes
  <2>9. CASE renamed
    <3> DEFINE f == saving[Daemon].file
               certs == {v \in Vault : f = cert_path[v]}
               keyOf == key_path[CHOOSE v \in certs : TRUE]
               after == IF certs # {} THEN Saves(keyOf, saving[Daemon].value) ELSE NoSave
    <3>1. saving'[Daemon] = after
      BY <1>0, <2>9 DEF renamed, rename_tmp
    <3>0. certs # {} => pc[Daemon] # "off" /\ UNCHANGED pc
      <4>1. saving[Daemon] # NoSave
        BY <1>0, <2>9, SaveFacts DEF renamed, rename_tmp, Renames
      <4>2. ASSUME NEW v \in Vault, f = cert_path[v] PROVE UNCHANGED pc
        <5>1. f \notin {"identity", "token"} /\ \A w \in Vault : f # key_path[w]
          BY <4>2, Paths, Zenon
        <5> QED
          BY <2>9, <5>1 DEF renamed
      <4> QED
        BY <4>1, <4>2, Zenon DEF StageInv
    <3>2. CASE certs # {}
      <4>1. (CHOOSE v \in certs : TRUE) \in Vault
        BY <3>2, Zenon
      <4>2. after.file = keyOf
        BY <3>2 DEF Saves
      <4>3. keyOf \notin {"identity", "token"}
        BY <4>1, Paths, Zenon
      <4> QED
        BY <3>0, <3>1, <3>2, <4>2, <4>3, Zenon DEF StageInv
    <3>3. CASE certs = {}
      BY <1>2, <3>1, <3>3, Zenon
    <3> QED
      BY <3>2, <3>3, Zenon
  <2> QED
    BY <1>4, <1>10, <2>2, <2>3, <2>6, <2>7, <2>8, <2>9, Zenon
    DEF main_step, rename_fails, stop_hook_dispatcher
<1>11. CASE world_step
  <2>1. CASE wait_for_shutdown
    BY <1>0, <1>3, <2>1 DEF wait_for_shutdown, Goto, PointTypes
  <2> QED
    BY <1>4, <1>11, <2>1, Zenon DEF world_step, load_config_fails, start_fails, stop_fails, killed
<1>12. CASE hooks_step \/ \E w \in Watcher : follow(w)
  BY <1>5, <1>12, Zenon DEF hooks_step, follow, StreamsOnly
<1>13. CASE cli_step
  <2>1. ASSUME NEW to \in {"off", "saving"}, Goto(Cli, to) PROVE pc'[Daemon] = pc[Daemon]
    BY <2>1, Constants DEF Goto, PointTypes
  <2>2. ASSUME NEW x, saving' = [saving EXCEPT ![Cli] = x] PROVE saving'[Daemon] = saving[Daemon]
    BY <2>2, Constants DEF SecretTypes
  <2>3. CASE load_or_create_keypair
    BY <1>1, <1>5, <2>1, <2>2, <2>3, SMTT(40) DEF load_or_create_keypair, Begins
  <2>4. CASE rotate \/ cli_ends
    BY <1>1, <2>1, <2>2, <2>4 DEF rotate, cli_ends
  <2>5. CASE Writes(Cli)
    <3>1. saving'[Daemon] = saving[Daemon]
      BY <2>5, Constants, SMTT(40) DEF Writes, open_tmp, write_tmp, SecretTypes
    <3> QED
      BY <1>1, <2>5, <3>1, Zenon DEF Writes
  <2>6. CASE cli_renamed
    <3>1. saving'[Daemon].file = saving[Daemon].file
      BY <1>0, <2>6, RenameMoves, Constants, Zenon DEF cli_renamed, Renamed
    <3>2. saving[Daemon] = NoSave => saving'[Daemon] = NoSave
      <4>1. saving[Cli].file \in File
        BY <1>0, <2>6, SaveFacts, Zenon DEF cli_renamed, rename_tmp, Renames
      <4>2. saving[Daemon].file # saving[Cli].file => saving'[Daemon] = saving[Daemon]
        BY <1>0, <2>6, RenameMoves, Constants, Zenon DEF cli_renamed, Renamed
      <4> QED
        BY <1>0, <4>1, <4>2, SaveFacts, Zenon
    <3> QED
      BY <1>1, <2>1, <2>6, <3>1, <3>2 DEF cli_renamed
  <2> QED
    BY <1>13, <2>3, <2>4, <2>5, <2>6, Zenon DEF cli_step
<1> QED
  BY <1>7, <1>8, <1>9, <1>10, <1>11, <1>12, <1>13, Zenon DEF Next, daemon_step, command_line

\* Every step is one of these.
LEMMA EventForms ==
  ASSUME SecretTypes, StageInv, PointTypes, [Next]_vars
  PROVE  PointTypes' /\ EventStep
<1> USE DEF NoHooks, hookVars
<1>0. ASSUME UNCHANGED pc PROVE PointTypes' /\ (Early' => Early)
  BY <1>0, Zenon DEF PointTypes, Early
<1>1. ASSUME exit PROVE PointTypes' /\ EventStep
  <2>1. "off" \in Points
    BY DEF Points
  <2> QED
    BY <1>1, <2>1, Goes, Zenon DEF exit, EventStep
<1>2. ASSUME start_process PROVE PointTypes' /\ EventStep
  <2>1. "config" \in Points /\ Early
    BY <1>2 DEF Points, Starting, Early, start_process
  <2> QED
    BY <1>2, <2>1, Goes, Zenon DEF start_process, EventStep, BusRests, NoEvents
<1>3. CASE UNCHANGED vars
  BY <1>0, <1>3, Zenon DEF vars, mainVars, EventStep, BusRests, NoEvents
<1>4. CASE gui_command
  <2>1. CASE status
    BY <1>0, <2>1, Zenon DEF status, mainVars, EventStep, BusRests, NoEvents
  <2>2. CASE start
    BY <1>0, <1>2, <2>1, <2>2, Zenon DEF start, EventStep, BusRests, NoEvents
  <2>3. CASE stop
    BY <1>0, <1>1, <2>3, Zenon DEF stop, mainVars, EventStep, BusRests, NoEvents
  <2>4. CASE gui_settings
    BY <1>0, <2>4, Zenon DEF gui_settings, EventStep, BusRests, NoEvents
  <2> QED
    BY <1>4, <2>1, <2>2, <2>3, <2>4, Zenon DEF gui_command
<1>5. CASE web_ui
  <2>1. UNCHANGED pc /\ NoEvents
    BY <1>5, Zenon DEF web_ui, answered, open_feed, feed_ends, snapshot, click, on_event,
                       NoDaemon, HooksButStream, NoEvents
  <2> QED
    BY <1>0, <2>1, Zenon DEF EventStep, BusRests
<1>6. CASE main_step
  <2> USE DEF Points, Starting, Stopping
  <2>1. CASE start_runtime
    <3>1. ASSUME NEW from, NEW to, Proceed(from, to), NoHooks,
                 from \in Points, to \in Points, from \in {"config", "identity", "token", "trust_store"}
                   \/ to \notin {"off", "config", "identity", "token", "trust_store"}
          PROVE  PointTypes' /\ EventStep
      BY <3>1, Proceeds, Zenon DEF EventStep, BusRests, NoEvents
    <3>2. CASE open_trust_store
      <4>1. PointTypes' /\ ~ Early' /\ Early
        <5>1. Proceed("trust_store", "grpc")
          BY <3>2, Zenon DEF open_trust_store
        <5>2. PointTypes' /\ ~ Early'
          BY <5>1, Proceeds
        <5> QED
          BY <5>1, <5>2 DEF Proceed, Early
      <4> QED
        BY <3>2, <4>1, Zenon DEF open_trust_store, start_hook_dispatcher, EventStep, Subscribes
    <3>3. CASE load_daemon_config \/ start_grpc_runtime \/ start_http_runtime \/ start_wan_runtime
      BY <3>1, <3>3 DEF load_daemon_config, start_grpc_runtime, start_http_runtime, start_wan_runtime
    <3>4. CASE start_localsend_v2 \/ start_native_runtime
      BY <3>1, <3>4 DEF start_localsend_v2, start_native_runtime
    <3> QED
      BY <2>1, <3>2, <3>3, <3>4, Zenon DEF start_runtime
  <2>2. CASE stop_runtime
    <3>1. ASSUME NEW from, NEW to, Proceed(from, to), NoEvents, from \in Points, to \in Stopping
          PROVE  PointTypes' /\ EventStep
      <4>1. to \in Points /\ to \notin {"off", "config", "identity", "token", "trust_store"}
        BY <3>1
      <4> QED
        BY <3>1, <4>1, Proceeds, Zenon DEF EventStep, BusRests
    <3>2. NoHooks => NoEvents
      BY Zenon DEF NoEvents
    <3>3. CASE stop_wan_runtime \/ stop_native_runtime \/ stop_localsend_v2
      BY <3>1, <3>2, <3>3 DEF stop_wan_runtime, stop_native_runtime, stop_localsend_v2
    <3>4. CASE stop_http_runtime \/ stop_grpc_runtime
      BY <3>1, <3>2, <3>4 DEF stop_http_runtime, stop_grpc_runtime
    <3>5. CASE tell_dispatcher
      BY <3>1, <3>5 DEF tell_dispatcher, NoEvents
    <3> QED
      BY <2>2, <3>3, <3>4, <3>5, Zenon DEF stop_runtime
  <2>3. ASSUME NEW to \in Points, Goto(Daemon, to), NoHooks, Early \/ to \in {"localsend_bind", "native_bind"}
        PROVE  PointTypes' /\ EventStep
    <3>1. PointTypes' /\ pc'[Daemon] = to
      BY <2>3, Goes, Zenon
    <3>2. Early' => Early
      BY <2>3, <3>1 DEF Early
    <3> QED
      BY <2>3, <3>1, <3>2, Zenon DEF EventStep, BusRests, NoEvents
  <2>4. ASSUME UNCHANGED pc, NoHooks PROVE PointTypes' /\ EventStep
    BY <1>0, <2>4, Zenon DEF EventStep, BusRests, NoEvents
  <2>5. CASE load_or_create_identity
    <3>1. "token" \in Points /\ Early
      BY <2>5 DEF load_or_create_identity, Early
    <3> QED
      BY <1>1, <2>3, <2>4, <2>5, <3>1, Zenon DEF load_or_create_identity
  <2>6. CASE load_or_generate_token
    <3>1. "trust_store" \in Points /\ Early
      BY <2>6 DEF load_or_generate_token, Early
    <3> QED
      BY <1>1, <2>3, <2>4, <2>6, <3>1, Zenon DEF load_or_generate_token
  <2>7. ASSUME NEW v \in Vault, load_or_generate(v) PROVE PointTypes' /\ EventStep
    <3>1. BindOf[v] \in {"localsend_bind", "native_bind"} /\ BindOf[v] \in Points
      BY DEF Vault, BindOf
    <3> QED
      BY <1>1, <2>3, <2>4, <2>7, <3>1, Zenon DEF load_or_generate
  <2>8. CASE Writes(Daemon) \/ rename_fails \/ stop_hook_dispatcher
    BY <1>1, <2>4, <2>8, Zenon DEF Writes, rename_fails, stop_hook_dispatcher
  <2>9. CASE renamed
    <3> DEFINE keys == {v \in Vault : saving[Daemon].file = key_path[v]}
               vault == CHOOSE v \in keys : TRUE
    <3>1. \/ saving[Daemon].file = "identity" /\ Goto(Daemon, "token")
          \/ saving[Daemon].file = "token" /\ Goto(Daemon, "trust_store")
          \/ UNCHANGED pc
          \/ keys # {} /\ Goto(Daemon, BindOf[vault])
      BY <2>9 DEF renamed
    <3>2. saving[Daemon].file \in {"identity", "token"} => Early
      BY DEF StageInv, Early
    <3>3. keys # {} => BindOf[vault] \in {"localsend_bind", "native_bind"} /\ BindOf[vault] \in Points
      <4>1. keys # {} => vault \in Vault
        BY Zenon
      <4> QED
        BY <4>1 DEF Vault, BindOf
    <3>4. NoHooks /\ "token" \in Points /\ "trust_store" \in Points
      BY <2>9 DEF renamed
    <3> HIDE DEF keys, vault
    <3> QED
      BY <2>3, <2>4, <3>1, <3>2, <3>3, <3>4, Zenon
  <2> QED
    BY <1>6, <2>1, <2>2, <2>5, <2>6, <2>7, <2>8, <2>9, Zenon DEF main_step
<1>7. CASE world_step
  <2>1. CASE wait_for_shutdown
    <3>1. "stop_wan" \in Points
      BY DEF Points, Stopping
    <3>2. PointTypes' /\ pc'[Daemon] = "stop_wan"
      BY <2>1, <3>1, Goes, Zenon DEF wait_for_shutdown
    <3>3. ~ Early'
      BY <3>2 DEF Early
    <3> QED
      BY <2>1, <3>2, <3>3, Zenon DEF wait_for_shutdown, EventStep, BusRests, NoEvents
  <2> QED
    BY <1>1, <1>7, <2>1, Zenon DEF world_step, load_config_fails, start_fails, stop_fails, killed
<1>8. CASE hooks_step
  <2>1. HttpUp => ~ Early
    BY DEF HttpUp, GrpcUp, Early
  <2>2. CASE run_dispatcher
    BY <1>0, <1>8, <2>2, Zenon DEF hooks_step, run_dispatcher, EventStep, BusRests, NoEvents
  <2> QED
    BY <1>0, <1>8, <2>1, <2>2, Zenon DEF hooks_step, send_transfer, exec_ends, webhook_ends, EventStep
<1>9. CASE \E w \in Watcher : follow(w)
  BY <1>0, <1>9, Zenon DEF follow, StreamsOnly, EventStep, BusRests, NoEvents
<1>10. CASE cli_step
  <2>1. NoEvents /\ (UNCHANGED pc \/ Goto(Cli, "off") \/ Goto(Cli, "saving"))
    BY <1>10, Zenon DEF cli_step, load_or_create_keypair, rotate, Writes, cli_renamed, cli_ends, NoEvents
  <2>2. "off" \in Points /\ "saving" \in Points
    BY DEF Points
  <2>3. ASSUME NEW to \in Points, Goto(Cli, to) PROVE PointTypes' /\ EventStep
    BY <2>1, <2>3, CliGoes, Zenon DEF EventStep, BusRests, Early
  <2> QED
    BY <1>0, <2>1, <2>2, <2>3, Zenon DEF EventStep, BusRests
<1> QED
  BY <1>3, <1>4, <1>5, <1>6, <1>7, <1>8, <1>9, <1>10, Zenon DEF Next, daemon_step, command_line


\* The accounting, one delivery at a time.
Accounted ==
  \A i \in Position :
    /\ \A s \in Sink :
         /\ delivery[<<i, s>>].state # "none" <=> i < next /\ i \notin skipped
         /\ delivery[<<i, s>>].state # "none" => delivery[<<i, s>>].attempts \in 1 .. Attempts(s)
    /\ i \in skipped => i < next /\ i + Capacity <= Len(sent)

\* The two forms say the same.
LEMMA AccountedIs ==
  HookAccounting <=> Accounted
BY DEF HookAccounting, Accounted

\* The same about the next state.
LEMMA AccountedIsNext ==
  HookAccounting' <=> Accounted'
BY DEF HookAccounting, Accounted

\* A bus on which nothing has happened yet.
LEMMA NewBus ==
  ASSUME next_id = 1, sent = <<>>, call = [c \in Call |-> [pc |-> "idle", id |-> 0]], next = 1,
         skipped = {}, delivery = [d \in Position \X Sink |-> NoDelivery]
  PROVE  EventInv
<1>1. next_id \in 1 .. MaxEvents + 1
  BY HookAssumption
<1>2. sent \in Seq(Nat) /\ Len(sent) = 0
  OBVIOUS
<1>3. call \in [Call -> [pc : CallState, id : Nat]] /\ \A c \in Call : call[c].pc = "idle"
  BY DEF CallState
<1>4. next \in 1 .. Len(sent) + 1 /\ skipped \subseteq 1 .. next - 1
  BY <1>2
<1>5. delivery \in [Position \X Sink -> DeliveryType]
  BY DEF DeliveryType, NoDelivery
<1>6. Emitting = {}
  BY <1>3 DEF Emitting
<1>7. IsFiniteSet(Emitting) /\ Cardinality(Emitting) = 0
  BY <1>6, FS_EmptySet, Zenon
<1>8. Len(sent) + Cardinality(Emitting) = next_id - 1
  BY <1>2, <1>7
<1>9. Accounted
  BY DEF Accounted, NoDelivery, Position
<1> QED
  BY <1>1, <1>2, <1>3, <1>4, <1>5, <1>7, <1>8, <1>9, AccountedIs, ZenonT(40) DEF EventInv

\* The same about the next state: the tasks and the bus are dropped.
LEMMA DroppedBus ==
  ASSUME drop_tasks
  PROVE  EventInv'
<1> USE DEF drop_tasks
<1>1. next_id' \in 1 .. MaxEvents + 1
  BY HookAssumption
<1>2. sent' \in Seq(Nat) /\ Len(sent') = 0
  OBVIOUS
<1>3. call' \in [Call -> [pc : CallState, id : Nat]] /\ \A c \in Call : call'[c].pc = "idle"
  BY DEF CallState
<1>4. next' \in 1 .. Len(sent') + 1 /\ skipped' \subseteq 1 .. next' - 1
  BY <1>2
<1>5. delivery' \in [Position \X Sink -> DeliveryType]
  BY DEF DeliveryType, NoDelivery
<1>6. Emitting' = {}
  BY <1>3 DEF Emitting
<1>7. IsFiniteSet(Emitting') /\ Cardinality(Emitting') = 0
  BY <1>6, FS_EmptySet, Zenon
<1>8. Len(sent') + Cardinality(Emitting') = next_id' - 1
  BY <1>2, <1>7
<1>9. Accounted'
  BY DEF Accounted, NoDelivery, Position
<1> QED
  BY <1>1, <1>2, <1>3, <1>4, <1>5, <1>7, <1>8, <1>9, AccountedIsNext, Zenon DEF EventInv

\* Types and numbers that follow from the invariant.
LEMMA EventNumbers ==
  ASSUME EventInv
  PROVE  /\ Len(sent) \in Nat /\ next_id \in Nat /\ next \in Nat \ {0} /\ next <= Len(sent) + 1
         /\ Cardinality(Emitting) \in Nat /\ Len(sent) <= MaxEvents
         /\ Capacity \in Nat \ {0} /\ MaxEvents \in Nat
<1>1. Cardinality(Emitting) \in Nat
  BY FS_CardinalityType, Zenon DEF EventInv
<1> QED
  BY <1>1, HookAssumption DEF EventInv

\* An id is taken.
LEMMA TakeKeeps ==
  ASSUME EventInv, ~ Early, ~ Early', NEW c \in Call, NEW from \in {"idle", "running"},
         NEW to \in {"starting", "ending"}, take_id(c, from, to)
  PROVE  EventInv'
<1>1. /\ call[c].pc = from /\ next_id <= MaxEvents /\ next_id' = next_id + 1
      /\ call' = [call EXCEPT ![c] = [pc |-> to, id |-> next_id]]
      /\ UNCHANGED <<sent, next, skipped, delivery>>
  BY Zenon DEF take_id
<1>2. call' \in [Call -> [pc : CallState, id : Nat]]
  BY <1>1, EventNumbers DEF EventInv, CallState
<1>3. c \notin Emitting /\ Emitting' = Emitting \cup {c}
  BY <1>1 DEF EventInv, Emitting
<1>4. IsFiniteSet(Emitting') /\ Cardinality(Emitting') = Cardinality(Emitting) + 1
  BY <1>3, FS_AddElement DEF EventInv
<1>5. Len(sent') + Cardinality(Emitting') = next_id' - 1 /\ next_id' \in 1 .. MaxEvents + 1
  <2>1. Len(sent) + Cardinality(Emitting) = next_id - 1
    BY Zenon DEF EventInv
  <2>2. Len(sent') = Len(sent)
    BY <1>1, Zenon
  <2> QED
    <3>1. PICK l, k, m, l2, k2, m2 :
            /\ l = Len(sent) /\ k = Cardinality(Emitting) /\ m = next_id
            /\ l2 = Len(sent') /\ k2 = Cardinality(Emitting') /\ m2 = next_id'
      BY Zenon
    <3>2. /\ l \in Nat /\ k \in Nat /\ m \in Nat /\ MaxEvents \in Nat
          /\ l + k = m - 1 /\ l2 = l /\ k2 = k + 1 /\ m2 = m + 1 /\ m <= MaxEvents
      BY <1>1, <1>4, <2>1, <2>2, <3>1, EventNumbers, Zenon
    <3>3. l2 + k2 = m2 - 1 /\ m2 \in 1 .. MaxEvents + 1
      BY <3>2
    <3> QED
      BY <3>1, <3>3, Zenon
<1>6. HookAccounting'
  BY <1>1, Zenon DEF EventInv, HookAccounting
<1> QED
  BY <1>1, <1>2, <1>4, <1>5, <1>6, Zenon DEF EventInv

\* Its event is sent.
LEMMA EmitKeeps ==
  ASSUME EventInv, UNCHANGED pc, NEW c \in Call, emit(c)
  PROVE  EventInv'
<1>1. /\ call[c].pc \in {"starting", "ending"} /\ sent' = Append(sent, call[c].id)
      /\ \E to \in {"running", "over"} : call' = [call EXCEPT ![c] = [pc |-> to, id |-> 0]]
      /\ UNCHANGED <<next_id, next, skipped, delivery>>
  BY ZenonT(40) DEF emit
<1>2. call' \in [Call -> [pc : CallState, id : Nat]]
  BY <1>1 DEF EventInv, CallState
<1>3. c \in Emitting /\ Emitting' = Emitting \ {c}
  BY <1>1 DEF EventInv, Emitting
<1>4. IsFiniteSet(Emitting') /\ Cardinality(Emitting') = Cardinality(Emitting) - 1
  BY <1>3, FS_RemoveElement DEF EventInv
<1>5. sent' \in Seq(Nat) /\ Len(sent') = Len(sent) + 1
  BY <1>1 DEF EventInv
<1>6. Len(sent') + Cardinality(Emitting') = next_id' - 1 /\ next' \in 1 .. Len(sent') + 1
  <2>1. Len(sent) + Cardinality(Emitting) = next_id - 1 /\ next' = next /\ next_id' = next_id
    BY <1>1, Zenon DEF EventInv
  <2>2. /\ Len(sent) \in Nat /\ Cardinality(Emitting) \in Nat /\ next_id \in Nat
        /\ next \in Nat \ {0} /\ next <= Len(sent) + 1
    BY EventNumbers, Zenon
  <2>3. Len(sent') + Cardinality(Emitting') = next_id' - 1
    BY <1>4, <1>5, <2>1, <2>2
  <2>4. next' \in 1 .. Len(sent') + 1
    BY <1>5, <2>1, <2>2
  <2> QED
    BY <2>3, <2>4, Zenon
<1>7. ~ Early'
  BY <1>1 DEF EventInv, Early
<1>8. Accounted'
  <2>1. Accounted
    BY AccountedIs, Zenon DEF EventInv
  <2> QED
    BY <1>1, <1>5, <2>1, EventNumbers, SMTT(40) DEF Accounted, Position
<1> QED
  BY <1>1, <1>2, <1>4, <1>5, <1>6, <1>7, <1>8, AccountedIsNext, Zenon DEF EventInv

\* The dispatcher hands an event to every sink, or passes over what it has lost.
LEMMA RecvKeeps ==
  ASSUME EventInv, UNCHANGED pc, recv
  PROVE  EventInv'
<1>0. Accounted
  BY AccountedIs, Zenon DEF EventInv
<1>1. next <= Len(sent) /\ UNCHANGED <<next_id, sent, call>>
  BY Zenon DEF recv
<1>2. Emitting' = Emitting /\ (Early' <=> Early)
  BY <1>1, Zenon DEF Emitting, Early
<1>3. CASE next < Oldest
  <2>1. /\ Oldest = Len(sent) - Capacity + 1 /\ Oldest <= Len(sent) /\ Oldest \in Nat
        /\ skipped' = skipped \cup (next .. Oldest - 1) /\ next' = Oldest /\ UNCHANGED delivery
    BY <1>3, EventNumbers DEF recv, Oldest
  <2>2. next' \in 1 .. Len(sent') + 1 /\ skipped' \subseteq 1 .. next' - 1
    <3>1. skipped \subseteq 1 .. next - 1 /\ Len(sent') = Len(sent)
      BY <1>1, Zenon DEF EventInv
    <3>2. next' \in 1 .. Len(sent') + 1
      BY <1>3, <2>1, <3>1, EventNumbers
    <3>3. ASSUME NEW i \in skipped' PROVE i \in 1 .. next' - 1
      BY <1>3, <2>1, <3>1, <3>3, EventNumbers
    <3> QED
      BY <3>2, <3>3, Zenon
  <2>3. ASSUME NEW i \in Position
        PROVE  /\ i < next' /\ i \notin skipped' <=> i < next /\ i \notin skipped
               /\ i \in skipped' => i < next' /\ i + Capacity <= Len(sent')
    <3>1. i \in Nat /\ (i \in skipped => i < next /\ i + Capacity <= Len(sent))
      BY <1>0 DEF Accounted, Position
    <3> QED
      BY <1>1, <1>3, <2>1, <3>1, EventNumbers
  <2>4. Accounted'
    BY <1>0, <2>1, <2>3, Zenon DEF Accounted
  <2> QED
    BY <1>1, <1>2, <2>1, <2>2, <2>4, AccountedIsNext, Zenon DEF EventInv
<1>4. CASE ~ (next < Oldest)
  <2>1. delivery' = dispatch(next) /\ next' = next + 1 /\ UNCHANGED skipped
    BY <1>4, Zenon DEF recv
  <2>2. next' \in 1 .. Len(sent') + 1 /\ skipped' \subseteq 1 .. next' - 1 /\ next \notin skipped
    BY <1>1, <2>1, EventNumbers DEF EventInv
  <2>3. delivery' \in [Position \X Sink -> DeliveryType]
    <3>1. [state |-> "sending", attempts |-> 1] \in DeliveryType
      BY DEF DeliveryType
    <3> QED
      BY <2>1, <3>1 DEF EventInv, dispatch
  <2>4. ASSUME NEW i \in Position, NEW s \in Sink
        PROVE  /\ i # next => delivery'[<<i, s>>] = delivery[<<i, s>>]
               /\ i = next => delivery'[<<i, s>>] = [state |-> "sending", attempts |-> 1]
    BY <2>1 DEF dispatch, EventInv
  <2>5. \A s \in Sink : 1 \in 1 .. Attempts(s)
    BY HookAssumption DEF Attempts
  <2>6. ASSUME NEW i \in Position
        PROVE  /\ i # next => (i < next' <=> i < next)
               /\ i < next => i < next'
               /\ next < next'
    BY <2>1, EventNumbers DEF Position
  <2>7. Accounted'
    <3>1. ASSUME NEW i \in Position, NEW s \in Sink
          PROVE  /\ delivery'[<<i, s>>].state # "none" <=> i < next' /\ i \notin skipped'
                 /\ delivery'[<<i, s>>].state # "none" => delivery'[<<i, s>>].attempts \in 1 .. Attempts(s)
      <4>1. CASE i = next
        BY <2>1, <2>2, <2>4, <2>5, <2>6, <4>1
      <4>2. CASE i # next
        BY <1>0, <2>1, <2>4, <2>6, <4>2, Zenon DEF Accounted
      <4> QED
        BY <4>1, <4>2, Zenon
    <3>2. ASSUME NEW i \in Position, i \in skipped' PROVE i < next' /\ i + Capacity <= Len(sent')
      BY <1>0, <1>1, <2>1, <2>6, <3>2, Zenon DEF Accounted
    <3> QED
      BY <3>1, <3>2, Zenon DEF Accounted
  <2> QED
    BY <1>1, <1>2, <2>2, <2>3, <2>7, AccountedIsNext, Zenon DEF EventInv
<1> QED
  BY <1>3, <1>4, Zenon

\* A delivery ends or is tried again.
LEMMA DeliveryKeeps ==
  ASSUME EventInv, UNCHANGED pc, NEW d \in DOMAIN delivery, delivered(d) \/ is_retryable(d)
  PROVE  EventInv'
<1>0. Accounted
  BY AccountedIs, Zenon DEF EventInv
<1>1. PICK i \in Position, s \in Sink : d = <<i, s>>
  BY DEF EventInv
<1>2. delivery[d] \in DeliveryType /\ delivery[d].state = "sending"
  BY <1>1 DEF EventInv, delivered, is_retryable
<1>3. delivery[d].attempts \in 1 .. Attempts(s) /\ Attempts(s) \in Nat
  BY <1>0, <1>1, <1>2, HookAssumption DEF Accounted, Attempts
<1>4. PICK state \in {"sending", "over"}, n \in 1 .. Attempts(s) : Delivers(d, state, n)
  <2>1. CASE delivered(d)
    BY <1>3, <2>1 DEF delivered
  <2>2. CASE is_retryable(d)
    <3>1. delivery[d].attempts < Attempts(s) /\ Delivers(d, "sending", delivery[d].attempts + 1)
      BY <1>1, <2>2 DEF is_retryable
    <3>2. delivery[d].attempts + 1 \in 1 .. Attempts(s)
      BY <1>3, <3>1
    <3> QED
      BY <3>1, <3>2, Zenon
  <2> QED
    BY <2>1, <2>2, Zenon
<1>5. /\ delivery' = [delivery EXCEPT ![d] = [state |-> state, attempts |-> n]]
      /\ UNCHANGED <<next_id, sent, call, next, skipped>>
  BY <1>4, Zenon DEF Delivers
<1>6. delivery' \in [Position \X Sink -> DeliveryType]
  <2>1. [state |-> state, attempts |-> n] \in DeliveryType
    BY <1>3 DEF DeliveryType
  <2> QED
    BY <1>5, <2>1, Zenon DEF EventInv
<1>7. Emitting' = Emitting /\ (Early' <=> Early)
  BY <1>5, Zenon DEF Emitting, Early
<1>8. ASSUME NEW k \in Position, NEW t \in Sink
      PROVE  /\ delivery'[<<k, t>>].state # "none" <=> delivery[<<k, t>>].state # "none"
             /\ delivery'[<<k, t>>].state # "none" => delivery'[<<k, t>>].attempts \in 1 .. Attempts(t)
  <2>1. CASE <<k, t>> = d
    <3>1. t = s /\ delivery'[<<k, t>>] = [state |-> state, attempts |-> n]
      BY <1>1, <1>5, <2>1 DEF EventInv
    <3> QED
      BY <1>2, <2>1, <3>1, SMTT(40)
  <2>2. CASE <<k, t>> # d
    <3>1. delivery'[<<k, t>>] = delivery[<<k, t>>]
      BY <1>5, <2>2 DEF EventInv
    <3> QED
      BY <1>0, <3>1, Zenon DEF Accounted
  <2> QED
    BY <2>1, <2>2, Zenon
<1>9. Accounted'
  BY <1>0, <1>5, <1>8, Zenon DEF Accounted
<1> QED
  BY <1>5, <1>6, <1>7, <1>9, AccountedIsNext, Zenon DEF EventInv

\* The invariant of the daemon: its secrets, where main is, and its events.
DaemonInv == SecretInv /\ PointTypes /\ StageInv /\ EventInv

\* A daemon that was never started has it.
LEMMA DaemonInit ==
  ASSUME Init
  PROVE  DaemonInv
<1>1. SecretInv
  BY SecretInit, Zenon
<1>2. PointTypes
  BY DEF Init, MainInit, PointTypes, Points
<1>3. StageInv
  <2>1. saving[Daemon] = NoSave /\ NoSave.file \notin {"identity", "token"}
    BY Constants DEF Init, VaultInit, NoSave
  <2> QED
    BY <2>1, Zenon DEF StageInv
<1>4. EventInv
  BY NewBus, Zenon DEF Init, HooksInit
<1> QED
  BY <1>1, <1>2, <1>3, <1>4, Zenon DEF DaemonInv

\* Every step keeps the invariant of the events.
LEMMA EventKept ==
  ASSUME DaemonInv, [Next]_vars
  PROVE  EventInv'
<1>0. EventInv /\ EventStep
  BY EventForms, Zenon DEF DaemonInv, SecretInv
<1>1. CASE BusRests
  <2>1. Emitting' = Emitting
    BY <1>1, Zenon DEF BusRests, NoEvents, Emitting
  <2>2. HookAccounting'
    BY <1>0, <1>1, Zenon DEF BusRests, NoEvents, EventInv, HookAccounting
  <2> QED
    BY <1>0, <1>1, <2>1, <2>2, Zenon DEF BusRests, NoEvents, EventInv
<1>2. CASE Subscribes
  <2>1. sent = <<>> /\ next' = Len(sent) + 1
    BY <1>0, <1>2, Zenon DEF Subscribes, EventInv
  <2>2. next' = next
    <3>1. Len(sent) = 0
      BY <2>1
    <3> QED
      BY <1>0, <2>1, <3>1, EventNumbers
  <2>3. NoEvents /\ ~ Early'
    BY <1>2, <2>2, Zenon DEF Subscribes, NoEvents
  <2>4. BusRests
    BY <2>3, Zenon DEF BusRests
  <2> QED
    BY <1>1, <2>4, Zenon
<1>3. ASSUME UNCHANGED pc PROVE Early' <=> Early
  BY <1>3, Zenon DEF Early
<1>4. ASSUME UNCHANGED pc, NEW c \in Call, take_id(c, "running", "ending") PROVE EventInv'
  <2>1. ~ Early
    BY <1>0, <1>4 DEF EventInv, take_id
  <2> QED
    BY <1>0, <1>3, <1>4, <2>1, TakeKeeps
<1>5. ASSUME UNCHANGED pc, ~ Early, NEW c \in Call, take_id(c, "idle", "starting") PROVE EventInv'
  BY <1>0, <1>3, <1>5, TakeKeeps
<1> QED
  BY <1>0, <1>1, <1>2, <1>4, <1>5, DroppedBus, EmitKeeps, RecvKeeps, DeliveryKeeps, Zenon DEF EventStep

\* The invariant of the daemon holds in every state.
LEMMA DaemonInvariant == Spec => []DaemonInv
<1>1. Init => DaemonInv
  BY DaemonInit, Zenon
<1>2. DaemonInv /\ [Next]_vars => DaemonInv'
  BY SecretKept, EventForms, StageKept, EventKept, Zenon DEF DaemonInv, SecretInv
<1> QED
  BY <1>1, <1>2, PTL DEF Spec

\* Every event that the dispatcher has behind it went to each hook, within the
\* attempts configured, or was lost to lag, for any number of hooks and events and
\* any capacity of the channel (run_dispatcher, HookSinks::dispatch).
THEOREM EventsAreAccountedFor == Spec => []HookAccounting
<1>1. DaemonInv => HookAccounting
  BY Zenon DEF DaemonInv, EventInv
<1> QED
  BY <1>1, DaemonInvariant, PTL

(***************************************************************************)
(* The window. An answer in the queue, by the position it has.             *)
(***************************************************************************)
\* A step that sends no command, takes no answer and starts no daemon.
WindowRests ==
  /\ UNCHANGED <<settings, child, ipc, answers, job, ui>>
  /\ pc'[Daemon] # "off" => pc[Daemon] # "off"

\* The web UI alone moves: no answer is taken.
LEMMA WindowForms ==
  ASSUME SecretTypes, StageInv, PointTypes, [Next]_vars
  PROVE  \/ WindowRests
         \/ gui_command
         \/ /\ UNCHANGED <<pc, settings, child, answers>>
            /\ \E j \in Job : snapshot(j) \/ click(j) \/ on_event(j)
         \/ UNCHANGED <<pc, settings, child>> /\ answered
<1>1. ASSUME UNCHANGED deskVars, pc'[Daemon] # "off" => pc[Daemon] # "off" PROVE WindowRests
  BY <1>1, Zenon DEF deskVars, WindowRests
<1>2. CASE UNCHANGED vars
  BY <1>1, <1>2, Zenon DEF vars, mainVars
<1>3. CASE daemon_step
  <2>1. ASSUME NEW from, NEW to, Proceed(from, to), from # "off" PROVE pc[Daemon] # "off"
    BY <2>1, Zenon DEF Proceed
  <2>2. ASSUME exit PROVE pc'[Daemon] = "off"
    BY <2>2, Constants DEF exit, Goto, PointTypes
  <2>3. ASSUME main_step PROVE pc'[Daemon] # "off" => pc[Daemon] # "off"
    <3>1. CASE start_runtime
      <4>1. CASE open_trust_store \/ load_daemon_config \/ start_grpc_runtime \/ start_http_runtime
        BY <2>1, <4>1 DEF open_trust_store, load_daemon_config, start_grpc_runtime, start_http_runtime
      <4>2. CASE start_localsend_v2 \/ start_native_runtime \/ start_wan_runtime
        BY <2>1, <4>2 DEF start_localsend_v2, start_native_runtime, start_wan_runtime
      <4> QED
        BY <3>1, <4>1, <4>2, Zenon DEF start_runtime
    <3>2. CASE stop_runtime
      <4>1. CASE stop_wan_runtime \/ stop_native_runtime \/ stop_localsend_v2
        BY <2>1, <4>1 DEF stop_wan_runtime, stop_native_runtime, stop_localsend_v2
      <4>2. CASE stop_http_runtime \/ stop_grpc_runtime \/ tell_dispatcher
        BY <2>1, <4>2 DEF stop_http_runtime, stop_grpc_runtime, tell_dispatcher
      <4> QED
        BY <3>2, <4>1, <4>2, Zenon DEF stop_runtime
    <3>3. CASE load_or_create_identity \/ load_or_generate_token \/ \E v \in Vault : load_or_generate(v)
      BY <3>3 DEF load_or_create_identity, load_or_generate_token, load_or_generate, Vault
    <3>4. CASE Writes(Daemon)
      BY <3>4, Zenon DEF Writes
    <3>5. CASE renamed
      BY <3>5, SaveFacts, Constants DEF renamed, rename_tmp, Renames, StageInv
    <3> QED
      BY <2>2, <2>3, <3>1, <3>2, <3>3, <3>4, <3>5, Zenon DEF main_step, rename_fails, stop_hook_dispatcher
  <2>4. ASSUME world_step PROVE pc'[Daemon] # "off" => pc[Daemon] # "off"
    <3>1. CASE wait_for_shutdown
      BY <3>1 DEF wait_for_shutdown
    <3> QED
      BY <2>2, <2>4, <3>1, Zenon DEF world_step, load_config_fails, start_fails, stop_fails, killed
  <2> QED
    BY <1>1, <1>3, <2>3, <2>4, Zenon DEF daemon_step, hooks_step, follow, StreamsOnly
<1>4. CASE command_line
  <2>1. ASSUME NEW to, Goto(Cli, to) PROVE pc'[Daemon] = pc[Daemon]
    BY <2>1, Constants DEF Goto, PointTypes
  <2>2. UNCHANGED pc \/ \E to : Goto(Cli, to)
    BY <1>4, Zenon DEF command_line, cli_step, load_or_create_keypair, rotate, Writes, cli_renamed, cli_ends
  <2> QED
    BY <1>1, <1>4, <2>1, <2>2, Zenon DEF command_line
<1>5. CASE web_ui
  <2>1. CASE open_feed \/ feed_ends
    BY <2>1, Zenon DEF open_feed, feed_ends, NoDaemon, WindowRests
  <2> QED
    BY <1>5, <2>1, Zenon DEF web_ui, answered, snapshot, click, on_event, NoDaemon
<1> QED
  BY <1>2, <1>3, <1>4, <1>5, Zenon DEF Next

\* Job j goes on: it waits for something else, or sends a command.
Moves(j) ==
  \E x \in JobState :
    /\ job' = [job EXCEPT ![j] = x]
    /\ \/ x.awaits \notin Command /\ ipc' = ipc
       \/ x.awaits \in Command /\ ipc' = Append(ipc, [job |-> j, cmd |-> x.awaits])

\* The pieces that chains are made of.
LEMMA Pieces ==
  ASSUME NEW j \in Job
  PROVE  /\ \A what \in Awaits \ Command : Await(j, what) /\ UNCHANGED ipc => Moves(j)
         /\ \A cmd \in Command, saves \in GuiSettings : invoke(j, cmd, saves) => Moves(j)
         /\ NoSettings \in GuiSettings /\ Standalone \in GuiSettings /\ Remote(RemoteToken) \in GuiSettings
         /\ {"idle", "snapshot", "event_snapshot"} \subseteq Awaits \ Command
         /\ Empty \in Token /\ RemoteToken \in Token /\ Stored \subseteq Token
<1>1. NoSettings \in GuiSettings /\ Standalone \in GuiSettings /\ Remote(RemoteToken) \in GuiSettings
  BY DEF NoSettings, Standalone, Remote, GuiSettings, GuiMode
<1>2. ASSUME NEW what \in Awaits \ Command, Await(j, what), UNCHANGED ipc PROVE Moves(j)
  <2>1. [Idle EXCEPT !.awaits = what] \in JobState /\ [Idle EXCEPT !.awaits = what].awaits = what
    BY <1>1, <1>2 DEF Idle, JobState
  <2> QED
    BY <1>2, <2>1, Zenon DEF Moves, Await
<1>3. ASSUME NEW cmd \in Command, NEW saves \in GuiSettings, invoke(j, cmd, saves) PROVE Moves(j)
  <2>1. /\ [awaits |-> cmd, saves |-> saves] \in JobState
        /\ [awaits |-> cmd, saves |-> saves].awaits = cmd
    BY <1>3 DEF JobState, Command
  <2> QED
    BY <1>3, <2>1, Zenon DEF Moves, invoke
<1>4. {"idle", "snapshot", "event_snapshot"} \subseteq Awaits \ Command
  BY DEF Awaits, Command
<1>5. Empty \in Token /\ RemoteToken \in Token /\ Stored \subseteq Token
  BY VaultAssumption DEF Empty, Token, RemoteToken, Stored
<1> QED
  BY <1>1, <1>2, <1>3, <1>4, <1>5, Zenon

\* refreshThenConnect moves the job.
LEMMA RefreshMoves ==
  ASSUME NEW j \in Job, NEW STATE to, refreshThenConnect(j, to)
  PROVE  Moves(j) /\ ui' = to
BY Pieces, Zenon DEF refreshThenConnect

\* What is left of a queue without its first element.
LEMMA Popped ==
  ASSUME NEW S, NEW s \in Seq(S), s # <<>>
  PROVE  /\ 1 \in DOMAIN s /\ Head(s) = s[1] /\ Tail(s) \in Seq(S)
         /\ \A i \in DOMAIN Tail(s) : i + 1 \in DOMAIN s /\ i + 1 # 1 /\ Tail(s)[i] = s[i + 1]
         /\ \A i, k \in DOMAIN Tail(s) : i + 1 = k + 1 => i = k
<1>1. Len(s) \in Nat /\ Len(s) > 0 /\ DOMAIN s = 1 .. Len(s)
  BY SMTT(30)
<1>2. 1 \in DOMAIN s /\ Head(s) = s[1] /\ Tail(s) \in Seq(S) /\ DOMAIN Tail(s) = 1 .. Len(s) - 1
  BY <1>1, SMTT(30)
<1>3. ASSUME NEW i \in DOMAIN Tail(s)
      PROVE  i \in Nat /\ i + 1 \in DOMAIN s /\ i + 1 # 1 /\ Tail(s)[i] = s[i + 1]
  BY <1>1, <1>2, SMTT(30)
<1>4. \A i, k \in Nat : i + 1 = k + 1 => i = k
  BY SMTT(30)
<1> QED
  BY <1>2, <1>3, <1>4, Zenon

\* Queue q is s and then, at n, element e.
Extends(S, s, e, q, n) ==
  /\ q \in Seq(S)
  /\ \A i \in DOMAIN s : i \in DOMAIN q /\ q[i] = s[i] /\ n > i
  /\ n \in DOMAIN q /\ q[n] = e
  /\ \A i \in DOMAIN q : i \in DOMAIN s \/ i = n

\* That is what Append makes.
LEMMA Pushed ==
  ASSUME NEW S, NEW s \in Seq(S), NEW e \in S
  PROVE  Extends(S, s, e, Append(s, e), Len(s) + 1)
<1>1. PICK q, n : q = Append(s, e) /\ n = Len(s) + 1
  BY Zenon
<1>2. Extends(S, s, e, q, n)
  BY <1>1, SMTT(30) DEF Extends
<1> QED
  BY <1>1, <1>2, Zenon

\* Fields of a message.
LEMMA Fields ==
  ASSUME NEW A, NEW B, NEW a \in A, NEW b \in B
  PROVE  /\ [job |-> a, cmd |-> b] \in [job : A, cmd : B]
         /\ [job |-> a, cmd |-> b].job = a /\ [job |-> a, cmd |-> b].cmd = b
         /\ [job |-> a, value |-> b] \in [job : A, value : B]
         /\ [job |-> a, value |-> b].job = a /\ [job |-> a, value |-> b].value = b
BY Zenon

\* Commands and answers are what the types say, wherever they are in their queue.
LEMMA Queued ==
  ASSUME WindowTypes
  PROVE  /\ \A i \in DOMAIN ipc : ipc[i].job \in Job /\ ipc[i].cmd \in Command
         /\ \A i \in DOMAIN answers : answers[i].job \in Job /\ answers[i].value \in Reply
<1>1. ASSUME NEW S, NEW s \in Seq(S), NEW i \in DOMAIN s PROVE s[i] \in S
  OBVIOUS
<1>2. \A i \in DOMAIN ipc : ipc[i] \in [job : Job, cmd : Command]
  BY <1>1, Zenon DEF WindowTypes
<1>3. \A i \in DOMAIN answers : answers[i] \in [job : Job, value : Reply]
  BY <1>1, Zenon DEF WindowTypes
<1> QED
  BY <1>2, <1>3

\* Job j moves and the answers that are left are for others.
LEMMA ChainStep ==
  ASSUME WindowTypes, ChainInv, NEW j \in Job, Moves(j),
         \A i \in DOMAIN ipc : ipc[i].job # j,
         \A i \in DOMAIN answers' :
           answers'[i].job # j /\ \E k \in DOMAIN answers : answers'[i] = answers[k],
         \A i, k \in DOMAIN answers' : answers'[i].job = answers'[k].job => i = k
  PROVE  /\ ChainInv'
         /\ ipc' \in Seq([job : Job, cmd : Command])
         /\ job' \in [Job -> JobState] /\ \A k \in Job \ {j} : job'[k] = job[k]
<1>1. PICK x \in JobState :
        /\ job' = [job EXCEPT ![j] = x]
        /\ \/ x.awaits \notin Command /\ ipc' = ipc
           \/ x.awaits \in Command /\ ipc' = Append(ipc, [job |-> j, cmd |-> x.awaits])
  BY Zenon DEF Moves
<1>2. ipc \in Seq([job : Job, cmd : Command])
  BY Zenon DEF WindowTypes
<1>3. job' \in [Job -> JobState] /\ job'[j] = x /\ \A k \in Job \ {j} : job'[k] = job[k]
  BY <1>1 DEF WindowTypes
<1>4. ASSUME NEW i \in DOMAIN ipc PROVE job'[ipc[i].job].awaits = ipc[i].cmd
  <2>1. ipc[i].job \in Job \ {j}
    BY Queued, Zenon
  <2>2. job'[ipc[i].job] = job[ipc[i].job]
    BY <1>3, <2>1, Zenon
  <2> QED
    BY <2>2, Zenon DEF ChainInv
<1>5. ASSUME NEW i \in DOMAIN answers'
      PROVE  job'[answers'[i].job].awaits \in Command /\ \A n \in DOMAIN ipc : ipc[n].job # answers'[i].job
  <2>1. PICK k \in DOMAIN answers : answers'[i] = answers[k]
    BY Zenon
  <2>2. answers'[i].job \in Job \ {j}
    BY <2>1, Queued, Zenon
  <2>3. job'[answers'[i].job] = job[answers[k].job]
    BY <1>3, <2>1, <2>2, Zenon
  <2>4. job'[answers'[i].job].awaits \in Command
    BY <2>3, Zenon DEF ChainInv
  <2>5. ASSUME NEW n \in DOMAIN ipc PROVE ipc[n].job # answers[k].job
    BY Zenon DEF ChainInv
  <2> QED
    BY <2>1, <2>4, <2>5, Zenon
<1>6. CASE x.awaits \notin Command /\ ipc' = ipc
  <2>1. ChainInv'
    BY <1>4, <1>5, <1>6, Zenon DEF ChainInv
  <2> QED
    BY <1>2, <1>3, <1>6, <2>1, Zenon
<1>7. CASE x.awaits \in Command /\ ipc' = Append(ipc, [job |-> j, cmd |-> x.awaits])
  <2>1. /\ ipc' \in Seq([job : Job, cmd : Command]) /\ Len(ipc) \in Nat
        /\ ipc'[Len(ipc) + 1].job = j /\ ipc'[Len(ipc) + 1].cmd = x.awaits
        /\ \A i \in DOMAIN ipc : ipc'[i] = ipc[i]
        /\ \A i \in DOMAIN ipc' : i \in DOMAIN ipc \/ i = Len(ipc) + 1
    <3>1. PICK T, e, n : /\ T = [job : Job, cmd : Command] /\ e = [job |-> j, cmd |-> x.awaits]
                         /\ n = Len(ipc) + 1
      BY Zenon
    <3>2. e \in T /\ e.job = j /\ e.cmd = x.awaits
      BY <1>7, <3>1, Fields, Zenon
    <3>3. Extends(T, ipc, e, Append(ipc, e), Len(ipc) + 1)
      BY <1>2, <3>1, <3>2, Pushed, Zenon
    <3>4. Extends(T, ipc, e, ipc', n)
      BY <1>7, <3>1, <3>3, Zenon
    <3>5. /\ ipc' \in Seq(T) /\ ipc'[n].job = j /\ ipc'[n].cmd = x.awaits
          /\ \A i \in DOMAIN ipc : ipc'[i] = ipc[i]
          /\ \A i \in DOMAIN ipc' : i \in DOMAIN ipc \/ i = n
      BY <3>2, <3>4, Zenon DEF Extends
    <3>6. Len(ipc) \in Nat
      BY <1>2, SMTT(30)
    <3> QED
      BY <3>1, <3>5, <3>6, Zenon
  <2>2. ipc'[Len(ipc) + 1].job = j /\ ipc'[Len(ipc) + 1].cmd = x.awaits
    BY <2>1, Zenon
  <2>3. ASSUME NEW i \in DOMAIN ipc' PROVE job'[ipc'[i].job].awaits = ipc'[i].cmd
    BY <1>3, <1>4, <2>1, <2>2, Zenon
  <2>4. ASSUME NEW i \in DOMAIN ipc', NEW k \in DOMAIN ipc', ipc'[i].job = ipc'[k].job PROVE i = k
    <3>1. CASE i \in DOMAIN ipc /\ k \in DOMAIN ipc
      BY <2>1, <2>4, <3>1, Zenon DEF ChainInv
    <3>2. PICK n : n = Len(ipc) + 1
      BY Zenon
    <3>3. ipc'[n].job = j /\ \A m \in DOMAIN ipc : ipc'[m].job # j
      BY <2>1, <2>2, <3>2, Zenon
    <3>4. (i \in DOMAIN ipc \/ i = n) /\ (k \in DOMAIN ipc \/ k = n)
      BY <2>1, <3>2, Zenon
    <3> QED
      BY <2>4, <3>1, <3>3, <3>4, Zenon
  <2>5. ASSUME NEW i \in DOMAIN ipc', NEW k \in DOMAIN answers' PROVE ipc'[i].job # answers'[k].job
    BY <1>5, <2>1, <2>2, ZenonT(40)
  <2>6. ChainInv'
    BY <1>5, <2>3, <2>4, <2>5, Zenon DEF ChainInv
  <2> QED
    BY <1>3, <2>1, <2>6, Zenon
<1> QED
  BY <1>1, <1>6, <1>7, Zenon

\* A chain that is not waiting for an answer moves.
LEMMA ChainMoves ==
  ASSUME WindowInv, NEW j \in Job, job[j].awaits \notin Command, Moves(j),
         UNCHANGED <<settings, child, answers, ui>>, pc'[Daemon] = pc[Daemon]
  PROVE  WindowInv'
<1>0. WindowTypes /\ ChainInv /\ ShownInv
  BY Zenon DEF WindowInv
<1>1. ASSUME NEW i \in DOMAIN answers PROVE answers[i].job \in Job \ {j}
  <2>1. answers[i].job \in Job
    BY <1>0, Queued, Zenon
  <2> QED
    BY <1>0, <2>1, Zenon DEF ChainInv
<1>2. ASSUME NEW i \in DOMAIN ipc PROVE ipc[i].job # j
  <2>1. ipc[i].cmd \in Command
    BY <1>0, Queued, Zenon
  <2> QED
    BY <1>0, <2>1, Zenon DEF ChainInv
<1>3. \A i, k \in DOMAIN answers : answers[i].job = answers[k].job => i = k
  BY <1>0, Zenon DEF ChainInv
<1>4. /\ ChainInv' /\ ipc' \in Seq([job : Job, cmd : Command])
      /\ job' \in [Job -> JobState] /\ \A k \in Job \ {j} : job'[k] = job[k]
  BY <1>0, <1>1, <1>2, <1>3, ChainStep, Zenon
<1>5. ASSUME NEW i \in DOMAIN answers
      PROVE  /\ ShowsRunning(answers[i])' <=> ShowsRunning(answers[i])
             /\ ShowsStopped(answers[i])' <=> ShowsStopped(answers[i])
  <2>1. job'[answers[i].job] = job[answers[i].job] /\ answers' = answers
    BY <1>1, <1>4, Zenon
  <2> QED
    BY <2>1, Zenon DEF ShowsRunning, ShowsStopped
<1>6. ShownInv'
  BY <1>0, <1>5, Zenon DEF ShownInv
<1>7. WindowTypes'
  BY <1>0, <1>4, ZenonT(40) DEF WindowTypes
<1> QED
  BY <1>4, <1>6, <1>7, Zenon DEF WindowInv

\* What the continuation of job j with reply does to the state shown.
LEMMA Continues ==
  ASSUME WindowTypes, NEW j \in Job, NEW STATE reply, reply \in Reply, job[j].awaits \in Command,
         continue(j, reply)
  PROVE  /\ Moves(j)
         /\ ui' \in UiState
         /\ ui'.standalone = "stopped" =>
              \/ job[j].awaits = "gui_stop_embedded_daemon"
              \/ /\ job[j].awaits \in {"gui_start_embedded_daemon", "gui_embedded_daemon_status"}
                 /\ reply.ok /\ ~ reply.running
              \/ /\ job[j].awaits \notin {"gui_start_embedded_daemon", "gui_embedded_daemon_status"}
                 /\ ui.standalone = "stopped"
<1>0. ui \in UiState /\ job[j] \in JobState
  BY Zenon DEF WindowTypes
<1>1. ASSUME NEW s \in GuiSettings
      PROVE  Applied(s) \in UiState /\ Applied(s).standalone = ui.standalone
  <2>1. s.token \in Token /\ s.mode \in GuiMode
    BY Pieces DEF GuiSettings
  <2> QED
    BY <1>0, <2>1, ZenonT(40) DEF Applied, UiState, Base
<1>2. CASE job[j].awaits = "gui_load_settings"
  <2>0. loadDesktopSettings(j, reply)
    BY <1>2 DEF continue
  <2>1. reply.settings \in GuiSettings
    BY DEF Reply
  <2>2. Applied(reply.settings) \in UiState /\ Applied(reply.settings).standalone = ui.standalone
    BY <1>1, <2>1, Zenon
  <2>3. Moves(j) /\ (ui' = ui \/ ui' = Applied(reply.settings))
    <3>1. "gui_embedded_daemon_status" \in Command
      BY DEF Command, Awaits
    <3> QED
      BY <2>0, <3>1, RefreshMoves, Pieces, Zenon DEF loadDesktopSettings
  <2> QED
    BY <1>0, <1>2, <2>2, <2>3
<1>3. CASE job[j].awaits = "gui_save_settings"
  <2> DEFINE to == Applied(job[j].saves)
  <2>0. saveDesktopSettings(j, reply)
    BY <1>3 DEF continue
  <2>1. to \in UiState /\ to.standalone = ui.standalone
    BY <1>0, <1>1 DEF JobState
  <2>2. [to EXCEPT !.standalone = "starting"] \in UiState
    BY <2>1 DEF UiState
  <2>3. [to EXCEPT !.standalone = "starting"].standalone = "starting"
    BY <2>1 DEF UiState
  <2>4. Moves(j) /\ (ui' = ui \/ ui' = to \/ ui' = [to EXCEPT !.standalone = "starting"])
    <3>1. "gui_start_embedded_daemon" \in Command
      BY DEF Command, Awaits
    <3> QED
      BY <2>0, <3>1, RefreshMoves, Pieces, Zenon DEF saveDesktopSettings
  <2> HIDE DEF to
  <2> QED
    BY <1>0, <1>3, <2>1, <2>2, <2>3, <2>4, ZenonT(40)
<1>4. CASE job[j].awaits = "gui_stop_embedded_daemon"
  <2>0. stopStandaloneDaemon(j)
    BY <1>4 DEF continue
  <2>1. ui' \in UiState
    BY <1>0, <2>0, Pieces, ZenonT(40) DEF stopStandaloneDaemon, UiState
  <2>2. Moves(j)
    BY <2>0, Pieces, Zenon DEF stopStandaloneDaemon
  <2> QED
    BY <1>4, <2>1, <2>2, Zenon
<1>5. CASE job[j].awaits \in {"gui_start_embedded_daemon", "gui_embedded_daemon_status"}
  <2>0. startStandaloneDaemon(j, reply)
    BY <1>5 DEF continue
  <2>1. Moves(j) /\ ui' = IF reply.ok THEN applyEmbeddedDaemonStatus(reply)
                          ELSE [ui EXCEPT !.standalone = "error"]
    BY <2>0, RefreshMoves, Zenon DEF startStandaloneDaemon
  <2>2. /\ applyEmbeddedDaemonStatus(reply) \in UiState
        /\ reply.running => applyEmbeddedDaemonStatus(reply).standalone = "running"
    <3>1. reply.token \in Token
      BY DEF Reply
    <3> QED
      BY <1>0, <3>1 DEF applyEmbeddedDaemonStatus, UiState, GuiMode, DaemonSpec
  <2>3. /\ [ui EXCEPT !.standalone = "error"] \in UiState
        /\ [ui EXCEPT !.standalone = "error"].standalone = "error"
    BY <1>0 DEF UiState
  <2> QED
    BY <1>5, <2>1, <2>2, <2>3
<1> QED
  BY <1>2, <1>3, <1>4, <1>5 DEF Command, Awaits

\* An answer is taken and its chain continued.
LEMMA AnswerKeeps ==
  ASSUME WindowInv, answered, UNCHANGED pc
  PROVE  WindowInv'
<1> DEFINE j == Head(answers).job
           reply == Head(answers).value
<1>0. WindowTypes /\ ChainInv /\ ShownInv
  BY Zenon DEF WindowInv
<1>1. /\ answers # <<>> /\ answers' = Tail(answers) /\ continue(j, reply)
      /\ UNCHANGED <<settings, child>>
  BY Zenon DEF answered
<1>2. /\ 1 \in DOMAIN answers /\ Head(answers) = answers[1] /\ Len(answers) \in Nat \ {0}
      /\ answers' \in Seq([job : Job, value : Reply])
      /\ DOMAIN answers = 1 .. Len(answers) /\ DOMAIN answers' = 1 .. Len(answers) - 1
      /\ \A i \in DOMAIN answers' : i + 1 \in DOMAIN answers /\ answers'[i] = answers[i + 1]
  <2>1. answers \in Seq([job : Job, value : Reply])
    BY <1>0, Zenon DEF WindowTypes
  <2> QED
    BY <1>1, <2>1
<1>3. j \in Job /\ reply \in Reply /\ job[j].awaits \in Command
  BY <1>0, <1>2, Queued, Zenon DEF ChainInv
<1>4. /\ Moves(j) /\ ui' \in UiState
      /\ ui'.standalone = "stopped" =>
           \/ job[j].awaits = "gui_stop_embedded_daemon"
           \/ /\ job[j].awaits \in {"gui_start_embedded_daemon", "gui_embedded_daemon_status"}
              /\ reply.ok /\ ~ reply.running
           \/ /\ job[j].awaits \notin {"gui_start_embedded_daemon", "gui_embedded_daemon_status"}
              /\ ui.standalone = "stopped"
  BY <1>0, <1>1, <1>3, Continues, Zenon
<1>6. ui'.standalone = "stopped" =>
        ShowsStopped(answers[1]) \/ (ui.standalone = "stopped" /\ ~ ShowsRunning(answers[1]))
  BY <1>2, <1>4, Zenon DEF ShowsStopped, ShowsRunning, SaysStopped, SaysRunning
<1> HIDE DEF j, reply
<1>8. ASSUME NEW i \in DOMAIN answers' PROVE answers'[i].job \in Job \ {j}
  <2>1. answers'[i] = answers[i + 1] /\ i + 1 \in DOMAIN answers /\ i + 1 # 1
    BY <1>2
  <2>2. answers[i + 1].job # answers[1].job
    BY <1>0, <1>2, <2>1, Zenon DEF ChainInv
  <2> QED
    BY <1>0, <1>2, <2>1, <2>2, Queued, Zenon DEF j
<1>5. ASSUME NEW i \in DOMAIN answers', NEW k \in DOMAIN answers', answers'[i].job = answers'[k].job
      PROVE  i = k
  <2>1. /\ answers'[i] = answers[i + 1] /\ i + 1 \in DOMAIN answers
        /\ answers'[k] = answers[k + 1] /\ k + 1 \in DOMAIN answers
    BY <1>2, Zenon
  <2>2. i + 1 = k + 1
    BY <1>0, <1>5, <2>1, Zenon DEF ChainInv
  <2> QED
    BY <1>2, <2>2
<1>7. /\ ChainInv' /\ ipc' \in Seq([job : Job, cmd : Command])
      /\ job' \in [Job -> JobState] /\ \A k \in Job \ {j} : job'[k] = job[k]
  <2>1. ASSUME NEW i \in DOMAIN ipc PROVE ipc[i].job # j
    BY <1>0, <1>2, ZenonT(40) DEF ChainInv, j
  <2>2. ASSUME NEW i \in DOMAIN answers'
        PROVE  answers'[i].job # j /\ \E k \in DOMAIN answers : answers'[i] = answers[k]
    BY <1>2, <1>8, Zenon
  <2> QED
    BY <1>0, <1>3, <1>4, <1>5, <2>1, <2>2, ChainStep, ZenonT(40)
<1>9. ASSUME NEW i \in DOMAIN answers'
      PROVE  /\ job'[answers'[i].job] = job[answers[i + 1].job]
             /\ ShowsRunning(answers[i])' <=> ShowsRunning(answers[i + 1])
             /\ ShowsStopped(answers[i])' <=> ShowsStopped(answers[i + 1])
  <2>1. job'[answers'[i].job] = job[answers[i + 1].job] /\ answers'[i] = answers[i + 1]
    BY <1>2, <1>7, <1>8, Zenon
  <2> QED
    BY <2>1, Zenon DEF ShowsRunning, ShowsStopped
<1>10. ShownInv'
  <2>1. ASSUME NEW i \in {0} \cup DOMAIN answers', child,
               \E k \in DOMAIN answers : k > i + 1 /\ ShowsRunning(answers[k])
        PROVE  \E k \in DOMAIN answers' : k > i /\ ShowsRunning(answers[k])'
    <3>1. PICK k \in DOMAIN answers : k > i + 1 /\ ShowsRunning(answers[k])
      BY <2>1, Zenon
    <3>2. k - 1 \in DOMAIN answers' /\ k - 1 > i /\ (k - 1) + 1 = k
      BY <1>2, <2>1, <3>1, SMTT(40)
    <3>3. ShowsRunning(answers[k - 1])'
      BY <1>9, <3>1, <3>2
    <3> QED
      BY <3>2, <3>3, Zenon
  <2>2. ASSUME child, ui'.standalone = "stopped"
        PROVE  \E k \in DOMAIN answers' : ShowsRunning(answers[k])'
    <3>1. CASE ShowsStopped(answers[1])
      <4>1. \E k \in DOMAIN answers : k > 1 /\ ShowsRunning(answers[k])
        BY <1>0, <1>2, <2>2, <3>1, Zenon DEF ShownInv
      <4>2. \E k \in DOMAIN answers : k > 0 + 1 /\ ShowsRunning(answers[k])
        BY <4>1
      <4> QED
        BY <2>1, <2>2, <4>2, Zenon
    <3>2. CASE ui.standalone = "stopped" /\ ~ ShowsRunning(answers[1])
      <4>1. PICK k \in DOMAIN answers : ShowsRunning(answers[k])
        BY <1>0, <2>2, <3>2, Zenon DEF ShownInv
      <4>2. k > 0 + 1
        BY <1>2, <3>2, <4>1
      <4> QED
        BY <2>1, <2>2, <4>1, <4>2, Zenon
    <3> QED
      BY <1>6, <2>2, <3>1, <3>2, Zenon
  <2>3. ASSUME child, NEW i \in DOMAIN answers', ShowsStopped(answers[i])'
        PROVE  \E k \in DOMAIN answers' : k > i /\ ShowsRunning(answers[k])'
    <3>1. i + 1 \in DOMAIN answers /\ ShowsStopped(answers[i + 1])
      BY <1>2, <1>9, <2>3, Zenon
    <3>2. \E k \in DOMAIN answers : k > i + 1 /\ ShowsRunning(answers[k])
      BY <1>0, <2>3, <3>1, Zenon DEF ShownInv
    <3> QED
      BY <2>1, <2>3, <3>2, Zenon
  <2> QED
    BY <1>0, <1>1, <2>2, <2>3, Zenon DEF ShownInv
<1>11. WindowTypes'
  BY <1>0, <1>1, <1>2, <1>4, <1>7, Zenon DEF WindowTypes
<1> QED
  BY <1>7, <1>10, <1>11, Zenon DEF WindowInv

\* An answer to cmd, by what it will show, and what the manager knew when it gave it.
Speaks(cmd, v) ==
  \/ ~ child' /\ pc'[Daemon] = "off"
  \/ /\ child'
     /\ child \/ SaysRunning(cmd, v)
     /\ ~ SaysStopped(cmd, v)

\* What the commands answer.
LEMMA Replies ==
  ASSUME SecretTypes
  PROVE  /\ Failed \in Reply /\ NotRunning \in Reply
         /\ Running(read_optional_token) \in Reply
         /\ Running(read_optional_token).ok /\ Running(read_optional_token).running
         /\ \A s \in GuiSettings : [NotRunning EXCEPT !.settings = s] \in Reply
<1>1. NoSettings \in GuiSettings
  BY DEF NoSettings, Remote, GuiSettings, GuiMode
<1>2. Empty \in Token /\ Stored \subseteq Token
  BY VaultAssumption DEF Empty, Token, RemoteToken, Stored
<1>3. read_optional_token \in Token
  <2>1. file["token"] \in Stored \cup {Absent}
    BY Constants, Zenon DEF SecretTypes
  <2>2. \A f \in DaemonSpec.token_path : f = "token"
    BY DEF DaemonSpec
  <2> QED
    BY <1>2, <2>1, <2>2, Zenon DEF read_optional_token
<1>4. Failed \in Reply
  BY <1>1, <1>2 DEF Failed, Reply
<1>5. NotRunning \in Reply /\ NotRunning.ok
  BY <1>4, ZenonT(40) DEF NotRunning, Reply
<1>6. \A t \in Token : Running(t) \in Reply /\ Running(t).ok /\ Running(t).running
  BY <1>5, ZenonT(40) DEF Running, Reply
<1>7. \A s \in GuiSettings : [NotRunning EXCEPT !.settings = s] \in Reply
  BY <1>5 DEF Reply
<1> QED
  BY <1>3, <1>4, <1>5, <1>6, <1>7, ZenonT(40)

\* A command is taken from the queue and answered by what the manager then knows.
LEMMA CommandSpeaks ==
  ASSUME SecretTypes, PointTypes, WindowTypes, pc[Daemon] # "off" => child, gui_command
  PROVE  /\ ipc # <<>> /\ ipc' = Tail(ipc) /\ UNCHANGED <<job, ui>>
         /\ settings' \in GuiSettings /\ child' \in BOOLEAN
         /\ pc'[Daemon] # "off" => child'
         /\ \E v \in Reply : Answer(v) /\ Speaks(Head(ipc).cmd, v)
<1> DEFINE cmd == Head(ipc).cmd
<1>0. ipc # <<>> /\ ipc' = Tail(ipc) /\ UNCHANGED <<job, ui>>
  BY Zenon DEF gui_command
<1>1. 1 \in DOMAIN ipc /\ Head(ipc) = ipc[1] /\ Head(ipc).job \in Job /\ cmd \in Command
  <2>1. 1 \in DOMAIN ipc /\ Head(ipc) = ipc[1]
    BY <1>0 DEF WindowTypes
  <2> QED
    BY <2>1, Queued, Zenon
<1>2. /\ settings \in GuiSettings /\ child \in BOOLEAN /\ Daemon \in Process
      /\ job[Head(ipc).job].saves \in GuiSettings
  <2>1. job[Head(ipc).job] \in JobState
    BY <1>1, Zenon DEF WindowTypes
  <2>2. job[Head(ipc).job].saves \in GuiSettings
    BY <2>1, SMTT(40) DEF JobState
  <2> QED
    BY <2>2, Constants, Zenon DEF WindowTypes
<1>3. CASE status /\ cmd # "gui_stop_embedded_daemon"
  <2>1. UNCHANGED <<settings, pc>> /\ child' = (child /\ pc[Daemon] # "off")
    BY <1>3, Zenon DEF status, mainVars
  <2>2. CASE child'
    BY <1>0, <1>2, <1>3, <2>1, <2>2, Replies, Zenon DEF status, Speaks, SaysRunning, SaysStopped
  <2>3. CASE ~ child'
    BY <1>0, <1>2, <1>3, <2>1, <2>3, Replies, Zenon DEF status, Speaks, SaysRunning, SaysStopped
  <2> QED
    BY <2>2, <2>3
<1>4. CASE start /\ cmd = "gui_start_embedded_daemon"
  <2>1. CASE child /\ status
    BY <1>3, <1>4, <2>1
  <2>2. CASE ~ child /\ child' = TRUE /\ Answer(Running(read_optional_token)) /\ UNCHANGED settings
    <3>1. Speaks(cmd, Running(read_optional_token))
      BY <1>4, <2>2, Replies DEF Speaks, SaysRunning, SaysStopped
    <3> QED
      BY <1>0, <1>2, <2>2, <3>1, Replies, Zenon
  <2>3. CASE ~ child /\ Answer(Failed) /\ UNCHANGED <<settings, child, pc>>
    <3>1. Speaks(cmd, Failed)
      BY <2>3, ZenonT(40) DEF Speaks, SaysRunning, SaysStopped
    <3> QED
      BY <1>0, <1>2, <2>3, <3>1, Replies, Zenon
  <2> QED
    BY <1>4, <2>1, <2>2, <2>3, ZenonT(40) DEF start
<1>5. CASE stop
  <2>1. child' = FALSE /\ Answer(NotRunning) /\ UNCHANGED settings
    BY <1>5, Zenon DEF stop
  <2>2. CASE child /\ pc[Daemon] # "off"
    <3>1. pc'[Daemon] = "off"
      BY <1>2, <1>5, <2>2, Zenon DEF stop, exit, Goto, PointTypes
    <3> QED
      BY <1>0, <1>2, <2>1, <3>1, Replies, Zenon DEF Speaks, SaysRunning, SaysStopped
  <2>3. CASE ~ (child /\ pc[Daemon] # "off")
    <3>1. pc' = pc /\ pc[Daemon] = "off"
      BY <1>5, <2>3, Zenon DEF stop, mainVars
    <3> QED
      BY <1>0, <1>2, <2>1, <3>1, Replies, Zenon DEF Speaks, SaysRunning, SaysStopped
  <2> QED
    BY <2>2, <2>3
<1>6. CASE /\ gui_settings
           /\ cmd \notin {"gui_start_embedded_daemon", "gui_stop_embedded_daemon", "gui_embedded_daemon_status"}
  <2>1. UNCHANGED <<child, pc>>
    BY <1>6, Zenon DEF gui_settings
  <2>2. \E v \in Reply : Answer(v) /\ settings' \in GuiSettings
    BY <1>2, <1>6, Replies, Zenon DEF gui_settings, gui_load_settings, gui_save_settings
  <2>3. \A v \in Reply : Speaks(cmd, v)
    BY <1>2, <1>6, <2>1, Zenon DEF Speaks, SaysRunning, SaysStopped
  <2> QED
    BY <1>0, <1>2, <2>1, <2>2, <2>3, Zenon
<1>7. /\ \/ start /\ cmd = "gui_start_embedded_daemon"
         \/ stop
         \/ status /\ cmd # "gui_stop_embedded_daemon"
         \/ /\ gui_settings
            /\ cmd \notin {"gui_start_embedded_daemon", "gui_stop_embedded_daemon", "gui_embedded_daemon_status"}
  BY DEF gui_command
<1> QED
  BY <1>3, <1>4, <1>5, <1>6, <1>7, ZenonT(40)

\* A command keeps the invariant: what it answers goes behind the other answers.
LEMMA CommandKeeps ==
  ASSUME WindowInv, SecretTypes, PointTypes, gui_command
  PROVE  WindowInv'
<1> DEFINE j == Head(ipc).job
           cmd == Head(ipc).cmd
<1>0. WindowTypes /\ ChainInv /\ ShownInv /\ (pc[Daemon] # "off" => child)
  BY Zenon DEF WindowInv, ShownInv
<1>1. /\ ipc # <<>> /\ ipc' = Tail(ipc) /\ UNCHANGED <<job, ui>>
      /\ settings' \in GuiSettings /\ child' \in BOOLEAN /\ (pc'[Daemon] # "off" => child')
      /\ \E v \in Reply : Answer(v) /\ Speaks(Head(ipc).cmd, v)
  BY <1>0, CommandSpeaks, Zenon
<1>2. PICK v \in Reply : Answer(v) /\ Speaks(cmd, v)
  BY <1>1, Zenon
<1>3. /\ 1 \in DOMAIN ipc /\ Head(ipc) = ipc[1] /\ ipc' \in Seq([job : Job, cmd : Command])
      /\ \A i \in DOMAIN ipc' : i + 1 \in DOMAIN ipc /\ i + 1 # 1 /\ ipc'[i] = ipc[i + 1]
      /\ \A i, k \in DOMAIN ipc' : i + 1 = k + 1 => i = k
  <2>1. ipc \in Seq([job : Job, cmd : Command])
    BY <1>0, Zenon DEF WindowTypes
  <2> QED
    BY <1>1, <2>1, Popped, Zenon
<1>4. j \in Job /\ job[j].awaits = cmd /\ cmd \in Command
  <2>1. PICK h : h = ipc[1]
    BY Zenon
  <2>2. h.job \in Job /\ h.cmd \in Command /\ job[h.job].awaits = h.cmd
    <3>1. ipc[1].job \in Job /\ ipc[1].cmd \in Command
      BY <1>0, <1>3, Queued, Zenon
    <3>2. job[ipc[1].job].awaits = ipc[1].cmd
      BY <1>0, <1>3, Zenon DEF ChainInv
    <3> QED
      BY <2>1, <3>1, <3>2, Zenon
  <2>3. h = Head(ipc)
    BY <1>3, <2>1, Zenon
  <2> QED
    BY <2>2, <2>3, Zenon
<1>n. PICK n \in Nat : n = Len(answers) + 1
  BY <1>0 DEF WindowTypes
<1>5. /\ answers' \in Seq([job : Job, value : Reply])
      /\ \A i \in DOMAIN answers : i \in DOMAIN answers' /\ answers'[i] = answers[i] /\ n > i
      /\ n \in DOMAIN answers' /\ answers'[n].job = j /\ answers'[n].value = v
      /\ \A i \in DOMAIN answers' : i \in DOMAIN answers \/ i = n
  <2>1. answers' = Append(answers, [job |-> j, value |-> v])
    BY <1>2, Zenon DEF Answer
  <2>2. answers \in Seq([job : Job, value : Reply])
    BY <1>0, Zenon DEF WindowTypes
  <2> HIDE DEF j
  <2>3. PICK T, e : T = [job : Job, value : Reply] /\ e = [job |-> j, value |-> v]
    BY Zenon
  <2>4. e \in T /\ e.job = j /\ e.value = v
    BY <1>4, <2>3, Fields, Zenon
  <2>5. Extends(T, answers, e, Append(answers, e), Len(answers) + 1)
    BY <2>2, <2>3, <2>4, Pushed, Zenon
  <2>6. Extends(T, answers, e, answers', n)
    BY <1>n, <2>1, <2>3, <2>5, Zenon
  <2>7. /\ answers' \in Seq(T)
        /\ \A i \in DOMAIN answers : i \in DOMAIN answers' /\ answers'[i] = answers[i] /\ n > i
        /\ n \in DOMAIN answers' /\ answers'[n].job = j /\ answers'[n].value = v
        /\ \A i \in DOMAIN answers' : i \in DOMAIN answers \/ i = n
    BY <2>4, <2>6, Zenon DEF Extends
  <2> QED
    BY <2>3, <2>7, Zenon
<1>6. answers'[n].job = j /\ answers'[n].value = v
  BY <1>5, Zenon
<1> HIDE DEF j, cmd
<1>7. ChainInv'
  <2>1. ASSUME NEW i \in DOMAIN ipc' PROVE job'[ipc'[i].job].awaits = ipc'[i].cmd /\ ipc'[i].job # j
    <3>1. ipc'[i] = ipc[i + 1] /\ i + 1 \in DOMAIN ipc /\ i + 1 # 1
      BY <1>3, Zenon
    <3>2. job[ipc[i + 1].job].awaits = ipc[i + 1].cmd
      BY <1>0, <3>1, Zenon DEF ChainInv
    <3>3. ipc[i + 1].job # ipc[1].job
      BY <1>0, <1>3, <3>1, Zenon DEF ChainInv
    <3> QED
      BY <1>1, <1>3, <3>1, <3>2, <3>3, Zenon DEF j
  <2>2. ASSUME NEW i \in DOMAIN ipc', NEW k \in DOMAIN ipc', ipc'[i].job = ipc'[k].job PROVE i = k
    <3>1. i + 1 \in DOMAIN ipc /\ k + 1 \in DOMAIN ipc /\ ipc[i + 1].job = ipc[k + 1].job
      BY <1>3, <2>2, Zenon
    <3>2. i + 1 = k + 1
      BY <1>0, <3>1, Zenon DEF ChainInv
    <3> QED
      BY <1>3, <3>2, Zenon
  <2>3. ASSUME NEW i \in DOMAIN answers PROVE job'[answers[i].job].awaits \in Command /\ answers[i].job # j
    <3>1. ipc[1].job # answers[i].job
      BY <1>0, <1>3, Zenon DEF ChainInv
    <3>2. job[answers[i].job].awaits \in Command
      BY <1>0, Zenon DEF ChainInv
    <3> QED
      BY <1>1, <1>3, <3>1, <3>2, Zenon DEF j
  <2>4. ASSUME NEW i \in DOMAIN answers' PROVE job'[answers'[i].job].awaits \in Command
    BY <1>1, <1>4, <1>5, <1>6, <2>3, Zenon
  <2>5. ASSUME NEW i \in DOMAIN answers', NEW k \in DOMAIN answers', answers'[i].job = answers'[k].job
        PROVE  i = k
    <3>1. CASE i \in DOMAIN answers /\ k \in DOMAIN answers
      BY <1>0, <1>5, <2>5, <3>1, Zenon DEF ChainInv
    <3> QED
      BY <1>5, <1>6, <2>3, <2>5, <3>1, Zenon
  <2>6. ASSUME NEW i \in DOMAIN ipc', NEW k \in DOMAIN answers' PROVE ipc'[i].job # answers'[k].job
    <3>1. CASE k \in DOMAIN answers
      <4>1. ipc[i + 1].job # answers[k].job
        BY <1>0, <1>3, <3>1, Zenon DEF ChainInv
      <4> QED
        BY <1>3, <1>5, <3>1, <4>1, Zenon
    <3> QED
      BY <1>5, <1>6, <2>1, <3>1, Zenon
  <2> QED
    BY <2>1, <2>2, <2>4, <2>5, <2>6, Zenon DEF ChainInv
<1>8. ASSUME NEW i \in DOMAIN answers
      PROVE  /\ ShowsRunning(answers[i])' <=> ShowsRunning(answers[i])
             /\ ShowsStopped(answers[i])' <=> ShowsStopped(answers[i])
  <2>1. answers'[i] = answers[i] /\ job' = job
    BY <1>1, <1>5, Zenon
  <2> QED
    BY <2>1, Zenon DEF ShowsRunning, ShowsStopped
<1>9. ASSUME child' PROVE (child \/ ShowsRunning(answers[n])') /\ ~ ShowsStopped(answers[n])'
  <2>1. job'[answers'[n].job].awaits = cmd /\ answers'[n].value = v
    BY <1>1, <1>4, <1>6, Zenon
  <2>2. (child \/ SaysRunning(cmd, v)) /\ ~ SaysStopped(cmd, v)
    BY <1>2, <1>9, Zenon DEF Speaks
  <2> QED
    BY <2>1, <2>2, Zenon DEF ShowsRunning, ShowsStopped
<1>10. ASSUME child'
       PROVE  /\ ui'.standalone = "stopped" => \E k \in DOMAIN answers' : ShowsRunning(answers[k])'
              /\ \A i \in DOMAIN answers' : ShowsStopped(answers[i])' =>
                   \E k \in DOMAIN answers' : k > i /\ ShowsRunning(answers[k])'
  <2>1. CASE ShowsRunning(answers[n])'
    BY <1>5, <1>9, <1>10, <2>1, Zenon
  <2>2. CASE child
    <3>1. /\ ui.standalone = "stopped" => \E k \in DOMAIN answers : ShowsRunning(answers[k])
          /\ \A i \in DOMAIN answers : ShowsStopped(answers[i]) =>
               \E k \in DOMAIN answers : k > i /\ ShowsRunning(answers[k])
      BY <1>0, <2>2, Zenon DEF ShownInv
    <3>2. ui'.standalone = "stopped" => \E k \in DOMAIN answers' : ShowsRunning(answers[k])'
      BY <1>1, <1>5, <1>8, <3>1, Zenon
    <3>3. ASSUME NEW i \in DOMAIN answers', ShowsStopped(answers[i])'
          PROVE  \E k \in DOMAIN answers' : k > i /\ ShowsRunning(answers[k])'
      <4>1. i \in DOMAIN answers /\ ShowsStopped(answers[i])
        BY <1>5, <1>8, <1>9, <1>10, <3>3, Zenon
      <4> QED
        BY <1>5, <1>8, <3>1, <4>1, Zenon
    <3> QED
      BY <3>2, <3>3, Zenon
  <2> QED
    BY <1>9, <1>10, <2>1, <2>2, Zenon
<1>11. ShownInv'
  BY <1>1, <1>10, Zenon DEF ShownInv
<1>12. WindowTypes'
  BY <1>0, <1>1, <1>3, <1>5, Zenon DEF WindowTypes
<1> QED
  BY <1>7, <1>11, <1>12, Zenon DEF WindowInv

\* At the launch one chain waits for the settings.
LEMMA WindowInit == Init => WindowInv
<1> SUFFICES ASSUME Init PROVE WindowInv
  OBVIOUS
<1>1. PICK j \in Job :
        /\ ipc = <<[job |-> j, cmd |-> "gui_load_settings"]>>
        /\ job = [i \in Job |-> IF i = j THEN [Idle EXCEPT !.awaits = "gui_load_settings"] ELSE Idle]
  <2>1. (CHOOSE j \in Job : TRUE) \in Job
    BY DesktopAssumption
  <2> QED
    BY <2>1, Zenon DEF Init
<1>2. /\ settings \in {NoSettings, Standalone} /\ child = FALSE /\ answers = <<>>
      /\ ui = [mode |-> "remote", base |-> "none", token |-> Empty, standalone |-> "stopped"]
      /\ pc[Daemon] = "off"
  BY Constants, Zenon DEF Init, MainInit
<1>3. Idle \in JobState /\ [Idle EXCEPT !.awaits = "gui_load_settings"] \in JobState
  BY Pieces DEF Idle, JobState, Awaits
<1>4. WindowTypes
  <2>1. job \in [Job -> JobState]
    BY <1>1, <1>3, Zenon
  <2>2. ipc \in Seq([job : Job, cmd : Command])
    BY <1>1 DEF Command, Awaits
  <2>3. ui \in UiState
    BY <1>2, Pieces DEF UiState, GuiMode
  <2>4. settings \in GuiSettings
    BY <1>1, <1>2, Pieces, Zenon
  <2>5. \A S : <<>> \in Seq(S)
    OBVIOUS
  <2>6. child \in BOOLEAN /\ answers \in Seq([job : Job, value : Reply])
    BY <1>2, <2>5, Zenon
  <2> QED
    BY <2>1, <2>2, <2>3, <2>4, <2>6, Zenon DEF WindowTypes
<1>5. ChainInv
  BY <1>1, <1>2 DEF ChainInv, Idle
<1>6. ShownInv
  BY <1>2, Zenon DEF ShownInv
<1> QED
  BY <1>4, <1>5, <1>6, Zenon DEF WindowInv

\* Every step keeps the invariant of the window.
LEMMA WindowKept ==
  ASSUME WindowInv, SecretTypes, PointTypes, StageInv, [Next]_vars
  PROVE  WindowInv'
<1>1. CASE WindowRests
  <2>1. WindowTypes' /\ ChainInv'
    BY <1>1, Zenon DEF WindowInv, WindowTypes, ChainInv, WindowRests
  <2>2. ShownInv'
    BY <1>1, Zenon DEF WindowInv, ShownInv, WindowRests, ShowsRunning, ShowsStopped
  <2> QED
    BY <2>1, <2>2, Zenon DEF WindowInv
<1>2. CASE gui_command
  BY <1>2, CommandKeeps, Zenon
<1>3. CASE UNCHANGED <<pc, settings, child>> /\ answered
  BY <1>3, AnswerKeeps, Zenon
<1>4. ASSUME UNCHANGED <<pc, settings, child, answers>>,
             NEW j \in Job, snapshot(j) \/ click(j) \/ on_event(j)
      PROVE  WindowInv'
  <2>1. {"snapshot", "event_snapshot", "idle"} \cap Command = {}
    BY DEF Command
  <2>2. job[j].awaits \notin Command
    BY <1>4, <2>1, Zenon DEF snapshot, click, on_event
  <2>3. CASE snapshot(j)
    <3>1. Moves(j) /\ ui' = ui
      BY <2>3, Pieces, Zenon DEF snapshot
    <3> QED
      BY <1>4, <2>2, <3>1, ChainMoves, Zenon
  <2>4. CASE click(j)
    <3>1. {"gui_save_settings", "gui_stop_embedded_daemon"} \subseteq Command
      BY DEF Command, Awaits
    <3>2. Moves(j) /\ ui' = ui
      <4>1. CASE refreshThenConnect(j, ui)
        BY <4>1, RefreshMoves, Zenon
      <4>2. ASSUME NEW saves \in {Standalone, Remote(RemoteToken)},
                   invoke(j, "gui_save_settings", saves)
            PROVE  Moves(j)
        <5>1. saves \in GuiSettings
          BY Pieces, Zenon
        <5> QED
          BY <3>1, <4>2, <5>1, Pieces, Zenon
      <4>3. ASSUME invoke(j, "gui_stop_embedded_daemon", NoSettings) PROVE Moves(j)
        BY <3>1, <4>3, Pieces, Zenon
      <4> QED
        BY <2>4, <4>1, <4>2, <4>3, Zenon DEF click
    <3> QED
      BY <1>4, <2>2, <3>2, ChainMoves, Zenon
  <2>5. CASE on_event(j)
    <3>1. CASE UNCHANGED job
      <4>1. WindowRests
        BY <1>4, <2>5, <3>1, Zenon DEF on_event, WindowRests
      <4> QED
        BY <1>1, <4>1, Zenon
    <3>2. CASE Await(j, "event_snapshot")
      <4>1. Moves(j) /\ ui' = ui
        BY <2>5, <3>2, Pieces, Zenon DEF on_event
      <4> QED
        BY <1>4, <2>2, <4>1, ChainMoves, Zenon
    <3> QED
      BY <2>5, <3>1, <3>2, Zenon DEF on_event
  <2> QED
    BY <1>4, <2>3, <2>4, <2>5, Zenon
<1> QED
  BY <1>1, <1>2, <1>3, <1>4, WindowForms, Zenon

\* The invariant of the application and its daemon.
DesktopInv == DaemonInv /\ WindowInv

\* DesktopInv holds in every reachable state.
LEMMA DesktopInvariant == Spec => []DesktopInv
<1>1. Init => WindowInv
  BY WindowInit
<1>2. DaemonInv /\ WindowInv /\ [Next]_vars => WindowInv'
  <2>1. DaemonInv => SecretTypes /\ PointTypes /\ StageInv
    BY Zenon DEF DaemonInv, SecretInv
  <2> QED
    BY <2>1, WindowKept, Zenon
<1> QED
  BY <1>1, <1>2, DaemonInvariant, PTL DEF Spec, DesktopInv

\* When the web UI says stopped and no command or answer is on its way, the daemon
\* is dead and the manager holds no child, for any number of chains of clicks that
\* overlap (EmbeddedDaemonManager, startStandaloneDaemon, stopStandaloneDaemon).
THEOREM StoppedDaemonIsDead == Spec => []StoppedMeansDead
<1>1. DesktopInv => StoppedMeansDead
  <2> SUFFICES ASSUME DesktopInv, ui.standalone = "stopped", answers = <<>>
               PROVE  pc[Daemon] = "off" /\ ~ child
    BY Zenon DEF StoppedMeansDead
  <2>1. DOMAIN answers = {}
    OBVIOUS
  <2> QED
    BY <2>1, Zenon DEF DesktopInv, WindowInv, ShownInv
<1> QED
  BY <1>1, DesktopInvariant, PTL

\* Every record and counter stays within its type, for any number of calls, hooks,
\* watchers and chains, and what a daemon serves are whole TLS identities.
THEOREM DesktopIsTyped == Spec => []TypeOK
<1>1. DesktopInv => TypeOK
  <2> SUFFICES ASSUME DesktopInv PROVE TypeOK
    OBVIOUS
  <2>1. SecretTypes /\ PointTypes /\ EventInv /\ WindowTypes
    BY Zenon DEF DesktopInv, DaemonInv, WindowInv, SecretInv
  <2>2. \A v \in Vault : served[v] \subseteq (1 .. MaxMinted) \X (1 .. MaxMinted)
    BY <2>1, Zenon DEF SecretTypes, Secret
  <2>3. next \in 1 .. MaxEvents + 1 /\ Len(sent) <= MaxEvents /\ skipped \subseteq Position
    <3>1. next \in 1 .. Len(sent) + 1 /\ skipped \subseteq 1 .. next - 1
      BY <2>1, Zenon DEF EventInv
    <3> QED
      BY <2>1, <3>1, EventNumbers DEF Position
  <2>4. \A c \in Call : call[c].pc \in CallState
    BY <2>1 DEF EventInv
  <2>5. /\ \A i \in DOMAIN answers : answers[i].value \in Reply
        /\ \A i \in DOMAIN ipc : ipc[i].cmd \in Command
    BY <2>1, Queued, Zenon
  <2>6. ui.token \in Token /\ \A j \in Job : job[j].awaits \in Awaits
    <3>1. ui \in UiState /\ \A j \in Job : job[j] \in JobState
      BY <2>1, Zenon DEF WindowTypes
    <3> QED
      BY <3>1 DEF UiState, JobState
  <2> QED
    BY <2>1, <2>2, <2>3, <2>4, <2>5, <2>6, Zenon
       DEF TypeOK, SecretTypes, PointTypes, Points, Secret, WindowTypes
<1> QED
  BY <1>1, DesktopInvariant, PTL
====
