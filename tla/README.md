# Verification of nightbridge

TLA+ models of nightbridge. TLC checks safety and liveness on small instances, and every
safety property of the passing runs is also proved with TLAPS, for every value of the
constants that meets the stated assumptions. `PROJECT.json` maps every definition to the
lines it models and lists components, runs, mutants, findings, hazards and theorems.

## The system

nightbridge is a file transfer daemon with its clients. Its parts, their state and
what changes it:

| part | state | modelled by |
|---|---|---|
| native receiver (`protocol-native-v1/transfer.rs`, one task per QUIC connection in `daemon/main.rs`) | `.part` files, inbox directory | NativeTransfer |
| manifest store (`manifest.rs`, SQLite), chunk math (`chunk.rs`, again in `manifest.rs`) and chunk frames (`transfer.rs`) | transfers, files, verified chunks | NativeTransfer, ManifestFile, Ranges, ChunkFrames |
| LocalSend sessions (`session.rs`) and inbox writer (`inbox.rs`) | sessions with tokens and deadlines; `.part` files, the same inbox directory | LocalSend |
| LocalSend admission (`server.rs`), trust store (`core/trust/store.rs`, SQLite) | allowlist file, pending, trusted and blocked peers | TrustStore, LocalSendAdmission |
| terminal dashboard (`tui/`) | the list of pending peers and a selection | Dashboard |
| rendezvous (`rendezvous/`) | registrations with TTL, queued notifications, in memory | Registry, RendezvousServer |
| WAN loop (`daemon/wan.rs`, `candidates.rs`, `stun.rs`) | none but its position | WanLoop |
| discovery (`native_lan.rs`, `localsend_lan.rs`, `discovery.rs`) | LAN table, caches of the network | NativePeers |
| dialing and control stream (`hole_punch.rs`, `client.rs`, `framing.rs`, `handle_native_connection`) | connections, dial tasks | NativeConnection |
| sends (`daemon/api/transfers.rs`) | the call, its events | SendFiles |
| identity, token and TLS files (`vault.rs`, `api_token.rs`, `tls.rs`) | files and their temporary names | Vaults |
| event bus and hooks (`daemon/events.rs`, `daemon/hooks/`) | bounded broadcast channel, delivery tasks, event streams | EventHooks |
| daemon process (`daemon/main.rs`) and CLI commands on the same identity | position of `main`, secrets in use | DaemonMain |
| desktop application (`gui/`) and web UI (`webui/src/state.ts`) | child process, settings, chains of asynchronous steps | Desktop |

Everything in the daemon runs on tokio tasks. Each handler opens its own connection to
the same databases, and each operation holds its lock only for itself, so tasks
interleave between any two operations. What makes the system hard is therefore: a crash
between two of the operations that make up one handler, two handlers on the same file or
row, a name that was free when looked up, trust or an address that was right when read, a
session that ends during an upload, messages that are lost or handled late, and retries
of what has already been done.

## Modules

**Native receiver**

- **Ranges** - the range functions of `chunk.rs` and `manifest.rs` as operators; **Lists**
  has the filter of a sequence as a recursive function, which the proofs can reason about.
- **ChunkFrames** - `write_chunk_frame` and `read_chunk_frame` with their limits.
- **ManifestFile** (MCManifestFile) - the verified rows of one file under any sequence of
  `record_verified_chunk`; the questions asked of them are compared with the sets of
  bytes the ranges stand for, and a frame that is read with the one that was written.
- **ManifestProofs** - theorems about ManifestFile. **ListFacts** - the induction and
  recursion principles they need, and lemmas about Lists; TrustDeskProofs uses them too.
- **NativeTransfer** (MCNativeTransfer) - connection tasks over the manifest, the `.part`
  files and the inbox. Variable `pc` is the point a task has reached; every store or file
  operation is one action named after the function it is in. `finish_transfer` is the
  action of that name followed by `verify_file` per file, `available_target_path` and
  `rename_file` per file, `recheck_complete` and `set_completed`. `delivered` and
  `overlapped` are history variables.
- **InboxService** - what a sender may rely on; NativeTransfer implements it
  (`ImplementsService`) with `got <- delivered`, `contended <- overlapped` and
  `settled <-` the Completed transfers.
- **NativeTransferProofs** - theorems about NativeTransfer.

**LocalSend receiver**

- **LocalSend** (MCLocalSend) - sessions and upload handlers over inodes: a handler writes
  through the handle it opened while the path may be truncated or renamed by another.
  `list_inbox_entries` is what the inbox API shows. `published`, `contended` and `raced`
  are history variables.
- **LocalSendProofs** - theorems about LocalSend.
- **TrustStore** - one operator per statement on `localsend_peers`.
- **LocalSendAdmission** - handlers of prepare-upload at `req[r].pc`, from
  `authorize_prepare_upload` over the two parts of `trusted_fingerprints` to
  `record_trusted` or `record_pending`; calls of approve and deny at `op[o].pc`, an UPDATE
  and then an INSERT. `decided`, `listed`, `everTrusted`, `approved` are history variables.
- **Dashboard** - the loop of `run_app`: draw, one key, a call, a refresh.
- **TrustDesk** (MCTrustDesk) composes the three; `recent` is the order of `last_seen`.
- **TrustDeskProofs** - theorems about TrustDesk.

**WAN**

- **Registry** - one operator per method of `registry.rs`. Time is relative: an entry
  holds the ticks it has left, and `lag` says how long ago the caller read the clock.
- **RendezvousServer** - requests are on the wire, then read (`accept`, which reads the
  clock), then handled with the lock; prune ticks, stop and restart.
- **WanLoop** (MCWanLoop) - the loop of `run_register_loop_with_register` over that server;
  a slot `late` holds a request that the loop has given up and the server still handles.
- **WanLoopProofs** - theorems about WanLoop.

**Sends**

- **NativePeers** - the trust row of a native peer, advertisements, what a browse or a
  lookup may return, the LAN table, and how references are resolved.
- **NativeConnection** - a connection is named by its send and address: the dial task, one
  message under way, and the handler at the device. `finish_transfer` is one step here;
  NativeTransfer has its inside.
- **SendFiles** (MCSendFiles) - `send_files` for the five kinds of target, with its events,
  while devices move (`move`), replace certificates (`rekey`), are trusted or blocked on
  either side, register and are recorded late, connections break (`lose`) and the caller
  leaves. `pinned` and `vouched` are history variables.
- **SendFilesProofs** - theorems about SendFiles.

**Daemon and desktop**

- **Vaults** - a save opens the temporary file, writes through its handle and renames it,
  step by step, for every process that does so.
- **EventHooks** - `emit` takes an id and sends in two steps; the dispatcher reads, lags
  or is told to stop; one delivery per event and hook, with attempts.
- **DaemonMain** - `main` from start to exit over both: every step may fail, and the
  process may be killed at any point. CLI commands load, create or rotate the identity.
- **Desktop** (MCDesktop) - the manager of the embedded daemon answers commands one at a
  time; every click of the web UI starts a chain that interleaves with the others at every
  await. It composes the modules above.
- **DesktopProofs** - theorems about Desktop and the parts it is composed of.

Operators commented "Mutant" are faulty variants of the definition that follows them. No
specification uses them; they show that the properties can fail.

## Runs

| run | cfg | states | shows |
|---|---|---|---|
| manifest_ranges | MCManifestFile | 873 | The resume math is exact on every set of rows a file of up to 5 bytes can have; both copies agree, and so do the sender's plan and the receiver's count; frames are read as they were written. |
| native_receive | MCNativeTransfer | 943,254 | Safety of three connections on two transfers, and refinement of InboxService. |
| native_retry_completes | MCNativeReliable | 113,166 | A full send that no fault hits ends with Done after any two earlier attempts. |
| native_resume_stuck | MCNativeResume | | Violated: a resume fails for ever once a file was renamed and Completed not written. |
| native_empty_file | MCNativeEmpty | | Violated: a transfer with an empty file never completes. |
| localsend_upload | MCLocalSend | 154,313 | Safety and progress of two uploads over two sessions; what is acknowledged is what the inbox API lists. |
| localsend_shared_part | MCLocalSendVerify | | Violated: an overlapping second upload of a file makes the first publish unverified content. |
| localsend_overwrite | MCLocalSendExisting | | Violated: two concurrent uploads of one name, and one file is lost. |
| localsend_admission | MCTrustDesk | 442,118 | Two requests, the dashboard and another operator, an allowlist that changes: decisions stand, approvals are honoured, refusals can be found, the dashboard decides about what it showed. |
| wan_rendezvous | MCWanLoop | 730,698 | A registered daemon stays found through losses, lag and late requests; its candidates follow its address, also after a restart of the server; the loop stops promptly. |
| native_send | MCSendFiles | 809,534 | Files reach only the pinned peer, receipts were trusted, reports are true, and a native send ends without leaving a task or a connection. |
| desktop_daemon | MCDesktop | 584,330 | Secrets survive crashes, every event is accounted for, shutdown waits for clients only, and stopped means dead. |

Properties that overlapping handlers really break are conditioned on the history variables
`overlapped`, `contended`, `raced` and `disturbed`; the violated runs check the
unconditional statements of the LocalSend ones.

**Bounds.** `U64Max` stands for 2^64 - 1 and is small enough for sums to overflow in
manifest_ranges; files of 5 bytes give ranges that touch, nest, overlap and are apart, with
every chunk size up to one more than the file. In NativeTransfer three tasks are enough
for an attempt, a rival and a later retry; one file has two chunks and a source that
changes after it was hashed, one is offered without a digest and may differ between
attempts, and two transfers share a name. `MaxSuffix` stands for 9999 and is reached in
the safety run, not in the liveness run. In LocalSend two uploads meet in every pair of
steps; the two sessions share a file id and a name, bodies are right, short, long or
altered, and `MaxSuffix` (the loop in the code has no end) suffices for the uploads there
are.

localsend_admission has two peers, one of them spelled in two ways, senders without a
fingerprint or an alias, and a file that is empty, lists a peer or cannot be read; each
request is made once, so that attempts stay finite, and operators decide without bound.
Requests are symmetric.
wan_rendezvous has an interval of 5 ticks, the lifetime of 15 that follows from it, one
loss in a row, a lag of one tick and one restart: the tightest values that meet
`TtlAssumption`, so that an entry comes within a tick of its end. native_send has one
send, two devices with one alias that may take each other's address, one new certificate
each, and two changes of the world (`MaxChanges`), enough for a stale row and a device that
takes the address. In desktop_daemon `Capacity` 1 stands for 256 events, so that the second
event makes the dispatcher lag; `MaxSpent` 3 bounds what users, networks and disks do
(clicks, kills, errors, signals, sends).

Deadlock checking is off where the system may come to rest (every task has ended and no
request is left, or the bounded choices are spent). manifest_ranges and wan_rendezvous
check it.

**Fairness.** Weak fairness is assumed only where the code's scheduling gives it. In
NativeTransfer and LocalSend: of the steps of tasks in `Reliable`, since tokio polls a task
that can go on and the peer of such a task neither closes the connection nor stops; other
tasks may stop for good at any step. In WanLoop: time passes, the loop and the server's
tasks are polled, a connection that does not answer is given up (QUIC's idle timeout), and
an operator restarts the server; losses are bounded in a row by `MaxLosses` and otherwise
free. In SendFiles: the call, the dial tasks (each has a timeout) and the handlers of the
devices are polled; nothing is assumed of LocalSend answers, since that client has no
timeout, and connections may break or not. In Desktop: `main` and the dispatcher are
polled; calls, deliveries, clients and clicks may take as long as they like.

## Proofs

Each theorem has the form `Spec => []P` (or states an action property or the refinement)
and rests on an inductive invariant named below. The constants are arbitrary but for the
ASSUMEs of the modules: sizes and bounds are naturals (chunk sizes positive), the values
that stand for nothing (`None`, `Absent`, `NoFile`, ...) differ from real ones, offers and
sources have their types. Those that say more are named where they are used. TLC evaluates
all of them in the runs.

**Manifest** (ManifestProofs), for every size, chunk size and sequence of recorded chunks:
`MergeKeepsTheBytes`, `MissingIsWhatWasNotVerified`, `ResumedFileCompletes` and
`TheCopiesAgree`. The invariant `ManifestInv` says that the rows lie inside the file and
that no two have the same offset. The rest is about the range functions:

- The library's induction theorems take an operator as a parameter, which the provers
  cannot instantiate. ListFacts proves induction for *sets* of naturals instead
  (`SetInduction`, `RangeInduction`: a set that has 0 and, with n, n + 1), from it that a
  recursive function obeys its equation (`Recursion`), and what the filter keeps.
- The merge loop keeps two things: the bytes of the ranges so far, and a gap between
  neighbours in its output (`MergeSound`). The gap is what makes coverage by the *union* of
  the ranges the same as coverage by *one* of them (`CoveredByOne`), which is all that
  `range_fully_covered` looks at.
- A chunk that is asked for replaces at most a row at its offset, and that row is shorter,
  since the chunk would be covered otherwise (`ReplacesLess`); hence no byte is lost.
- `plan_chunks` is division with remainder (`Division`, `Multiples`, `PlanFacts`).

**Native receiver** (NativeTransferProofs), for every set of connections and transfers,
every offer, source and chunk size:

- `TypeCorrect`: `Spec => []TypeOK`.
- `RowsAreBacked`: `Spec => []VerifiedBacked`. Not inductive alone: between the write and
  the row the chunk in flight has to be on disk already (`InFlightBacked`), and a rename
  that removes a `.part` file turns its rows into rows of a delivered file. The invariant
  is `DataInv`.
- `CompletedMeansDelivered`: `Spec => []CompletedDelivered`. The strengthening
  `LoopDelivered` says which files the publish loop of each task has behind it; the
  invariant is `PublishInv`.
- `VerifiedIsPublished`: `Spec => []DeliveredIntact`. The verify loop and the rename loop
  are apart, so the invariant `IntactInv` follows the `.part` files in between: two live
  tasks on one transfer have made it overlapped (`Exclusive`), hence a task without a rival
  is the only one to touch its `.part` files; it has verified those behind the cursor of
  the first loop and those ahead of the cursor of the second (`PartsVerified`), and the
  first loop starts at the first file (`CursorAtStart`).
- `ReceiverImplementsService`: `Spec => ImplementsService`. A rename is a `Publish` (good by
  `PartsVerified`), a new rival is a `Contend`, Completed is a `Settle` (allowed by
  `CompletedDelivered` in the new state), any other state written is a `Reopen`, and every
  other step leaves what the service shows unchanged.
- `RenameReplacesNothing`: `Spec => NoSilentReplace`. A name that was free when it was
  looked up is still free at the rename, unless others publish under it (`TargetFree`).
- `CompletedStaysCompleted`: `Spec => CompletedStable`. A task without a rival leaves no
  `.part` file behind (`LoopEmpties`), so a Completed transfer is complete in the manifest
  and has no `.part` files, and a task that resumes it has nothing to send and stops at the
  first file it cannot read (`Finished`, `SettledQuiet`).

**LocalSend uploads** (LocalSendProofs), for any sessions, files, bodies and handlers:
`UploadsTyped`, `PublishedStaysIntact`, `AcknowledgedStaysListed`, `SlotPublishedOnce` and
`RefusalMeansEnded`. The invariant `IInv` is about inodes: each has at most one name
(`Inodes`), a handle leads to the inode at the handler's own path or to one published from
there (`Handles`), a handler alone on its path (`Sole`) finds in its file what it has
streamed (`Streamed`), a picked name stays free unless raced for (`Named`), and an answer
agrees with the session and the marks (`Answered`). A published inode is at no `.part` path
(`Inodes`), so no later upload truncates it.

**Admission** (TrustDeskProofs), for any requests, operators, spellings, allowlists and
policies: `DecisionsStand`, `TrustOriginates`, `AdmissionNeedsTrust`, `ApprovalIsHonoured`
and `RefusalIsRecorded`. The invariant `AdmissionInv` adds to the types what each handler
knows at its point: one that is about to record a trusted peer has seen it trusted, one on
the way to a refusal has not seen it approved, and a decision that was written is in the
row. Every step of a handler only adds rows or counts attempts, and every step of an
operator writes the row and the decision together (`HandlerMoves`, `OperatorMoves`).
`DeskIsTyped` and `DashboardDecidesWhatItShows` rest on `DeskInv`: only normalised
fingerprints have rows, the list of the dashboard is made of them, and while a key is
awaited the screen shows the selected entry.

**WAN registration** (WanLoopProofs), for all constants that meet `TtlAssumption`:
`PeerStaysFound`, `QueueHasOwner` and `LoopStopsPromptly`. `FoundWhileRegistered` is a
matter of arithmetic over the loop: the invariant `Alive` says that the ticks an entry has
left exceed what is left of the rounds that may still fail, given the failures so far and
the position in the round (`Position`, `Round`, `Margin`); it rests on the loop being on
time (`OnTime`), on what requests under way carry (`OnTheWire`) and on handlers that are
late by at most `MaxLag`. `TtlAssumption` is the condition under which the factor of three
in `registration_ttl_seconds` suffices: very short intervals, and an interval above a
third of the server's maximum, do not meet it and leave gaps. `ServerForgetsInTime` rests
on `StoreInv`: an expired entry is older than its end by no more than the ticks since the
last prune.

**Sends** (SendFilesProofs), for any sends, targets, devices, certificates, changes of the
world and finite set of addresses: `DeliveryIsPinned` and `ReceiptIsTrusted`. The invariant
`SendInv` ties what a call has learned to what was pinned while it ran (`CallInv`), every
connection that carries files to the certificate the call expects (`ConnInv`), and every
handler past Hello to a moment at which its operator accepted the daemon (`VouchInv`). Each
action is first described by what it does to a connection (`Evolves`: dials, makes, serves,
ends), and the invariant is shown for the descriptions. `SendsReportTheTruth` and
`SendsAreTyped` rest on `ReportInv`: only the connection that the call chose is spoken on
and no task dials it again (`StreamOK`), dial tasks report once (`ResultOK`), and the events
of a call follow its position (`EventsOK`).

**Daemon and desktop** (DesktopProofs), for any calls, hooks, watchers, chains of clicks and
capacity: `SecretsSurvive`, `EventsAreAccountedFor`, `StoppedDaemonIsDead` and
`DesktopIsTyped`. `SecretInv`: who saves a file has found it missing, a key is written
beside its certificate only, and a save that nobody interferes with has its own bytes in the
temporary file at the rename. `StageInv` says where `main` is during a save. `EventInv`: the
ids taken are those sent and those of calls between the two steps of `emit`. `WindowInv`:
every chain awaits one answer, and while the manager has a child, an answer that will show
it is behind every answer that shows none (`ShownInv`).

**Only model-checked:** the liveness properties (`ReliableSendCompletes`, `UploadCompletes`,
`CandidatesCatchUp`, `NativeSendEnds`, `ShutdownEnds`), since liveness under fairness is out
of the prover's reach, and the violated runs, whose counterexamples TLC finds.

## Abstractions

Native receiver and LocalSend uploads:

- A digest is the content it was computed from; chunk hashes are always right for the bytes
  sent, so frames with wrong hashes, which change nothing, are left out.
- The sender is the repository's: it sends the chunks of its plan in order.
- `resume_plan` reads the files one after the other under separate locks and is one step
  here: a rival that records in between makes the transfer overlapped.
- In `record_verified_chunk` the size is read and the row written under two locks; no
  operation deletes or resizes a file row, so the two are one step.
- The native receiver's path components and the ids they are made from are the same thing
  (`safe_component` maps some different ids to one name). In LocalSend `safe_identifier` is a
  mapping, and two file ids of a session may share a `.part` path; empty ids, which it
  replaces by a random UUID, are left out.
- A suffixed name is never also the plain name of another file. Names that end in
  `.incoming`, which the inbox API never lists, are not used.
- `sort_by_key` is modelled for ranges with different offsets; the offset is in the primary
  key of the rows, so no others reach it.
- In a frame the file id and the bytes stand for their lengths, and the digest for whether
  it matches.
- A block that a LocalSend handler has handed to the file is in the file before the handler
  refuses the upload; for a handler that is dropped this is not assumed.
- What was flushed survives the end of the process; loss of power is not modelled.
- Timestamps and peer columns of the manifest are left out.

Admission: a fingerprint is its spelling, `Canonical` what normalisation makes of it;
labels, aliases and times are left out but for the order of `last_seen`. An entry of the
allowlist that a handler has seen becomes a trusted row, which outlives its line in the
file; `TrustHasOrigin` states this as the code has it.

WAN: one daemon registers, others look it up and notify it. `gather_candidates` cannot fail
in the daemon, because the port is never 0. STUN asks from the port the native endpoint
holds; `PortShared` says whether the system allows that (FALSE in the run, as on Linux
without a shared-port option, so that no server-reflexive candidate is registered).

Sends: a device stands for its key, and a certificate for the device and a generation.
Advertisements and candidates of any age may be found. The proof of possession in Hello is
part of the step that reads it. A reply and the request before it are never both under way.
A LocalSend app that speaks plain http is not pinned; `PinnedDelivery` excepts it. A send
whose caller leaves, and one whose LocalSend client cannot be made, ends without a terminal
event ("gone"). A send whose Done is lost reports a failure although the files were
published: `ReportIsTrue` is one-sided on purpose.

Daemon and desktop: a secret is the number of its generation. Results of deliveries are not
told apart, since the dispatcher only logs them. The token file is readable where the
application looks for it (`TokenReadable`; its path is the macOS one, and elsewhere the
application finds no token). The embedded daemon has a home of its own, so the CLI of the
model is one that is run with it. Commands of the application are handled one at a time.
Snapshots, connection state and errors are only displayed and left out; a remote daemon is
outside of the model.

## Not modelled

- The native receiver and the LocalSend writer on one inbox directory together: each is
  modelled with rivals of its own kind, and a product of the two instances is out of TLC's
  reach at sizes where both races happen.
- Direct sends of the CLI without a daemon (`cli/cmd/send.rs`) and its WAN lookup: the same
  client code as in SendFiles, without trust rows.
- The pairing state machine (`pairing.rs`) and the short authentication string: nothing but
  `validate_peer_info_fingerprint` is used by the daemon or the CLI.
- `untrust`, `trust` without certificate, `touch` and `delete` of the stores: called by tests
  only. Resume, Cancel and ListActive of the API change nothing in the code.
- The loop of the LocalSend announcer: what it passes on is modelled as announcements of any
  age.
- A read error of the token file after the embedded daemon was spawned, page reloads of the
  web UI, and the end of the desktop application.

Known hazards that no property covers, beside the two that `PROJECT.json` lists without
one, because the repository promises nothing about them:

- `legacy_send` takes the first live session with the file id (`session.rs:138`), so two
  legacy senders that use one id meet in one session, and one of them is refused.
- STUN binds the port that the native endpoint holds (`stun.rs:79`); where ports cannot be
  shared the failure is only logged.
- The announcer ends for good at the first datagram that cannot be sent, and waits for the
  register call of a peer without a timeout (`protocol-localsend-v2/discovery.rs:123`).
- A LocalSend server or announcer that ended with an error makes `main` return in the middle
  of the shutdown (`main.rs:414`, `stop_fails` in DaemonMain).
- The web UI applies a snapshot to whatever its state has become (`state.ts:249`).
- A first start of the embedded daemon finds no token, because the daemon has not written it
  yet, and a read error of it loses the handle of the child (`gui/daemon.rs:137`).

Out of scope: cryptography, certificate contents, encodings, mDNS and multicast I/O, STUN
packets, the syntax of the configuration, metrics and logging, routing and serialisation of
the APIs, generated code and SDKs.
