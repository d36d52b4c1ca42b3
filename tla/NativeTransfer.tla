--------------------------- MODULE NativeTransfer ---------------------------
(***************************************************************************)
(* The receiving side of native transfers: NativeTransferReceiver          *)
(* (protocol-native-v1/src/transfer.rs) over the ManifestStore             *)
(* (manifest.rs), driven by one task per QUIC connection                   *)
(* (daemon/src/main.rs, receive_native_transfer) or by a resuming sender   *)
(* (resume_files_to_receiver). Every task has its own ManifestStore on the *)
(* same database, so tasks interleave between any two store or file        *)
(* operations; each operation is one action here. A task may end at any    *)
(* step: the stream closes, an I/O or SQLite error is propagated by `?`,   *)
(* or the daemon dies and takes every task with it.                        *)
(*                                                                         *)
(* File contents are sequences of bytes, and a BLAKE3 digest is the        *)
(* content it was computed from: no two contents share a digest.           *)
(***************************************************************************)
EXTENDS Ranges

CONSTANTS
  Conn,         \* connection tasks; each serves one request
  Transfer,     \* transfer ids
  Offer,        \* Offer[t]: sequence of [name, size, blake3], in file id order
  Source,       \* Source[<<t, f>>]: contents the sender may read when it sends file f
  ChunkSize,    \* chunk size the receiver announces in Accept
  ResumeSizes,  \* chunk sizes a resuming sender may use
  MaxSuffix,    \* last k of the names "name (k)" tried; 9999 in the code
  Reliable,     \* the connections that no fault hits
  NoTransfer,   \* a task that has no request yet
  NoTarget,     \* a task that has not picked an inbox name
  NoFile,       \* there is no file at this path
  NoHash        \* the offer carries no BLAKE3 digest

Hole == 0       \* what a byte skipped by a seek reads as; sources hold none

FileIds(t) == DOMAIN Offer[t]
Entry == UNION {{t} \X FileIds(t) : t \in Transfer}
Name == UNION {{Offer[t][f].name : f \in FileIds(t)} : t \in Transfer}
Target == Name \X (0 .. MaxSuffix)

Chunk == [file : Nat, offset : Nat, length : Nat]

ASSUME OfferAssumption ==
  /\ Offer \in [Transfer -> Seq([name : Name, size : Nat, blake3 : Seq(Nat) \cup {NoHash}])]
  /\ \A t \in Transfer : Offer[t] # <<>>

\* The sender reads exactly the offered number of bytes (read_exact).
ASSUME SourceAssumption ==
  /\ Source \in [Entry -> SUBSET Seq(Nat \ {Hole})]
  /\ \A t \in Transfer : \A f \in FileIds(t) :
       \A data \in Source[<<t, f>>] : Len(data) = Offer[t][f].size

ASSUME BoundsAssumption ==
  /\ ChunkSize \in Nat \ {0}
  /\ ResumeSizes \subseteq Nat \ {0}
  /\ MaxSuffix \in Nat
  /\ Reliable \subseteq Conn

ASSUME NullAssumption ==
  /\ NoTransfer \notin Transfer
  /\ NoTarget \notin Target
  /\ NoFile \notin Seq(Nat)

VARIABLES
  transfers,    \* transfers.state by transfer id; "none" when there is no row
  verified,     \* verified_chunks rows
  part,         \* .incoming/native/<transfer>/<file>.part
  inbox,        \* published files; target <<name, k>> is "name (k)", k = 0 plain
  pc,           \* where each task stands
  on,           \* the transfer each task works on
  todo,         \* chunks the sender of the connection has not sent yet
  at,           \* file the finish loops of each task have reached
  target,       \* name picked by available_target_path, before the rename
  delivered,    \* history: every rename into the inbox
  overlapped    \* history: transfers two live tasks worked on at once

store == <<transfers, verified>>
disk  == <<part, inbox, delivered>>
local == <<on, todo, at, target>>
vars  == <<store, disk, local, pc, overlapped>>

TransferState == {"none", "pending", "active", "interrupted", "completed", "failed"}
Pc == {"idle", "accept", "create", "activate", "receive", "record", "interrupt", "verify",
       "fail", "target", "rename", "recheck", "complete", "ack", "done", "closed"}

Live(c) == pc[c] \notin {"idle", "done", "closed"}

Init ==
  /\ transfers = [t \in Transfer |-> "none"]
  /\ verified = {}
  /\ part = [e \in Entry |-> NoFile]
  /\ inbox = [n \in Target |-> NoFile]
  /\ pc = [c \in Conn |-> "idle"]
  /\ on = [c \in Conn |-> NoTransfer]
  /\ todo = [c \in Conn |-> {}]
  /\ at = [c \in Conn |-> 1]
  /\ target = [c \in Conn |-> NoTarget]
  /\ delivered = {}
  /\ overlapped = {}

-----------------------------------------------------------------------------
(* The manifest's questions *)

RowsOf(t, f) ==
  {[offset |-> r.offset, length |-> r.length] :
     r \in {v \in verified : v.transfer = t /\ v.file = f}}

transfer_complete(t) ==
  /\ transfers[t] # "none"
  /\ \A f \in FileIds(t) : \E ranges \in {verified_ranges(RowsOf(t, f))} :
       ranges_cover(Offer[t][f].size, ranges)

ChunksOf(f, ranges) ==
  {[file |-> f, offset |-> r.offset, length |-> r.length] : r \in ranges}

\* What resume_files_to_receiver sends: the chunks the receiver misses, as a set
\* (missing_ranges_for of Ranges; ManifestFile checks what it computes).
missing_ranges(t, f, chunk_size) ==
  LET merged == merge_ranges(verified_ranges(RowsOf(t, f)))
  IN  {chunk \in Range(plan_chunks(Offer[t][f].size, chunk_size)) :
         ~ range_fully_covered(chunk, merged)}

resume_plan(t, chunk_size) ==
  UNION {ChunksOf(f, missing_ranges(t, f, chunk_size)) : f \in FileIds(t)}

\* Mutant: a new request sends only what the manifest misses.
PlanMissingOnly(t) == resume_plan(t, ChunkSize)

\* What send_prepared_native_files sends: every chunk of every file.
planned_chunks(t) ==
  UNION {ChunksOf(f, Range(plan_chunks(Offer[t][f].size, ChunkSize))) : f \in FileIds(t)}

\* Files are sent in order, each from its first byte to its last.
is_next(c, chunk) ==
  \A y \in todo[c] :
    chunk.file < y.file \/ (chunk.file = y.file /\ chunk.offset <= y.offset)

-----------------------------------------------------------------------------
(* Accepting a request *)

Goto(c, label) == pc' = [pc EXCEPT ![c] = label]

\* The task is given transfer t; anyone else still working on t is a rival.
Begin(c, t, chunks) ==
  /\ on' = [on EXCEPT ![c] = t]
  /\ todo' = [todo EXCEPT ![c] = chunks]
  /\ overlapped' = IF \E d \in Conn \ {c} : Live(d) /\ on[d] = t
                   THEN overlapped \cup {t} ELSE overlapped
  /\ UNCHANGED <<at, target>>

\* A trusted peer's RequestTransfer reaches receive_native_transfer.
Connect(c, t) ==
  /\ pc[c] = "idle"
  /\ Begin(c, t, planned_chunks(t))
  /\ Goto(c, "accept")
  /\ UNCHANGED <<store, disk>>

\* resume_files_to_receiver does not accept again: it asks for the resume plan
\* of a known transfer (an unknown one is refused and nothing changes).
Resume(c, t, chunk_size) ==
  /\ pc[c] = "idle"
  /\ transfers[t] # "none"
  /\ Begin(c, t, resume_plan(t, chunk_size))
  /\ Goto(c, "receive")
  /\ UNCHANGED <<store, disk>>

accept_transfer(c) ==
  /\ pc[c] = "accept"
  /\ Goto(c, IF transfers[on[c]] = "none" THEN "create" ELSE "activate")
  /\ UNCHANGED <<store, disk, local, overlapped>>

\* INSERT under the primary key: refused when a rival task created the row.
create_transfer(c) ==
  /\ pc[c] = "create"
  /\ IF transfers[on[c]] = "none"
     THEN transfers' = [transfers EXCEPT ![on[c]] = "pending"] /\ Goto(c, "activate")
     ELSE UNCHANGED transfers /\ Goto(c, "closed")
  /\ UNCHANGED <<verified, disk, local, overlapped>>

\* ManifestStore::set_state, and where the task goes from there.
set_state(c, from, state, to) ==
  /\ pc[c] = from
  /\ transfers' = [transfers EXCEPT ![on[c]] = state]
  /\ Goto(c, to)
  /\ UNCHANGED <<verified, disk, local, overlapped>>

set_active(c) == set_state(c, "activate", "active", "receive")

-----------------------------------------------------------------------------
(* Receiving chunks *)

\* Seek, then write: bytes between the old end and the offset become holes.
WriteAt(data, offset, bytes) ==
  LET old == IF data = NoFile THEN <<>> ELSE data
  IN  IF bytes = <<>>
      THEN old
      ELSE [i \in 1 .. GreaterOf(Len(old), offset + Len(bytes)) |->
             CASE i > offset /\ i <= offset + Len(bytes) -> bytes[i - offset]
               [] i <= offset /\ i > Len(old)            -> Hole
               [] OTHER                                  -> old[i]]

\* Mutant: a short write counts as a write.
WriteShort(c) ==
  /\ pc[c] = "receive"
  /\ \E chunk \in todo[c] :
       LET entry == <<on[c], chunk.file>>
       IN  /\ is_next(c, chunk)
           /\ \E data \in Source[entry], n \in 0 .. chunk.length :
                /\ part' = [part EXCEPT ![entry] =
                     WriteAt(@, chunk.offset, SubSeq(data, chunk.offset + 1, chunk.offset + n))]
                /\ Goto(c, "record")
  /\ UNCHANGED <<store, inbox, delivered, local, overlapped>>

\* The first half of receive_chunk_with_hash: the bytes go to the .part file.
\* The sender reads them when it sends them. A write that fails part way leaves
\* a prefix behind and ends the task.
write_chunk(c) ==
  /\ pc[c] = "receive"
  /\ \E chunk \in todo[c] :
       LET entry == <<on[c], chunk.file>>
       IN  /\ is_next(c, chunk)
           /\ \E data \in Source[entry], n \in 0 .. chunk.length :
                /\ c \in Reliable => n = chunk.length
                /\ part' = [part EXCEPT ![entry] =
                     WriteAt(@, chunk.offset, SubSeq(data, chunk.offset + 1, chunk.offset + n))]
                /\ Goto(c, IF n = chunk.length THEN "record" ELSE "closed")
  /\ UNCHANGED <<store, inbox, delivered, local, overlapped>>

\* The second half: INSERT OR REPLACE of the row (transfer, file, offset).
record_verified_chunk(c) ==
  /\ pc[c] = "record"
  /\ \E chunk \in todo[c] :
       LET t     == on[c]
           row   == [transfer |-> t, file |-> chunk.file,
                     offset |-> chunk.offset, length |-> chunk.length]
           valid == /\ chunk.length # 0
                    /\ transfers[t] # "none"
                    /\ ~ Overflows(chunk.offset, chunk.length)
                    /\ chunk.offset + chunk.length <= Offer[t][chunk.file].size
           same(v) == v.transfer = t /\ v.file = chunk.file /\ v.offset = chunk.offset
       IN  /\ is_next(c, chunk)
           /\ IF valid
              THEN /\ verified' = {v \in verified : ~ same(v)} \cup {row}
                   /\ todo' = [todo EXCEPT ![c] = @ \ {chunk}]
                   /\ Goto(c, "receive")
              ELSE /\ UNCHANGED <<verified, todo>>
                   /\ Goto(c, "closed")
  /\ UNCHANGED <<transfers, disk, on, at, target, overlapped>>

-----------------------------------------------------------------------------
(* finish_transfer, once the sender's Done has arrived *)

\* Mutant: the second loop goes on where the first one ended.
LoopNotRewound(c, label) == Goto(c, label) /\ UNCHANGED at

\* Rewind the file loop.
Loop(c, label) == Goto(c, label) /\ at' = [at EXCEPT ![c] = 1]

\* Mutant: the loop runs one file past the end.
AdvancePastEnd(c, label) ==
  IF at[c] > Len(Offer[on[c]])
  THEN Loop(c, label)
  ELSE at' = [at EXCEPT ![c] = @ + 1] /\ UNCHANGED pc

\* One file of a loop is done; the loop goes on, or ends and is followed by label.
Advance(c, label) ==
  IF at[c] = Len(Offer[on[c]])
  THEN Loop(c, label)
  ELSE at' = [at EXCEPT ![c] = @ + 1] /\ UNCHANGED pc

\* Mutant: the transfer is completed before its files are published.
FinishEarly(c) ==
  /\ pc[c] = "receive"
  /\ todo[c] = {}
  /\ Goto(c, IF transfer_complete(on[c]) THEN "recheck" ELSE "interrupt")
  /\ UNCHANGED <<store, disk, local, overlapped>>

finish_transfer(c) ==
  /\ pc[c] = "receive"
  /\ todo[c] = {}
  /\ Goto(c, IF transfer_complete(on[c]) THEN "verify" ELSE "interrupt")
  /\ UNCHANGED <<store, disk, local, overlapped>>

set_interrupted(c) == set_state(c, "interrupt", "interrupted", "closed")

\* Mutant: only the size is compared.
VerifySizeOnly(c) ==
  /\ pc[c] = "verify"
  /\ LET data == part[<<on[c], at[c]>>]
     IN  IF data = NoFile
         THEN Goto(c, "closed") /\ UNCHANGED at
         ELSE IF Len(data) # Offer[on[c]][at[c]].size
              THEN Goto(c, "fail") /\ UNCHANGED at
              ELSE Advance(c, "target")
  /\ UNCHANGED <<store, disk, on, todo, target, overlapped>>

\* Mutant: a .part file that cannot be read fails the transfer.
VerifyMissingFails(c) ==
  /\ pc[c] = "verify"
  /\ LET offer == Offer[on[c]][at[c]]
         data  == part[<<on[c], at[c]>>]
     IN  IF data = NoFile \/ Len(data) # offer.size
              \/ (offer.blake3 # NoHash /\ data # offer.blake3)
         THEN Goto(c, "fail") /\ UNCHANGED at
         ELSE Advance(c, "target")
  /\ UNCHANGED <<store, disk, on, todo, target, overlapped>>

\* Read one .part file back: size and digest have to match the offer.
verify_file(c) ==
  /\ pc[c] = "verify"
  /\ LET offer == Offer[on[c]][at[c]]
         data  == part[<<on[c], at[c]>>]
     IN  IF data = NoFile
         THEN Goto(c, "closed") /\ UNCHANGED at
         ELSE IF Len(data) # offer.size \/ (offer.blake3 # NoHash /\ data # offer.blake3)
              THEN Goto(c, "fail") /\ UNCHANGED at
              ELSE Advance(c, "target")
  /\ UNCHANGED <<store, disk, on, todo, target, overlapped>>

set_failed(c) == set_state(c, "fail", "failed", "closed")

\* Mutant: the plain name is taken without a look at the inbox.
TargetUnchecked(c) ==
  /\ pc[c] = "target"
  /\ target' = [target EXCEPT ![c] = <<Offer[on[c]][at[c]].name, 0>>]
  /\ Goto(c, "rename")
  /\ UNCHANGED <<store, disk, on, todo, at, overlapped>>

\* available_target_path: the first name that does not exist.
available_target_path(c) ==
  /\ pc[c] = "target"
  /\ LET name  == Offer[on[c]][at[c]].name
         Taken(k) == inbox[<<name, k>>] # NoFile
     IN  IF \A k \in 0 .. MaxSuffix : Taken(k)
         THEN Goto(c, "closed") /\ UNCHANGED target
         ELSE \E k \in 0 .. MaxSuffix :
                /\ ~ Taken(k) /\ \A j \in 0 .. k - 1 : Taken(j)
                /\ target' = [target EXCEPT ![c] = <<name, k>>]
                /\ Goto(c, "rename")
  /\ UNCHANGED <<store, disk, on, todo, at, overlapped>>

\* fs::rename replaces whatever has the target's name by now.
rename_file(c) ==
  /\ pc[c] = "rename"
  /\ LET entry == <<on[c], at[c]>>
         data  == part[entry]
     IN  IF data = NoFile
         THEN Goto(c, "closed") /\ UNCHANGED <<disk, at, target>>
         ELSE /\ inbox' = [inbox EXCEPT ![target[c]] = data]
              /\ part' = [part EXCEPT ![entry] = NoFile]
              /\ delivered' = delivered \cup
                   {[transfer |-> on[c], file |-> at[c], data |-> data]}
              /\ target' = [target EXCEPT ![c] = NoTarget]
              /\ IF at[c] = Len(Offer[on[c]])
                 THEN Loop(c, "recheck")
                 ELSE Goto(c, "target") /\ at' = [at EXCEPT ![c] = @ + 1]
  /\ UNCHANGED <<store, on, todo, overlapped>>

\* set_state asks again, under a lock of its own, before it writes Completed.
recheck_complete(c) ==
  /\ pc[c] = "recheck"
  /\ Goto(c, IF transfer_complete(on[c]) THEN "complete" ELSE "closed")
  /\ UNCHANGED <<store, disk, local, overlapped>>

set_completed(c) == set_state(c, "complete", "completed", "ack")

\* Done goes back to the sender, which then reports success.
acknowledge(c) ==
  /\ pc[c] = "ack"
  /\ Goto(c, "done")
  /\ UNCHANGED <<store, disk, local, overlapped>>

\* The stream, the disk, the store or the whole process fails under the task.
Abort(c) ==
  /\ Live(c)
  /\ c \notin Reliable
  /\ Goto(c, "closed")
  /\ UNCHANGED <<store, disk, local, overlapped>>

-----------------------------------------------------------------------------
Step(c) ==
  \/ accept_transfer(c)
  \/ create_transfer(c)
  \/ set_active(c)
  \/ write_chunk(c)
  \/ record_verified_chunk(c)
  \/ finish_transfer(c)
  \/ set_interrupted(c)
  \/ verify_file(c)
  \/ set_failed(c)
  \/ available_target_path(c)
  \/ rename_file(c)
  \/ recheck_complete(c)
  \/ set_completed(c)
  \/ acknowledge(c)

Next ==
  \E c \in Conn :
    \/ \E t \in Transfer : Connect(c, t) \/ \E cs \in ResumeSizes : Resume(c, t, cs)
    \/ Step(c)
    \/ Abort(c)

Spec == Init /\ [][Next]_vars

\* The runtime polls every task that can make progress, and the peer of a
\* reliable connection keeps sending.
FairSpec == Spec /\ \A c \in Reliable : WF_vars(Step(c))

-----------------------------------------------------------------------------
Row == [transfer : Transfer, file : Nat, offset : Nat, length : Nat]
DeliveryRecord == [transfer : Transfer, file : Nat, data : Seq(Nat)]

\* A set of chunks that a sender of transfer t may still have to send: non-empty
\* ranges of the transfer's files, one per offset.
Sendable(t, S) ==
  /\ S \subseteq Chunk
  /\ \A x \in S : x.file \in FileIds(t) /\ x.length > 0 /\ x.offset + x.length <= Offer[t][x.file].size
  /\ \A x, y \in S : x.file = y.file /\ x.offset = y.offset => x = y

\* Every variable has its type; each task's cursor stays on a file of its
\* transfer, and rows and chunks stay inside the files of their transfer.
TypeOK ==
  /\ transfers \in [Transfer -> TransferState]
  /\ verified \subseteq Row
  /\ \A v \in verified : v.file \in FileIds(v.transfer)
  /\ part \in [Entry -> Seq(Nat) \cup {NoFile}]
  /\ inbox \in [Target -> Seq(Nat) \cup {NoFile}]
  /\ pc \in [Conn -> Pc]
  /\ on \in [Conn -> Transfer \cup {NoTransfer}]
  /\ todo \in [Conn -> SUBSET Chunk]
  /\ at \in [Conn -> Nat]
  /\ target \in [Conn -> Target \cup {NoTarget}]
  /\ delivered \subseteq DeliveryRecord
  /\ overlapped \subseteq Transfer
  /\ \A c \in Conn : pc[c] # "idle" =>
       on[c] \in Transfer /\ at[c] \in FileIds(on[c]) /\ Sendable(on[c], todo[c])
  /\ \A c \in Conn : pc[c] = "idle" => at[c] = 1
  /\ \A c \in Conn : pc[c] = "rename" => target[c] \in Target

IsDelivered(t, f) == \E d \in delivered : d.transfer = t /\ d.file = f

\* A row of verified_chunks stands for bytes that are in the .part file and came
\* from the sender, or for a file that went to the inbox: whatever crash, torn
\* write or rival task intervenes, a resume plan never skips a byte that is not
\* there (receive_chunk_with_hash writes before it records).
VerifiedBacked ==
  \A v \in verified :
    \/ IsDelivered(v.transfer, v.file)
    \/ LET data == part[<<v.transfer, v.file>>]
       IN  /\ data # NoFile
           /\ v.offset + v.length <= Len(data)
           /\ \A i \in v.offset + 1 .. v.offset + v.length : data[i] # Hole

\* A transfer in state Completed has had every one of its files renamed into the
\* inbox, and so has one whose sender got Done back.
CompletedDelivered ==
  /\ \A t \in Transfer : transfers[t] = "completed" => \A f \in FileIds(t) : IsDelivered(t, f)
  /\ \A c \in Conn : pc[c] = "done" => \A f \in FileIds(on[c]) : IsDelivered(on[c], f)

Intact(t, f, data) ==
  /\ Len(data) = Offer[t][f].size
  /\ Offer[t][f].blake3 # NoHash => data = Offer[t][f].blake3

\* finish_transfer verifies the .part files and renames them later, one by one:
\* what reaches the inbox is still what was verified, as long as no two tasks
\* worked on the transfer at once.
DeliveredIntact ==
  \A d \in delivered : d.transfer \notin overlapped => Intact(d.transfer, d.file, d.data)

\* Once Completed, a transfer leaves that state only when it is accepted anew:
\* a late resume of a finished transfer cannot turn it Interrupted or Failed.
CompletedStable ==
  [][\A t \in Transfer :
       transfers[t] = "completed" /\ t \notin overlapped =>
         transfers'[t] \in {"completed", "active"}]_vars

\* Another transfer offers a file of this name, or rival tasks worked on one.
SharedName(name) ==
  \E t \in Transfer : \E f \in FileIds(t) :
    /\ Offer[t][f].name = name
    /\ t \in overlapped \/ \E u \in Transfer \ {t} : \E g \in FileIds(u) : Offer[u][g].name = name

\* A rename never replaces a file that is already in the inbox, however often a
\* transfer is retried and whatever its own files are called, unless the name is
\* shared with a transfer that may be publishing at the same time:
\* available_target_path looks before rename_file acts.
NoSilentReplace ==
  [][\A n \in Target : inbox[n] # NoFile /\ inbox'[n] # inbox[n] => SharedName(n[1])]_vars

\* Whatever happened to the transfer before (crash, torn chunk, half of the files
\* already published), a request that no fault hits ends with Done: all chunks
\* are sent again and every file is published.
ReliableSendCompletes ==
  \A c \in Reliable :
    pc[c] = "accept" ~> (pc[c] = "done" \/ on[c] \in overlapped)

\* A resumed transfer that no fault hits any more ends with Done.
ReliableResumeCompletes ==
  \A c \in Reliable :
    pc[c] = "receive" ~> (pc[c] = "done" \/ on[c] \in overlapped)

\* The receiver implements the service its senders rely on (InboxService).
Service == INSTANCE InboxService WITH
  Files     <- [t \in Transfer |-> FileIds(t)],
  Good      <- Intact,
  contended <- overlapped,
  got       <- delivered,
  settled   <- {t \in Transfer : transfers[t] = "completed"}

ImplementsService == Service!Spec
=============================================================================
