----------------------------- MODULE LocalSend ------------------------------
(***************************************************************************)
(* LocalSend v2 uploads: SessionManager (session.rs) and InboxWriter       *)
(* (inbox.rs) as the upload, cancel and legacy handlers of server.rs use   *)
(* them. Handlers run concurrently; the session map is read and written    *)
(* under its lock, one action per critical section, and every file         *)
(* operation is awaited, so handlers interleave around it.                 *)
(*                                                                         *)
(* Files are kept as inodes: a handler writes through the handle it        *)
(* opened, and a rename moves the inode that has the .part path by then.   *)
(* A SHA-256 digest is the content it was computed from.                   *)
(***************************************************************************)
EXTENDS Integers, Sequences, FiniteSets

CONSTANTS
  Session,    \* session ids, ordered like the keys of the BTreeMap
  Upload,     \* upload requests
  Meta,       \* Meta[<<s, f>>]: [name, size, sha256] of file f in session s's prepare-upload
  Bodies,     \* Bodies[<<s, f>>]: contents a client may stream for that file
  MaxSuffix,  \* last k of the names "stem (k)"; the loop in the code has no end
  BadNames,   \* names validate_file_name refuses
  safe_identifier,   \* a file id with '-' for every character that is not kept
  Reliable,   \* uploads whose client does not go away
  NoSlot, NoTarget, NoHash

Slot == DOMAIN Meta
Files(s) == {f \in {slot[2] : slot \in Slot} : <<s, f>> \in Slot}
Name == {Meta[slot].name : slot \in Slot}
Target == Name \X (0 .. MaxSuffix)
NoInode == 0

\* .incoming/<session>-<file>.part: session ids are UUIDs and stay as they are, two
\* file ids of one session may become the same.
incoming_file_name(slot) == <<slot[1], safe_identifier[slot[2]]>>
PartPath == {incoming_file_name(slot) : slot \in Slot}

ASSUME LocalSendAssumption ==
  /\ Session \subseteq Nat /\ IsFiniteSet(Session)
  /\ \A slot \in Slot : slot = <<slot[1], slot[2]>> /\ slot[1] \in Session
  /\ \A slot \in Slot : Meta[slot].size \in Nat /\ Bodies[slot] \subseteq Seq(Nat)
  /\ MaxSuffix \in Nat
  /\ Reliable \subseteq Upload

VARIABLES
  sessions,   \* "none" before prepare, "live", "expired" (deadline passed), "gone"
  uploaded,   \* slots whose SessionFile has uploaded = true
  data,       \* content of each inode, in the order the inodes were created
  part,       \* inode at each path below .incoming
  inbox,      \* inode at each inbox name; <<name, k>> is "stem (k).ext", k = 0 plain
  up,         \* what each upload handler knows
  published,  \* history: [upload, slot, inode] of every rename
  contended,  \* history: paths below .incoming that two handlers worked on at once
  raced       \* history: names that were looked up while another handler held a pick

server == <<sessions, uploaded>>
disk   == <<data, part, inbox, published>>
vars   == <<server, disk, up, contended, raced>>

Idle == [pc |-> "idle", slot |-> NoSlot, token |-> 0, body |-> <<>>, sent |-> 0,
         fd |-> NoInode, target |-> NoTarget, gone |-> FALSE]

Init ==
  /\ sessions = [s \in Session |-> "none"]
  /\ uploaded = {}
  /\ data = <<>>
  /\ part = [path \in PartPath |-> NoInode]
  /\ inbox = [n \in Target |-> NoInode]
  /\ up = [u \in Upload |-> Idle]
  /\ published = {} /\ contended = {} /\ raced = {}

At(u, label) == up[u].pc = label
Goto(u, label) == up' = [up EXCEPT ![u].pc = label]
Working(u) == up[u].pc \in {"create", "stream", "check", "target", "rename", "mark"}
PathOf(u) == incoming_file_name(up[u].slot)

\* Where a handler goes on after a file operation; one that was dropped while the
\* operation was on a blocking thread does not go on.
After(u, label) == IF up[u].gone THEN "dropped" ELSE label

-----------------------------------------------------------------------------
(* SessionManager *)

\* prune_expired_locked: what every operation but prepare and cancel_all does first.
Pruned == [s \in Session |-> IF sessions[s] = "expired" THEN "gone" ELSE sessions[s]]

prepare(s) ==
  /\ sessions[s] = "none"
  /\ sessions' = [sessions EXCEPT ![s] = "live"]
  /\ UNCHANGED <<uploaded, disk, up, contended, raced>>

Expire(s) ==
  /\ sessions[s] = "live"
  /\ sessions' = [sessions EXCEPT ![s] = "expired"]
  /\ UNCHANGED <<uploaded, disk, up, contended, raced>>

cancel(s) ==
  /\ sessions[s] # "none"
  /\ sessions' = [Pruned EXCEPT ![s] = "gone"]
  /\ UNCHANGED <<uploaded, disk, up, contended, raced>>

cancel_all ==
  /\ \E s \in Session : sessions[s] \in {"live", "expired"}
  /\ sessions' = [s \in Session |-> IF sessions[s] = "none" THEN "none" ELSE "gone"]
  /\ UNCHANGED <<uploaded, disk, up, contended, raced>>

\* A client that holds the token of file f in session s posts the file.
upload(u, s, f) ==
  /\ At(u, "idle")
  /\ sessions[s] # "none"
  /\ \E body \in Bodies[<<s, f>>] :
       up' = [up EXCEPT ![u] = [Idle EXCEPT !.pc = "authorize", !.slot = <<s, f>>,
                                            !.token = s, !.body = body]]
  /\ UNCHANGED <<server, disk, contended, raced>>

\* A legacy client names only the file: session_id_for_file takes the first live
\* session that has a file of this id.
legacy_send(u, s, f) ==
  LET holders == {x \in Session : Pruned[x] = "live" /\ f \in Files(x)}
  IN  /\ At(u, "idle")
      /\ sessions[s] # "none"
      /\ sessions' = Pruned
      /\ IF holders = {}
         THEN Goto(u, "refused")
         ELSE \E first \in holders, body \in Bodies[<<s, f>>] :
                /\ \A x \in holders : first <= x
                /\ up' = [up EXCEPT ![u] = [Idle EXCEPT !.pc = "authorize", !.slot = <<first, f>>,
                                                        !.token = s, !.body = body]]
      /\ UNCHANGED <<uploaded, disk, contended, raced>>

\* Mutant: a file that was uploaded can be uploaded again.
AuthorizeAgain(u) ==
  LET slot == up[u].slot
      granted == Pruned[slot[1]] = "live" /\ up[u].token = slot[1]
  IN  /\ At(u, "authorize")
      /\ sessions' = Pruned
      /\ Goto(u, IF granted THEN "create" ELSE "refused")
      /\ contended' = IF granted /\ \E v \in Upload \ {u} : Working(v) /\ PathOf(v) = PathOf(u)
                      THEN contended \cup {PathOf(u)} ELSE contended
      /\ UNCHANGED <<uploaded, disk, raced>>

authorize_upload(u) ==
  LET slot == up[u].slot
      granted == Pruned[slot[1]] = "live" /\ slot \notin uploaded /\ up[u].token = slot[1]
  IN  /\ At(u, "authorize")
      /\ sessions' = Pruned
      /\ Goto(u, IF granted THEN "create" ELSE "refused")
      /\ contended' = IF granted /\ \E v \in Upload \ {u} : Working(v) /\ PathOf(v) = PathOf(u)
                      THEN contended \cup {PathOf(u)} ELSE contended
      /\ UNCHANGED <<uploaded, disk, raced>>

\* Mutant: the second of two overlapping uploads is refused once it is published.
MarkOnce(u) ==
  LET slot == up[u].slot
  IN  /\ At(u, "mark")
      /\ sessions' = Pruned
      /\ IF Pruned[slot[1]] = "live" /\ slot \notin uploaded
         THEN uploaded' = uploaded \cup {slot} /\ Goto(u, "ok")
         ELSE UNCHANGED uploaded /\ Goto(u, "refused")
      /\ UNCHANGED <<disk, contended, raced>>

mark_uploaded(u) ==
  LET slot == up[u].slot
  IN  /\ At(u, "mark")
      /\ sessions' = Pruned
      /\ IF Pruned[slot[1]] = "live"
         THEN uploaded' = uploaded \cup {slot} /\ Goto(u, "ok")
         ELSE UNCHANGED uploaded /\ Goto(u, "refused")
      /\ UNCHANGED <<disk, contended, raced>>

-----------------------------------------------------------------------------
(* InboxWriter::write_upload *)

\* File::create: a .part file that is already there is truncated and shared.
create_part(u) ==
  LET path == PathOf(u)
      fresh == part[path] = NoInode
      inode == IF fresh THEN Len(data) + 1 ELSE part[path]
  IN  /\ At(u, "create")
      /\ Meta[up[u].slot].name \notin BadNames
      /\ data' = IF fresh THEN Append(data, <<>>) ELSE [data EXCEPT ![inode] = <<>>]
      /\ part' = [part EXCEPT ![path] = inode]
      /\ up' = [up EXCEPT ![u].pc = After(u, "stream"), ![u].fd = inode]
      /\ UNCHANGED <<server, inbox, published, contended, raced>>

validate_file_name(u) ==
  /\ At(u, "create")
  /\ Meta[up[u].slot].name \in BadNames
  /\ Goto(u, "refused")
  /\ UNCHANGED <<server, disk, contended, raced>>

\* A write at the handle's own position; a truncation behind its back leaves a hole.
PutAt(bytes, i, byte) ==
  [j \in 1 .. (IF Len(bytes) < i THEN i ELSE Len(bytes)) |->
    IF j = i THEN byte ELSE IF j <= Len(bytes) THEN bytes[j] ELSE 0]

\* Mutant: a body that reaches the declared size is taken for too long.
StreamStrict(u) ==
  LET i == up[u].sent + 1
      body == up[u].body
  IN  /\ At(u, "stream")
      /\ IF i > Len(body)
         THEN Goto(u, After(u, "check")) /\ UNCHANGED data
         ELSE IF i >= Meta[up[u].slot].size
              THEN Goto(u, After(u, "refused")) /\ UNCHANGED data
              ELSE /\ data' = [data EXCEPT ![up[u].fd] = PutAt(@, i, body[i])]
                   /\ up' = [up EXCEPT ![u].sent = i, ![u].pc = After(u, "stream")]
      /\ UNCHANGED <<server, part, inbox, published, contended, raced>>

\* One buffer of the body, or its end; too long a body is refused before the write.
stream(u) ==
  LET i == up[u].sent + 1
      body == up[u].body
  IN  /\ At(u, "stream")
      /\ IF i > Len(body)
         THEN Goto(u, After(u, "check")) /\ UNCHANGED data
         ELSE IF i > Meta[up[u].slot].size
              THEN Goto(u, After(u, "refused")) /\ UNCHANGED data
              ELSE /\ data' = [data EXCEPT ![up[u].fd] = PutAt(@, i, body[i])]
                   /\ up' = [up EXCEPT ![u].sent = i, ![u].pc = After(u, "stream")]
      /\ UNCHANGED <<server, part, inbox, published, contended, raced>>

\* Mutant: the digest is not compared.
CheckSizeOnly(u) ==
  /\ At(u, "check")
  /\ Goto(u, IF up[u].sent = Meta[up[u].slot].size THEN "target" ELSE "refused")
  /\ UNCHANGED <<server, disk, contended, raced>>

\* Size and digest of what this handler streamed.
check_upload(u) ==
  LET meta == Meta[up[u].slot]
      good == up[u].sent = meta.size /\ (meta.sha256 # NoHash => up[u].body = meta.sha256)
  IN  /\ At(u, "check")
      /\ Goto(u, IF good THEN "target" ELSE "refused")
      /\ UNCHANGED <<server, disk, contended, raced>>

\* Mutant: the plain name is taken without a look.
TargetUnsuffixed(u) ==
  /\ At(u, "target")
  /\ up' = [up EXCEPT ![u].pc = "rename", ![u].target = <<Meta[up[u].slot].name, 0>>]
  /\ UNCHANGED <<server, disk, contended, raced>>

next_available_target(u) ==
  LET name == Meta[up[u].slot].name
      Taken(k) == inbox[<<name, k>>] # NoInode
      picked(v) == At(v, "rename") /\ Meta[up[v].slot].name = name
  IN  /\ At(u, "target")
      /\ \E k \in 0 .. MaxSuffix :
           /\ ~ Taken(k) /\ \A j \in 0 .. k - 1 : Taken(j)
           /\ up' = [up EXCEPT ![u].pc = "rename", ![u].target = <<name, k>>]
      /\ raced' = IF \E v \in Upload : picked(v) THEN raced \cup {name} ELSE raced
      /\ UNCHANGED <<server, disk, contended>>

\* Mutant: the file is linked into the inbox and its .part name stays.
RenameKeepsPart(u) ==
  LET slot == up[u].slot
      inode == part[PathOf(u)]
  IN  /\ At(u, "rename")
      /\ inbox' = [inbox EXCEPT ![up[u].target] = inode]
      /\ published' = published \cup {[upload |-> u, slot |-> slot, inode |-> inode]}
      /\ Goto(u, After(u, "mark"))
      /\ UNCHANGED <<data, part, server, contended, raced>>

\* fs::rename: moves the inode at the .part path, over whatever has the target name.
rename_part(u) ==
  LET slot == up[u].slot
      inode == part[PathOf(u)]
  IN  /\ At(u, "rename")
      /\ IF inode = NoInode
         THEN Goto(u, After(u, "refused")) /\ UNCHANGED disk
         ELSE /\ inbox' = [inbox EXCEPT ![up[u].target] = inode]
              /\ part' = [part EXCEPT ![PathOf(u)] = NoInode]
              /\ published' = published \cup {[upload |-> u, slot |-> slot, inode |-> inode]}
              /\ Goto(u, After(u, "mark"))
              /\ UNCHANGED data
      /\ UNCHANGED <<server, contended, raced>>

\* The client goes away and the handler is dropped where it awaits. A file
\* operation that a blocking thread already has is carried out all the same.
Drop(u) ==
  /\ Working(u) /\ ~ At(u, "mark") /\ ~ up[u].gone
  /\ u \notin Reliable
  /\ \/ Goto(u, "dropped")
     \/ /\ up[u].pc \in {"create", "stream", "rename"}
        /\ up' = [up EXCEPT ![u].gone = TRUE]
  /\ UNCHANGED <<server, disk, contended, raced>>

Step(u) ==
  \/ authorize_upload(u)
  \/ validate_file_name(u)
  \/ create_part(u)
  \/ stream(u)
  \/ check_upload(u)
  \/ next_available_target(u)
  \/ rename_part(u)
  \/ mark_uploaded(u)

Next ==
  \/ \E s \in Session : prepare(s) \/ Expire(s) \/ cancel(s)
  \/ cancel_all
  \/ \E u \in Upload :
       \/ \E slot \in Slot : upload(u, slot[1], slot[2]) \/ legacy_send(u, slot[1], slot[2])
       \/ Step(u)
       \/ Drop(u)

Spec == Init /\ [][Next]_vars

\* The runtime polls every handler whose client is there.
FairSpec == Spec /\ \A u \in Reliable : WF_vars(Step(u))

-----------------------------------------------------------------------------
Pc == {"idle", "authorize", "create", "stream", "check", "target", "rename", "mark",
       "ok", "refused", "dropped"}
Inode == 1 .. Len(data)

\* Every variable has its type, no inode is reachable by two names, and a handler
\* that streams has an open file.
TypeOK ==
  /\ sessions \in [Session -> {"none", "live", "expired", "gone"}]
  /\ uploaded \subseteq Slot /\ contended \subseteq PartPath /\ raced \subseteq Name
  /\ \A i \in Inode : data[i] \in Seq(Nat)
  /\ part \in [PartPath -> Inode \cup {NoInode}]
  /\ inbox \in [Target -> Inode \cup {NoInode}]
  /\ \A u \in Upload :
       /\ up[u].pc \in Pc
       /\ up[u].pc \notin {"idle", "refused"} => up[u].slot \in Slot
       /\ up[u].pc \in {"stream", "check", "target", "rename", "mark"} => up[u].fd \in Inode
       /\ up[u].pc = "rename" => up[u].target \in Target
  /\ \A m, n \in Target : inbox[m] = inbox[n] /\ inbox[m] # NoInode => m = n
  /\ \A path \in PartPath, n \in Target : part[path] # NoInode => part[path] # inbox[n]

Intact(slot, bytes) ==
  /\ Len(bytes) = Meta[slot].size
  /\ Meta[slot].sha256 # NoHash => bytes = Meta[slot].sha256

\* write_upload checks the bytes it streamed, not the file it renames: the file is
\* nevertheless whole, and stays so, unless two handlers had one .part path at once.
PublishedIntact ==
  \A p \in published : incoming_file_name(p.slot) \notin contended => Intact(p.slot, data[p.inode])

\* As documented: a published upload is a verified one, whoever else was uploading.
PublishedVerified == \A p \in published : Intact(p.slot, data[p.inode])

\* What the inbox API lists: regular files of the directory, with their sizes. The
\* .part files are in a directory below it.
list_inbox_entries ==
  {[inode |-> inbox[n], size |-> Len(data[inbox[n]])] : n \in {t \in Target : inbox[t] # NoInode}}

\* An upload that was answered 200 is listed in the inbox and stays there, with the
\* size it was announced with unless two handlers had its .part, and unless its name
\* was looked up while another handler was about to rename to it.
AckedKept ==
  \A u \in Upload : At(u, "ok") =>
    \E p \in published :
      /\ p.upload = u
      /\ \/ Meta[p.slot].name \in raced
         \/ \E entry \in list_inbox_entries :
              /\ entry.inode = p.inode
              /\ incoming_file_name(p.slot) \in contended \/ entry.size = Meta[p.slot].size

\* As tested: an upload never takes the place of a file that is in the inbox.
ExistingKept ==
  [][\A n \in Target : inbox[n] # NoInode => inbox'[n] = inbox[n]]_vars

\* A file of a session is published once, however often it is posted, unless
\* handlers overlapped or a client went away during the rename: uploaded is set
\* by whoever published.
PublishedOnce ==
  \A p, q \in published :
    p.slot = q.slot /\ p.upload # q.upload =>
      incoming_file_name(p.slot) \in contended \/ At(p.upload, "dropped") \/ At(q.upload, "dropped")

\* A client is told that its upload failed although the file was published only
\* when the session ended meanwhile, and then nobody can post that file again.
RefusedOnlyIfEnded ==
  \A p \in published : At(p.upload, "refused") => sessions[p.slot[1]] = "gone"

\* A client that stays and streams the right bytes of an authorized file gets its
\* answer 200, unless its session ends or handlers overlap on the file.
UploadCompletes ==
  \A u \in Reliable, slot \in Slot :
    /\ At(u, "create") /\ up[u].slot = slot
    /\ Meta[slot].name \notin BadNames
    /\ Intact(slot, up[u].body)
    ~> At(u, "ok") \/ sessions[slot[1]] # "live" \/ incoming_file_name(slot) \in contended
=============================================================================
