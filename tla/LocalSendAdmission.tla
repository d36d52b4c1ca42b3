------------------------- MODULE LocalSendAdmission -------------------------
(***************************************************************************)
(* Who may open an upload session: authorize_prepare_upload of the         *)
(* LocalSend server (protocol-localsend-v2/server.rs) against the          *)
(* allowlist, the trust database and the operators who change both.        *)
(*                                                                         *)
(* Every handler and every API call opens a connection of its own to the   *)
(* database, so handlers interleave between any two statements. A handler  *)
(* is at req[r].pc, a call of an operator at op[o].pc.                     *)
(***************************************************************************)
EXTENDS TrustStore

CONSTANTS Request,       \* handlers of prepare-upload and send-request
          Operator,      \* callers of approve and deny
          Offered,       \* fingerprints the senders present, in their spelling
          Inline,        \* trusted_fingerprints of the configuration
          FileContents,  \* what trusted_fingerprints_file may contain
          Unreadable,    \* the file cannot be read
          None

VARIABLES receive_policy,  \* of the configuration
          rows,            \* localsend_peers
          file,            \* the lines of trusted_fingerprints_file
          req,             \* handlers
          op,              \* calls of operators
          \* History variables.
          decided,         \* the last decision written for a fingerprint
          listed,          \* fingerprints a handler found on an allowlist
          everTrusted,     \* handlers whose peer was trusted during their life
          approved         \* handlers whose peer was approved all their life

ASSUME AdmissionAssumption ==
  /\ Offered \subseteq Fingerprint
  /\ None \notin {"trusted", "blocked", "untrusted"}

tables == <<rows, file>>
history == <<decided, listed, everTrusted, approved>>
admissionVars == <<receive_policy, rows, file, req, op, history>>

Refusal == {"prompt", "no_fingerprint", "io", "store", "untrusted"}

normalize_fingerprint(f) == Canonical[f]

Allowlist == {normalize_fingerprint(f) : f \in Inline}

read_trusted_fingerprints_file ==
  {normalize_fingerprint(f) : f \in file} \ {Empty}

AdmissionInit ==
  /\ receive_policy \in {"prompt", "trusted", "auto"}
  /\ rows = [f \in Fingerprint |-> Absent]
  /\ file \in FileContents
  /\ req = [r \in Request |-> [pc |-> "idle", peer |-> None, blank |-> FALSE,
                               found |-> FALSE, why |-> None]]
  /\ op = [o \in Operator |-> [pc |-> "idle", peer |-> None, status |-> None]]
  /\ decided = [f \in Fingerprint |-> None]
  /\ listed = {}
  /\ everTrusted = [r \in Request |-> FALSE]
  /\ approved = [r \in Request |-> FALSE]

(***************************************************************************)
(* History: recomputed from the new state at every step.                   *)
(***************************************************************************)
Peer(r) == normalize_fingerprint(req[r].peer)

Live(r) == req[r].pc \notin {"idle", "admitted", "refused"}

OnAllowlist(f) == f \in Allowlist \/ (file # Unreadable /\ f \in read_trusted_fingerprints_file)

Trusted(f) == OnAllowlist(f) \/ has_status(rows, f, "trusted")

Begins(r) == req[r].pc = "idle" /\ req'[r].pc # "idle"

Observe ==
  /\ everTrusted' = [r \in Request |->
       IF Begins(r) \/ Live(r)
         THEN (Live(r) /\ everTrusted[r]) \/ Trusted(Peer(r))'
         ELSE everTrusted[r]]
  /\ approved' = [r \in Request |->
       IF Begins(r) \/ Live(r)
         THEN (Live(r) => approved[r])
              /\ has_status(rows, Peer(r), "trusted")'
         ELSE approved[r]]

(***************************************************************************)
(* prepare_upload and legacy_send_request.                                 *)
(***************************************************************************)
Answer(r, pc, why) ==
  req' = [req EXCEPT ![r].pc = pc, ![r].why = why, ![r].blank = FALSE, ![r].found = FALSE]

Refuse(r, why) == Answer(r, "refused", why)

Goto(r, pc) == req' = [req EXCEPT ![r].pc = pc]

authorize_prepare_upload(r, peer, blank) ==
  /\ req[r].pc = "idle"
  /\ \/ /\ receive_policy = "auto"
        /\ req' = [req EXCEPT ![r].pc = "admitted", ![r].peer = peer]
     \/ /\ receive_policy = "prompt"
        /\ req' = [req EXCEPT ![r].pc = "refused", ![r].peer = peer, ![r].why = "prompt"]
     \/ /\ receive_policy = "trusted" /\ normalize_fingerprint(peer) = Empty
        /\ req' = [req EXCEPT ![r].pc = "refused", ![r].peer = peer, ![r].why = "no_fingerprint"]
     \/ /\ receive_policy = "trusted" /\ normalize_fingerprint(peer) # Empty
        /\ req' = [req EXCEPT ![r].pc = "file", ![r].peer = peer, ![r].blank = blank]
  /\ UNCHANGED <<receive_policy, tables, op, decided, listed>>

\* trusted_fingerprints, first part: the configuration and the file.
trusted_fingerprints_file(r) ==
  /\ req[r].pc = "file"
  /\ \/ /\ file = Unreadable
        /\ Refuse(r, "io")
        /\ UNCHANGED listed
     \/ /\ file # Unreadable
        /\ req' = [req EXCEPT ![r].pc = "db", ![r].found = OnAllowlist(Peer(r))]
        /\ listed' = IF OnAllowlist(Peer(r)) THEN listed \cup {Peer(r)} ELSE listed
  /\ UNCHANGED <<receive_policy, tables, op, decided>>

\* Second part: the database, and the decision.
trusted_fingerprints_file_only(r) ==   \* Mutant: a configured file replaces the database
  /\ req[r].pc = "db"
  /\ Goto(r, IF req[r].found THEN "record_trusted" ELSE "is_blocked")
  /\ UNCHANGED <<receive_policy, tables, op, decided, listed>>
trusted_fingerprints_db(r) ==
  /\ req[r].pc = "db"
  /\ Goto(r, IF req[r].found \/ Peer(r) \in trusted_localsend_fingerprints(rows)
               THEN "record_trusted" ELSE "is_blocked")
  /\ UNCHANGED <<receive_policy, tables, op, decided, listed>>

\* require_nonblank refuses the sighting of a device without an alias, and
\* with it the request.
record_trusted(r) ==
  /\ req[r].pc = "record_trusted"
  /\ \/ req[r].blank /\ Refuse(r, "store") /\ UNCHANGED rows
     \/ /\ ~req[r].blank
        /\ rows' = record_trusted_localsend_peer(rows, Peer(r))
        /\ Answer(r, "admitted", None)
  /\ UNCHANGED <<receive_policy, file, op, decided, listed>>

is_blocked(r) ==
  /\ req[r].pc = "is_blocked"
  /\ IF is_localsend_peer_blocked(rows, Peer(r))
       THEN Refuse(r, "untrusted") ELSE Goto(r, "record_pending")
  /\ UNCHANGED <<receive_policy, tables, op, decided, listed>>

record_pending_admits(r) ==  \* Mutant: the error of the branch is not returned
  /\ req[r].pc = "record_pending"
  /\ rows' = record_pending_localsend_peer(rows, Peer(r))
  /\ Answer(r, "admitted", None)
  /\ UNCHANGED <<receive_policy, file, op, decided, listed>>
record_pending_forgets(r) ==  \* Mutant: only peers already known are recorded
  /\ req[r].pc = "record_pending"
  /\ rows' = IF rows[Peer(r)] = Absent THEN rows
                                       ELSE record_pending_localsend_peer(rows, Peer(r))
  /\ Refuse(r, "untrusted")
  /\ UNCHANGED <<receive_policy, file, op, decided, listed>>
record_pending(r) ==
  /\ req[r].pc = "record_pending"
  /\ \/ req[r].blank /\ Refuse(r, "store") /\ UNCHANGED rows
     \/ /\ ~req[r].blank
        /\ rows' = record_pending_localsend_peer(rows, Peer(r))
        /\ Refuse(r, "untrusted")
  /\ UNCHANGED <<receive_policy, file, op, decided, listed>>

\* Opening or querying the database fails (busy, disk full).
store_error(r) ==
  /\ req[r].pc \in {"db", "record_trusted", "is_blocked", "record_pending"}
  /\ Refuse(r, "store")
  /\ UNCHANGED <<receive_policy, tables, op, decided, listed>>

(***************************************************************************)
(* approve_local_send and deny_local_send of the API, called over HTTP or  *)
(* gRPC by the CLI, the dashboard or a script.                             *)
(***************************************************************************)
Reply(o, pc) == op' = [op EXCEPT ![o] = [pc |-> pc, peer |-> None, status |-> None]]

CanCall(o) == op[o].pc \in {"idle", "ok", "error"}

set_localsend_peer_status(o, peer, status) ==
  /\ CanCall(o)
  /\ IF Canonical[peer] = Empty
       THEN Reply(o, "error")
       ELSE op' = [op EXCEPT ![o] = [pc |-> "update", peer |-> Canonical[peer],
                                     status |-> status]]
  /\ UNCHANGED <<receive_policy, tables, req, decided, listed>>

\* UPDATE: the row is changed if there is one.
status_update(o) ==
  LET f == op[o].peer IN
  /\ op[o].pc = "update"
  /\ \/ /\ rows[f] # Absent
        /\ rows' = update_status(rows, f, op[o].status)
        /\ decided' = [decided EXCEPT ![f] = op[o].status]
        /\ Reply(o, "ok")
     \/ /\ rows[f] = Absent
        /\ op' = [op EXCEPT ![o].pc = "insert"]
        /\ UNCHANGED <<rows, decided>>
  /\ UNCHANGED <<receive_policy, file, req, listed>>

\* INSERT after an UPDATE that found no row: the primary key refuses it when
\* another connection inserted in between.
status_insert(o) ==
  LET f == op[o].peer IN
  /\ op[o].pc = "insert"
  /\ \/ /\ rows[f] = Absent
        /\ rows' = insert_status(rows, f, op[o].status)
        /\ decided' = [decided EXCEPT ![f] = op[o].status]
        /\ Reply(o, "ok")
     \/ /\ rows[f] # Absent
        /\ Reply(o, "error")
        /\ UNCHANGED <<rows, decided>>
  /\ UNCHANGED <<receive_policy, file, req, listed>>

\* The operator edits the allowlist; the file is read for every request.
edit_file ==
  /\ file' \in FileContents \ {file}
  /\ UNCHANGED <<receive_policy, rows, req, op, decided, listed>>

AdmissionStep ==
  \/ \E r \in Request :
       \/ \E peer \in Offered, blank \in BOOLEAN : authorize_prepare_upload(r, peer, blank)
       \/ trusted_fingerprints_file(r)
       \/ trusted_fingerprints_db(r)
       \/ record_trusted(r)
       \/ is_blocked(r)
       \/ record_pending(r)
       \/ store_error(r)
  \/ \E o \in Operator : status_update(o) \/ status_insert(o)
  \/ edit_file

(***************************************************************************)
(* Properties.                                                             *)
(***************************************************************************)
RequestState ==
  [pc : {"idle", "file", "db", "record_trusted", "is_blocked", "record_pending",
         "admitted", "refused"},
   peer : Fingerprint \cup {None}, blank : BOOLEAN, found : BOOLEAN,
   why : Refusal \cup {None}]

CallState ==
  [pc : {"idle", "update", "insert", "ok", "error"}, peer : Fingerprint \cup {None},
   status : {"trusted", "blocked", None}]

\* The tables, the handlers and the calls have their types, and only keys
\* that normalize_localsend_fingerprint can return have rows.
AdmissionTypeOK ==
  /\ receive_policy \in {"prompt", "trusted", "auto"}
  /\ rows \in [Fingerprint -> LocalSendPeer \cup {Absent}]
  /\ \A f \in Fingerprint \ Key : rows[f] = Absent
  /\ req \in [Request -> RequestState]
  /\ op \in [Operator -> CallState]
  /\ decided \in [Fingerprint -> {"trusted", "blocked", None}]
  /\ listed \subseteq Fingerprint
  /\ everTrusted \in [Request -> BOOLEAN]
  /\ approved \in [Request -> BOOLEAN]

\* What an operator last decided about a peer is what the database says, no
\* matter which handlers record sightings of that peer before, between and
\* after the statements of approve and deny (record_pending_localsend_peer
\* and record_trusted_localsend_peer keep the status of a row).
DecisionStands ==
  \A f \in Fingerprint : decided[f] # None => has_status(rows, f, decided[f])

\* A peer that the operator approved before its request began, and did not
\* deny until it was answered, is not refused as untrusted: approval needs no
\* restart and no allowlist (authorize_prepare_upload).
ApprovalHonoured ==
  \A r \in Request : req[r].why = "untrusted" => ~approved[r]

\* With the trusted policy a session is opened only for a peer that was on an
\* allowlist or approved at some moment between the start of its request and
\* the answer: what a handler read is never older than the handler.
AdmittedWasTrusted ==
  \A r \in Request :
    req[r].pc = "admitted" /\ receive_policy = "trusted" => everTrusted[r]

\* A peer is trusted in the database only because an operator approved it or
\* because a handler once found it on an allowlist: record_trusted_localsend_peer
\* makes the entry of the allowlist permanent, nothing else grants trust.
TrustHasOrigin ==
  \A f \in Fingerprint :
    has_status(rows, f, "trusted") => decided[f] = "trusted" \/ f \in listed

\* A peer refused as untrusted can be found by the operator: the refusal left
\* a row, or there was one, whatever was decided meanwhile.
RefusedIsRecorded ==
  \A r \in Request : req[r].why = "untrusted" => rows[Peer(r)] # Absent

=============================================================================
