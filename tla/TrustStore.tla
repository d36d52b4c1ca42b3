----------------------------- MODULE TrustStore -----------------------------
(***************************************************************************)
(* The tables of the trust database (core/trust/store.rs) as functions     *)
(* from fingerprints to rows, and one operator per statement that changes  *)
(* them. Timestamps, labels and aliases are left out; the order of last    *)
(* sightings is kept by the modules that list peers.                       *)
(***************************************************************************)
EXTENDS Naturals

CONSTANTS Fingerprint,   \* the spellings of fingerprints, Empty among them
          Canonical,     \* Canonical[f]: f without separators, in lower case
          Empty,         \* the blank fingerprint
          Absent         \* no row

ASSUME CanonicalAssumption ==
  /\ Empty \in Fingerprint
  /\ Canonical \in [Fingerprint -> Fingerprint]
  /\ Canonical[Empty] = Empty
  /\ \A f \in Fingerprint : Canonical[Canonical[f]] = Canonical[f]

(***************************************************************************)
(* Table localsend_peers: what the operator decided about official apps.   *)
(***************************************************************************)
LocalSendPeerStatus == {"pending", "trusted", "blocked"}

LocalSendPeer == [status : LocalSendPeerStatus, attempts : Nat]

ASSUME AbsentAssumption == Absent \notin LocalSendPeer

\* The keys of the tables: fingerprints as normalize_localsend_fingerprint
\* leaves them. A blank one is refused.
Key == {Canonical[f] : f \in Fingerprint} \ {Empty}

has_status(rows, f, status) == rows[f] # Absent /\ rows[f].status = status

\* A pending row is created or its attempts are counted; the status of an
\* existing row stays.
record_pending_localsend_peer_reset(rows, f) ==
  [rows EXCEPT ![f] =
     IF @ = Absent THEN [status |-> "pending", attempts |-> 1]
                   ELSE [status |-> "pending", attempts |-> @.attempts + 1]]  \* Mutant: the status is reset
record_pending_localsend_peer_trusts(rows, f) ==
  [rows EXCEPT ![f] =
     IF @ = Absent THEN [status |-> "trusted", attempts |-> 1]   \* Mutant: the default of the new row
                   ELSE [status |-> @.status, attempts |-> @.attempts + 1]]
record_pending_localsend_peer(rows, f) ==
  [rows EXCEPT ![f] =
     IF @ = Absent THEN [status |-> "pending", attempts |-> 1]
                   ELSE [status |-> @.status, attempts |-> @.attempts + 1]]

\* A sighting of a peer that was let in: its first row is a trusted one.
record_trusted_localsend_peer(rows, f) ==
  [rows EXCEPT ![f] =
     IF @ = Absent THEN [status |-> "trusted", attempts |-> 0] ELSE @]

\* The two statements of set_localsend_peer_status.
update_status(rows, f, status) == [rows EXCEPT ![f].status = status]

insert_status(rows, f, status) ==
  [rows EXCEPT ![f] = [status |-> status, attempts |-> 0]]

trusted_localsend_fingerprints(rows) ==
  {f \in DOMAIN rows : has_status(rows, f, "trusted")}

is_localsend_peer_blocked(rows, f) == has_status(rows, f, "blocked")

=============================================================================
