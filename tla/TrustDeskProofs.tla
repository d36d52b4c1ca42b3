--------------------------- MODULE TrustDeskProofs ---------------------------
(***************************************************************************)
(* Theorems about the admission of LocalSend uploads, for any number of    *)
(* handlers, operators and fingerprints: what operators decide stands, and *)
(* what a handler decides agrees with the trust that its peer had while it *)
(* ran.                                                                    *)
(***************************************************************************)
EXTENDS TrustDesk, ListFacts, TLAPS

(***************************************************************************)
(* Types. The peer of a call is whatever its caller named.                 *)
(***************************************************************************)
Decision == {"trusted", "blocked"}

CallTypes ==
  /\ op = [o \in Operator |-> [pc |-> op[o].pc, peer |-> op[o].peer, status |-> op[o].status]]
  /\ \A o \in Operator : op[o].pc \in {"update", "insert"} => op[o].status \in Decision

RowTypes == rows \in [Fingerprint -> LocalSendPeer \cup {Absent}]

RequestTypes ==
  /\ req \in [Request -> RequestState]
  /\ \A r \in Request : req[r].pc # "idle" => req[r].peer \in Fingerprint

HistoryTypes ==
  /\ decided \in [Fingerprint -> Decision \cup {None}]
  /\ everTrusted \in [Request -> BOOLEAN]
  /\ approved \in [Request -> BOOLEAN]

Types == RowTypes /\ RequestTypes /\ CallTypes /\ HistoryTypes

(***************************************************************************)
(* The steps, sorted by who moves.                                         *)
(***************************************************************************)
HandlerMoves(r) ==
  \/ \E peer \in Offered, blank \in BOOLEAN : authorize_prepare_upload(r, peer, blank)
  \/ trusted_fingerprints_file(r) \/ trusted_fingerprints_db(r)
  \/ record_trusted(r) \/ is_blocked(r) \/ record_pending(r) \/ store_error(r)

OperatorMoves(o) ==
  \/ status_update(o) \/ status_insert(o)
  \/ \E peer, status : status \in Decision /\ set_localsend_peer_status(o, peer, status)

Rests == UNCHANGED <<receive_policy, rows, req, op, decided, listed>>

\* In a step of the desk one handler moves, or one operator, or neither; the
\* history is recomputed by Observe.
LEMMA StepForms ==
  ASSUME [Next]_vars
  PROVE  \/ Observe /\ \E r \in Request : HandlerMoves(r)
         \/ Observe /\ \E o \in Operator : OperatorMoves(o)
         \/ Rests /\ (Observe \/ UNCHANGED <<everTrusted, approved>>)
<1>1. CASE UNCHANGED vars
  BY <1>1, Zenon DEF vars, admissionVars, history, Rests
<1>2. CASE Next
  <2>0. Observe
    BY <1>2, Zenon DEF Next
  <2>1. CASE AdmissionStep
    <3>1. CASE edit_file
      BY <2>0, <3>1, Zenon DEF edit_file, Rests
    <3>2. CASE \E r \in Request : HandlerMoves(r)
      BY <2>0, <3>2, Zenon
    <3>3. CASE \E o \in Operator : status_update(o) \/ status_insert(o)
      BY <2>0, <3>3, Zenon DEF OperatorMoves
    <3> QED
      BY <2>1, <3>1, <3>2, <3>3, Zenon DEF AdmissionStep, HandlerMoves
  <2>2. CASE command
    BY <2>0, <2>2, Zenon DEF command, OperatorMoves, Decision
  <2>3. CASE dashboard_decides
    BY <2>0, <2>3, DeskAssumption, Zenon DEF dashboard_decides, OperatorMoves, Decision
  <2>4. CASE dashboard_returns
    BY <2>0, <2>4, Zenon DEF dashboard_returns, Rests, tables
  <2>5. CASE dashboard_alone
    BY <2>0, <2>5, Zenon DEF dashboard_alone, Rests, tables
  <2> QED
    BY <1>2, <2>1, <2>2, <2>3, <2>4, <2>5, Zenon DEF Next
<1> QED
  BY <1>1, <1>2, Zenon

(***************************************************************************)
(* Type correctness.                                                       *)
(***************************************************************************)
\* The fingerprint of a handler that has begun is a fingerprint.
LEMMA PeerType ==
  ASSUME RequestTypes, NEW r \in Request, req[r].pc # "idle"
  PROVE  Peer(r) \in Fingerprint
BY CanonicalAssumption, Zenon DEF RequestTypes, Peer, normalize_fingerprint

\* The statements that record a sighting leave rows.
LEMMA RecordTypes ==
  ASSUME RowTypes, NEW f \in Fingerprint
  PROVE  /\ record_pending_localsend_peer(rows, f) \in [Fingerprint -> LocalSendPeer \cup {Absent}]
         /\ record_trusted_localsend_peer(rows, f) \in [Fingerprint -> LocalSendPeer \cup {Absent}]
<1>1. ASSUME rows[f] # Absent
      PROVE  [status |-> rows[f].status, attempts |-> rows[f].attempts + 1] \in LocalSendPeer
  BY <1>1 DEF RowTypes, LocalSendPeer
<1>2. /\ [status |-> "pending", attempts |-> 1] \in LocalSendPeer
      /\ [status |-> "trusted", attempts |-> 0] \in LocalSendPeer
  BY Zenon DEF LocalSendPeer, LocalSendPeerStatus
<1> QED
  BY <1>1, <1>2, Zenon DEF RowTypes, record_pending_localsend_peer, record_trusted_localsend_peer

\* A handler that has begun keeps its type when it goes on or answers.
LEMMA MoveTypes ==
  ASSUME RequestTypes, NEW r \in Request, req[r].pc # "idle",
         \/ \E pc \in {"db", "record_trusted", "is_blocked", "record_pending"} : Goto(r, pc)
         \/ \E pc \in {"admitted", "refused"}, why \in Refusal \cup {None} : Answer(r, pc, why)
         \/ \E found \in BOOLEAN : req' = [req EXCEPT ![r].pc = "db", ![r].found = found]
  PROVE  RequestTypes'
<1> DEFINE new == req'[r]
<1>1. req[r] \in RequestState /\ req[r].peer \in Fingerprint
  BY Zenon DEF RequestTypes
<1>2. new \in RequestState /\ new.peer = req[r].peer
  <2>1. ASSUME NEW pc \in {"db", "record_trusted", "is_blocked", "record_pending"}, Goto(r, pc)
        PROVE  new \in RequestState /\ new.peer = req[r].peer
    BY <1>1, <2>1, ZenonT(30) DEF RequestTypes, Goto, RequestState
  <2>2. ASSUME NEW pc \in {"admitted", "refused"}, NEW why \in Refusal \cup {None},
               Answer(r, pc, why)
        PROVE  new \in RequestState /\ new.peer = req[r].peer
    BY <1>1, <2>2, ZenonT(30) DEF RequestTypes, Answer, RequestState
  <2>3. ASSUME NEW found \in BOOLEAN, req' = [req EXCEPT ![r].pc = "db", ![r].found = found]
        PROVE  new \in RequestState /\ new.peer = req[r].peer
    BY <1>1, <2>3, ZenonT(30) DEF RequestTypes, RequestState
  <2> QED
    BY <2>1, <2>2, <2>3, Zenon
<1>3. req' = [req EXCEPT ![r] = new]
  BY Zenon DEF RequestTypes, Goto, Answer
<1> HIDE DEF new
<1> QED
  BY <1>1, <1>2, <1>3, Zenon DEF RequestTypes

\* A step of a handler keeps the types of rows and handlers.
LEMMA HandlerTypes ==
  ASSUME RowTypes, RequestTypes, NEW r \in Request, HandlerMoves(r)
  PROVE  RowTypes' /\ RequestTypes'
<1> USE DEF Refuse, Refusal, tables
<1>1. ASSUME NEW peer \in Offered, NEW blank \in BOOLEAN, authorize_prepare_upload(r, peer, blank)
      PROVE  RowTypes' /\ RequestTypes'
  BY <1>1, AdmissionAssumption
  DEF authorize_prepare_upload, RowTypes, RequestTypes, RequestState
<1>2. CASE trusted_fingerprints_file(r)
  <2>1. OnAllowlist(Peer(r)) \in BOOLEAN
    BY Zenon DEF OnAllowlist
  <2> QED
    BY <1>2, <2>1, MoveTypes, Zenon DEF trusted_fingerprints_file, RowTypes
<1>3. CASE trusted_fingerprints_db(r)
  BY <1>3, MoveTypes, Zenon DEF trusted_fingerprints_db, RowTypes
<1>4. CASE record_trusted(r)
  BY <1>4, PeerType, RecordTypes, MoveTypes, Zenon DEF record_trusted, RowTypes
<1>5. CASE is_blocked(r)
  BY <1>5, MoveTypes, Zenon DEF is_blocked, RowTypes
<1>6. CASE record_pending(r)
  BY <1>6, PeerType, RecordTypes, MoveTypes, Zenon DEF record_pending, RowTypes
<1>7. CASE store_error(r)
  BY <1>7, MoveTypes, Zenon DEF store_error, RowTypes
<1> QED
  BY <1>1, <1>2, <1>3, <1>4, <1>5, <1>6, <1>7, Zenon DEF HandlerMoves

\* A step of an operator keeps the types of rows, calls and decisions,
\* whatever fingerprint the caller named.
LEMMA OperatorTypes ==
  ASSUME Types, NEW o \in Operator, OperatorMoves(o)
  PROVE  RowTypes' /\ CallTypes' /\ decided' \in [Fingerprint -> Decision \cup {None}]
<1> USE DEF Types, CallTypes, HistoryTypes, Reply, Decision
<1>1. CASE status_update(o)
  <2> DEFINE f == op[o].peer
             row == [rows[f] EXCEPT !.status = op[o].status]
  <2>0. op[o].status \in Decision
    BY <1>1, Zenon DEF status_update
  <2>1. ASSUME f \in Fingerprint, rows[f] # Absent PROVE row \in LocalSendPeer
    BY <2>0, <2>1 DEF RowTypes, LocalSendPeer, LocalSendPeerStatus
  <2>2. RowTypes'
    BY <1>1, <2>1, Zenon DEF status_update, RowTypes, update_status
  <2>3. decided' \in [Fingerprint -> Decision \cup {None}]
    BY <1>1, <2>0, Zenon DEF status_update
  <2>4. CallTypes'
    BY <1>1 DEF status_update
  <2> QED
    BY <2>2, <2>3, <2>4, Zenon
<1>2. CASE status_insert(o)
  <2>0. op[o].status \in Decision
    BY <1>2, Zenon DEF status_insert
  <2>1. [status |-> op[o].status, attempts |-> 0] \in LocalSendPeer
    BY <2>0, Zenon DEF LocalSendPeer, LocalSendPeerStatus
  <2>2. RowTypes'
    BY <1>2, <2>1, Zenon DEF status_insert, RowTypes, insert_status
  <2>3. decided' \in [Fingerprint -> Decision \cup {None}]
    BY <1>2, <2>0, Zenon DEF status_insert
  <2>4. CallTypes'
    BY <1>2 DEF status_insert
  <2> QED
    BY <2>2, <2>3, <2>4, Zenon
<1>3. ASSUME NEW peer, NEW status \in Decision, set_localsend_peer_status(o, peer, status)
      PROVE  RowTypes' /\ CallTypes' /\ decided' \in [Fingerprint -> Decision \cup {None}]
  BY <1>3 DEF set_localsend_peer_status, RowTypes, tables
<1> QED
  BY <1>1, <1>2, <1>3, Zenon DEF OperatorMoves

\* The history keeps its type.
LEMMA ObserveTypes ==
  ASSUME HistoryTypes, Observe
  PROVE  everTrusted' \in [Request -> BOOLEAN] /\ approved' \in [Request -> BOOLEAN]
BY Zenon DEF HistoryTypes, Observe

\* Every step keeps the types.
LEMMA TypesKept ==
  ASSUME Types, [Next]_vars
  PROVE  Types'
<1>1. ASSUME Observe, NEW r \in Request, HandlerMoves(r)
      PROVE  Types'
  <2>1. UNCHANGED <<op, decided>>
    BY <1>1, Zenon DEF HandlerMoves, authorize_prepare_upload, trusted_fingerprints_file,
                trusted_fingerprints_db, record_trusted, is_blocked, record_pending, store_error
  <2> QED
    BY <1>1, <2>1, HandlerTypes, ObserveTypes, Zenon DEF Types, CallTypes, HistoryTypes
<1>2. ASSUME Observe, NEW o \in Operator, OperatorMoves(o)
      PROVE  Types'
  <2>1. UNCHANGED req
    BY <1>2, Zenon DEF OperatorMoves, status_update, status_insert, set_localsend_peer_status
  <2> QED
    BY <1>2, <2>1, OperatorTypes, ObserveTypes, Zenon DEF Types, RequestTypes, HistoryTypes
<1>3. CASE Rests /\ (Observe \/ UNCHANGED <<everTrusted, approved>>)
  BY <1>3, ObserveTypes, Zenon DEF Rests, Types, RowTypes, RequestTypes, CallTypes, HistoryTypes
<1> QED
  BY <1>1, <1>2, <1>3, StepForms, Zenon

(***************************************************************************)
(* The inductive invariant. A handler remembers what it read: `found`      *)
(* stands for the allowlist, "record_trusted" for the allowlist or a row   *)
(* that was trusted, "is_blocked" and "record_pending" for a row that was  *)
(* not.                                                                    *)
(***************************************************************************)
HandlerInv(r) ==
  /\ req[r].pc = "db" /\ req[r].found => Peer(r) \in listed /\ everTrusted[r]
  /\ req[r].pc = "record_trusted" =>
       (Peer(r) \in listed \/ rows[Peer(r)] # Absent) /\ everTrusted[r]
  /\ req[r].pc = "admitted" /\ receive_policy = "trusted" => everTrusted[r]
  /\ req[r].pc \in {"is_blocked", "record_pending"} => ~approved[r]
  /\ req[r].why = "untrusted" =>
       req[r].pc = "refused" /\ ~approved[r] /\ rows[Peer(r)] # Absent

AdmissionInv ==
  /\ Types
  /\ DecisionStands
  /\ TrustHasOrigin
  /\ \A r \in Request : HandlerInv(r)

\* What Observe keeps and adds for one handler.
LEMMA HistoryOf ==
  ASSUME HistoryTypes, Observe, NEW r \in Request
  PROVE  /\ Live(r) /\ everTrusted[r] => everTrusted'[r]
         /\ Live(r) /\ Trusted(Peer(r))' => everTrusted'[r]
         /\ Live(r) /\ ~approved[r] => ~approved'[r]
         /\ Live(r) /\ ~has_status(rows, Peer(r), "trusted")' => ~approved'[r]
         /\ ~Live(r) /\ ~Begins(r) => /\ everTrusted'[r] = everTrusted[r]
                                      /\ approved'[r] = approved[r]
BY Zenon DEF HistoryTypes, Observe

\* Rows are never deleted and the allowlist entries that were found are
\* remembered.
Grows ==
  /\ \A f \in Fingerprint : rows[f] # Absent => rows'[f] # Absent
  /\ listed \subseteq listed'
  /\ receive_policy' = receive_policy

\* A handler that does not move keeps its invariant.
LEMMA RestingHandler ==
  ASSUME Types, Grows, Observe \/ UNCHANGED <<everTrusted, approved>>,
         NEW r \in Request, HandlerInv(r), req'[r] = req[r]
  PROVE  HandlerInv(r)'
<1>1. Peer(r)' = Peer(r) /\ (req[r].pc # "idle" => Peer(r) \in Fingerprint)
  BY PeerType, Zenon DEF Peer, Types
<1>2. /\ everTrusted[r] => everTrusted'[r]
      /\ ~approved[r] => ~approved'[r]
      /\ req[r].why = "untrusted" => req[r].pc # "idle"
  BY HistoryOf, Zenon DEF Live, Begins, Types, HandlerInv
<1> QED
  BY <1>1, <1>2, Zenon DEF HandlerInv, Grows

(***************************************************************************)
(* Steps of handlers.                                                      *)
(***************************************************************************)
\* Recording a sighting keeps the status of an existing row.
LEMMA RecordKeeps ==
  ASSUME RowTypes, NEW f \in Fingerprint, NEW g \in Fingerprint,
         NEW new \in {record_pending_localsend_peer(rows, f), record_trusted_localsend_peer(rows, f)}
  PROVE  /\ new[f] # Absent
         /\ rows[g] # Absent => new[g] # Absent /\ new[g].status = rows[g].status
         /\ g # f => new[g] = rows[g]
<1>1. new \in [Fingerprint -> LocalSendPeer \cup {Absent}]
  BY RecordTypes, Zenon
<1>2. /\ [status |-> "pending", attempts |-> 1] # Absent
      /\ [status |-> "trusted", attempts |-> 0] # Absent
      /\ rows[f] # Absent => [status |-> rows[f].status, attempts |-> rows[f].attempts + 1] # Absent
  BY AbsentAssumption DEF RowTypes, LocalSendPeer, LocalSendPeerStatus
<1> QED
  BY <1>1, <1>2 DEF RowTypes, record_pending_localsend_peer, record_trusted_localsend_peer

\* What the step of a handler does to the tables: nothing, or a sighting.
HandlerTables(r) ==
  /\ UNCHANGED <<receive_policy, op, decided>>
  /\ \A s \in Request \ {r} : req'[s] = req[s]
  /\ \/ UNCHANGED rows /\ listed \subseteq listed'
     \/ /\ req[r].pc = "record_pending" /\ UNCHANGED listed
        /\ rows' = record_pending_localsend_peer(rows, Peer(r))
     \/ /\ req[r].pc = "record_trusted" /\ UNCHANGED listed
        /\ rows' = record_trusted_localsend_peer(rows, Peer(r))

\* What a step of an upload handler may do to the tables.
LEMMA HandlerFrame ==
  ASSUME RequestTypes, NEW r \in Request, HandlerMoves(r)
  PROVE  HandlerTables(r)
<1> USE DEF HandlerTables, RequestTypes, Refuse, Answer, Goto, tables
<1>1. ASSUME NEW peer \in Offered, NEW blank \in BOOLEAN, authorize_prepare_upload(r, peer, blank)
      PROVE  HandlerTables(r)
  BY <1>1, Zenon DEF authorize_prepare_upload
<1>2. CASE trusted_fingerprints_file(r)
  BY <1>2, Zenon DEF trusted_fingerprints_file
<1>3. CASE trusted_fingerprints_db(r)
  BY <1>3, Zenon DEF trusted_fingerprints_db
<1>4. CASE record_trusted(r)
  BY <1>4, Zenon DEF record_trusted
<1>5. CASE is_blocked(r)
  BY <1>5, Zenon DEF is_blocked
<1>6. CASE record_pending(r)
  BY <1>6, Zenon DEF record_pending
<1>7. CASE store_error(r)
  BY <1>7, Zenon DEF store_error
<1> QED
  BY <1>1, <1>2, <1>3, <1>4, <1>5, <1>6, <1>7 DEF HandlerMoves

\* A handler changes no decision, and grants trust only to a peer that it
\* found on an allowlist.
LEMMA HandlerKeepsRows ==
  ASSUME AdmissionInv, NEW r \in Request, HandlerMoves(r)
  PROVE  DecisionStands' /\ TrustHasOrigin' /\ Grows
<1>0. HandlerTables(r) /\ HandlerInv(r) /\ RowTypes /\ RequestTypes
  BY HandlerFrame, Zenon DEF AdmissionInv, Types
<1>1. CASE UNCHANGED rows /\ listed \subseteq listed'
  BY <1>0, <1>1, Zenon
  DEF HandlerTables, AdmissionInv, DecisionStands, TrustHasOrigin, Grows, has_status
<1>2. CASE /\ req[r].pc = "record_pending" /\ UNCHANGED listed
           /\ rows' = record_pending_localsend_peer(rows, Peer(r))
  <2>1. Peer(r) \in Fingerprint
    BY <1>0, <1>2, PeerType, Zenon
  <2>2. \A g \in Fingerprint :
          /\ rows[g] # Absent => rows'[g] # Absent /\ rows'[g].status = rows[g].status
          /\ rows[g] = Absent => rows'[g] = Absent \/ rows'[g].status = "pending"
    BY <1>0, <1>2, <2>1, RecordKeeps, Zenon DEF record_pending_localsend_peer, RowTypes
  <2> QED
    BY <1>0, <1>2, <2>2, Zenon
    DEF HandlerTables, AdmissionInv, DecisionStands, TrustHasOrigin, Grows, has_status
<1>3. CASE /\ req[r].pc = "record_trusted" /\ UNCHANGED listed
           /\ rows' = record_trusted_localsend_peer(rows, Peer(r))
  <2>1. Peer(r) \in Fingerprint
    BY <1>0, <1>3, PeerType, Zenon
  <2>2. \A g \in Fingerprint :
          /\ rows[g] # Absent => rows'[g] # Absent /\ rows'[g].status = rows[g].status
          /\ rows[g] = Absent => rows'[g] = Absent \/ g = Peer(r)
    BY <1>0, <1>3, <2>1, RecordKeeps, Zenon
  <2>3. rows[Peer(r)] = Absent => Peer(r) \in listed
    BY <1>0, <1>3, Zenon DEF HandlerInv
  <2> QED
    BY <1>0, <1>3, <2>2, <2>3, Zenon
    DEF HandlerTables, AdmissionInv, DecisionStands, TrustHasOrigin, Grows, has_status
<1> QED
  BY <1>0, <1>1, <1>2, <1>3, Zenon DEF HandlerTables

\* The handler that moves: what it has read is what its peer's trust was at
\* that moment, and Observe has noted it.
LEMMA MovingHandler ==
  ASSUME AdmissionInv, Observe, Grows, NEW r \in Request, HandlerMoves(r)
  PROVE  HandlerInv(r)'
<1>0. /\ HandlerInv(r) /\ RowTypes /\ RequestTypes /\ HistoryTypes
      /\ None # "untrusted"
  BY AdmissionAssumption, Zenon DEF AdmissionInv, Types
<1>1. ASSUME NEW peer \in Offered, NEW blank \in BOOLEAN, authorize_prepare_upload(r, peer, blank)
      PROVE  HandlerInv(r)'
  <2>1. /\ req'[r].pc \in {"admitted", "refused", "file"}
        /\ req'[r].why = "untrusted" => req[r].why = "untrusted"
        /\ req'[r].pc = "admitted" => receive_policy' # "trusted"
        /\ req[r].pc = "idle"
    BY <1>0, <1>1 DEF authorize_prepare_upload, RequestTypes, RequestState
  <2> QED
    BY <1>0, <2>1, Zenon DEF HandlerInv
<1> SUFFICES ASSUME ~ \E peer \in Offered, blank \in BOOLEAN :
                        authorize_prepare_upload(r, peer, blank)
             PROVE  HandlerInv(r)'
  BY <1>1, Zenon
<1>2. req[r].pc \in {"file", "db", "record_trusted", "is_blocked", "record_pending"}
  BY Zenon DEF HandlerMoves, trusted_fingerprints_file, trusted_fingerprints_db, record_trusted,
         is_blocked, record_pending, store_error
<1>3. Live(r) /\ Peer(r) \in Fingerprint /\ req[r].why # "untrusted"
  BY <1>0, <1>2, PeerType, Zenon DEF Live, HandlerInv
<1>4. Peer(r)' = Peer(r)
  BY <1>0, <1>2 DEF HandlerMoves, trusted_fingerprints_file, trusted_fingerprints_db,
     record_trusted, is_blocked, record_pending, store_error, Refuse, Answer, Goto, Peer,
     RequestTypes, RequestState
<1>5. CASE trusted_fingerprints_file(r)
  <2>1. CASE file = Unreadable
    BY <1>0, <1>5, <2>1
    DEF trusted_fingerprints_file, Refuse, Answer, HandlerInv, RequestTypes, RequestState
  <2>2. CASE file # Unreadable
    <3>1. /\ req'[r].pc = "db" /\ req'[r].found = OnAllowlist(Peer(r))
          /\ req'[r].why = req[r].why
          /\ OnAllowlist(Peer(r)) => Peer(r) \in listed'
          /\ UNCHANGED <<file, rows>>
      BY <1>0, <1>5, <2>2 DEF trusted_fingerprints_file, tables, RequestTypes, RequestState
    <3>2. OnAllowlist(Peer(r)) => Trusted(Peer(r))'
      BY <1>4, <3>1, Zenon DEF Trusted, OnAllowlist, read_trusted_fingerprints_file
    <3>3. OnAllowlist(Peer(r)) => everTrusted'[r]
      BY <1>0, <1>3, <3>2, HistoryOf, Zenon
    <3> QED
      BY <1>3, <1>4, <3>1, <3>3, Zenon DEF HandlerInv
  <2> QED
    BY <2>1, <2>2, Zenon
<1>6. CASE trusted_fingerprints_db(r)
  <2>1. /\ req'[r].pc = IF req[r].found \/ Peer(r) \in trusted_localsend_fingerprints(rows)
                          THEN "record_trusted" ELSE "is_blocked"
        /\ req'[r].why = req[r].why
        /\ UNCHANGED <<rows, listed>>
        /\ req[r].pc = "db"
    BY <1>0, <1>6, Zenon DEF trusted_fingerprints_db, Goto, tables, RequestTypes, RequestState
  <2>2. Peer(r) \in trusted_localsend_fingerprints(rows) <=> has_status(rows, Peer(r), "trusted")
    BY <1>0, <1>3, Zenon DEF trusted_localsend_fingerprints, RowTypes
  <2>3. has_status(rows, Peer(r), "trusted")' <=> has_status(rows, Peer(r), "trusted")
    BY <1>4, <2>1, Zenon DEF has_status
  <2>4. CASE req[r].found
    BY <1>0, <1>3, <1>4, <2>1, <2>4, HistoryOf, Zenon DEF HandlerInv
  <2>5. CASE ~ req[r].found /\ has_status(rows, Peer(r), "trusted")
    <3>1. Trusted(Peer(r))'
      BY <2>3, <2>5, Zenon DEF Trusted
    <3> QED
      BY <1>0, <1>3, <1>4, <2>1, <2>2, <2>5, <3>1, HistoryOf DEF HandlerInv, has_status
  <2>6. CASE ~ req[r].found /\ ~ has_status(rows, Peer(r), "trusted")
    BY <1>0, <1>3, <1>4, <2>1, <2>2, <2>3, <2>6, HistoryOf, Zenon DEF HandlerInv
  <2> QED
    BY <2>4, <2>5, <2>6, Zenon
<1>7. CASE record_trusted(r)
  <2>1. /\ req'[r].pc \in {"admitted", "refused"} /\ req'[r].why # "untrusted"
        /\ req[r].pc = "record_trusted"
    BY <1>0, <1>7 DEF record_trusted, Refuse, Answer, RequestTypes, RequestState
  <2> QED
    BY <1>0, <1>3, <2>1, HistoryOf, Zenon DEF HandlerInv
<1>8. CASE is_blocked(r)
  <2>1. /\ \/ req'[r].pc = "record_pending" /\ req'[r].why = req[r].why
           \/ req'[r].pc = "refused" /\ rows[Peer(r)] # Absent
        /\ req[r].pc = "is_blocked"
    BY <1>0, <1>8
    DEF is_blocked, Refuse, Answer, Goto, RequestTypes, RequestState,
        is_localsend_peer_blocked, has_status
  <2> QED
    BY <1>0, <1>3, <1>4, <2>1, HistoryOf, Zenon DEF HandlerInv, Grows
<1>9. CASE record_pending(r)
  <2>1. /\ req'[r].pc = "refused" /\ req[r].pc = "record_pending"
        /\ \/ req'[r].why = "store"
           \/ rows' = record_pending_localsend_peer(rows, Peer(r))
    BY <1>0, <1>9 DEF record_pending, Refuse, Answer, RequestTypes, RequestState
  <2>2. record_pending_localsend_peer(rows, Peer(r))[Peer(r)] # Absent
    BY <1>0, <1>3, RecordKeeps, Zenon
  <2> QED
    BY <1>0, <1>3, <1>4, <2>1, <2>2, HistoryOf, Zenon DEF HandlerInv
<1>10. CASE store_error(r)
  BY <1>0, <1>10, Zenon DEF store_error, Refuse, Answer, RequestTypes, RequestState, HandlerInv
<1> QED
  BY <1>5, <1>6, <1>7, <1>8, <1>9, <1>10 DEF HandlerMoves

(***************************************************************************)
(* Steps of operators.                                                     *)
(***************************************************************************)
\* A decision is written to the row and to the history in one step.
LEMMA OperatorKeepsRows ==
  ASSUME AdmissionInv, NEW o \in Operator, OperatorMoves(o)
  PROVE  DecisionStands' /\ TrustHasOrigin' /\ Grows /\ UNCHANGED req
<1>0. RowTypes /\ CallTypes /\ HistoryTypes /\ DecisionStands /\ TrustHasOrigin
  BY Zenon DEF AdmissionInv, Types
<1> USE DEF DecisionStands, TrustHasOrigin, Grows, has_status
<1> DEFINE f == op[o].peer
<1>1. ASSUME UNCHANGED <<receive_policy, req, listed>>, op[o].pc \in {"update", "insert"},
             decided' = [decided EXCEPT ![f] = op[o].status],
             f \in Fingerprint =>
               /\ rows'[f] # Absent /\ rows'[f].status = op[o].status
               /\ \A g \in Fingerprint \ {f} : rows'[g] = rows[g],
             f \notin Fingerprint => rows' = rows
      PROVE  DecisionStands' /\ TrustHasOrigin' /\ Grows /\ UNCHANGED req
  BY <1>0, <1>1, Zenon DEF HistoryTypes, CallTypes
<1>2. CASE status_update(o)
  <2>1. CASE rows[f] # Absent
    <3>1. f \in Fingerprint => [rows[f] EXCEPT !.status = op[o].status] \in LocalSendPeer
      BY <1>0, <1>2, <2>1
      DEF status_update, RowTypes, CallTypes, Decision, LocalSendPeer, LocalSendPeerStatus
    <3>2. rows' = [rows EXCEPT ![f] = [rows[f] EXCEPT !.status = op[o].status]]
      BY <1>2, <2>1, Zenon DEF status_update, update_status
    <3>3. f \in Fingerprint => rows'[f] # Absent /\ rows'[f].status = op[o].status
      BY <1>0, <2>1, <3>1, <3>2, AbsentAssumption, Zenon DEF RowTypes, LocalSendPeer
    <3> QED
      BY <1>0, <1>1, <1>2, <2>1, <3>2, <3>3, ZenonT(30) DEF status_update, RowTypes
  <2>2. CASE rows[f] = Absent
    BY <1>0, <1>2, <2>2, Zenon DEF status_update
  <2> QED
    BY <2>1, <2>2, Zenon
<1>3. CASE status_insert(o)
  <2>1. CASE rows[f] = Absent
    <3>1. [status |-> op[o].status, attempts |-> 0] \in LocalSendPeer
      BY <1>0, <1>3, Zenon
      DEF status_insert, CallTypes, Decision, LocalSendPeer, LocalSendPeerStatus
    <3>2. rows' = [rows EXCEPT ![f] = [status |-> op[o].status, attempts |-> 0]]
      BY <1>3, <2>1, Zenon DEF status_insert, insert_status
    <3>3. f \in Fingerprint => rows'[f] # Absent /\ rows'[f].status = op[o].status
      BY <1>0, <3>1, <3>2, AbsentAssumption, Zenon DEF RowTypes
    <3> QED
      BY <1>0, <1>1, <1>3, <2>1, <3>2, <3>3, Zenon DEF status_insert, RowTypes
  <2>2. CASE rows[f] # Absent
    BY <1>0, <1>3, <2>2, Zenon DEF status_insert
  <2> QED
    BY <2>1, <2>2, Zenon
<1>4. ASSUME NEW peer, NEW status, set_localsend_peer_status(o, peer, status)
      PROVE  DecisionStands' /\ TrustHasOrigin' /\ Grows /\ UNCHANGED req
  BY <1>0, <1>4, Zenon DEF set_localsend_peer_status, tables
<1> QED
  BY <1>2, <1>3, <1>4, Zenon DEF OperatorMoves

(***************************************************************************)
(* The theorems.                                                           *)
(***************************************************************************)
\* The desk starts with the invariant.
LEMMA AdmissionInvInit ==
  ASSUME Init
  PROVE  AdmissionInv
<1> USE DEF Init, AdmissionInit
<1>1. Types
  BY AbsentAssumption, Zenon
  DEF Types, RowTypes, RequestTypes, CallTypes, HistoryTypes, RequestState, Decision
<1>2. DecisionStands /\ TrustHasOrigin
  BY Zenon DEF DecisionStands, TrustHasOrigin, has_status
<1>3. \A r \in Request : HandlerInv(r)
  BY AdmissionAssumption, Zenon DEF HandlerInv
<1> QED
  BY <1>1, <1>2, <1>3, Zenon DEF AdmissionInv

\* Every step keeps it.
LEMMA AdmissionInvStep ==
  ASSUME AdmissionInv, [Next]_vars
  PROVE  AdmissionInv'
<1>0. Types' /\ Types
  BY TypesKept, Zenon DEF AdmissionInv
<1>1. ASSUME Observe, NEW r \in Request, HandlerMoves(r)
      PROVE  AdmissionInv'
  <2>1. DecisionStands' /\ TrustHasOrigin' /\ Grows
    BY <1>1, HandlerKeepsRows, Zenon
  <2>2. HandlerInv(r)'
    BY <1>1, <2>1, MovingHandler, Zenon
  <2>3. ASSUME NEW s \in Request \ {r} PROVE HandlerInv(s)'
    <3>1. req'[s] = req[s] /\ HandlerInv(s)
      BY <1>0, <1>1, HandlerFrame, Zenon DEF HandlerTables, Types, AdmissionInv
    <3> QED
      BY <1>0, <1>1, <2>1, <3>1, RestingHandler, Zenon
  <2> QED
    BY <1>0, <2>1, <2>2, <2>3, Zenon DEF AdmissionInv
<1>2. ASSUME Observe, NEW o \in Operator, OperatorMoves(o)
      PROVE  AdmissionInv'
  <2>1. DecisionStands' /\ TrustHasOrigin' /\ Grows /\ UNCHANGED req
    BY <1>2, OperatorKeepsRows, Zenon
  <2>2. ASSUME NEW s \in Request PROVE HandlerInv(s)'
    BY <1>0, <1>2, <2>1, RestingHandler, Zenon DEF AdmissionInv
  <2> QED
    BY <1>0, <2>1, <2>2, Zenon DEF AdmissionInv
<1>3. CASE Rests /\ (Observe \/ UNCHANGED <<everTrusted, approved>>)
  <2>1. DecisionStands' /\ TrustHasOrigin' /\ Grows /\ UNCHANGED req
    BY <1>3, Zenon DEF Rests, AdmissionInv, DecisionStands, TrustHasOrigin, Grows, has_status
  <2>2. ASSUME NEW s \in Request PROVE HandlerInv(s)'
    BY <1>0, <1>3, <2>1, RestingHandler, Zenon DEF AdmissionInv
  <2> QED
    BY <1>0, <2>1, <2>2, Zenon DEF AdmissionInv
<1> QED
  BY <1>1, <1>2, <1>3, StepForms, Zenon

\* AdmissionInv holds in every reachable state.
LEMMA AdmissionInvariant == Spec => []AdmissionInv
<1>1. Init => AdmissionInv
  BY AdmissionInvInit, Zenon
<1>2. AdmissionInv /\ [Next]_vars => AdmissionInv'
  BY AdmissionInvStep, Zenon
<1> QED
  BY <1>1, <1>2, PTL DEF Spec

\* What an operator last decided about a peer stays in the database until the
\* next decision, whatever handlers record meanwhile (set_localsend_peer_status
\* against record_pending_localsend_peer and record_trusted_localsend_peer).
THEOREM DecisionsStand == Spec => []DecisionStands
<1>1. AdmissionInv => DecisionStands
  BY Zenon DEF AdmissionInv
<1> QED
  BY <1>1, AdmissionInvariant, PTL

\* Only an operator or an allowlist makes a peer trusted
\* (record_trusted_localsend_peer, set_localsend_peer_status).
THEOREM TrustOriginates == Spec => []TrustHasOrigin
<1>1. AdmissionInv => TrustHasOrigin
  BY Zenon DEF AdmissionInv
<1> QED
  BY <1>1, AdmissionInvariant, PTL

\* With the trusted policy no handler of prepare-upload admits a peer that was
\* never trusted while the handler ran (authorize_prepare_upload).
THEOREM AdmissionNeedsTrust == Spec => []AdmittedWasTrusted
<1>1. AdmissionInv => AdmittedWasTrusted
  BY Zenon DEF AdmissionInv, HandlerInv, AdmittedWasTrusted
<1> QED
  BY <1>1, AdmissionInvariant, PTL

\* No handler refuses as untrusted a peer that was approved all the time the
\* handler ran (authorize_prepare_upload).
THEOREM ApprovalIsHonoured == Spec => []ApprovalHonoured
<1>1. AdmissionInv => ApprovalHonoured
  BY Zenon DEF AdmissionInv, HandlerInv, ApprovalHonoured
<1> QED
  BY <1>1, AdmissionInvariant, PTL

\* Every peer that was refused as untrusted has a row that an operator can
\* decide about (record_pending_localsend_peer in server.rs).
THEOREM RefusalIsRecorded == Spec => []RefusedIsRecorded
<1>1. AdmissionInv => RefusedIsRecorded
  BY Zenon DEF AdmissionInv, HandlerInv, RefusedIsRecorded
<1> QED
  BY <1>1, AdmissionInvariant, PTL


(***************************************************************************)
(* The desk: only keys have rows, calls and sightings, so the dashboard    *)
(* lists keys, and a decision is about the peer that the screen shows.     *)
(***************************************************************************)
Calling(o) == op[o].pc \in {"update", "insert"}

KeyInv ==
  /\ receive_policy \in {"prompt", "trusted", "auto"}
  /\ \A f \in Fingerprint \ Key : rows[f] = Absent
  /\ \A r \in Request : Live(r) => Peer(r) \in Key
  /\ op \in [Operator -> CallState]
  /\ \A o \in Operator : Calling(o) => op[o].peer \in Key
  /\ listed \subseteq Fingerprint

ScreenInv ==
  /\ loop \in {"draw", "key", "call", "fetch", "poll", "quit"}
  /\ peers \in Seq(Key)
  /\ selected \in 0 .. Len(peers)
  /\ recent \in Seq(Key)
  /\ loop = "key" => shown = selected_localsend_peer
  /\ Calling(Tui) => loop = "call" /\ op[Tui].peer = shown

DeskInv == Types /\ KeyInv /\ ScreenInv

\* Keys are fingerprints in the form that normalize_fingerprint leaves alone.
LEMMA KeyFacts ==
  /\ \A k \in Key : k \in Fingerprint /\ Canonical[k] = k /\ k # Empty
  /\ \A f \in Fingerprint : Canonical[f] # Empty => Canonical[f] \in Key
BY CanonicalAssumption, Zenon DEF Key

\* The steps once more, with the caller of set_localsend_peer_status.
Calls(o) ==
  \E f \in Fingerprint, status \in Decision : set_localsend_peer_status(o, f, status)

DashboardRests == UNCHANGED dashboardVars

\* A step of the system is one of a handler, of an operator or of the dashboard.
LEMMA DeskForms ==
  ASSUME DeskInv, [Next]_vars
  PROVE  \/ DashboardRests /\ \E r \in Request : HandlerMoves(r)
         \/ DashboardRests /\ \E o \in Operator : status_update(o) \/ status_insert(o)
         \/ DashboardRests /\ \E o \in Operator \ {Tui} : Calls(o)
         \/ dashboard_decides
         \/ dashboard_returns
         \/ dashboard_alone
         \/ DashboardRests /\ Rests
<1>1. CASE UNCHANGED vars
  BY <1>1, Zenon DEF vars, admissionVars, history, Rests, DashboardRests, dashboardVars
<1>2. CASE AdmissionStep /\ UNCHANGED dashboardVars
  BY <1>2, Zenon DEF AdmissionStep, HandlerMoves, DashboardRests, edit_file, Rests
<1>3. CASE command
  BY <1>3, DeskAssumption, Zenon DEF command, Calls, Decision, DashboardRests
<1> QED
  BY <1>1, <1>2, <1>3, Zenon DEF Next

\* A handler works on a key, and keeps doing so.
LEMMA HandlerKeys ==
  ASSUME Types, KeyInv, NEW r \in Request, HandlerMoves(r)
  PROVE  KeyInv'
<1>0. HandlerTables(r) /\ RowTypes /\ RequestTypes
  BY HandlerFrame, Zenon DEF Types
<1>1. Live(r) => Peer(r) \in Key /\ Peer(r) \in Fingerprint
  BY KeyFacts, Zenon DEF KeyInv
<1>2. ASSUME Live(r)' PROVE Peer(r)' \in Key
  <2>1. ASSUME NEW peer \in Offered, NEW blank \in BOOLEAN, authorize_prepare_upload(r, peer, blank)
        PROVE  Peer(r)' \in Key
    <3>1. normalize_fingerprint(peer) # Empty /\ req'[r].peer = peer
      BY <1>0, <1>2, <2>1 DEF authorize_prepare_upload, Live, RequestTypes, RequestState
    <3> QED
      BY <3>1, KeyFacts, AdmissionAssumption, Zenon DEF Peer, normalize_fingerprint
  <2>2. ASSUME ~ \E peer \in Offered, blank \in BOOLEAN : authorize_prepare_upload(r, peer, blank)
        PROVE  Peer(r)' \in Key
    <3>1. Live(r) /\ req'[r].peer = req[r].peer
      BY <1>0, <2>2 DEF HandlerMoves, trusted_fingerprints_file, trusted_fingerprints_db,
        record_trusted, is_blocked, record_pending, store_error, Refuse, Answer, Goto, Live,
        RequestTypes, RequestState
    <3> QED
      BY <1>1, <3>1, Zenon DEF Peer
  <2> QED
    BY <2>1, <2>2, Zenon
<1>3. ASSUME NEW s \in Request, Live(s)' PROVE Peer(s)' \in Key
  <2>1. CASE s = r
    BY <1>2, <1>3, <2>1, Zenon
  <2>2. CASE s # r
    BY <1>0, <1>3, <2>2, Zenon DEF HandlerTables, KeyInv, Live, Peer
  <2> QED
    BY <2>1, <2>2, Zenon
<1>4. ASSUME NEW f \in Fingerprint \ Key PROVE rows'[f] = Absent
  <2>1. CASE UNCHANGED rows
    BY <2>1, Zenon DEF KeyInv
  <2>2. CASE ~ UNCHANGED rows
    <3>1. /\ Live(r)
          /\ rows' \in {record_pending_localsend_peer(rows, Peer(r)),
                        record_trusted_localsend_peer(rows, Peer(r))}
      BY <1>0, <2>2, Zenon DEF HandlerTables, Live
    <3> QED
      BY <1>0, <1>1, <3>1, RecordKeeps, ZenonT(40) DEF KeyInv
  <2> QED
    BY <2>1, <2>2, Zenon
<1>5. listed' \subseteq Fingerprint
  <2>1. UNCHANGED listed \/ (Live(r) /\ listed' = listed \cup {Peer(r)})
    BY <1>0, Zenon DEF HandlerMoves, authorize_prepare_upload, trusted_fingerprints_file,
       trusted_fingerprints_db, record_trusted, is_blocked, record_pending, store_error, Live
  <2> QED
    BY <1>1, <2>1, Zenon DEF KeyInv
<1> QED
  BY <1>0, <1>3, <1>4, <1>5, Zenon DEF KeyInv, HandlerTables, Calling

\* A call of an operator is about a key.
LEMMA OperatorKeys ==
  ASSUME Types, KeyInv, NEW o \in Operator, status_update(o) \/ status_insert(o) \/ Calls(o)
  PROVE  KeyInv' /\ UNCHANGED req /\ \A p \in Operator \ {o} : op'[p] = op[p]
<1>0. op \in [Operator -> CallState] /\ RowTypes
  BY Zenon DEF KeyInv, Types
<1>1. ASSUME NEW call, call \in CallState, call.pc \in {"update", "insert"} => call.peer \in Key,
             op' = [op EXCEPT ![o] = call], UNCHANGED <<receive_policy, req, listed>>,
             \A f \in Fingerprint \ Key : rows'[f] = rows[f]
      PROVE  KeyInv' /\ UNCHANGED req /\ \A p \in Operator \ {o} : op'[p] = op[p]
  BY <1>0, <1>1, Zenon DEF KeyInv, Calling, Live, Peer
<1>2. ASSUME NEW pc \in {"ok", "error"}
      PROVE  [pc |-> pc, peer |-> None, status |-> None] \in CallState
  BY <1>2 DEF CallState
<1>3. CASE status_update(o)
  <2>1. op[o].peer \in Key /\ op[o] \in CallState
    BY <1>0, <1>3, Zenon DEF status_update, KeyInv, Calling
  <2>2. CASE rows[op[o].peer] # Absent
    <3>1. op' = [op EXCEPT ![o] = [pc |-> "ok", peer |-> None, status |-> None]]
      BY <1>3, <2>2, Zenon DEF status_update, Reply
    <3>2. \A f \in Fingerprint \ Key : rows'[f] = rows[f]
      BY <1>0, <1>3, <2>1, <2>2, Zenon DEF status_update, update_status, RowTypes
    <3> QED
      BY <1>1, <1>2, <1>3, <3>1, <3>2, Zenon DEF status_update
  <2>3. CASE rows[op[o].peer] = Absent
    <3> DEFINE call == [op[o] EXCEPT !.pc = "insert"]
    <3>1. op' = [op EXCEPT ![o] = call] /\ UNCHANGED rows
      BY <1>3, <2>3, Zenon DEF status_update
    <3>2. call \in CallState /\ call.peer = op[o].peer
      BY <2>1 DEF CallState
    <3> HIDE DEF call
    <3> QED
      BY <1>1, <1>3, <2>1, <3>1, <3>2, Zenon DEF status_update
  <2> QED
    BY <2>2, <2>3, Zenon
<1>4. CASE status_insert(o)
  <2>1. op[o].peer \in Key /\ op[o] \in CallState
    BY <1>0, <1>4, Zenon DEF status_insert, KeyInv, Calling
  <2>2. PICK pc \in {"ok", "error"} : op' = [op EXCEPT ![o] = [pc |-> pc, peer |-> None, status |-> None]]
    BY <1>4, Zenon DEF status_insert, Reply
  <2>3. \A f \in Fingerprint \ Key : rows'[f] = rows[f]
    BY <1>0, <1>4, <2>1, Zenon DEF status_insert, insert_status, RowTypes
  <2> QED
    BY <1>1, <1>2, <1>4, <2>2, <2>3, Zenon DEF status_insert
<1>5. ASSUME NEW f \in Fingerprint, NEW status \in Decision, set_localsend_peer_status(o, f, status)
      PROVE  KeyInv' /\ UNCHANGED req /\ \A p \in Operator \ {o} : op'[p] = op[p]
  <2>1. CASE Canonical[f] = Empty
    BY <1>1, <1>2, <1>5, <2>1, Zenon DEF set_localsend_peer_status, Reply, tables
  <2>2. CASE Canonical[f] # Empty
    <3> DEFINE call == [pc |-> "update", peer |-> Canonical[f], status |-> status]
    <3>1. op' = [op EXCEPT ![o] = call]
      BY <1>5, <2>2, Zenon DEF set_localsend_peer_status
    <3>2. call \in CallState /\ call.peer \in Key
      BY <2>2, KeyFacts DEF CallState, Decision
    <3> HIDE DEF call
    <3> QED
      BY <1>1, <1>5, <3>1, <3>2, Zenon DEF set_localsend_peer_status, tables
  <2> QED
    BY <2>1, <2>2, Zenon
<1> QED
  BY <1>3, <1>4, <1>5, Zenon DEF Calls

\* The rows that are touched are rows of keys.
LEMMA SightingsKeys ==
  ASSUME DeskInv, [Next]_vars
  PROVE  recent' \in Seq(Key)
<1>0. recent \in Seq(Key) /\ RequestTypes /\ op \in [Operator -> CallState]
  BY Zenon DEF DeskInv, ScreenInv, KeyInv, Types
<1>1. ASSUME NEW f \in Key PROVE Touched(f) \in Seq(Key)
  <2>1. Kept(recent, Fingerprint \ {f}) \in Seq(Key)
    BY <1>0, KeptType, Zenon
  <2> QED
    BY <2>1 DEF Touched
<1> DEFINE Moved(r) == req'[r].pc # req[r].pc
           Seen(r) == req[r].pc \in {"record_trusted", "record_pending"} /\ Moved(r) /\ req'[r].why # "store"
           Returned(o) == op'[o].pc # op[o].pc
           Decides(o) == Calling(o) /\ op'[o].pc = "ok"
<1>2. ASSUME NEW r \in Request, Seen(r)
      PROVE  Peer(CHOOSE s \in Request : Moved(s)) \in Key
  <2>1. PICK k \in Request : HandlerMoves(k)
    BY <1>2, StepForms, Zenon
    DEF OperatorMoves, status_update, status_insert, set_localsend_peer_status, Rests
  <2>2. \A s \in Request : Moved(s) => s = k
    BY <1>0, <2>1, HandlerFrame, Zenon DEF HandlerTables
  <2>3. (CHOOSE s \in Request : Moved(s)) = r
    <3>1. \E s \in Request : Moved(s)
      BY <1>2, Zenon
    <3> QED
      BY <1>2, <2>2, <3>1, Zenon
  <2>4. Peer(r) \in Key
    BY <1>2, Zenon DEF DeskInv, KeyInv, Live
  <2> QED
    BY <2>3, <2>4, Zenon
<1>3. ASSUME NEW o \in Operator, Decides(o)
      PROVE  op[CHOOSE p \in Operator : Returned(p)].peer \in Key
  <2>1. \E k \in Operator : \A p \in Operator : Returned(p) => p = k
    <3>1. ASSUME NEW k \in Operator, OperatorMoves(k)
          PROVE  \A p \in Operator : Returned(p) => p = k
      BY <1>0, <3>1, Zenon
      DEF OperatorMoves, status_update, status_insert, set_localsend_peer_status, Reply
    <3>2. ASSUME UNCHANGED op PROVE \A p \in Operator : Returned(p) => p = o
      BY <3>2, Zenon
    <3>3. ASSUME NEW r \in Request, HandlerMoves(r) PROVE UNCHANGED op
      BY <1>0, <3>3, HandlerFrame, Zenon DEF HandlerTables
    <3> QED
      BY <3>1, <3>2, <3>3, StepForms, Zenon DEF Rests
  <2>2. Returned(o)
    BY <1>3, Zenon DEF Calling
  <2>3. (CHOOSE p \in Operator : Returned(p)) = o
    <3>1. \E p \in Operator : Returned(p)
      BY <2>2, Zenon
    <3> QED
      BY <2>1, <2>2, <3>1, Zenon
  <2>4. op[o].peer \in Key
    BY <1>3, Zenon DEF DeskInv, KeyInv
  <2> QED
    BY <2>3, <2>4, Zenon
<1>4. CASE UNCHANGED vars
  BY <1>0, <1>4, Zenon DEF vars
<1>5. CASE Sightings
  <2>1. CASE \E r \in Request : Seen(r)
    BY <1>1, <1>2, <1>5, <2>1, Zenon DEF Sightings
  <2>2. CASE ~ (\E r \in Request : Seen(r)) /\ \E o \in Operator : Decides(o)
    BY <1>1, <1>3, <1>5, <2>2, Zenon DEF Sightings, Calling
  <2>3. CASE ~ (\E r \in Request : Seen(r)) /\ ~ \E o \in Operator : Decides(o)
    BY <1>0, <1>5, <2>3, Zenon DEF Sightings, Calling
  <2> QED
    BY <2>1, <2>2, <2>3, Zenon
<1> QED
  BY <1>4, <1>5, Zenon DEF Next

\* The selection is a key of the list, or nobody.
LEMMA SelectedKey ==
  ASSUME ScreenInv, selected_localsend_peer # Nobody
  PROVE  selected_localsend_peer \in Key
<1>1. selected < Len(peers) /\ peers \in Seq(Key) /\ selected \in Nat
  BY DEF selected_localsend_peer, ScreenInv
<1> QED
  BY <1>1 DEF selected_localsend_peer

\* The keys that move the selection keep it inside the list.
LEMMA SelectionStays ==
  ASSUME ScreenInv, select_next_localsend_peer \/ select_previous_localsend_peer \/ UNCHANGED selected,
         UNCHANGED peers
  PROVE  selected' \in 0 .. Len(peers')
<1>1. peers \in Seq(Key) /\ Len(peers) \in Nat /\ selected \in 0 .. Len(peers)
  BY DEF ScreenInv
<1>2. peers = <<>> \/ Len(peers) > 0
  BY <1>1
<1> QED
  BY <1>1, <1>2 DEF select_next_localsend_peer, select_previous_localsend_peer

\* What the screen shows stays what the call is about.
LEMMA ScreenStep ==
  ASSUME DeskInv, [Next]_vars
  PROVE  ScreenInv'
<1>0. /\ ScreenInv /\ recent' \in Seq(Key) /\ recent \in Seq(Key) /\ peers \in Seq(Key)
      /\ op \in [Operator -> CallState] /\ RequestTypes /\ Tui \in Operator
      /\ loop \in {"draw", "key", "call", "fetch", "poll", "quit"}
  BY SightingsKeys, DeskAssumption, Zenon DEF DeskInv, ScreenInv, KeyInv, Types
<1>1. ASSUME DashboardRests, Calling(Tui)' => Calling(Tui) /\ op'[Tui].peer = op[Tui].peer
      PROVE  ScreenInv'
  BY <1>0, <1>1, Zenon
  DEF DashboardRests, dashboardVars, ScreenInv, selected_localsend_peer
<1>2. ASSUME DashboardRests, UNCHANGED op PROVE ScreenInv'
  BY <1>1, <1>2, Zenon DEF Calling
<1>3. ASSUME DashboardRests, NEW r \in Request, HandlerMoves(r) PROVE ScreenInv'
  BY <1>0, <1>2, <1>3, HandlerFrame, Zenon DEF HandlerTables
<1>4. ASSUME DashboardRests, NEW o \in Operator, status_update(o) \/ status_insert(o) PROVE ScreenInv'
  <2>1. CASE o = Tui
    <3>1. status_update(Tui) \/ status_insert(Tui)
      BY <1>4, <2>1, Zenon
    <3>2. op[Tui].pc \in {"update", "insert"}
      BY <3>1, Zenon DEF status_update, status_insert
    <3>3. \/ \E pc \in {"ok", "error"} : op'[Tui].pc = pc
          \/ op'[Tui].peer = op[Tui].peer
      BY <1>0, <3>1 DEF status_update, status_insert, Reply, CallState
    <3> QED
      BY <1>1, <1>4, <3>2, <3>3, Zenon DEF Calling
  <2>2. CASE o # Tui
    <3>1. op'[Tui] = op[Tui]
      BY <1>0, <1>4, <2>2, OperatorKeys, Zenon DEF DeskInv
    <3> QED
      BY <1>1, <1>4, <3>1, Zenon DEF Calling
  <2> QED
    BY <2>1, <2>2, Zenon
<1>5. ASSUME DashboardRests, NEW o \in Operator \ {Tui}, Calls(o) PROVE ScreenInv'
  <2>1. op'[Tui] = op[Tui]
    BY <1>0, <1>5, OperatorKeys, Zenon DEF DeskInv
  <2> QED
    BY <1>1, <1>5, <2>1, Zenon DEF Calling
<1>6. CASE dashboard_decides
  <2>1. /\ loop = "key" /\ loop' = "call" /\ UNCHANGED <<peers, selected, shown>>
        /\ shown = selected_localsend_peer /\ shown \in Key
    BY <1>0, <1>6, SelectedKey, Zenon DEF dashboard_decides, decide_key, ScreenInv
  <2>2. Canonical[shown] = shown /\ shown # Empty
    BY <2>1, KeyFacts, Zenon
  <2>3. \E status : op' = [op EXCEPT ![Tui] = [pc |-> "update", peer |-> shown, status |-> status]]
    BY <1>6, <2>1, <2>2, Zenon DEF dashboard_decides, set_localsend_peer_status
  <2>4. op'[Tui].peer = shown
    BY <1>0, <2>3
  <2> QED
    BY <1>0, <2>1, <2>4, Zenon DEF ScreenInv
<1>7. CASE dashboard_returns
  <2>1. /\ loop' \in {"fetch", "poll"} /\ UNCHANGED <<peers, selected, shown, op>>
        /\ ~ Calling(Tui)
    BY <1>7, Zenon DEF dashboard_returns, call_returns, Calling
  <2> QED
    BY <1>0, <2>1, Zenon DEF ScreenInv, Calling
<1>8. CASE dashboard_alone
  <2>0. UNCHANGED op /\ ~ Calling(Tui)
    BY <1>0, <1>8, Zenon DEF dashboard_alone, draw, handle_key, fetch_after_call, poll, ScreenInv
  <2>1. ~ Calling(Tui)'
    BY <2>0, Zenon DEF Calling
  <2>2. CASE draw
    <3>1. /\ loop' \in {"key", "quit"} /\ UNCHANGED <<peers, selected>>
          /\ shown' = selected_localsend_peer
      BY <2>2, Zenon DEF draw
    <3>2. selected_localsend_peer' = selected_localsend_peer
      BY <3>1, Zenon DEF selected_localsend_peer
    <3> QED
      BY <1>0, <2>1, <3>1, <3>2, Zenon DEF ScreenInv
  <2>3. CASE handle_key
    <3>1. loop' = "poll" /\ UNCHANGED peers /\ selected' \in 0 .. Len(peers')
      BY <1>0, <2>3, SelectionStays, Zenon DEF handle_key
    <3> QED
      BY <1>0, <2>1, <3>1, Zenon DEF ScreenInv
  <2>4. CASE fetch_after_call(list_pending_local_send) \/ poll(list_pending_local_send)
    <3>1. list_pending_local_send \in Seq(Key)
      BY <1>0, KeptType, Zenon DEF list_pending_local_send
    <3>2. loop' \in {"poll", "draw"}
      BY <2>4, Zenon DEF fetch_after_call, poll
    <3>3. peers' \in Seq(Key) /\ selected' \in 0 .. Len(peers')
      <4>1. CASE Replace(list_pending_local_send)
        <5>1. peers' \in Seq(Key) /\ selected' = 0
          BY <3>1, <4>1, Zenon DEF Replace
        <5> QED
          BY <5>1
      <4>2. CASE UNCHANGED <<peers, selected>>
        BY <1>0, <4>2, Zenon DEF ScreenInv
      <4> QED
        BY <2>4, <4>1, <4>2, Zenon DEF fetch_after_call, poll
    <3> QED
      BY <1>0, <2>1, <3>2, <3>3, Zenon DEF ScreenInv
  <2> QED
    BY <1>8, <2>2, <2>3, <2>4, Zenon DEF dashboard_alone
<1>9. CASE DashboardRests /\ Rests
  BY <1>2, <1>9, Zenon DEF Rests
<1> QED
  BY <1>3, <1>4, <1>5, <1>6, <1>7, <1>8, <1>9, DeskForms, Zenon

\* Nobody has called when the desk opens, and its list is empty.
LEMMA DeskInvInit ==
  ASSUME Init
  PROVE  DeskInv
<1>1. Types
  BY AdmissionInvInit, Zenon DEF AdmissionInv
<1>2. \A o \in Operator : op[o] = [pc |-> "idle", peer |-> None, status |-> None]
  BY Zenon DEF Init, AdmissionInit
<1>3. \A o \in Operator : ~ Calling(o)
  BY <1>2 DEF Calling
<1>4. op \in [Operator -> CallState]
  BY Zenon DEF Init, AdmissionInit, CallState
<1>5. \A r \in Request : ~ Live(r)
  BY Zenon DEF Init, AdmissionInit, Live
<1>6. KeyInv
  <2>1. \A f \in Fingerprint \ Key : rows[f] = Absent
    BY Zenon DEF Init, AdmissionInit
  <2>2. receive_policy \in {"prompt", "trusted", "auto"} /\ listed \subseteq Fingerprint
    BY Zenon DEF Init, AdmissionInit
  <2> QED
    BY <1>3, <1>4, <1>5, <2>1, <2>2, Zenon DEF KeyInv
<1>7. ScreenInv
  <2>1. loop = "draw" /\ peers = <<>> /\ selected = 0 /\ recent = <<>>
    BY Zenon DEF Init, DashboardInit
  <2>2. <<>> \in Seq(Key) /\ 0 \in 0 .. Len(<<>>)
    OBVIOUS
  <2> QED
    BY <1>3, <2>1, <2>2, DeskAssumption, Zenon DEF ScreenInv
<1> QED
  BY <1>1, <1>6, <1>7, Zenon DEF DeskInv

\* Every step keeps the invariant of the desk.
LEMMA DeskInvStep ==
  ASSUME DeskInv, [Next]_vars
  PROVE  DeskInv'
<1>1. Types' /\ ScreenInv'
  BY TypesKept, ScreenStep, Zenon DEF DeskInv
<1>2. ASSUME NEW r \in Request, HandlerMoves(r) PROVE KeyInv'
  BY <1>2, HandlerKeys, Zenon DEF DeskInv
<1>3. ASSUME NEW o \in Operator, status_update(o) \/ status_insert(o) \/ Calls(o) PROVE KeyInv'
  BY <1>3, OperatorKeys, Zenon DEF DeskInv
<1>4. CASE dashboard_decides
  <2>1. selected_localsend_peer \in Fingerprint
    BY <1>4, SelectedKey, KeyFacts, Zenon DEF dashboard_decides, decide_key, DeskInv
  <2>2. Calls(Tui)
    BY <1>4, <2>1 DEF dashboard_decides, Calls, Decision
  <2> QED
    BY <1>1, <1>3, <2>2, DeskAssumption, Zenon DEF DeskInv
<1>5. ASSUME Rests PROVE KeyInv'
  BY <1>5, Zenon DEF Rests, DeskInv, KeyInv, Calling, Live, Peer
<1>6. CASE dashboard_returns \/ dashboard_alone
  BY <1>1, <1>5, <1>6, Zenon DEF dashboard_returns, dashboard_alone, tables, Rests, DeskInv
<1> QED
  BY <1>1, <1>2, <1>3, <1>4, <1>5, <1>6, DeskForms, Zenon DEF DeskInv

\* The invariant of the desk holds in every state.
LEMMA DeskInvariant == Spec => []DeskInv
<1>1. Init => DeskInv
  BY DeskInvInit, Zenon
<1>2. DeskInv /\ [Next]_vars => DeskInv'
  BY DeskInvStep, Zenon
<1> QED
  BY <1>1, <1>2, PTL DEF Spec

\* Rows, calls, sightings and the list on the screen are about normalized
\* fingerprints only, and the selection stays inside the list
\* (normalize_localsend_fingerprint, DashboardState::replace).
THEOREM DeskIsTyped == Spec => []TypeOK
<1>1. DeskInv => TypeOK
  BY Zenon
  DEF DeskInv, Types, KeyInv, ScreenInv, RowTypes, RequestTypes, HistoryTypes, Decision, TypeOK,
      AdmissionTypeOK
<1> QED
  BY <1>1, DeskInvariant, PTL

\* A decision made with a key of the dashboard is about the peer that was
\* highlighted when the key was pressed, for any list and any number of
\* requests that reorder it meanwhile (run_app, handle_key).
THEOREM DashboardDecidesWhatItShows == Spec => []DecidesWhatWasShown
<1>1. DeskInv => DecidesWhatWasShown
  BY Zenon DEF DeskInv, ScreenInv, Calling, DecidesWhatWasShown
<1> QED
  BY <1>1, DeskInvariant, PTL
=============================================================================
