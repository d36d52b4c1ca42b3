------------------------------ MODULE TrustDesk ------------------------------
(***************************************************************************)
(* Admission of LocalSend uploads together with its operators: callers who *)
(* name any fingerprint (CLI, scripts) and a terminal dashboard that       *)
(* decides about the pending peers it was shown.                           *)
(***************************************************************************)
EXTENDS LocalSendAdmission, Dashboard, Lists

CONSTANTS Tui,           \* the operator at the dashboard
          Named          \* fingerprints that commands name, in any spelling

ASSUME DeskAssumption == Tui \in Operator /\ Named \subseteq Fingerprint

VARIABLES recent         \* keys by last_seen, latest first

vars == <<admissionVars, dashboardVars, recent>>

\* last_seen = now_unix() of every statement that touches a row.
Touched(f) == <<f>> \o Kept(recent, Fingerprint \ {f})

\* list_pending_localsend_peers: ORDER BY last_seen DESC.
list_pending_local_send == Kept(recent, {f \in Fingerprint : has_status(rows, f, "pending")})

\* The row that a step changed, or touched without changing it, moves to the
\* front of the list.
Sightings ==
  recent' = IF \E r \in Request : req[r].pc \in {"record_trusted", "record_pending"}
                                  /\ req'[r].pc # req[r].pc /\ req'[r].why # "store"
              THEN Touched(Peer(CHOOSE r \in Request : req'[r].pc # req[r].pc))
            ELSE IF \E o \in Operator : op[o].pc \in {"update", "insert"} /\ op'[o].pc = "ok"
              THEN Touched(op[CHOOSE o \in Operator : op'[o].pc # op[o].pc].peer)
            ELSE recent

Init ==
  /\ AdmissionInit
  /\ DashboardInit(<<>>)
  /\ recent = <<>>

\* A script or the CLI: any fingerprint.
command ==
  /\ \E o \in Operator \ {Tui}, f \in Named, status \in {"trusted", "blocked"} :
       set_localsend_peer_status(o, f, status)
  /\ UNCHANGED dashboardVars

dashboard_decides ==
  /\ decide_key
  /\ \E status \in {"trusted", "blocked"} :
       set_localsend_peer_status(Tui, selected_localsend_peer, status)

dashboard_returns ==
  /\ op[Tui].pc \in {"ok", "error"}
  /\ call_returns(op[Tui].pc = "ok")
  /\ UNCHANGED <<receive_policy, tables, req, op, decided, listed>>

dashboard_alone ==
  /\ \/ draw
     \/ handle_key
     \/ fetch_after_call(list_pending_local_send)
     \/ poll(list_pending_local_send)
  /\ UNCHANGED <<receive_policy, tables, req, op, decided, listed>>

Next ==
  /\ \/ AdmissionStep /\ UNCHANGED dashboardVars
     \/ command
     \/ dashboard_decides
     \/ dashboard_returns
     \/ dashboard_alone
  /\ Observe
  /\ Sightings

Spec == Init /\ [][Next]_vars

(***************************************************************************)
(* Properties.                                                             *)
(***************************************************************************)
TypeOK ==
  /\ AdmissionTypeOK
  /\ loop \in {"draw", "key", "call", "fetch", "poll", "quit"}
  /\ peers \in Seq(Key)
  /\ selected \in 0..Len(peers)
  /\ recent \in Seq(Key)

\* The dashboard decides about the peer that was highlighted when the key was
\* pressed, although requests reorder the list of pending peers all the time
\* and every new snapshot resets the selection (run_app draws after every
\* change of its state and before it reads a key).
DecidesWhatWasShown ==
  op[Tui].pc \in {"update", "insert"} => op[Tui].peer = shown

=============================================================================
