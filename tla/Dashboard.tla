------------------------------ MODULE Dashboard ------------------------------
(***************************************************************************)
(* The terminal dashboard (tui/main.rs, tui/app.rs): a loop that draws the *)
(* last snapshot, handles one key, and replaces the snapshot when a second *)
(* has passed. `loop` is the point of run_app it has reached.              *)
(***************************************************************************)
EXTENDS Naturals, Sequences

CONSTANTS Nobody       \* no peer is selected

VARIABLES loop,        \* "draw", "key", "call", "fetch", "poll", "quit"
          peers,       \* pending_localsend_peers of AppState
          selected,    \* selected_localsend_peer, an index from 0
          shown        \* the peer highlighted on the screen

dashboardVars == <<loop, peers, selected, shown>>

selected_localsend_peer ==
  IF selected < Len(peers) THEN peers[selected + 1] ELSE Nobody

DashboardInit(list) ==
  /\ loop = "draw"
  /\ peers = list
  /\ selected = 0
  /\ shown = Nobody

\* terminal.draw; a dashboard told to quit leaves the loop after drawing.
draw ==
  /\ loop = "draw"
  /\ shown' = selected_localsend_peer
  /\ loop' \in {"key", "quit"}
  /\ UNCHANGED <<peers, selected>>

select_next_unbounded == selected' = selected + 1   \* Mutant: no end of the list
select_next_localsend_peer ==
  selected' = IF peers = <<>> THEN 0
              ELSE IF selected + 1 < Len(peers) THEN selected + 1 ELSE Len(peers) - 1

select_previous_localsend_peer ==
  selected' = IF selected = 0 THEN 0 ELSE selected - 1

\* handle_key for the keys that make no call; no key within 100 ms is one of
\* them.
handle_key ==
  /\ loop = "key"
  /\ select_next_localsend_peer \/ select_previous_localsend_peer \/ UNCHANGED selected
  /\ loop' = "poll"
  /\ UNCHANGED <<peers, shown>>

\* 'a' or 'd' on a selected peer: the call is made before anything else.
decide_key ==
  /\ loop = "key"
  /\ selected_localsend_peer # Nobody
  /\ loop' = "call"
  /\ UNCHANGED <<peers, selected, shown>>

\* The call failed: the error is kept and the snapshot stays. Otherwise a new
\* snapshot is fetched.
call_returns(ok) ==
  /\ loop = "call"
  /\ loop' = IF ok THEN "fetch" ELSE "poll"
  /\ UNCHANGED <<peers, selected, shown>>

\* fetch_once replaces the whole state, the selection included.
Replace(list) == peers' = list /\ selected' = 0

fetch_after_call(list) ==
  /\ loop = "fetch"
  /\ Replace(list) \/ UNCHANGED <<peers, selected>>
  /\ loop' = "poll"
  /\ UNCHANGED shown

\* The end of the loop: the snapshot is replaced if the interval has passed
\* and the daemon answers.
poll_early(list) ==  \* Mutant: the snapshot is replaced before the key is read
  /\ loop = "key"
  /\ Replace(list)
  /\ UNCHANGED <<loop, shown>>
poll(list) ==
  /\ loop = "poll"
  /\ Replace(list) \/ UNCHANGED <<peers, selected>>
  /\ loop' = "draw"
  /\ UNCHANGED shown

=============================================================================
