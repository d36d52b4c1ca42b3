-------------------------- MODULE RendezvousServer --------------------------
(***************************************************************************)
(* The rendezvous server (rendezvous/server.rs) and the requests under way *)
(* to it. A request is on the wire, then read by a task that notes the     *)
(* time and waits for the lock of the registry, then handled. The registry *)
(* is in memory: a restart empties it.                                     *)
(***************************************************************************)
EXTENDS Registry

CONSTANTS Slot,            \* places for requests under way
          PruneInterval,   \* ticks between two prunes
          MaxLag,          \* ticks a task may wait for the lock
          None

ASSUME ServerAssumption == PruneInterval \in Nat \ {0} /\ MaxLag \in Nat

VARIABLES up,         \* the server runs
          registry,   \* entries and notifications
          prune_in,   \* ticks until prune_tick fires
          wire        \* the request in each slot

serverVars == <<up, registry, prune_in, wire>>

ClientMessage == {"register", "lookup", "notify"}

ServerInit ==
  /\ up = TRUE
  /\ registry = new
  /\ prune_in = 0
  /\ wire = [s \in Slot |-> None]

\* RendezvousClient::request: a stream is opened and the message written.
Request(kind, pubkey, candidates, ttl) ==
  [kind |-> kind, stage |-> "wire", lag |-> 0, pubkey |-> pubkey,
   candidates |-> candidates, ttl_seconds |-> ttl]

At(s, stage) == wire[s] # None /\ wire[s].stage = stage

\* handle_connection: the frame is read and handle_message notes the time.
accept(s) ==
  /\ up /\ At(s, "wire")
  /\ wire' = [wire EXCEPT ![s].stage = "now"]
  /\ UNCHANGED <<up, registry, prune_in>>

Handled(r) ==
  CASE r.kind = "register" -> register(registry, r, r.lag)
    [] r.kind = "lookup"   -> prune_expired(registry, r.lag)
    [] r.kind = "notify"   -> queue_notify(registry, r.pubkey, r.lag)

\* handle_message, with the lock.
handle_message(s) ==
  /\ up /\ At(s, "now")
  /\ registry' = Handled(wire[s])
  /\ wire' = [wire EXCEPT ![s] = None]
  /\ UNCHANGED <<up, prune_in>>

prune_tick_idle ==   \* Mutant: the tick removes nothing
  /\ up /\ prune_in = 0
  /\ prune_in' = PruneInterval
  /\ UNCHANGED <<up, registry, wire>>
\* run_server: the tick reads the time with the lock in hand.
prune_tick ==
  /\ up /\ prune_in = 0
  /\ registry' = prune_expired(registry, 0)
  /\ prune_in' = PruneInterval
  /\ UNCHANGED <<up, wire>>

\* The process ends, by stop or by a crash: connections and registry go.
server_stop ==
  /\ up
  /\ up' = FALSE
  /\ registry' = new
  /\ wire' = [s \in Slot |-> None]
  /\ UNCHANGED prune_in

\* bind and the start of run_server; the first tick of an interval is at once.
server_bind ==
  /\ ~up
  /\ up' = TRUE
  /\ prune_in' = 0
  /\ UNCHANGED <<registry, wire>>

\* Time passes for the server: no timer is overdue and no task waits longer
\* than MaxLag for the lock.
server_tick ==
  /\ up => prune_in > 0
  /\ \A s \in Slot : At(s, "now") => wire[s].lag < MaxLag
  /\ registry' = Aged(registry)
  /\ prune_in' = IF up THEN prune_in - 1 ELSE prune_in
  /\ wire' = [s \in Slot |-> IF At(s, "now") THEN [wire[s] EXCEPT !.lag = @ + 1] ELSE wire[s]]
  /\ UNCHANGED up

=============================================================================
