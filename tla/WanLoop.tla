------------------------------ MODULE WanLoop -------------------------------
(***************************************************************************)
(* The WAN registration loop of the daemon (daemon/wan.rs) with the        *)
(* candidates it gathers (protocol-native-v1/candidates.rs, stun.rs), the  *)
(* rendezvous client it uses (rendezvous/client.rs) and the server, over a *)
(* network that loses and delays requests and replies.                     *)
(***************************************************************************)
EXTENDS RendezvousServer

CONSTANTS Daemon,         \* the public key of the daemon
          Address,        \* addresses its route to the outside may have
          Interval,       \* register_interval_seconds, in ticks
          StunTimeout,    \* ticks STUN servers may take together
          Patience,       \* ticks until a connection without answer is dropped
          MaxLosses,      \* failed registrations in a row while the server runs
          MaxRestarts,    \* restarts of the server
          MaxQueued,      \* notifications queued for one peer
          PortShared,     \* a second socket may bind the native port
          Visits          \* requests of other daemons, as <<kind, public key>>

VARIABLES loop,           \* where run_register_loop_with_register is
          waited,         \* ticks it has been there
          address,        \* primary_ipv4_address
          shutdown,       \* the watch channel of stop_wan_runtime
          failures,       \* failed registrations in a row
          restarts,
          \* History variables.
          registered,     \* the running server accepted a registration
          since           \* ticks since shutdown

loopVars == <<loop, waited, address, shutdown, failures>>
vars == <<serverVars, loopVars, restarts, registered, since>>

ASSUME WanAssumption ==
  /\ {"loop", "late", "visitor"} = Slot
  /\ Daemon \in Pubkey
  /\ Visits \subseteq {"lookup", "notify"} \X Pubkey
  /\ {Interval, StunTimeout, Patience, MaxLosses, MaxRestarts, MaxQueued} \subseteq Nat
  /\ PortShared \in BOOLEAN

registration_ttl_short(interval) == 2 * interval    \* Mutant: one loss is too many
registration_ttl_seconds(interval) == IF interval = 0 THEN 1 ELSE 3 * interval

\* Ticks gathering may take: a socket that cannot be bound fails at once.
GatherTime == IF PortShared THEN StunTimeout ELSE 0

\* The loop keeps an entry alive over MaxLosses failures when the interval is
\* long enough for what gathering, a dropped connection and a late handler take,
\* and the server grants the lifetime that is asked for.
ASSUME TtlAssumption ==
  /\ (MaxLosses + 1) * (Interval + GatherTime + Patience) + Patience + MaxLag
       < 3 * Interval
  /\ 3 * Interval <= MaxTtl

NativeCandidate == {"local", "server_reflexive"} \X (Address \cup {"loopback"})

\* None and Gone are neither requests nor entries.
ASSUME NothingAssumption ==
  /\ None \notin [kind : ClientMessage, stage : {"wire", "now"}, lag : Nat,
                  pubkey : Pubkey, candidates : SUBSET NativeCandidate,
                  ttl_seconds : Nat]
  /\ Gone \notin [candidates : SUBSET NativeCandidate, left : Int]

local_candidates(a) == {<<"local", "loopback">>, <<"local", a>>}

\* What asking the STUN servers may yield: the public address, or nothing when no
\* server answers in time or answers something else. STUN asks from the native
\* port, which the native endpoint holds: where the system does not let two
\* sockets share it the bind fails at once, and only a warning is left.
discover_server_reflexive_candidate(a) ==
  {{}} \cup IF PortShared THEN {{<<"server_reflexive", a>>}} ELSE {}

\* gather_candidates, without duplicates. The daemon passes the port its endpoint
\* has, so it is never 0 and the one error of local_candidates cannot happen.
gather_candidates(a) ==
  {local_candidates(a) \cup found : found \in discover_server_reflexive_candidate(a)}

build_register_request(candidates) ==
  Request("register", Daemon, candidates, registration_ttl_seconds(Interval))

Init ==
  /\ ServerInit
  /\ loop = "gather" /\ waited = 0
  /\ address \in Address
  /\ shutdown = FALSE
  /\ failures = 0 /\ restarts = 0
  /\ registered = FALSE
  /\ since = 0

Enter(pc) == loop' = pc /\ waited' = 0

\* The candidates are there, and the client connects and sends the request.
connect_client ==
  /\ loop = "gather"
  /\ \E candidates \in gather_candidates(address) :
       wire' = IF up THEN [wire EXCEPT !["loop"] = build_register_request(candidates)]
               ELSE wire
  /\ Enter("register")
  /\ UNCHANGED <<up, registry, prune_in, address, shutdown, failures, restarts,
                 registered, since>>

\* The server handles the registration; the reply reaches the loop, or is
\* lost and the loop learns of a failure.
register_handled(replied) ==
  /\ handle_message("loop")
  /\ Enter("wait")
  /\ replied \/ failures < MaxLosses
  /\ failures' = IF replied THEN 0 ELSE failures + 1
  /\ registered' = TRUE
  /\ UNCHANGED <<address, shutdown, restarts, since>>

\* connect fails: the server is not there or has gone away.
connect_fails ==
  /\ loop = "register" /\ wire["loop"] = None
  /\ Enter("wait")
  /\ UNCHANGED <<serverVars, address, shutdown, failures, restarts, registered, since>>

\* The request fails: the network did not deliver. What was sent is gone, or is
\* handled late.
register_fails(late) ==
  /\ loop = "register" /\ wire["loop"] # None
  /\ failures < MaxLosses
  /\ late => wire["late"] = None
  /\ wire' = [wire EXCEPT !["loop"] = None,
                          !["late"] = IF late THEN wire["loop"] ELSE @]
  /\ Enter("wait")
  /\ failures' = failures + 1
  /\ UNCHANGED <<up, registry, prune_in, address, shutdown, restarts,
                 registered, since>>

\* wait_for_register_interval, and the head of the loop.
interval_slept == waited = Interval      \* Mutant: shutdown is seen afterwards
interval_over == shutdown \/ waited = Interval

wait_for_register_interval ==
  /\ loop = "wait" /\ interval_over
  /\ Enter(IF shutdown THEN "stopped" ELSE "gather")
  /\ UNCHANGED <<serverVars, address, shutdown, failures, restarts, registered, since>>

stop_wan_runtime ==
  /\ ~shutdown
  /\ shutdown' = TRUE
  /\ UNCHANGED <<serverVars, loop, waited, address, failures, restarts,
                 registered, since>>

\* The host gets another address.
primary_ipv4_address ==
  /\ address' \in Address \ {address}
  /\ UNCHANGED <<serverVars, loop, waited, shutdown, failures, restarts,
                 registered, since>>

\* A request sent late, or one of another client, is handled.
handle_other(s) ==
  /\ s # "loop"
  /\ handle_message(s)
  /\ registered' = (registered \/ (wire[s].kind = "register" /\ wire[s].pubkey = Daemon))
  /\ UNCHANGED <<loopVars, restarts, since>>

read_request(s) == accept(s) /\ UNCHANGED <<loopVars, restarts, registered, since>>

\* Other daemons: lookup_peer_candidates and notify_peer. The request is read
\* at once, since its clock starts then. What they register is under their
\* own keys and is left out.
visit(kind, p) ==
  /\ up /\ wire["visitor"] = None
  /\ kind = "notify" => registry.notifications[p] < MaxQueued
  /\ wire' = [wire EXCEPT !["visitor"] =
       [Request(kind, p, {}, 0) EXCEPT !.stage = "now"]]
  /\ UNCHANGED <<up, registry, prune_in, loopVars, restarts, registered, since>>

prune == prune_tick /\ UNCHANGED <<loopVars, restarts, registered, since>>

stop_server ==
  /\ restarts < MaxRestarts
  /\ server_stop
  /\ registered' = FALSE
  /\ restarts' = restarts + 1
  /\ UNCHANGED <<loopVars, since>>

start_server == server_bind /\ UNCHANGED <<loopVars, restarts, registered, since>>

\* A tick passes when nothing is due: STUN has a timeout, a dead connection is
\* dropped, the interval ends, and a loop that waits sees the shutdown.
tick ==
  /\ server_tick
  /\ CASE loop = "gather"   -> waited < GatherTime
       [] loop = "register" -> waited < Patience
       [] loop = "wait"     -> ~interval_over
       [] OTHER             -> TRUE
  /\ waited' = IF loop = "stopped" THEN waited ELSE waited + 1
  /\ since' = IF shutdown /\ loop # "stopped" THEN since + 1 ELSE since
  /\ UNCHANGED <<loop, address, shutdown, failures, restarts, registered>>

loop_step == connect_client \/ connect_fails \/ wait_for_register_interval

Next ==
  \/ loop_step
  \/ \E replied \in BOOLEAN : register_handled(replied)
  \/ \E late \in BOOLEAN : register_fails(late)
  \/ stop_wan_runtime
  \/ primary_ipv4_address
  \/ \E s \in Slot : read_request(s) \/ handle_other(s)
  \/ \E v \in Visits : visit(v[1], v[2])
  \/ prune \/ stop_server \/ start_server
  \/ tick

\* Time passes, tasks that can go on are polled, a dead connection is given up
\* in the end, and an operator restarts the server.
Fairness ==
  /\ WF_vars(tick)
  /\ WF_vars(loop_step)
  /\ WF_vars(prune)
  /\ WF_vars(start_server)
  /\ WF_vars(register_handled(TRUE) \/ register_fails(FALSE))
  /\ \A s \in Slot : WF_vars(read_request(s)) /\ WF_vars(handle_other(s))

Spec == Init /\ [][Next]_vars

FairSpec == Spec /\ Fairness

(***************************************************************************)
(* Properties.                                                             *)
(***************************************************************************)
\* Types; and an expired entry stays in memory for less than the interval of the
\* prune tick, although tasks register with a clock that they read before they had
\* the lock.
TypeOK ==
  /\ up \in BOOLEAN
  /\ \A p \in Pubkey : registry.entries[p] # Gone =>
       /\ registry.entries[p].left \in (1 - PruneInterval)..MaxTtl
       /\ registry.entries[p].candidates \in (SUBSET NativeCandidate) \ {{}}
  /\ registry.notifications \in [Pubkey -> 0..MaxQueued]
  /\ prune_in \in 0..PruneInterval
  /\ \A s \in Slot : wire[s] # None => wire[s].kind \in ClientMessage
  /\ loop \in {"gather", "register", "wait", "stopped"}
  /\ waited \in 0..(Interval + GatherTime)
  /\ failures \in 0..MaxLosses
  /\ restarts \in 0..MaxRestarts

\* While the loop runs, a peer that the running server has accepted is found
\* by every lookup, although up to MaxLosses registrations in a row get lost,
\* a reply is lost, requests are handled late and out of order, STUN times
\* out, and handlers work with a clock they read before they had the lock.
FoundWhileRegistered ==
  registered /\ ~shutdown => lookup(registry, Daemon, 0) # Gone

\* Only registered peers have notifications queued: what is queued goes with
\* the entry that expires (prune_expired), so a key never returns to old ones.
NotificationsHaveOwner ==
  \A p \in Pubkey : registry.notifications[p] > 0 => registry.entries[p] # Gone

\* After shutdown the loop takes no longer than the gathering or the
\* connection it is in the middle of; it does not sleep out the interval.
StopIsPrompt == since <= GatherTime + Patience

\* When the address of the daemon has settled, the loop and the server run on,
\* and not every registration is lost, the registry ends up with candidates of
\* that address only, late and reordered registrations notwithstanding.
CandidatesCatchUp ==
  \A a \in Address :
    <>[](address = a /\ ~shutdown /\ up) =>
      <>[](/\ registry.entries[Daemon] # Gone
           /\ \A c \in registry.entries[Daemon].candidates : c[2] \in {a, "loopback"})

=============================================================================
