------------------------------ MODULE Registry ------------------------------
(***************************************************************************)
(* The in-memory registry of the rendezvous server (rendezvous/registry.rs)*)
(* as one operator per method. Time is relative: an entry holds how long   *)
(* it has left, and the argument lag says how long ago the caller read     *)
(* the clock. Aliases and the reported last_seen are left out.             *)
(***************************************************************************)
EXTENDS Integers

CONSTANTS Pubkey,   \* public keys of peers
          MaxTtl,   \* max_ttl of the server, in ticks
          Gone      \* no entry

ASSUME MaxTtlAssumption == MaxTtl \in Nat \ {0}

new == [entries |-> [p \in Pubkey |-> Gone],
        notifications |-> [p \in Pubkey |-> 0]]

\* RegisterRequest::validate.
validate(request) == request.candidates # {} /\ request.ttl_seconds # 0

capped_ttl(requested) == IF requested < MaxTtl THEN requested ELSE MaxTtl

\* The entry of the peer is replaced; its notifications stay.
register_extends(reg, request, lag) ==   \* Mutant: a refresh keeps the old candidates
  [reg EXCEPT !.entries[request.pubkey] =
     [candidates |-> IF @ = Gone THEN request.candidates ELSE @.candidates,
      left |-> capped_ttl(request.ttl_seconds) - lag]]
register(reg, request, lag) ==
  IF validate(request)
    THEN [reg EXCEPT !.entries[request.pubkey] =
            [candidates |-> request.candidates,
             left |-> capped_ttl(request.ttl_seconds) - lag]]
    ELSE reg

Expired(reg, p, lag) == reg.entries[p] # Gone /\ reg.entries[p].left <= -lag

prune_keeps_notifications(reg, lag) ==   \* Mutant: only the entry is removed
  [reg EXCEPT !.entries = [p \in Pubkey |-> IF Expired(reg, p, lag) THEN Gone ELSE @[p]]]
prune_expired(reg, lag) ==
  [entries |->
     [p \in Pubkey |-> IF Expired(reg, p, lag) THEN Gone ELSE reg.entries[p]],
   notifications |->
     [p \in Pubkey |-> IF Expired(reg, p, lag) THEN 0 ELSE reg.notifications[p]]]

\* What a lookup answers; it prunes first, so the registry changes too.
lookup(reg, p, lag) == prune_expired(reg, lag).entries[p]

queue_notify(reg, p, lag) ==
  LET pruned == prune_expired(reg, lag)
  IN  IF lookup(reg, p, lag) = Gone
        THEN pruned
        ELSE [pruned EXCEPT !.notifications[p] = @ + 1]

\* One tick passes.
Aged(reg) ==
  [reg EXCEPT !.entries =
     [p \in Pubkey |-> IF @[p] = Gone THEN Gone
                       ELSE [candidates |-> @[p].candidates, left |-> @[p].left - 1]]]

=============================================================================
