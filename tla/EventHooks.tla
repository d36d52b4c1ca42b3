----------------------------- MODULE EventHooks -----------------------------
(***************************************************************************)
(* The event bus of the daemon (daemon/events.rs), the hook dispatcher and *)
(* its delivery tasks (daemon/hooks), and the event streams of the API.    *)
(* API calls emit an event when they start and one when they end. The bus  *)
(* is a bounded broadcast channel: a receiver that falls behind loses the  *)
(* oldest events.                                                          *)
(***************************************************************************)
EXTENDS Naturals, Sequences

CONSTANTS Call,          \* API calls that emit events
          Sink,          \* configured hooks
          Webhook,       \* those that are webhooks; the others run a command
          MaxAttempts,   \* max_attempts of the webhooks
          Capacity,      \* EVENT_CHANNEL_CAPACITY
          MaxEvents,     \* bound on the events sent
          Watcher        \* clients that may follow the events

ASSUME HookAssumption ==
  /\ Webhook \subseteq Sink
  /\ MaxAttempts \in Nat \ {0} /\ Capacity \in Nat \ {0} /\ MaxEvents \in Nat

VARIABLES next_id,       \* of the bus
          sent,          \* ids in the order in which they entered the channel
          call,          \* call[c]: [pc, id], where id was taken and not yet sent
          dispatcher,    \* the dispatcher task
          next,          \* position in sent that the dispatcher reads next
          skipped,       \* positions that the dispatcher lost
          delivery,      \* delivery[<<i, s>>]: of the event at position i to sink s
          stream         \* stream[w]: position that w reads next, 0 when closed

hookVars == <<next_id, sent, call, dispatcher, next, skipped, delivery, stream>>

CallState == {"idle", "starting", "running", "ending", "over"}
Position == 1 .. MaxEvents
NoDelivery == [state |-> "none", attempts |-> 0]

\* HookSinks::from_config: a command is run once.
Attempts(s) == IF s \in Webhook THEN MaxAttempts ELSE 1

HooksInit ==
  /\ next_id = 1
  /\ sent = <<>>
  /\ call = [c \in Call |-> [pc |-> "idle", id |-> 0]]
  /\ dispatcher = "off"
  /\ next = 1
  /\ skipped = {}
  /\ delivery = [d \in Position \X Sink |-> NoDelivery]
  /\ stream = [w \in Watcher |-> 0]

(***************************************************************************)
(* emit: the id is taken and the event sent in two steps                   *)
(***************************************************************************)
take_id(c, from, to) ==
  /\ call[c].pc = from
  /\ next_id <= MaxEvents
  /\ call' = [call EXCEPT ![c] = [pc |-> to, id |-> next_id]]
  /\ next_id' = next_id + 1
  /\ UNCHANGED <<sent, dispatcher, next, skipped, delivery, stream>>

emit(c) ==
  /\ call[c].pc \in {"starting", "ending"}
  /\ sent' = Append(sent, call[c].id)
  /\ call' = [call EXCEPT ![c] =
                [pc |-> IF call[c].pc = "starting" THEN "running" ELSE "over", id |-> 0]]
  /\ UNCHANGED <<next_id, dispatcher, next, skipped, delivery, stream>>

\* Position of the oldest event that the channel still holds.
Oldest == IF Len(sent) > Capacity THEN Len(sent) - Capacity + 1 ELSE 1

(***************************************************************************)
(* The dispatcher                                                          *)
(***************************************************************************)
\* subscribe: only what is sent from now on.
start_hook_dispatcher ==
  /\ dispatcher' = "on"
  /\ next' = Len(sent) + 1

\* Mutant: the loop over the sinks returns after the first of them.
dispatch_one(i) ==
  LET first == CHOOSE s \in Sink : TRUE
  IN  [delivery EXCEPT ![<<i, first>>] = [state |-> "sending", attempts |-> 1]]

\* HookSinks::dispatch: one detached task for each sink.
dispatch(i) ==
  [d \in DOMAIN delivery |->
     IF d[1] = i THEN [state |-> "sending", attempts |-> 1] ELSE delivery[d]]

\* An event, or Lagged, which is logged and otherwise ignored. A dispatcher that
\* was told to stop may still choose this branch of its select.
recv ==
  /\ dispatcher \in {"on", "told"}
  /\ next <= Len(sent)
  /\ IF next < Oldest
       THEN /\ skipped' = skipped \cup (next .. Oldest - 1)
            /\ next' = Oldest
            /\ UNCHANGED delivery
       ELSE /\ delivery' = dispatch(next)
            /\ next' = next + 1
            /\ UNCHANGED skipped
  /\ UNCHANGED <<next_id, sent, call, dispatcher, stream>>

\* Mutant: the loop goes on unless the sender of the shutdown signal is gone.
run_dispatcher_deaf == FALSE /\ UNCHANGED hookVars

\* The shutdown branch.
run_dispatcher ==
  /\ dispatcher = "told"
  /\ dispatcher' = "ended"
  /\ UNCHANGED <<next_id, sent, call, next, skipped, delivery, stream>>

(***************************************************************************)
(* Deliveries                                                              *)
(***************************************************************************)
Delivers(d, state, attempts) ==
  /\ delivery' = [delivery EXCEPT ![d] = [state |-> state, attempts |-> attempts]]
  /\ UNCHANGED <<next_id, sent, call, dispatcher, next, skipped, stream>>

\* Whatever the outcome, HOOK_DELIVERY_TIMEOUT included: a line in the log.
delivered(d) ==
  /\ delivery[d].state = "sending"
  /\ Delivers(d, "over", delivery[d].attempts)

\* The command cannot be spawned, exits, or is killed at its own timeout.
exec_ends(d) == d[2] \notin Webhook /\ delivered(d)

\* Success, an answer that is not worth another attempt, or the last attempt.
webhook_ends(d) == d[2] \in Webhook /\ delivered(d)

\* Network errors and 5xx answers of a webhook: the next attempt follows at once.
is_retryable(d) ==
  /\ delivery[d].state = "sending"
  /\ d[2] \in Webhook
  /\ delivery[d].attempts < Attempts(d[2])
  /\ Delivers(d, "sending", delivery[d].attempts + 1)

(***************************************************************************)
(* Event streams: /api/v1/events and EventsService.Watch                   *)
(***************************************************************************)
subscribe(w) == stream' = [stream EXCEPT ![w] = Len(sent) + 1]
close(w) == stream' = [stream EXCEPT ![w] = 0]

\* One turn of the loop of a stream: the next event, or Lagged and on.
watch(w) ==
  /\ stream[w] \in 1 .. Len(sent)
  /\ stream' = [stream EXCEPT ![w] = IF @ < Oldest THEN Oldest ELSE @ + 1]

\* The process ends: tasks are dropped wherever they are, and the bus with them.
drop_tasks ==
  /\ next_id' = 1
  /\ sent' = <<>>
  /\ call' = [c \in Call |-> [pc |-> "idle", id |-> 0]]
  /\ dispatcher' = "off"
  /\ next' = 1
  /\ skipped' = {}
  /\ delivery' = [d \in Position \X Sink |-> NoDelivery]
  /\ stream' = [w \in Watcher |-> 0]
=============================================================================
