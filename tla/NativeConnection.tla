-------------------------- MODULE NativeConnection --------------------------
(***************************************************************************)
(* QUIC connections of the sends of one daemon: the dial tasks that make   *)
(* them (hole_punch.rs), the control stream (client.rs, framing.rs) and    *)
(* the handler at the device that accepts one (handle_native_connection).  *)
(* A connection is named by its send and the address it was dialed at.     *)
(* The two sides take turns on the stream, so one message is under way.    *)
(***************************************************************************)
EXTENDS NativePeers, Sequences

CONSTANTS Send,          \* calls of send_files
          Nobody,        \* no device has the address
          None

VARIABLES at,            \* at[a]: the device reached at address a
          gen,           \* gen[d]: how often device d has made a new certificate
          accepts,       \* accepts[d]: policy of device d for this daemon, or Absent
          conn,          \* conn[s][a]: the connection dialed by s at a
          results        \* results[s]: what dial tasks sent to dial_candidates

connectionVars == <<at, gen, accepts, conn, results>>

Cert(d) == [dev |-> d, gen |-> gen[d]]

ControlMessage == {"Hello", "HelloAck", "RequestTransfer", "Accept", "Done", "DoneAck"}

Connection ==
  [dialing   : BOOLEAN,                      \* a dial task is at work
   link      : {"none", "up", "down"},
   msg       : ControlMessage \cup {None},   \* written and not yet read
   hand      : {"none", "hello", "request", "chunks", "finish", "ack", "closing", "ended"},
   cert      : Certificate \cup {None},      \* what the device showed
   published : BOOLEAN]                      \* history: the files are in the inbox

\* What a dial task reports.
DialResult == [address : Address, ok : BOOLEAN]

NoConnection ==
  [dialing |-> FALSE, link |-> "none", msg |-> None, hand |-> "none", cert |-> None,
   published |-> FALSE]

\* The certificate the peer shows is the expected one.
verify_any(a, cert) == at[a] # Nobody                    \* Mutant: no pin
verify_server_cert(a, cert) == at[a] # Nobody /\ Cert(at[a]) = cert

\* The handshake at address a is done: the device starts a handler.
Made(c, a) ==
  [c EXCEPT !.dialing = FALSE, !.link = "up", !.hand = "hello", !.cert = Cert(at[a])]

Dropped(c) == IF c.link = "up" THEN [c EXCEPT !.link = "down", !.msg = None] ELSE c

ConnectionInit ==
  /\ conn = [s \in Send |-> [a \in Address |-> NoConnection]]
  /\ results = [s \in Send |-> <<>>]

SetConn(s, a, c) == conn' = [conn EXCEPT ![s][a] = c]

(***************************************************************************)
(* Dialing. One task per candidate; it outlives dial_candidates, and a     *)
(* connection nobody waits for any more is dropped as soon as it is made.  *)
(***************************************************************************)
dial_candidates(s, cands) ==
  /\ conn' = [conn EXCEPT ![s] = [a \in Address |-> [NoConnection EXCEPT !.dialing = a \in cands]]]
  /\ results' = [results EXCEPT ![s] = <<>>]

dial_pair(s, a, cert, listening) ==
  /\ conn[s][a].dialing
  /\ \E ok \in {FALSE} \cup {verify_server_cert(a, cert)} :
       /\ SetConn(s, a, IF ~ok THEN [conn[s][a] EXCEPT !.dialing = FALSE]
                        ELSE IF listening THEN Made(conn[s][a], a)
                        ELSE Dropped(Made(conn[s][a], a)))
       /\ results' = IF listening THEN [results EXCEPT ![s] = Append(@, [address |-> a, ok |-> ok])]
                                  ELSE results
  /\ UNCHANGED <<at, gen, accepts>>

\* The network, the peer's process or the idle timeout ends a connection.
lose(s, a) ==
  /\ conn[s][a].link = "up"
  /\ SetConn(s, a, Dropped(conn[s][a]))
  /\ UNCHANGED <<at, gen, accepts, results>>

(***************************************************************************)
(* The handler of an accepted connection.                                  *)
(***************************************************************************)
Reads(c, hand, msg) == c.hand = hand /\ c.link = "up" /\ c.msg = msg

Ended(c) ==
  [NoConnection EXCEPT !.link = "down", !.hand = "ended", !.published = c.published,
                       !.cert = IF c.published THEN c.cert ELSE None]

\* Trust is read once, after the peer has proved that it holds its key.
ensure_native_peer_known(d) == accepts[d] # Absent           \* Mutant: any row will do
ensure_native_peer_trusted(d) == accepts[d] = "auto_accept"

read_hello(s, a) ==
  LET c == conn[s][a] IN
  /\ Reads(c, "hello", "Hello")
  /\ SetConn(s, a, IF ensure_native_peer_trusted(c.cert.dev)
                     THEN [c EXCEPT !.hand = "request", !.msg = "HelloAck"] ELSE Ended(c))

\* receive_native_transfer: the request is accepted, or refused for its size or
\* by the manifest store.
read_request(s, a) ==
  LET c == conn[s][a] IN
  /\ Reads(c, "request", "RequestTransfer")
  /\ \/ SetConn(s, a, [c EXCEPT !.hand = "chunks", !.msg = "Accept"])
     \/ SetConn(s, a, Ended(c))

\* All chunks and Done have arrived, or one of them was not good.
read_done_early(s, a) ==
  LET c == conn[s][a] IN
  /\ Reads(c, "chunks", "Done")
  /\ SetConn(s, a, [c EXCEPT !.hand = "ack", !.msg = None])   \* Mutant: Done before publishing
read_done(s, a) ==
  LET c == conn[s][a] IN
  /\ Reads(c, "chunks", "Done")
  /\ \/ SetConn(s, a, [c EXCEPT !.hand = "finish", !.msg = None])
     \/ SetConn(s, a, Ended(c))

\* Publishing does not look at the connection.
finish_transfer(s, a) ==
  LET c == conn[s][a] IN
  /\ c.hand = "finish"
  /\ \/ SetConn(s, a, [c EXCEPT !.hand = "ack", !.published = TRUE])
     \/ SetConn(s, a, Ended(c))

write_done(s, a) ==
  LET c == conn[s][a] IN
  /\ c.hand = "ack" /\ c.link = "up"
  /\ SetConn(s, a, [c EXCEPT !.hand = "closing", !.msg = "DoneAck"])

\* The sender closed, or 250 ms have passed, or a read or write fails.
handler_ends(s, a) ==
  LET c == conn[s][a] IN
  /\ \/ c.hand = "closing"
     \/ c.hand \in {"hello", "request", "chunks", "ack"} /\ c.link = "down"
  /\ SetConn(s, a, Ended(c))

handle_native_connection(s, a) ==
  /\ \/ read_hello(s, a) \/ read_request(s, a) \/ read_done(s, a)
     \/ finish_transfer(s, a) \/ write_done(s, a) \/ handler_ends(s, a)
  /\ UNCHANGED <<at, gen, accepts, results>>

=============================================================================
