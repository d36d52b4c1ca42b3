----------------------------- MODULE SendFiles -----------------------------
(***************************************************************************)
(* The life of a send (daemon/api/transfers.rs): from the request to the   *)
(* events TransferStarted and TransferCompleted or TransferFailed, over    *)
(* discovery, trust, dialing, the native control stream or the LocalSend   *)
(* upload. Around it devices take over addresses, replace certificates and *)
(* change their minds, and connections break at any point.                 *)
(***************************************************************************)
EXTENDS NativeConnection

CONSTANTS Target,        \* requests: [kind, ref], where ref names a fingerprint or
                         \* an address (id) or an alias
          Plain,         \* devices whose LocalSend app speaks http
          Policy,        \* policies that operators set
          MaxChanges,    \* bound on changes of the world
          MayLeave       \* callers may give up

Kind == {"localsend_url", "native_url", "native_peer", "localsend_peer", "wan_peer"}

ASSUME SendAssumption ==
  /\ Policy \subseteq PeerPolicy
  /\ \A t \in Target : t.kind \in Kind /\ (t.kind = "wan_peer" => t.ref.id \in Device)
  /\ {None, NoCert} \cap Certificate = {} /\ Absent \notin Peer /\ None \notin ControlMessage
  /\ MaxChanges \in Nat
  /\ MayLeave \in BOOLEAN

VARIABLES heard,         \* advertisements that a browse may still find
          peers,         \* table peers of the sending daemon
          lan,           \* table localsend_lan_peers of the sending daemon
          send,          \* send[s]: the call
          events,        \* events[s]: what the daemon emitted about s
          changes,       \* of the world, so far
          pinned,        \* history: certificates pinned while s was running
          vouched        \* history: connections whose device has accepted this
                         \* daemon at some moment since they were made

worldVars == <<heard, peers, lan, changes>>
vars == <<connectionVars, worldVars, send, events, pinned, vouched>>

\* The variants that are emitted.
DaemonEvent == {"TransferStarted", "TransferCompleted", "TransferFailed"}

Step == {"new", "discover", "trust", "connect", "lookup", "dial", "hello", "request", "done",
         "client", "scan", "prepare", "upload", "ended", "gone"}

NoSend == [pc |-> "new", kind |-> None, ref |-> None, cert |-> None, address |-> None,
           peer |-> None]

\* Automatic trust with a pinned certificate, as a send would find it.
Pins == {native_wan_certificate_fingerprint(peers[d]) : d \in Device} \ {NoCert}

Adverts == {service_info_for_peer(at[a], a, Cert(at[a])) :
              a \in {x \in Address : at[x] # Nobody}}

Init ==
  /\ at \in [Address -> Device]
  /\ gen = [d \in Device |-> 0]
  /\ accepts \in [Device -> {Absent, "auto_accept"}]
  /\ ConnectionInit
  /\ heard = Adverts
  /\ peers \in {p \in [Device -> Peer \cup {Absent}] :
                  \A d \in Device : p[d] \in {Absent, [policy |-> "auto_accept", cert |-> Cert(d)]}}
  /\ lan = [c \in Certificate |-> Absent]
  /\ send = [s \in Send |-> NoSend]
  /\ events = [s \in Send |-> <<>>]
  /\ changes = 0
  /\ pinned = [s \in Send |-> {}]
  /\ vouched = {}

Go(s, pc) == send' = [send EXCEPT ![s].pc = pc]

\* The call goes on and knows more.
Learn(s, pc, cert, address, peer) ==
  send' = [send EXCEPT ![s] = [pc |-> pc, kind |-> send[s].kind, ref |-> send[s].ref,
                               cert |-> cert, address |-> address, peer |-> peer]]

Terminal(s, event) ==
  /\ send' = [send EXCEPT ![s].pc = "ended"]
  /\ events' = [events EXCEPT ![s] = Append(@, event)]

Fail(s) == Terminal(s, "TransferFailed")

NoConnectionChange == UNCHANGED connectionVars

(***************************************************************************)
(* send_files                                                              *)
(***************************************************************************)
\* Bad paths or no target: refused before anything is emitted. A native URL
\* fails at once.
send_files(s) ==
  /\ send[s].pc = "new"
  /\ \/ Go(s, "ended") /\ UNCHANGED events
     \/ \E t \in Target :
          LET first == CASE t.kind = "localsend_url"  -> "client"
                         [] t.kind = "native_url"     -> "ended"
                         [] t.kind = "native_peer"    -> "discover"
                         [] t.kind = "localsend_peer" -> "scan"
                         [] t.kind = "wan_peer"       -> "trust"
          IN /\ send' = [send EXCEPT ![s] =
                  [pc |-> first, kind |-> t.kind, ref |-> t.ref, cert |-> None, address |-> None,
                   peer |-> IF t.kind = "wan_peer" THEN t.ref.id ELSE None]]
             /\ events' = [events EXCEPT ![s] =
                  IF first = "ended" THEN <<"TransferStarted", "TransferFailed">>
                                     ELSE <<"TransferStarted">>]
  /\ NoConnectionChange /\ UNCHANGED lan

\* send_files_to_native_lan_peer: browse, then the one peer that is meant.
discover_peer(s) ==
  /\ send[s].pc = "discover"
  /\ \/ Fail(s)
     \/ \E found \in discover(heard) : \E a \in resolve_peer_ref(found, send[s].ref) :
          /\ Learn(s, "trust", a.cert, a.address, a.peer)
          /\ UNCHANGED events
  /\ NoConnectionChange /\ UNCHANGED lan

\* The row is read once. On the LAN the advertised certificate has to be the
\* pinned one.
read_trust(s) ==
  LET cert == native_wan_certificate_fingerprint(peers[send[s].peer]) IN
  /\ send[s].pc = "trust"
  /\ IF cert = NoCert \/ (send[s].kind = "native_peer" /\ send[s].cert # cert)
       THEN Fail(s)
       ELSE /\ Learn(s, IF send[s].kind = "wan_peer" THEN "lookup" ELSE "connect",
                     cert, send[s].address, send[s].peer)
            /\ UNCHANGED events
  /\ NoConnectionChange /\ UNCHANGED lan

\* send_files_to_wan_peer: an error, no registration, or candidates to dial.
lookup(s) ==
  /\ send[s].pc = "lookup"
  /\ \/ Fail(s) /\ UNCHANGED <<conn, results>>
     \/ \E cands \in lookup_peer_candidates(heard, send[s].peer) :
          IF cands = {} THEN Fail(s) /\ UNCHANGED <<conn, results>>
          ELSE dial_candidates(s, cands) /\ Go(s, "dial") /\ UNCHANGED events
  /\ UNCHANGED <<at, gen, accepts, lan>>

\* dial_candidates_with_timing: the first connection wins; the others are
\* dropped with the channel. All attempts have to fail for NoDirectPath.
Uses(c) == [c EXCEPT !.msg = "Hello"]

rx_recv_waits(s) ==
  LET r == Head(results[s]) IN
  /\ send[s].pc = "dial" /\ results[s] # <<>>
  /\ IF r.ok
       THEN /\ conn' = [conn EXCEPT ![s] = [a \in Address |->
                          IF a = r.address THEN Uses(@[a])
                          ELSE IF @[a].dialing THEN @[a] ELSE Dropped(@[a])]]
            /\ Learn(s, "hello", send[s].cert, r.address, send[s].peer)
            /\ results' = [results EXCEPT ![s] = <<>>]
            /\ UNCHANGED events
       ELSE /\ results' = [results EXCEPT ![s] = Tail(@)]
            /\ UNCHANGED <<conn, send, events>>         \* Mutant: the last tx is not dropped
  /\ UNCHANGED <<at, gen, accepts, lan>>

rx_recv(s) ==
  LET r == Head(results[s]) IN
  /\ send[s].pc = "dial" /\ results[s] # <<>>
  /\ IF r.ok
       THEN /\ conn' = [conn EXCEPT ![s] = [a \in Address |->
                          IF a = r.address THEN Uses(@[a])
                          ELSE IF @[a].dialing THEN @[a] ELSE Dropped(@[a])]]
            /\ Learn(s, "hello", send[s].cert, r.address, send[s].peer)
            /\ results' = [results EXCEPT ![s] = <<>>]
            /\ UNCHANGED events
       ELSE /\ results' = [results EXCEPT ![s] = Tail(@)]
            /\ IF Len(results[s]) = 1 /\ \A a \in Address : ~conn[s][a].dialing
                 THEN Fail(s) ELSE UNCHANGED <<send, events>>
            /\ UNCHANGED conn
  /\ UNCHANGED <<at, gen, accepts, lan>>

\* send_native_files: one address, no second attempt.
connect(s) ==
  LET a == send[s].address IN
  /\ send[s].pc = "connect"
  /\ \/ Fail(s) /\ UNCHANGED conn
     \/ /\ verify_server_cert(a, send[s].cert)
        /\ SetConn(s, a, Uses(Made(conn[s][a], a)))
        /\ Go(s, "hello") /\ UNCHANGED events
  /\ UNCHANGED <<at, gen, accepts, results, lan>>

(***************************************************************************)
(* send_prepared_native_files: the sender's side of the control stream.    *)
(***************************************************************************)
Answer(s, pc, msg, reply, next) ==
  LET c == conn[s][send[s].address] IN
  /\ send[s].pc = pc /\ c.link = "up" /\ c.msg = msg
  /\ SetConn(s, send[s].address, [c EXCEPT !.msg = reply])
  /\ Go(s, next)
  /\ UNCHANGED events

read_hello_ack(s) == Answer(s, "hello", "HelloAck", "RequestTransfer", "request")

read_accept(s) == Answer(s, "request", "Accept", "Done", "done")

read_done_ack(s) ==
  LET c == conn[s][send[s].address] IN
  /\ send[s].pc = "done" /\ c.link = "up" /\ c.msg = "DoneAck"
  /\ SetConn(s, send[s].address, Dropped(c))
  /\ Terminal(s, "TransferCompleted")

\* The stream breaks, the files cannot be hashed for the request (on a dialed
\* connection that is done before Hello), or one cannot be read to the end.
client_error_stays(s) ==
  LET c == conn[s][send[s].address] IN
  /\ send[s].pc \in {"hello", "request", "done"} /\ c.link = "down"
  /\ events' = [events EXCEPT ![s] = Append(@, "TransferFailed")]
  /\ UNCHANGED <<send, conn>>                           \* Mutant: the call goes on
client_error(s) ==
  LET c == conn[s][send[s].address] IN
  /\ send[s].pc \in {"hello", "request", "done"}
  /\ \/ c.link = "down"
     \/ c.msg = "Hello" /\ send[s].kind = "wan_peer"
     \/ c.msg = "Accept"
  /\ SetConn(s, send[s].address, Dropped(c))
  /\ Fail(s)

send_prepared_native_files(s) ==
  /\ read_hello_ack(s) \/ read_accept(s) \/ read_done_ack(s) \/ client_error(s)
  /\ UNCHANGED <<at, gen, accepts, results, lan>>

(***************************************************************************)
(* LocalSend: the upload client, pinned for a peer of the LAN table.       *)
(***************************************************************************)
\* A client that cannot be made ends the call without a second event.
localsend_client(s) ==
  /\ send[s].pc = "client"
  /\ \/ Go(s, "gone")
     \/ Learn(s, "prepare", send[s].cert, send[s].ref.id, send[s].peer)
  /\ NoConnectionChange /\ UNCHANGED <<events, lan>>

resolve_lan(s) ==
  /\ send[s].pc = "scan"
  /\ \E answers \in discover(Adverts) :
       /\ lan' = scan_and_cache(lan, answers)
       /\ \/ Fail(s)
          \/ \E c \in resolve_localsend_lan_peer(lan', send[s].ref) :
               /\ Learn(s, "prepare", c, lan'[c], send[s].peer)
               /\ UNCHANGED events
  /\ NoConnectionChange

\* Https to a peer of the table goes through only to the pinned certificate.
Answers(s) ==
  LET a == send[s].address IN
  \/ send[s].cert = None /\ at[a] # Nobody
  \/ send[s].cert # None /\ send[s].cert.dev \in Plain /\ at[a] # Nobody
  \/ send[s].cert # None /\ verify_server_cert(a, send[s].cert)

\* prepare-upload, then the uploads: a session is known only to the device
\* that made it.
localsend_send_files_to_url(s) ==
  /\ send[s].pc \in {"prepare", "upload"}
  /\ \/ Fail(s)
     \/ /\ send[s].pc = "prepare" /\ Answers(s)
        /\ Learn(s, "upload", send[s].cert, send[s].address, at[send[s].address])
        /\ UNCHANGED events
     \/ /\ send[s].pc = "upload" /\ Answers(s) /\ at[send[s].address] = send[s].peer
        /\ Terminal(s, "TransferCompleted")
  /\ NoConnectionChange /\ UNCHANGED lan

\* The caller goes away: the call is dropped where it waits, with the channel
\* of the dial tasks and the connection. The dial tasks go on.
caller_leaves(s) ==
  /\ MayLeave
  /\ send[s].pc \notin {"new", "ended", "gone"}
  /\ Go(s, "gone")
  /\ conn' = [conn EXCEPT ![s] = [a \in Address |->
                IF @[a].dialing THEN @[a] ELSE Dropped(@[a])]]
  /\ results' = [results EXCEPT ![s] = <<>>]
  /\ UNCHANGED <<at, gen, accepts, events, lan>>

(***************************************************************************)
(* The world.                                                              *)
(***************************************************************************)
Running(s) == send[s].pc \notin {"new", "ended", "gone"}

move(a) ==
  /\ \E d \in (Device \cup {Nobody}) \ {at[a]} : at' = [at EXCEPT ![a] = d]
  /\ UNCHANGED <<gen, accepts, peers, lan, conn, results>>

\* The certificate files of a device are lost, and load_or_generate makes new
\* ones when it starts again.
rekey(d) ==
  /\ gen[d] < MaxRekeys
  /\ gen' = [gen EXCEPT ![d] = @ + 1]
  /\ UNCHANGED <<at, accepts, peers, lan, conn, results>>

\* The operator of this daemon trusts a peer that a browse has found.
trust_native_lan ==
  /\ \E a \in heard, policy \in Policy : peers' = trust_discovered_peer(peers, a, policy)
  /\ peers' # peers
  /\ UNCHANGED <<at, gen, accepts, lan, conn, results>>

\* The operator of another device does the same with this daemon.
trusted_by(d) ==
  /\ \E policy \in Policy \ {accepts[d]} : accepts' = [accepts EXCEPT ![d] = policy]
  /\ UNCHANGED <<at, gen, peers, lan, conn, results>>

\* A row of the LAN table, for an app that has told its fingerprint.
Recorded(x) ==
  /\ lan' = record_localsend_lan_peer(lan, x.cert, x.address)
  /\ lan' # lan
  /\ UNCHANGED <<at, gen, accepts, peers, conn, results>>

\* The app at the address registers with this daemon.
register == \E x \in Adverts : Recorded(x)

\* What the announcer may have received and passed on: announcements of any age,
\* of other devices than this one.
announced == heard

\* Another task records them later, when the app may have moved.
record_localsend_lan_peers == \E x \in announced : Recorded(x)

World ==
  /\ changes < MaxChanges
  /\ changes' = changes + 1
  /\ \/ \E a \in Address : move(a)
     \/ \E d \in Device : rekey(d) \/ trusted_by(d)
     \/ trust_native_lan
     \/ register
     \/ record_localsend_lan_peers

CallStep(s) ==
  \/ send_files(s) \/ discover_peer(s) \/ read_trust(s) \/ lookup(s) \/ rx_recv(s) \/ connect(s)
  \/ send_prepared_native_files(s)
  \/ localsend_client(s) \/ resolve_lan(s) \/ localsend_send_files_to_url(s)

ConnectionStep(s, a) ==
  \/ dial_pair(s, a, send[s].cert, send[s].pc = "dial")
  \/ handle_native_connection(s, a)
  \/ lose(s, a)

\* What the network remembers, and the history variables.
Observe ==
  /\ heard' = heard \cup Adverts'
  /\ pinned' = [s \in Send |-> IF Running(s)' THEN pinned[s] \cup Pins' ELSE pinned[s]]
  /\ vouched' = {x \in Send \X Address :
                   LET c == conn'[x[1]][x[2]] IN
                   \/ x \in vouched /\ (c.hand # "ended" \/ c.published)
                   \/ c.hand = "hello" /\ accepts'[c.cert.dev] = "auto_accept"}

Next ==
  /\ \/ \E s \in Send : CallStep(s) /\ UNCHANGED <<peers, changes>>
     \/ \E s \in Send : caller_leaves(s) /\ UNCHANGED <<peers, changes>>
     \/ \E s \in Send, a \in Address :
          ConnectionStep(s, a) /\ UNCHANGED <<lan, peers, changes, send, events>>
     \/ World /\ UNCHANGED <<send, events>>
  /\ Observe

Spec == Init /\ [][Next]_vars

\* Tokio polls the call, the dial tasks (each has a timeout) and the handlers of
\* the devices. LocalSend requests have no timeout, so nothing is assumed of
\* their answers.
NativeCall(s) ==
  \/ discover_peer(s) \/ read_trust(s) \/ lookup(s) \/ rx_recv(s) \/ connect(s)
  \/ send_prepared_native_files(s)

Fairness ==
  \A s \in Send :
    /\ WF_vars(NativeCall(s) /\ UNCHANGED <<peers, changes>> /\ Observe)
    /\ \A a \in Address :
         /\ WF_vars(/\ dial_pair(s, a, send[s].cert, send[s].pc = "dial")
                    /\ UNCHANGED <<lan, peers, changes, send, events>> /\ Observe)
         /\ WF_vars(/\ handle_native_connection(s, a)
                    /\ UNCHANGED <<lan, peers, changes, send, events>> /\ Observe)

FairSpec == Spec /\ Fairness

(***************************************************************************)
(* Properties.                                                             *)
(***************************************************************************)
\* One terminal event at most follows TransferStarted.
TypeOK ==
  /\ at \in [Address -> Device \cup {Nobody}]
  /\ accepts \in [Device -> PeerPolicy \cup {Absent}]
  /\ conn \in [Send -> [Address -> Connection]]
  /\ \A s \in Send :
       /\ Len(results[s]) <= Cardinality(Address)
       /\ {results[s][i] : i \in DOMAIN results[s]} \subseteq DialResult
  /\ heard \subseteq Advert
  /\ peers \in [Device -> Peer \cup {Absent}]
  /\ lan \in LanTable
  /\ \A s \in Send : send[s].pc \in Step
  /\ events \in [Send -> {<<>>, <<"TransferStarted">>} \cup
                    {<<"TransferStarted", e>> : e \in DaemonEvent \ {"TransferStarted"}}]

Native == {"native_peer", "wan_peer"}

\* Files reach only the peer that the send resolved, on a device that shows a
\* certificate which the operator had pinned for it while the send ran, although
\* advertisements, candidates and LAN rows outlive moves and new certificates and
\* although another device may have taken over the address (read_trust, the
\* verifier of every connection, and the pinned upload client; a LocalSend app
\* that speaks plain http is not pinned).
PinnedDelivery ==
  \A s \in Send :
    /\ \A a \in Address :
         LET c == conn[s][a] IN
         c.hand \in {"chunks", "finish", "ack", "closing"} \/ c.published =>
           c.cert.dev = send[s].peer /\ c.cert \in pinned[s]
    /\ send[s].kind = "localsend_peer" /\ send[s].peer # None =>
         send[s].cert.dev \in Plain \cup {send[s].peer}

\* A device publishes only what came over a connection during which its operator
\* accepted this daemon: ensure_native_peer_trusted reads the policy once, so a
\* withdrawal reaches every connection that has not said Hello.
ReceiptWasTrusted ==
  \A s \in Send, a \in Address :
    conn[s][a].hand \in {"request", "chunks", "finish", "ack", "closing"} \/ conn[s][a].published
      => <<s, a>> \in vouched

\* What a send reports is true: parallel dials never publish the files twice,
\* TransferCompleted of a native send means that the files were published, and a
\* call that returned after TransferStarted has reported how it ended.
ReportIsTrue ==
  \A s \in Send :
    LET published == {a \in Address : conn[s][a].published} IN
    /\ Cardinality(published) <= 1
    /\ send[s].kind \in Native /\ "TransferCompleted" \in {events[s][i] : i \in DOMAIN events[s]}
         => published # {}
    /\ send[s].pc = "ended" => Len(events[s]) # 1

\* A native send comes to an end, and then no connection that its dial tasks made
\* stays open and no task is at work, also when the caller has left.
NativeSendEnds ==
  \A s \in Send :
    send[s].kind \in Native ~>
      /\ send[s].pc \in {"ended", "gone"}
      /\ \A a \in Address : conn[s][a].link # "up" /\ ~conn[s][a].dialing
=============================================================================
