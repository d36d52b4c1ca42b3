-------------------------- MODULE SendFilesProofs ---------------------------
(***************************************************************************)
(* Proofs about SendFiles, for every set of devices, addresses, targets    *)
(* and concurrent sends: files reach only pinned peers, devices only take  *)
(* what they have accepted, and what a send reports is true.               *)
(*                                                                         *)
(* A step is described first by what it does to one connection (Evolves)   *)
(* and to one call (Proceeds); the invariants follow from that.            *)
(***************************************************************************)
EXTENDS SendFiles, FiniteSetTheorems, TLAPS

\* A handler that has something from the sender.
Busy == {"hello", "request", "chunks", "finish", "ack", "closing"}

Bound(c) == c.hand \in Busy \/ c.published

\* Every call is a record of these fields.
Calls == send = [s \in Send |->
  [pc |-> send[s].pc, kind |-> send[s].kind, ref |-> send[s].ref, cert |-> send[s].cert,
   address |-> send[s].address, peer |-> send[s].peer]]

Types ==
  /\ at \in [Address -> Device \cup {Nobody}]
  /\ gen \in [Device -> 0..MaxRekeys]
  /\ conn \in [Send -> [Address -> Connection]]
  /\ peers \in [Device -> Peer \cup {Absent}]
  /\ heard \subseteq Advert
  /\ pinned \in [Send -> SUBSET Certificate]
  /\ Calls

\* What is heard of a device and pinned for it is a certificate of its own.
OwnCertificates ==
  /\ \A h \in heard : h.cert.dev = h.peer
  /\ \A d \in Device : peers[d] # Absent /\ peers[d].cert # NoCert => peers[d].cert.dev = d

\* The call has the certificate pinned for the peer it resolved.
Secured(s) ==
  /\ send[s].kind \in Native
  /\ send[s].cert \in pinned[s] /\ send[s].cert.dev = send[s].peer

\* Where the call may be once it dials, and before.
Dialled == {"dial", "hello", "request", "done", "ended", "gone"}
Talking == {"connect", "lookup", "dial", "hello", "request", "done"}

\* What a call knows at each place.
CallInv(s) ==
  /\ send[s].pc \in Talking => Secured(s)
  /\ send[s].pc \in {"discover", "trust"} => send[s].kind \in Native
  /\ send[s].pc = "trust" => send[s].peer \in Device
  /\ send[s].pc = "client" => send[s].kind = "localsend_url"
  /\ send[s].pc = "scan" => send[s].kind = "localsend_peer" /\ send[s].peer = None
  /\ send[s].pc \in {"prepare", "upload"} =>
       /\ send[s].kind \in {"localsend_url", "localsend_peer"}
       /\ send[s].kind = "localsend_peer" => send[s].cert \in Certificate
  /\ send[s].kind = "localsend_peer" /\ send[s].peer # None =>
       send[s].cert.dev \in Plain \cup {send[s].peer}

\* Dial tasks and connections belong to calls that are secured, and what was
\* connected to has shown the certificate of the call.
ConnInv(s, a) ==
  /\ conn[s][a].dialing \/ Bound(conn[s][a]) => Secured(s) /\ send[s].pc \in Dialled
  /\ Bound(conn[s][a]) => conn[s][a].cert = send[s].cert

\* A handler past Hello has seen that it may, and one before Hello would see it.
VouchInv(s, a) ==
  /\ conn[s][a].hand \in Busy \ {"hello"} \/ conn[s][a].published => <<s, a>> \in vouched
  /\ conn[s][a].hand = "hello" /\ accepts[conn[s][a].cert.dev] = "auto_accept" =>
       <<s, a>> \in vouched

SendInv ==
  /\ Types /\ OwnCertificates
  /\ \A s \in Send : CallInv(s)
  /\ \A s \in Send, a \in Address : ConnInv(s, a) /\ VouchInv(s, a)

-----------------------------------------------------------------------------
\* What a step may do to a connection: nothing that matters, a new dial task,
\* a connection made, the handler one step on, or its end.
Same(c, d) ==
  /\ d.hand = c.hand /\ d.cert = c.cert /\ d.published = c.published
  /\ d.dialing => c.dialing

Dials(s, d) ==
  /\ d.hand = "none" /\ ~d.published
  /\ send[s].pc = "lookup" /\ send'[s].pc = "dial"

Makes(s, c, d) ==
  /\ d.hand = "hello" /\ d.cert = send[s].cert /\ d.published = c.published /\ ~d.dialing
  /\ c.dialing \/ (send[s].pc = "connect" /\ send'[s].pc = "hello")

Serves(c, d) ==
  /\ c.hand \in Busy /\ d.hand \in Busy \ {"hello"}
  /\ d.cert = c.cert /\ (d.dialing => c.dialing) /\ (c.published => d.published)
  /\ c.hand = "hello" => accepts[c.cert.dev] = "auto_accept"

Ends(c, d) ==
  /\ d.hand = "ended" /\ d.published = c.published /\ ~d.dialing
  /\ c.published => d.cert = c.cert

Evolves(s, a) ==
  LET c == conn[s][a]
      d == conn'[s][a]
  IN  d \in Connection /\ (Same(c, d) \/ Dials(s, d) \/ Makes(s, c, d) \/ Serves(c, d) \/ Ends(c, d))

\* What a step may do to a call.
Keeps(s) == send'[s].kind = send[s].kind /\ send'[s].cert = send[s].cert
            /\ send'[s].peer = send[s].peer

Proceeds(s) ==
  \/ Keeps(s) /\ send'[s].pc = send[s].pc
  \/ Keeps(s) /\ send'[s].pc \in {"ended", "gone"}
  \/ Keeps(s) /\ send[s].pc \in Talking /\ send'[s].pc \in {"dial", "hello", "request", "done"}
  \/ send[s].pc = "new" /\ send'[s].kind = "localsend_url" /\ send'[s].pc = "client"
  \/ send[s].pc = "new" /\ send'[s].kind = "native_url" /\ send'[s].pc = "ended"
  \/ send[s].pc = "new" /\ send'[s].kind = "native_peer" /\ send'[s].pc = "discover"
  \/ /\ send[s].pc = "new" /\ send'[s].kind = "localsend_peer" /\ send'[s].pc = "scan"
     /\ send'[s].peer = None
  \/ /\ send[s].pc = "new" /\ send'[s].kind = "wan_peer" /\ send'[s].pc = "trust"
     /\ send'[s].peer \in Device
  \/ /\ send[s].pc = "discover" /\ send'[s].pc = "trust" /\ send'[s].kind = send[s].kind
     /\ send'[s].peer \in Device
  \/ /\ send[s].pc = "trust" /\ send'[s].pc \in {"connect", "lookup"}
     /\ send'[s].kind = send[s].kind /\ send'[s].peer = send[s].peer
     /\ send'[s].cert \in Pins' /\ send'[s].cert.dev = send[s].peer
  \/ Keeps(s) /\ send[s].pc = "client" /\ send'[s].pc = "prepare"
  \/ /\ send[s].pc = "scan" /\ send'[s].pc = "prepare" /\ send'[s].kind = send[s].kind
     /\ send'[s].peer = send[s].peer /\ send'[s].cert \in Certificate
  \/ /\ send[s].pc = "prepare" /\ send'[s].pc = "upload"
     /\ send'[s].kind = send[s].kind /\ send'[s].cert = send[s].cert
     /\ send[s].cert \in Certificate => send[s].cert.dev \in Plain \cup {send'[s].peer}

-----------------------------------------------------------------------------
\* Pins are only added while a call runs.
LEMMA PinnedGrows ==
  ASSUME Types, Observe, NEW s \in Send
  PROVE  /\ pinned[s] \subseteq pinned'[s]
         /\ send'[s].pc \notin {"new", "ended", "gone"} => Pins' \subseteq pinned'[s]
BY Zenon DEF Observe, Running

\* A call that is secured stays so while it keeps what it knows.
LEMMA SecuredKept ==
  ASSUME Types, Observe, NEW s \in Send, Secured(s), Keeps(s)
  PROVE  Secured(s)'
BY PinnedGrows, Zenon DEF Secured, Keeps

\* What is known of a call stays true when the call proceeds.
LEMMA CallKept ==
  ASSUME Types, Observe, NEW s \in Send, CallInv(s), Proceeds(s)
  PROVE  CallInv(s)'
<1>1. CASE Keeps(s) /\ send'[s].pc = send[s].pc
  BY <1>1, SecuredKept, Zenon DEF CallInv, Keeps
<1>2. CASE Keeps(s) /\ send'[s].pc \in {"ended", "gone"}
  BY <1>2, Zenon DEF CallInv, Keeps, Talking
<1>3. CASE /\ Keeps(s) /\ send[s].pc \in Talking
           /\ send'[s].pc \in {"dial", "hello", "request", "done"}
  BY <1>3, SecuredKept, Zenon DEF CallInv, Keeps
<1>4. CASE send[s].pc = "new"
  BY <1>1, <1>2, <1>3, <1>4, Zenon DEF CallInv, Proceeds, Talking, Native
<1>5. CASE /\ send[s].pc = "discover" /\ send'[s].pc = "trust"
           /\ send'[s].kind = send[s].kind /\ send'[s].peer \in Device
  BY <1>5, Zenon DEF CallInv, Talking, Native
<1>6. CASE /\ send[s].pc = "trust" /\ send'[s].pc \in {"connect", "lookup"}
           /\ send'[s].kind = send[s].kind /\ send'[s].peer = send[s].peer
           /\ send'[s].cert \in Pins' /\ send'[s].cert.dev = send[s].peer
  <2>1. Secured(s)'
    BY <1>6, PinnedGrows, Zenon DEF CallInv, Secured
  <2> QED BY <1>6, <2>1, Zenon DEF CallInv, Native
<1>7. CASE Keeps(s) /\ send[s].pc = "client" /\ send'[s].pc = "prepare"
  BY <1>7, Zenon DEF CallInv, Keeps, Talking
<1>8. CASE /\ send[s].pc = "scan" /\ send'[s].pc = "prepare"
           /\ send'[s].kind = send[s].kind
           /\ send'[s].peer = send[s].peer /\ send'[s].cert \in Certificate
  BY <1>8, Zenon DEF CallInv, Talking
<1>9. CASE /\ send[s].pc = "prepare" /\ send'[s].pc = "upload"
           /\ send'[s].kind = send[s].kind /\ send'[s].cert = send[s].cert
           /\ send[s].cert \in Certificate => send[s].cert.dev \in Plain \cup {send'[s].peer}
  BY <1>9, Zenon DEF CallInv, Talking
<1> QED BY <1>1, <1>2, <1>3, <1>4, <1>5, <1>6, <1>7, <1>8, <1>9, Zenon DEF Proceeds

\* Once a call has dialled it neither changes what it knows nor starts again.
LEMMA DialledKept ==
  ASSUME NEW s \in Send, Proceeds(s), send[s].pc \in Dialled
  PROVE  Keeps(s) /\ send'[s].pc \in Dialled
BY Zenon DEF Proceeds, Dialled, Talking

\* What is known of a connection stays true when it evolves.
LEMMA ConnKept ==
  ASSUME Types, Observe, NEW s \in Send, NEW a \in Address,
         CallInv(s), ConnInv(s, a), Proceeds(s), Evolves(s, a)
  PROVE  ConnInv(s, a)'
<1> DEFINE c == conn[s][a]
           d == conn'[s][a]
<1>1. CallInv(s)'
  BY CallKept, Zenon
<1>2. c.dialing \/ Bound(c) => Secured(s)' /\ send'[s].pc \in Dialled /\ Keeps(s)
  BY DialledKept, SecuredKept, Zenon DEF ConnInv
<1>3. Bound(c) => c.cert = send[s].cert
  BY Zenon DEF ConnInv
<1>4. CASE Same(c, d)
  BY <1>2, <1>3, <1>4, Zenon DEF Same, Bound, ConnInv, Keeps
<1>5. CASE Dials(s, d)
  <2>1. Secured(s)' /\ send'[s].pc \in Dialled
    BY <1>1, <1>5, Zenon DEF CallInv, Dials, Talking, Dialled
  <2>2. ~Bound(d)
    BY <1>5, Zenon DEF Bound, Dials, Busy
  <2> QED BY <2>1, <2>2, Zenon DEF ConnInv
<1>6. CASE Makes(s, c, d)
  <2>1. Secured(s)' /\ send'[s].pc \in Dialled /\ Keeps(s)
    <3>1. CASE c.dialing
      BY <1>2, <3>1, Zenon
    <3>2. CASE send[s].pc = "connect" /\ send'[s].pc = "hello"
      BY <1>1, <3>2, Zenon DEF CallInv, Talking, Dialled, Proceeds
    <3> QED BY <1>6, <3>1, <3>2, Zenon DEF Makes
  <2> QED BY <1>6, <2>1, Zenon DEF ConnInv, Makes, Keeps
<1>7. CASE Serves(c, d)
  <2>1. Bound(c)
    BY <1>7, Zenon DEF Serves, Bound
  <2> QED BY <1>2, <1>3, <1>7, <2>1, Zenon DEF ConnInv, Serves, Keeps
<1>8. CASE Ends(c, d)
  <2>1. Bound(d) => Bound(c) /\ d.cert = c.cert
    BY <1>8, Zenon DEF Ends, Bound, Busy
  <2> QED BY <1>2, <1>3, <1>8, <2>1, Zenon DEF ConnInv, Ends, Keeps
<1> QED BY <1>4, <1>5, <1>6, <1>7, <1>8, Zenon DEF Evolves

\* A connection past Hello stays vouched for.
LEMMA VouchKept ==
  ASSUME Observe, NEW s \in Send, NEW a \in Address, VouchInv(s, a), Evolves(s, a)
  PROVE  VouchInv(s, a)'
<1> DEFINE c == conn[s][a]
           d == conn'[s][a]
<1>1. <<s, a>> \in vouched' <=>
        \/ <<s, a>> \in vouched /\ (d.hand # "ended" \/ d.published)
        \/ d.hand = "hello" /\ accepts'[d.cert.dev] = "auto_accept"
  BY Zenon DEF Observe
<1>2. /\ c.hand \in Busy \ {"hello"} \/ c.published => <<s, a>> \in vouched
      /\ c.hand = "hello" /\ accepts[c.cert.dev] = "auto_accept" => <<s, a>> \in vouched
  BY Zenon DEF VouchInv
<1>3. d.hand \in Busy \ {"hello"} \/ d.published => <<s, a>> \in vouched'
  <2>1. CASE Same(c, d)
    BY <1>1, <1>2, <2>1, Zenon DEF Same, Busy
  <2>2. CASE Dials(s, d)
    BY <2>2, Zenon DEF Dials, Busy
  <2>3. CASE Makes(s, c, d)
    BY <1>1, <1>2, <2>3, Zenon DEF Makes
  <2>4. CASE Serves(c, d)
    BY <1>1, <1>2, <2>4, Zenon DEF Serves, Busy
  <2>5. CASE Ends(c, d)
    BY <1>1, <1>2, <2>5, Zenon DEF Ends, Busy
  <2> QED BY <2>1, <2>2, <2>3, <2>4, <2>5, Zenon DEF Evolves
<1> QED BY <1>1, <1>3, Zenon DEF VouchInv

-----------------------------------------------------------------------------
\* What an assignment to the record of a call leaves.
LEMMA CallSet ==
  ASSUME Calls, NEW s \in Send, NEW x,
         x = [pc |-> x.pc, kind |-> x.kind, ref |-> x.ref, cert |-> x.cert,
              address |-> x.address, peer |-> x.peer],
         send' = [send EXCEPT ![s] = x]
  PROVE  Calls' /\ send'[s] = x /\ \A t \in Send : t # s => send'[t] = send[t]
<1>1. send' = [t \in Send |-> IF t = s THEN x ELSE send[t]]
  BY Zenon DEF Calls
<1>2. send'[s] = x /\ \A t \in Send : t # s => send'[t] = send[t]
  BY <1>1, Zenon
<1>3. ASSUME NEW t \in Send
      PROVE  send'[t] = [pc |-> send'[t].pc, kind |-> send'[t].kind, ref |-> send'[t].ref,
                         cert |-> send'[t].cert, address |-> send'[t].address,
                         peer |-> send'[t].peer]
  <2>1. CASE t = s
    BY <1>2, <2>1, Zenon
  <2>2. CASE t # s
    <3>1. send[t] = [pc |-> send[t].pc, kind |-> send[t].kind, ref |-> send[t].ref,
                     cert |-> send[t].cert, address |-> send[t].address,
                     peer |-> send[t].peer]
      BY Zenon DEF Calls
    <3> QED BY <1>2, <2>2, <3>1, Zenon
  <2> QED BY <2>1, <2>2, Zenon
<1>4. Calls'
  BY <1>1, <1>3, Zenon DEF Calls
<1> QED BY <1>2, <1>4, Zenon

\* A call goes to another step and keeps the rest.
LEMMA CallGoes ==
  ASSUME Calls, NEW s \in Send, NEW pc, send' = [send EXCEPT ![s].pc = pc]
  PROVE  /\ Calls' /\ Keeps(s) /\ send'[s].pc = pc /\ send'[s].address = send[s].address
         /\ \A t \in Send : t # s => send'[t] = send[t]
<1> DEFINE x == [pc |-> pc, kind |-> send[s].kind, ref |-> send[s].ref,
                 cert |-> send[s].cert, address |-> send[s].address, peer |-> send[s].peer]
<1>1. send[s] = [pc |-> send[s].pc, kind |-> send[s].kind, ref |-> send[s].ref,
                 cert |-> send[s].cert, address |-> send[s].address, peer |-> send[s].peer]
  BY Zenon DEF Calls
<1>2. [send[s] EXCEPT !.pc = pc] = x
  BY <1>1
<1>3. send' = [send EXCEPT ![s] = x]
  BY <1>2, Zenon
<1>4. /\ x = [pc |-> x.pc, kind |-> x.kind, ref |-> x.ref, cert |-> x.cert,
              address |-> x.address, peer |-> x.peer]
      /\ x.pc = pc /\ x.kind = send[s].kind /\ x.cert = send[s].cert /\ x.peer = send[s].peer
      /\ x.address = send[s].address
  BY Zenon
<1> HIDE DEF x
<1>5. Calls' /\ send'[s] = x /\ \A t \in Send : t # s => send'[t] = send[t]
  BY <1>3, <1>4, CallSet, Zenon
<1> QED BY <1>4, <1>5, Zenon DEF Keeps

\* A call goes to another step with what it has learned.
LEMMA CallLearns ==
  ASSUME Calls, NEW s \in Send, NEW pc, NEW cert, NEW address, NEW peer,
         Learn(s, pc, cert, address, peer)
  PROVE  /\ Calls'
         /\ send'[s].pc = pc /\ send'[s].kind = send[s].kind
         /\ send'[s].cert = cert /\ send'[s].peer = peer /\ send'[s].address = address
         /\ \A t \in Send : t # s => send'[t] = send[t]
<1> DEFINE x == [pc |-> pc, kind |-> send[s].kind, ref |-> send[s].ref,
                 cert |-> cert, address |-> address, peer |-> peer]
<1>1. /\ x = [pc |-> x.pc, kind |-> x.kind, ref |-> x.ref, cert |-> x.cert,
              address |-> x.address, peer |-> x.peer]
      /\ x.pc = pc /\ x.kind = send[s].kind /\ x.cert = cert /\ x.peer = peer
      /\ x.address = address
  BY Zenon
<1>2. send' = [send EXCEPT ![s] = x]
  BY Zenon DEF Learn
<1> HIDE DEF x
<1>3. Calls' /\ send'[s] = x /\ \A t \in Send : t # s => send'[t] = send[t]
  BY <1>1, <1>2, CallSet, Zenon
<1> QED BY <1>1, <1>3, Zenon

\* A call that is not touched.
LEMMA CallStands ==
  ASSUME NEW s \in Send, send'[s] = send[s]
  PROVE  Proceeds(s)
BY Zenon DEF Proceeds, Keeps

\* A connection that is not touched.
LEMMA ConnStands ==
  ASSUME Types, NEW s \in Send, NEW a \in Address, conn'[s][a] = conn[s][a]
  PROVE  Evolves(s, a)
BY Zenon DEF Types, Evolves, Same

\* The steps of a call that leave the connections alone.
LEMMA StartStep ==
  ASSUME SendInv, NEW s \in Send, send_files(s)
  PROVE  Calls' /\ \A t \in Send : Proceeds(t)
<1>1. Calls /\ send[s].pc = "new"
  BY Zenon DEF SendInv, Types, send_files
<1>2. CASE Go(s, "ended")
  <2>1. /\ Calls' /\ Keeps(s) /\ send'[s].pc = "ended"
        /\ \A t \in Send : t # s => send'[t] = send[t]
    BY <1>1, <1>2, CallGoes, Zenon DEF Go
  <2>2. Proceeds(s)
    BY <2>1, Zenon DEF Proceeds
  <2> QED BY <2>1, <2>2, CallStands, Zenon
<1>3. CASE ~Go(s, "ended")
  <2>1. PICK t \in Target :
          LET first == CASE t.kind = "localsend_url"  -> "client"
                         [] t.kind = "native_url"     -> "ended"
                         [] t.kind = "native_peer"    -> "discover"
                         [] t.kind = "localsend_peer" -> "scan"
                         [] t.kind = "wan_peer"       -> "trust"
          IN send' = [send EXCEPT ![s] =
               [pc |-> first, kind |-> t.kind, ref |-> t.ref, cert |-> None, address |-> None,
                peer |-> IF t.kind = "wan_peer" THEN t.ref.id ELSE None]]
    BY <1>3, Zenon DEF send_files
  <2> DEFINE first == CASE t.kind = "localsend_url"  -> "client"
                        [] t.kind = "native_url"     -> "ended"
                        [] t.kind = "native_peer"    -> "discover"
                        [] t.kind = "localsend_peer" -> "scan"
                        [] t.kind = "wan_peer"       -> "trust"
             kind == t.kind
             peer == IF t.kind = "wan_peer" THEN t.ref.id ELSE None
  <2>2. /\ kind \in Kind
        /\ kind = "wan_peer" => peer \in Device
        /\ kind # "wan_peer" => peer = None
    BY SendAssumption, Zenon
  <2>3. /\ kind = "localsend_url" => first = "client"
        /\ kind = "native_url" => first = "ended"
        /\ kind = "native_peer" => first = "discover"
        /\ kind = "localsend_peer" => first = "scan"
        /\ kind = "wan_peer" => first = "trust"
    BY Zenon
  <2> DEFINE x == [pc |-> first, kind |-> kind, ref |-> t.ref, cert |-> None,
                   address |-> None, peer |-> peer]
  <2>4. send' = [send EXCEPT ![s] = x]
    BY <2>1, Zenon
  <2> HIDE DEF first, kind, peer
  <2>5. /\ Calls' /\ send'[s].pc = first /\ send'[s].kind = kind /\ send'[s].peer = peer
        /\ \A z \in Send : z # s => send'[z] = send[z]
    <3>1. /\ x = [pc |-> x.pc, kind |-> x.kind, ref |-> x.ref, cert |-> x.cert,
                  address |-> x.address, peer |-> x.peer]
          /\ x.pc = first /\ x.kind = kind /\ x.peer = peer
      BY Zenon
    <3> HIDE DEF x
    <3>2. Calls' /\ send'[s] = x /\ \A z \in Send : z # s => send'[z] = send[z]
      BY <1>1, <2>4, <3>1, CallSet, Zenon
    <3> QED BY <3>1, <3>2, Zenon
  <2>6. Proceeds(s)
    BY <1>1, <2>2, <2>3, <2>5, Zenon DEF Proceeds, Kind
  <2> QED BY <2>5, <2>6, CallStands, Zenon
<1> QED BY <1>2, <1>3, Zenon

\* A call that ends, or goes on while it talks.
LEMMA CallEnds ==
  ASSUME Calls, NEW s \in Send, NEW pc, send' = [send EXCEPT ![s].pc = pc],
         \/ pc \in {"ended", "gone"}
         \/ send[s].pc \in Talking /\ pc \in {"dial", "hello", "request", "done"}
  PROVE  Calls' /\ \A t \in Send : Proceeds(t)
<1>1. /\ Calls' /\ Keeps(s) /\ send'[s].pc = pc
      /\ \A t \in Send : t # s => send'[t] = send[t]
  BY CallGoes, Zenon
<1>2. Proceeds(s)
  BY <1>1, Zenon DEF Proceeds
<1> QED BY <1>1, <1>2, CallStands, Zenon

\* A call fails.
LEMMA CallFails ==
  ASSUME Calls, NEW s \in Send, Fail(s)
  PROVE  Calls' /\ \A t \in Send : Proceeds(t)
BY CallEnds, Zenon DEF Fail, Terminal

\* discover_peer takes the peer from the one advertisement that matches.
LEMMA DiscoverStep ==
  ASSUME SendInv, NEW s \in Send, discover_peer(s)
  PROVE  Calls' /\ \A t \in Send : Proceeds(t)
<1>1. Calls /\ send[s].pc = "discover" /\ heard \subseteq Advert
  BY Zenon DEF SendInv, Types, discover_peer
<1>2. CASE Fail(s)
  BY <1>1, <1>2, CallFails, Zenon
<1>3. CASE ~Fail(s)
  <2>1. PICK found \in discover(heard) : \E a \in resolve_peer_ref(found, send[s].ref) :
          Learn(s, "trust", a.cert, a.address, a.peer)
    BY <1>3, Zenon DEF discover_peer
  <2>2. PICK a \in resolve_peer_ref(found, send[s].ref) :
          Learn(s, "trust", a.cert, a.address, a.peer)
    BY <2>1, Zenon
  <2>3. a \in Advert
    BY <1>1, <2>1, <2>2, Zenon DEF resolve_peer_ref, matches, discover, recv_resolved_all
  <2>4. a.peer \in Device
    BY <2>3, Zenon DEF Advert
  <2>5. /\ Calls' /\ send'[s].pc = "trust" /\ send'[s].kind = send[s].kind
        /\ send'[s].peer = a.peer
        /\ \A t \in Send : t # s => send'[t] = send[t]
    BY <1>1, <2>2, CallLearns
  <2>6. Proceeds(s)
    BY <1>1, <2>4, <2>5, Zenon DEF Proceeds
  <2> QED BY <2>5, <2>6, CallStands, Zenon
<1> QED BY <1>2, <1>3, Zenon

\* The certificate read is the one pinned for the peer.
LEMMA TrustStep ==
  ASSUME SendInv, NEW s \in Send, read_trust(s), UNCHANGED peers
  PROVE  Calls' /\ \A t \in Send : Proceeds(t)
<1> DEFINE p == send[s].peer
           cert == native_wan_certificate_fingerprint(peers[p])
           pc == IF send[s].kind = "wan_peer" THEN "lookup" ELSE "connect"
<1>1. Calls /\ send[s].pc = "trust" /\ p \in Device /\ OwnCertificates
      /\ peers \in [Device -> Peer \cup {Absent}]
  BY Zenon DEF SendInv, Types, read_trust, CallInv
<1>2. CASE Fail(s)
  BY <1>1, <1>2, CallFails, Zenon
<1>3. CASE ~Fail(s)
  <2>1. cert # NoCert /\ Learn(s, pc, cert, send[s].address, p)
    BY <1>3, Zenon DEF read_trust
  <2>2. peers[p] # Absent /\ cert = peers[p].cert
    BY <2>1, Zenon DEF native_wan_certificate_fingerprint
  <2>3. cert.dev = p
    BY <1>1, <2>1, <2>2, Zenon DEF OwnCertificates
  <2>4. cert \in Pins
    BY <1>1, <2>1, Zenon DEF Pins
  <2>5. Pins' = Pins
    BY Zenon DEF Pins
  <2>6. pc \in {"connect", "lookup"}
    BY Zenon
  <2> HIDE DEF p, cert, pc
  <2>7. /\ Calls' /\ send'[s].pc = pc /\ send'[s].kind = send[s].kind
        /\ send'[s].cert = cert /\ send'[s].peer = p
        /\ \A t \in Send : t # s => send'[t] = send[t]
    BY <1>1, <2>1, CallLearns
  <2>8. p = send[s].peer
    BY Zenon DEF p
  <2>9. Proceeds(s)
    BY <1>1, <2>3, <2>4, <2>5, <2>6, <2>7, <2>8, Zenon DEF Proceeds
  <2> QED BY <2>7, <2>9, CallStands, Zenon
<1> QED BY <1>2, <1>3, Zenon

\* localsend_client goes to the URL it was given.
LEMMA ClientStep ==
  ASSUME SendInv, NEW s \in Send, localsend_client(s)
  PROVE  Calls' /\ \A t \in Send : Proceeds(t)
<1>1. Calls /\ send[s].pc = "client"
  BY Zenon DEF SendInv, Types, localsend_client
<1>2. CASE Go(s, "gone")
  BY <1>1, <1>2, CallEnds, Zenon DEF Go
<1>3. CASE Learn(s, "prepare", send[s].cert, send[s].ref.id, send[s].peer)
  <2>1. /\ Calls' /\ send'[s].pc = "prepare" /\ send'[s].kind = send[s].kind
        /\ send'[s].cert = send[s].cert /\ send'[s].peer = send[s].peer
        /\ \A t \in Send : t # s => send'[t] = send[t]
    BY <1>1, <1>3, CallLearns
  <2>2. Proceeds(s)
    BY <1>1, <2>1, Zenon DEF Proceeds, Keeps
  <2> QED BY <2>1, <2>2, CallStands, Zenon
<1> QED BY <1>2, <1>3, Zenon DEF localsend_client

\* resolve_lan takes certificate and address from one row of the table.
LEMMA ScanStep ==
  ASSUME SendInv, NEW s \in Send, resolve_lan(s)
  PROVE  Calls' /\ \A t \in Send : Proceeds(t)
<1>1. Calls /\ send[s].pc = "scan"
  BY Zenon DEF SendInv, Types, resolve_lan
<1>2. CASE Fail(s)
  BY <1>1, <1>2, CallFails, Zenon
<1>3. CASE ~Fail(s)
  <2>1. PICK c \in resolve_localsend_lan_peer(lan', send[s].ref) :
          Learn(s, "prepare", c, lan'[c], send[s].peer)
    BY <1>3, Zenon DEF resolve_lan
  <2>2. c \in Certificate
    BY <2>1, Zenon DEF resolve_localsend_lan_peer, list_localsend_lan_peers
  <2>3. /\ Calls' /\ send'[s].pc = "prepare" /\ send'[s].kind = send[s].kind
        /\ send'[s].cert = c /\ send'[s].peer = send[s].peer
        /\ \A t \in Send : t # s => send'[t] = send[t]
    BY <1>1, <2>1, CallLearns
  <2>4. Proceeds(s)
    BY <1>1, <2>2, <2>3, Zenon DEF Proceeds
  <2> QED BY <2>3, <2>4, CallStands, Zenon
<1> QED BY <1>2, <1>3, Zenon

\* The app that answers is the one pinned, or speaks plain http.
LEMMA UploadStep ==
  ASSUME SendInv, NEW s \in Send, localsend_send_files_to_url(s)
  PROVE  Calls' /\ \A t \in Send : Proceeds(t)
<1>1. Calls
  BY Zenon DEF SendInv, Types
<1>2. CASE Fail(s)
  BY <1>1, <1>2, CallFails, Zenon
<1>3. CASE Terminal(s, "TransferCompleted")
  BY <1>1, <1>3, CallEnds, Zenon DEF Terminal
<1>4. CASE /\ send[s].pc = "prepare" /\ Answers(s)
           /\ Learn(s, "upload", send[s].cert, send[s].address, at[send[s].address])
  <2> DEFINE d == at[send[s].address]
  <2>1. ASSUME send[s].cert \in Certificate PROVE send[s].cert.dev \in Plain \cup {d}
    <3>1. send[s].cert # None
      BY <2>1, SendAssumption, Zenon
    <3>2. CASE send[s].cert.dev \in Plain
      BY <3>2, Zenon
    <3>3. CASE verify_server_cert(send[s].address, send[s].cert)
      BY <3>3 DEF verify_server_cert, Cert
    <3> QED BY <1>4, <3>1, <3>2, <3>3, Zenon DEF Answers
  <2>2. Learn(s, "upload", send[s].cert, send[s].address, d)
    BY <1>4, Zenon
  <2> HIDE DEF d
  <2>3. /\ Calls' /\ send'[s].pc = "upload" /\ send'[s].kind = send[s].kind
        /\ send'[s].cert = send[s].cert /\ send'[s].peer = d
        /\ \A t \in Send : t # s => send'[t] = send[t]
    BY <1>1, <2>2, CallLearns
  <2>4. Proceeds(s)
    BY <1>4, <2>1, <2>3, Zenon DEF Proceeds
  <2> QED BY <2>3, <2>4, CallStands, Zenon
<1> QED BY <1>2, <1>3, <1>4, Zenon DEF localsend_send_files_to_url

-----------------------------------------------------------------------------
\* What the operators on connections do to the fields that matter.
LEMMA UsesFields ==
  ASSUME NEW c \in Connection, NEW m \in ControlMessage \cup {None}
  PROVE  LET d == [c EXCEPT !.msg = m] IN d \in Connection /\ Same(c, d)
BY Zenon DEF Connection, Same

\* A connection that is dropped keeps its handler.
LEMMA DroppedFields ==
  ASSUME NEW c \in Connection
  PROVE  Dropped(c) \in Connection /\ Same(c, Dropped(c))
<1>1. CASE c.link = "up"
  <2> DEFINE d == [c EXCEPT !.link = "down", !.msg = None]
  <2>1. d \in Connection /\ d.hand = c.hand /\ d.cert = c.cert
        /\ d.published = c.published /\ d.dialing = c.dialing
    BY Zenon DEF Connection
  <2> QED BY <1>1, <2>1, Zenon DEF Dropped, Same
<1>2. CASE c.link # "up"
  BY <1>2, Zenon DEF Dropped, Same
<1> QED BY <1>1, <1>2, Zenon

\* A connection that is made shows the certificate of the device at the address.
LEMMA MadeFields ==
  ASSUME Types, NEW c \in Connection, NEW a \in Address, at[a] # Nobody
  PROVE  /\ Made(c, a) \in Connection
         /\ Made(c, a).hand = "hello" /\ Made(c, a).cert = Cert(at[a])
         /\ Made(c, a).published = c.published /\ ~Made(c, a).dialing
<1>1. Cert(at[a]) \in Certificate
  BY Zenon DEF Types, Cert, Certificate
<1> QED BY <1>1, Zenon DEF Made, Connection

\* A handler that has ended leaves what it has published.
LEMMA EndedFields ==
  ASSUME NEW c \in Connection
  PROVE  Ended(c) \in Connection /\ Ends(c, Ended(c))
BY Zenon DEF Ended, Connection, NoConnection, Ends

ConnType == conn \in [Send -> [Address -> Connection]]

\* An assignment to one connection, and to the connections of one call.
LEMMA ConnSet ==
  ASSUME Types, NEW s \in Send, NEW a, NEW c, SetConn(s, a, c), c \in Connection,
         a \in Address => Evolves(s, a) \/ conn'[s][a] # c
  PROVE  ConnType' /\ \A t \in Send, b \in Address : Evolves(t, b)
<1>1. conn' \in [Send -> [Address -> Connection]]
  BY Zenon DEF Types, SetConn
<1>2. ASSUME NEW t \in Send, NEW b \in Address, t # s \/ b # a
      PROVE  Evolves(t, b)
  <2>1. conn'[t][b] = conn[t][b]
    BY <1>2, Zenon DEF Types, SetConn
  <2> QED BY <2>1, ConnStands, Zenon
<1>3. a \in Address => conn'[s][a] = c
  BY Zenon DEF Types, SetConn
<1> QED BY <1>1, <1>2, <1>3, Zenon DEF ConnType

\* All connections of one call are set.
LEMMA ConnsSet ==
  ASSUME Types, NEW s \in Send, NEW f \in [Address -> Connection],
         conn' = [conn EXCEPT ![s] = f],
         \A a \in Address : conn'[s][a] = f[a] => Evolves(s, a)
  PROVE  ConnType' /\ \A t \in Send, b \in Address : Evolves(t, b)
<1>1. conn' \in [Send -> [Address -> Connection]] /\ conn'[s] = f
  BY Zenon DEF Types
<1>2. ASSUME NEW t \in Send, NEW b \in Address, t # s
      PROVE  Evolves(t, b)
  <2>1. conn'[t][b] = conn[t][b]
    BY <1>2, Zenon DEF Types
  <2> QED BY <2>1, ConnStands, Zenon
<1> QED BY <1>1, <1>2, Zenon DEF ConnType

\* The call's own steps on its connections.
LEMMA LookupStep ==
  ASSUME SendInv, NEW s \in Send, lookup(s)
  PROVE  /\ Calls' /\ \A t \in Send : Proceeds(t)
         /\ ConnType' /\ \A t \in Send, b \in Address : Evolves(t, b)
<1>1. Types /\ Calls /\ send[s].pc = "lookup"
  BY Zenon DEF SendInv, Types, lookup
<1>2. CASE Fail(s) /\ UNCHANGED conn
  BY <1>1, <1>2, CallFails, ConnStands, Zenon DEF ConnType, Types
<1>3. CASE ~(Fail(s) /\ UNCHANGED conn)
  <2>1. PICK cands : dial_candidates(s, cands) /\ Go(s, "dial")
    BY <1>3, Zenon DEF lookup
  <2> DEFINE f == [a \in Address |-> [NoConnection EXCEPT !.dialing = a \in cands]]
  <2>2. conn' = [conn EXCEPT ![s] = f]
    BY <2>1, Zenon DEF dial_candidates
  <2>3. ASSUME NEW a \in Address
        PROVE  f[a] \in Connection /\ f[a].hand = "none" /\ f[a].published = FALSE
    <3>1. \A b \in BOOLEAN : LET d == [NoConnection EXCEPT !.dialing = b] IN
            d \in Connection /\ d.hand = "none" /\ d.published = FALSE
      BY Zenon DEF NoConnection, Connection
    <3>2. (a \in cands) \in BOOLEAN
      OBVIOUS
    <3>3. PICK b \in BOOLEAN : b = (a \in cands)
      BY <3>2, Zenon
    <3>4. f[a] = [NoConnection EXCEPT !.dialing = b]
      BY <3>3, Zenon
    <3> HIDE DEF f
    <3> QED BY <3>1, <3>4, Zenon
  <2>4. f \in [Address -> Connection]
    BY <2>3, Zenon
  <2> HIDE DEF f
  <2>5. send' = [send EXCEPT ![s].pc = "dial"]
    BY <2>1, Zenon DEF Go
  <2>6. Calls' /\ (\A t \in Send : Proceeds(t)) /\ send'[s].pc = "dial"
    BY <1>1, <2>5, CallEnds, CallGoes, Zenon DEF Talking
  <2>7. \A a \in Address : conn'[s][a] = f[a] => Evolves(s, a)
    BY <1>1, <2>3, <2>6, Zenon DEF Evolves, Dials
  <2> QED BY <1>1, <2>2, <2>4, <2>6, <2>7, ConnsSet, Zenon
<1> QED BY <1>2, <1>3, Zenon

\* rx_recv takes the first connection that was made and drops the others.
LEMMA DialedStep ==
  ASSUME SendInv, NEW s \in Send, rx_recv(s)
  PROVE  /\ Calls' /\ \A t \in Send : Proceeds(t)
         /\ ConnType' /\ \A t \in Send, b \in Address : Evolves(t, b)
<1> DEFINE r == Head(results[s])
<1>1. Types /\ Calls /\ send[s].pc = "dial"
  BY Zenon DEF SendInv, Types, rx_recv
<1>2. CASE r.ok
  <2> DEFINE f == [a \in Address |->
                     IF a = r.address THEN Uses(conn[s][a])
                     ELSE IF conn[s][a].dialing THEN conn[s][a] ELSE Dropped(conn[s][a])]
             to == r.address
  <2>1. conn' = [conn EXCEPT ![s] = f]
    BY <1>1, <1>2, Zenon DEF rx_recv, Types
  <2>2. ASSUME NEW a \in Address
        PROVE  f[a] \in Connection /\ Same(conn[s][a], f[a])
    <3>1. conn[s][a] \in Connection
      BY <1>1, Zenon DEF Types
    <3>2. Uses(conn[s][a]) \in Connection /\ Same(conn[s][a], Uses(conn[s][a]))
      BY <3>1, UsesFields, Zenon DEF Uses, ControlMessage
    <3>3. Dropped(conn[s][a]) \in Connection /\ Same(conn[s][a], Dropped(conn[s][a]))
      BY <3>1, DroppedFields, Zenon
    <3>4. Same(conn[s][a], conn[s][a])
      BY Zenon DEF Same
    <3> QED BY <3>1, <3>2, <3>3, <3>4, Zenon
  <2>3. f \in [Address -> Connection]
    BY <2>2, Zenon
  <2>4. Learn(s, "hello", send[s].cert, to, send[s].peer)
    BY <1>2, Zenon DEF rx_recv
  <2> HIDE DEF f, to
  <2>5. /\ Calls' /\ send'[s].pc = "hello" /\ Keeps(s)
        /\ \A t \in Send : t # s => send'[t] = send[t]
    BY <1>1, <2>4, CallLearns DEF Keeps
  <2>6. Proceeds(s)
    BY <1>1, <2>5, Zenon DEF Proceeds, Talking
  <2>7. \A a \in Address : conn'[s][a] = f[a] => Evolves(s, a)
    BY <2>2, Zenon DEF Evolves
  <2> QED BY <1>1, <2>1, <2>3, <2>5, <2>6, <2>7, ConnsSet, CallStands, Zenon
<1>3. CASE ~r.ok
  <2>1. UNCHANGED conn /\ (Fail(s) \/ UNCHANGED send)
    BY <1>3, Zenon DEF rx_recv
  <2>2. Calls' /\ \A t \in Send : Proceeds(t)
    <3>1. CASE Fail(s)
      BY <1>1, <3>1, CallFails, Zenon
    <3>2. CASE UNCHANGED send
      BY <1>1, <3>2, CallStands, Zenon DEF Calls
    <3> QED BY <2>1, <3>1, <3>2, Zenon
  <2> QED BY <1>1, <2>1, <2>2, ConnStands, Zenon DEF ConnType, Types
<1> QED BY <1>2, <1>3, Zenon

\* connect makes a connection to the pinned certificate.
LEMMA ConnectStep ==
  ASSUME SendInv, NEW s \in Send, connect(s)
  PROVE  /\ Calls' /\ \A t \in Send : Proceeds(t)
         /\ ConnType' /\ \A t \in Send, b \in Address : Evolves(t, b)
<1> DEFINE a == send[s].address
           m == Made(conn[s][a], a)
           d == Uses(m)
<1>1. Types /\ Calls /\ send[s].pc = "connect"
  BY Zenon DEF SendInv, Types, connect
<1>2. CASE Fail(s) /\ UNCHANGED conn
  BY <1>1, <1>2, CallFails, ConnStands, Zenon DEF ConnType, Types
<1>3. CASE ~(Fail(s) /\ UNCHANGED conn)
  <2>1. verify_server_cert(a, send[s].cert) /\ SetConn(s, a, d) /\ Go(s, "hello")
    BY <1>3, Zenon DEF connect
  <2>2. at[a] # Nobody /\ Cert(at[a]) = send[s].cert
    BY <2>1, Zenon DEF verify_server_cert
  <2>3. send' = [send EXCEPT ![s].pc = "hello"]
    BY <2>1, Zenon DEF Go
  <2>4. Calls' /\ (\A t \in Send : Proceeds(t)) /\ send'[s].pc = "hello"
    BY <1>1, <2>3, CallEnds, CallGoes, Zenon DEF Talking
  <2>5. CASE a \in Address
    <3>1. conn[s][a] \in Connection
      BY <1>1, <2>5, Zenon DEF Types
    <3>2. /\ m \in Connection /\ m.hand = "hello" /\ m.cert = send[s].cert
          /\ m.published = conn[s][a].published /\ ~m.dialing
      BY <1>1, <2>2, <2>5, <3>1, MadeFields, Zenon
    <3> HIDE DEF m
    <3>3. d \in Connection /\ Same(m, d)
      BY <3>2, UsesFields, Zenon DEF Uses, ControlMessage
    <3> HIDE DEF d
    <3>4. Makes(s, conn[s][a], d)
      BY <1>1, <2>4, <3>2, <3>3, Zenon DEF Makes, Same
    <3>5. Evolves(s, a) \/ conn'[s][a] # d
      BY <3>3, <3>4, Zenon DEF Evolves
    <3> QED BY <1>1, <2>1, <2>4, <3>3, <3>5, ConnSet, Zenon
  <2>6. CASE a \notin Address
    <3>1. conn' = conn
      BY <1>1, <2>1, <2>6 DEF SetConn, Types
    <3> QED BY <1>1, <2>4, <3>1, ConnStands, Zenon DEF ConnType, Types
  <2> QED BY <2>5, <2>6, Zenon
<1> QED BY <1>2, <1>3, Zenon

\* A step that changes a connection of the call only in ways that do not matter.
LEMMA SameSet ==
  ASSUME Types, NEW s \in Send, NEW a, NEW d, SetConn(s, a, d),
         a \in Address => d \in Connection /\ Same(conn[s][a], d)
  PROVE  ConnType' /\ \A t \in Send, b \in Address : Evolves(t, b)
<1>1. CASE a \in Address
  <2>1. Evolves(s, a) \/ conn'[s][a] # d
    BY <1>1, Zenon DEF Evolves
  <2> QED BY <1>1, <2>1, ConnSet, Zenon
<1>2. CASE a \notin Address
  <2>1. conn' = conn
    BY <1>2 DEF SetConn, Types
  <2> QED BY <2>1, ConnStands, Zenon DEF ConnType, Types
<1> QED BY <1>1, <1>2, Zenon

\* The control stream goes on, ends or breaks.
LEMMA StreamStep ==
  ASSUME SendInv, NEW s \in Send, send_prepared_native_files(s)
  PROVE  /\ Calls' /\ \A t \in Send : Proceeds(t)
         /\ ConnType' /\ \A t \in Send, b \in Address : Evolves(t, b)
<1> DEFINE a == send[s].address
           c == conn[s][a]
<1>1. Types /\ Calls
  BY Zenon DEF SendInv, Types
<1>2. a \in Address => c \in Connection
  BY <1>1, Zenon DEF Types
<1>3. ASSUME NEW pc \in {"hello", "request"}, NEW msg,
             NEW reply \in {"RequestTransfer", "Done"}, NEW next \in {"request", "done"},
             Answer(s, pc, msg, reply, next)
      PROVE  /\ Calls' /\ \A t \in Send : Proceeds(t)
             /\ ConnType' /\ \A t \in Send, b \in Address : Evolves(t, b)
  <2>1. /\ send[s].pc \in Talking /\ SetConn(s, a, [c EXCEPT !.msg = reply])
        /\ send' = [send EXCEPT ![s].pc = next]
    BY <1>3, Zenon DEF Answer, Go, Talking
  <2>2. Calls' /\ \A t \in Send : Proceeds(t)
    BY <1>1, <2>1, CallEnds, Zenon
  <2> DEFINE d == [c EXCEPT !.msg = reply]
  <2>3. a \in Address => d \in Connection /\ Same(c, d)
    BY <1>2, UsesFields, Zenon DEF ControlMessage
  <2>4. SetConn(s, a, d)
    BY <2>1, Zenon
  <2> HIDE DEF d
  <2> QED BY <1>1, <2>2, <2>3, <2>4, SameSet, Zenon
<1>4. ASSUME SetConn(s, a, Dropped(c)), NEW event, Terminal(s, event)
      PROVE  /\ Calls' /\ \A t \in Send : Proceeds(t)
             /\ ConnType' /\ \A t \in Send, b \in Address : Evolves(t, b)
  <2>1. Calls' /\ \A t \in Send : Proceeds(t)
    BY <1>1, <1>4, CallEnds, Zenon DEF Terminal
  <2>2. a \in Address => Dropped(c) \in Connection /\ Same(c, Dropped(c))
    BY <1>2, DroppedFields, Zenon
  <2> QED BY <1>1, <1>4, <2>1, <2>2, SameSet, Zenon
<1>5. CASE read_hello_ack(s)
  BY <1>3, <1>5, Zenon DEF read_hello_ack
<1>6. CASE read_accept(s)
  BY <1>3, <1>6, Zenon DEF read_accept
<1>7. CASE read_done_ack(s)
  BY <1>4, <1>7, Zenon DEF read_done_ack
<1>8. CASE client_error(s)
  BY <1>4, <1>8, Zenon DEF client_error, Fail
<1> QED BY <1>5, <1>6, <1>7, <1>8, Zenon DEF send_prepared_native_files

\* caller_leaves ends the call and drops what is not being dialed.
LEMMA LeaveStep ==
  ASSUME SendInv, NEW s \in Send, caller_leaves(s)
  PROVE  /\ Calls' /\ \A t \in Send : Proceeds(t)
         /\ ConnType' /\ \A t \in Send, b \in Address : Evolves(t, b)
<1>1. Types /\ Calls
  BY Zenon DEF SendInv, Types
<1>2. Calls' /\ \A t \in Send : Proceeds(t)
  BY <1>1, CallEnds, Zenon DEF caller_leaves, Go
<1> DEFINE f == [a \in Address |->
                   IF conn[s][a].dialing THEN conn[s][a] ELSE Dropped(conn[s][a])]
<1>3. conn' = [conn EXCEPT ![s] = f]
  BY <1>1, Zenon DEF caller_leaves, Types
<1>4. ASSUME NEW a \in Address
      PROVE  f[a] \in Connection /\ Same(conn[s][a], f[a])
  <2>1. conn[s][a] \in Connection
    BY <1>1, Zenon DEF Types
  <2>2. Dropped(conn[s][a]) \in Connection /\ Same(conn[s][a], Dropped(conn[s][a]))
    BY <2>1, DroppedFields, Zenon
  <2>3. Same(conn[s][a], conn[s][a])
    BY Zenon DEF Same
  <2> QED BY <2>1, <2>2, <2>3, Zenon
<1>5. f \in [Address -> Connection]
  BY <1>4, Zenon
<1> HIDE DEF f
<1>6. \A a \in Address : conn'[s][a] = f[a] => Evolves(s, a)
  BY <1>4, Zenon DEF Evolves
<1> QED BY <1>1, <1>2, <1>3, <1>5, <1>6, ConnsSet, Zenon

\* Dial tasks and handlers.
LEMMA DialStep ==
  ASSUME SendInv, NEW s \in Send, NEW a \in Address, NEW listening \in BOOLEAN,
         dial_pair(s, a, send[s].cert, listening)
  PROVE  ConnType' /\ \A t \in Send, b \in Address : Evolves(t, b)
<1> DEFINE c == conn[s][a]
           m == Made(c, a)
<1>1. Types /\ c \in Connection /\ c.dialing
  BY Zenon DEF SendInv, Types, dial_pair
<1>2. PICK ok \in {FALSE} \cup {verify_server_cert(a, send[s].cert)} :
        SetConn(s, a, IF ~ok THEN [c EXCEPT !.dialing = FALSE]
                      ELSE IF listening THEN m ELSE Dropped(m))
  BY Zenon DEF dial_pair
<1>3. CASE ~ok
  <2> DEFINE d == [c EXCEPT !.dialing = FALSE]
  <2>1. d \in Connection /\ Same(c, d)
    BY <1>1, Zenon DEF Connection, Same
  <2>2. SetConn(s, a, d)
    BY <1>2, <1>3, Zenon
  <2> HIDE DEF d
  <2> QED BY <1>1, <2>1, <2>2, SameSet, Zenon
<1>4. CASE ok
  <2>1. at[a] # Nobody /\ Cert(at[a]) = send[s].cert
    BY <1>2, <1>4, ZenonT(30) DEF verify_server_cert
  <2>2. /\ m \in Connection /\ m.hand = "hello" /\ m.cert = send[s].cert
        /\ m.published = c.published /\ ~m.dialing
    BY <1>1, <2>1, MadeFields, Zenon
  <2> HIDE DEF m
  <2>3. PICK d \in Connection : Same(m, d) /\ SetConn(s, a, d)
    <3>1. CASE listening
      BY <1>2, <1>4, <2>2, <3>1, Zenon DEF Same
    <3>2. CASE ~listening
      BY <1>2, <1>4, <2>2, <3>2, DroppedFields, Zenon
    <3> QED BY <3>1, <3>2, Zenon
  <2>4. Makes(s, c, d)
    BY <1>1, <2>2, <2>3, Zenon DEF Makes, Same
  <2>5. Evolves(s, a) \/ conn'[s][a] # d
    BY <2>3, <2>4, Zenon DEF Evolves
  <2> QED BY <1>1, <2>3, <2>5, ConnSet, Zenon
<1> QED BY <1>3, <1>4, Zenon

\* The handler goes one step on, past Hello only when it may, or ends.
LEMMA HandlerStep ==
  ASSUME SendInv, NEW s \in Send, NEW a \in Address, handle_native_connection(s, a)
  PROVE  ConnType' /\ \A t \in Send, b \in Address : Evolves(t, b)
<1> DEFINE c == conn[s][a]
<1>1. Types /\ c \in Connection
  BY Zenon DEF SendInv, Types
<1>2. ASSUME SetConn(s, a, Ended(c))
      PROVE  ConnType' /\ \A t \in Send, b \in Address : Evolves(t, b)
  <2>1. Ended(c) \in Connection /\ Ends(c, Ended(c))
    BY <1>1, EndedFields, Zenon
  <2>2. Evolves(s, a) \/ conn'[s][a] # Ended(c)
    BY <2>1, Zenon DEF Evolves
  <2> QED BY <1>1, <1>2, <2>1, <2>2, ConnSet, Zenon
<1>3. ASSUME NEW d, d \in Connection, Serves(c, d), SetConn(s, a, d)
      PROVE  ConnType' /\ \A t \in Send, b \in Address : Evolves(t, b)
  <2>1. Evolves(s, a) \/ conn'[s][a] # d
    BY <1>3, Zenon DEF Evolves
  <2> QED BY <1>1, <1>3, <2>1, ConnSet, Zenon
<1>4. ASSUME NEW hand \in Busy \ {"hello"}, NEW msg \in ControlMessage \cup {None},
             c.hand \in Busy, c.hand = "hello" => accepts[c.cert.dev] = "auto_accept"
      PROVE  LET d == [c EXCEPT !.hand = hand, !.msg = msg]
             IN  d \in Connection /\ Serves(c, d)
  BY <1>1, <1>4, Zenon DEF Connection, Serves, Busy
<1>5. ASSUME c.hand = "finish"
      PROVE  LET d == [c EXCEPT !.hand = "ack", !.published = TRUE]
             IN  d \in Connection /\ Serves(c, d)
  BY <1>1, <1>5, Zenon DEF Connection, Serves, Busy
<1> HIDE DEF c
<1>6. CASE read_hello(s, a)
  <2>1. c.hand = "hello"
    BY <1>6, Zenon DEF read_hello, Reads, c
  <2>2. CASE accepts[c.cert.dev] = "auto_accept"
    <3>1. SetConn(s, a, [c EXCEPT !.hand = "request", !.msg = "HelloAck"])
      BY <1>6, <2>2, Zenon DEF read_hello, ensure_native_peer_trusted, c
    <3> QED BY <1>3, <1>4, <2>1, <2>2, <3>1, Zenon DEF Busy, ControlMessage
  <2>3. CASE accepts[c.cert.dev] # "auto_accept"
    <3>1. SetConn(s, a, Ended(c))
      BY <1>6, <2>3, Zenon DEF read_hello, ensure_native_peer_trusted, c
    <3> QED BY <1>2, <3>1, Zenon
  <2> QED BY <2>2, <2>3, Zenon
<1>7. CASE read_request(s, a)
  <2>1. c.hand = "request"
    BY <1>7, Zenon DEF read_request, Reads, c
  <2>2. \/ SetConn(s, a, [c EXCEPT !.hand = "chunks", !.msg = "Accept"])
        \/ SetConn(s, a, Ended(c))
    BY <1>7, Zenon DEF read_request, c
  <2> QED BY <1>2, <1>3, <1>4, <2>1, <2>2, Zenon DEF Busy, ControlMessage
<1>8. CASE read_done(s, a)
  <2>1. c.hand = "chunks"
    BY <1>8, Zenon DEF read_done, Reads, c
  <2>2. \/ SetConn(s, a, [c EXCEPT !.hand = "finish", !.msg = None])
        \/ SetConn(s, a, Ended(c))
    BY <1>8, Zenon DEF read_done, c
  <2> QED BY <1>2, <1>3, <1>4, <2>1, <2>2, Zenon DEF Busy
<1>9. CASE finish_transfer(s, a)
  <2>1. c.hand = "finish"
    BY <1>9, Zenon DEF finish_transfer, c
  <2>2. \/ SetConn(s, a, [c EXCEPT !.hand = "ack", !.published = TRUE])
        \/ SetConn(s, a, Ended(c))
    BY <1>9, Zenon DEF finish_transfer, c
  <2> QED BY <1>2, <1>3, <1>5, <2>1, <2>2, Zenon
<1>10. CASE write_done(s, a)
  <2>1. c.hand = "ack" /\ SetConn(s, a, [c EXCEPT !.hand = "closing", !.msg = "DoneAck"])
    BY <1>10, Zenon DEF write_done, c
  <2> QED BY <1>3, <1>4, <2>1, Zenon DEF Busy, ControlMessage
<1>11. CASE handler_ends(s, a)
  BY <1>2, <1>11, Zenon DEF handler_ends, c
<1> QED
  BY <1>6, <1>7, <1>8, <1>9, <1>10, <1>11, Zenon DEF handle_native_connection

\* A connection is lost.
LEMMA LoseStep ==
  ASSUME SendInv, NEW s \in Send, NEW a \in Address, lose(s, a)
  PROVE  ConnType' /\ \A t \in Send, b \in Address : Evolves(t, b)
<1>1. Types /\ conn[s][a] \in Connection
  BY Zenon DEF SendInv, Types
<1>2. Dropped(conn[s][a]) \in Connection /\ Same(conn[s][a], Dropped(conn[s][a]))
  BY <1>1, DroppedFields, Zenon
<1> QED BY <1>1, <1>2, SameSet, Zenon DEF lose

-----------------------------------------------------------------------------
\* The world around the calls.
WorldTypes ==
  /\ at \in [Address -> Device \cup {Nobody}]
  /\ gen \in [Device -> 0..MaxRekeys]
  /\ peers \in [Device -> Peer \cup {Absent}]
  /\ \A d \in Device : peers[d] # Absent /\ peers[d].cert # NoCert => peers[d].cert.dev = d

\* The world changes without touching a connection.
LEMMA WorldStep ==
  ASSUME SendInv, World
  PROVE  WorldTypes' /\ UNCHANGED conn
<1>1. WorldTypes /\ heard \subseteq Advert /\ \A h \in heard : h.cert.dev = h.peer
  BY Zenon DEF SendInv, Types, OwnCertificates, WorldTypes
<1>2. CASE \E a \in Address : move(a)
  BY <1>1, <1>2 DEF WorldTypes, move
<1>3. CASE \E d \in Device : rekey(d)
  <2>1. PICK d \in Device : rekey(d)
    BY <1>3, Zenon
  <2>2. gen' \in [Device -> 0..MaxRekeys]
    BY <1>1, <2>1, RekeysAssumption DEF WorldTypes, rekey
  <2> QED BY <1>1, <2>1, <2>2, Zenon DEF WorldTypes, rekey
<1>4. CASE \E d \in Device : trusted_by(d)
  BY <1>1, <1>4, Zenon DEF WorldTypes, trusted_by
<1>5. CASE trust_native_lan
  <2>1. PICK h \in heard, policy \in Policy : peers' = trust_discovered_peer(peers, h, policy)
    BY <1>5, Zenon DEF trust_native_lan
  <2> DEFINE row == [policy |-> policy, cert |-> h.cert]
  <2>2. h.peer \in Device /\ h.cert \in Certificate /\ h.cert.dev = h.peer
    BY <1>1, Zenon DEF Advert
  <2>3. row \in Peer /\ row.cert = h.cert
    BY <2>2, SendAssumption, Zenon DEF Peer
  <2>4. peers' = [peers EXCEPT ![h.peer] = row]
    BY <2>1, Zenon DEF trust_discovered_peer, trust_with_native_certificate
  <2> HIDE DEF row
  <2>5. peers' \in [Device -> Peer \cup {Absent}]
    BY <1>1, <2>3, <2>4, Zenon DEF WorldTypes
  <2>6. ASSUME NEW d \in Device, peers'[d] # Absent, peers'[d].cert # NoCert
        PROVE  peers'[d].cert.dev = d
    <3>1. CASE d = h.peer
      BY <1>1, <2>2, <2>3, <2>4, <3>1, Zenon DEF WorldTypes
    <3>2. CASE d # h.peer
      BY <1>1, <2>4, <2>6, <3>2, Zenon DEF WorldTypes
    <3> QED BY <3>1, <3>2, Zenon
  <2> QED BY <1>1, <1>5, <2>5, <2>6, Zenon DEF WorldTypes, trust_native_lan
<1>6. CASE register \/ record_localsend_lan_peers
  BY <1>1, <1>6, Zenon DEF WorldTypes, register, record_localsend_lan_peers, Recorded
<1> QED BY <1>2, <1>3, <1>4, <1>5, <1>6, Zenon DEF World

\* What is heard is what devices say of themselves.
AdvertsOwn == Adverts \subseteq Advert /\ \A h \in Adverts : h.cert.dev = h.peer

\* A device advertises its own certificate.
LEMMA AdvertsAreOwn == WorldTypes => AdvertsOwn
<1> SUFFICES ASSUME WorldTypes, NEW h \in Adverts
             PROVE  h \in Advert /\ h.cert.dev = h.peer
  BY Zenon DEF AdvertsOwn
<1>1. PICK a \in Address : at[a] # Nobody /\ h = service_info_for_peer(at[a], a, Cert(at[a]))
  BY Zenon DEF Adverts
<1>2. at[a] \in Device
  BY <1>1, Zenon DEF WorldTypes
<1>3. Cert(at[a]) \in Certificate /\ Cert(at[a]).dev = at[a]
  BY <1>2, Zenon DEF WorldTypes, Cert, Certificate
<1> QED BY <1>1, <1>2, <1>3, Zenon DEF service_info_for_peer, Advert

\* Every step, as the lemmas above describe it.
LEMMA StepForms ==
  ASSUME SendInv, Next
  PROVE  /\ Observe /\ WorldTypes'
         /\ Calls' /\ \A s \in Send : Proceeds(s)
         /\ ConnType' /\ \A s \in Send, a \in Address : Evolves(s, a)
<1>1. Observe
  BY Zenon DEF Next
<1>2. WorldTypes /\ ConnType /\ Calls /\ Types
  BY Zenon DEF SendInv, Types, OwnCertificates, WorldTypes, ConnType
<1>3. UNCHANGED send => Calls' /\ \A s \in Send : Proceeds(s)
  BY <1>2, CallStands, Zenon DEF Calls
<1>4. UNCHANGED conn => ConnType' /\ \A s \in Send, a \in Address : Evolves(s, a)
  BY <1>2, ConnStands, Zenon DEF ConnType
<1>5. UNCHANGED <<at, gen, peers>> => WorldTypes'
  BY <1>2, Zenon DEF WorldTypes
<1>6. ASSUME NEW s \in Send, CallStep(s), UNCHANGED peers
      PROVE  /\ WorldTypes'
             /\ Calls' /\ \A t \in Send : Proceeds(t)
             /\ ConnType' /\ \A t \in Send, a \in Address : Evolves(t, a)
  <2>1. CASE send_files(s)
    BY <1>4, <1>5, <1>6, <2>1, StartStep, ZenonT(30)
    DEF send_files, NoConnectionChange, connectionVars
  <2>2. CASE discover_peer(s)
    BY <1>4, <1>5, <1>6, <2>2, DiscoverStep, Zenon
    DEF discover_peer, NoConnectionChange, connectionVars
  <2>3. CASE read_trust(s)
    BY <1>4, <1>5, <1>6, <2>3, TrustStep, Zenon DEF read_trust, NoConnectionChange, connectionVars
  <2>4. CASE lookup(s)
    BY <1>5, <1>6, <2>4, LookupStep, Zenon DEF lookup
  <2>5. CASE rx_recv(s)
    BY <1>5, <1>6, <2>5, DialedStep, Zenon DEF rx_recv
  <2>6. CASE connect(s)
    BY <1>5, <1>6, <2>6, ConnectStep, Zenon DEF connect
  <2>7. CASE send_prepared_native_files(s)
    BY <1>5, <1>6, <2>7, StreamStep, Zenon DEF send_prepared_native_files
  <2>8. CASE localsend_client(s)
    BY <1>4, <1>5, <1>6, <2>8, ClientStep, ZenonT(30)
    DEF localsend_client, NoConnectionChange, connectionVars
  <2>9. CASE resolve_lan(s)
    BY <1>4, <1>5, <1>6, <2>9, ScanStep, ZenonT(30)
    DEF resolve_lan, NoConnectionChange, connectionVars
  <2>10. CASE localsend_send_files_to_url(s)
    BY <1>4, <1>5, <1>6, <2>10, UploadStep, Zenon
       DEF localsend_send_files_to_url, NoConnectionChange, connectionVars
  <2> QED
    BY <1>6, <2>1, <2>2, <2>3, <2>4, <2>5, <2>6, <2>7, <2>8, <2>9, <2>10, Zenon DEF CallStep
<1>7. ASSUME NEW s \in Send, caller_leaves(s), UNCHANGED peers
      PROVE  /\ WorldTypes'
             /\ Calls' /\ \A t \in Send : Proceeds(t)
             /\ ConnType' /\ \A t \in Send, a \in Address : Evolves(t, a)
  BY <1>5, <1>7, LeaveStep, Zenon DEF caller_leaves
<1>8. ASSUME NEW s \in Send, NEW a \in Address, ConnectionStep(s, a), UNCHANGED <<peers, send>>
      PROVE  /\ WorldTypes'
             /\ Calls' /\ \A t \in Send : Proceeds(t)
             /\ ConnType' /\ \A t \in Send, b \in Address : Evolves(t, b)
  <2>1. CASE dial_pair(s, a, send[s].cert, send[s].pc = "dial")
    <3>1. (send[s].pc = "dial") \in BOOLEAN
      BY Zenon
    <3>2. PICK listening \in BOOLEAN : dial_pair(s, a, send[s].cert, listening)
      BY <2>1, <3>1, Zenon
    <3>3. ConnType' /\ \A t \in Send, b \in Address : Evolves(t, b)
      BY <3>2, DialStep, Zenon
    <3>4. UNCHANGED <<at, gen>>
      BY <3>2, Zenon DEF dial_pair
    <3> QED BY <1>3, <1>5, <1>8, <3>3, <3>4, Zenon
  <2>2. CASE handle_native_connection(s, a)
    BY <1>3, <1>5, <1>8, <2>2, HandlerStep, Zenon DEF handle_native_connection
  <2>3. CASE lose(s, a)
    BY <1>3, <1>5, <1>8, <2>3, LoseStep, Zenon DEF lose
  <2> QED BY <1>8, <2>1, <2>2, <2>3, Zenon DEF ConnectionStep
<1>9. ASSUME World, UNCHANGED send
      PROVE  /\ WorldTypes'
             /\ Calls' /\ \A t \in Send : Proceeds(t)
             /\ ConnType' /\ \A t \in Send, a \in Address : Evolves(t, a)
  BY <1>3, <1>4, <1>9, WorldStep, Zenon
<1> QED BY <1>1, <1>6, <1>7, <1>8, <1>9, Zenon DEF Next

\* Nothing is dialled or known in the beginning.
LEMMA SendInvInit == Init => SendInv
<1> SUFFICES ASSUME Init PROVE SendInv
  BY Zenon
<1>1. WorldTypes
  <2>1. at \in [Address -> Device \cup {Nobody}] /\ gen \in [Device -> 0..MaxRekeys]
    BY RekeysAssumption DEF Init
  <2>2. peers \in [Device -> Peer \cup {Absent}]
    BY Zenon DEF Init
  <2>3. ASSUME NEW d \in Device, peers[d] # Absent
        PROVE  peers[d].cert.dev = d
    BY <2>3 DEF Init, Cert
  <2> QED BY <2>1, <2>2, <2>3, Zenon DEF WorldTypes
<1>2. heard = Adverts /\ AdvertsOwn
  BY <1>1, AdvertsAreOwn, Zenon DEF Init
<1>3. ASSUME NEW s \in Send, NEW a \in Address
      PROVE  /\ conn[s][a] = NoConnection /\ conn[s][a] \in Connection
             /\ conn[s][a].hand = "none" /\ conn[s][a].published = FALSE
             /\ conn[s][a].dialing = FALSE
  BY Zenon DEF Init, ConnectionInit, NoConnection, Connection
<1>4. conn \in [Send -> [Address -> Connection]]
  <2>1. NoConnection \in Connection
    BY Zenon DEF NoConnection, Connection
  <2> QED BY <2>1, Zenon DEF Init, ConnectionInit
<1>5. Calls
  BY Zenon DEF Init, NoSend, Calls
<1>6. Types /\ OwnCertificates
  BY <1>1, <1>2, <1>4, <1>5, Zenon DEF Types, WorldTypes, OwnCertificates, AdvertsOwn, Init
<1>7. ASSUME NEW s \in Send PROVE CallInv(s)
  <2>1. send[s].pc = "new" /\ send[s].peer = None
    BY Zenon DEF Init, NoSend
  <2> QED BY <2>1, Zenon DEF CallInv, Talking
<1>8. ASSUME NEW s \in Send, NEW a \in Address PROVE ConnInv(s, a) /\ VouchInv(s, a)
  BY <1>3, Zenon DEF ConnInv, VouchInv, Bound, Busy
<1> QED BY <1>6, <1>7, <1>8, Zenon DEF SendInv

\* Every step keeps SendInv.
LEMMA SendInvNext == SendInv /\ Next => SendInv'
<1> SUFFICES ASSUME SendInv, Next PROVE SendInv'
  BY Zenon
<1>1. /\ Observe /\ WorldTypes'
      /\ Calls' /\ \A s \in Send : Proceeds(s)
      /\ ConnType' /\ \A s \in Send, a \in Address : Evolves(s, a)
  BY StepForms, Zenon
<1>2. Types
  BY Zenon DEF SendInv
<1>3. AdvertsOwn'
  BY <1>1, AdvertsAreOwn, PTL
<1>4. heard' \subseteq Advert /\ \A h \in heard' : h.cert.dev = h.peer
  BY <1>1, <1>3, Zenon DEF Observe, AdvertsOwn, SendInv, Types, OwnCertificates
<1>5. Pins' \subseteq Certificate
  <2>1. ASSUME NEW d \in Device
        PROVE  native_wan_certificate_fingerprint(peers'[d]) \in Certificate \cup {NoCert}
    <3>1. peers'[d] # Absent => peers'[d].cert \in Certificate \cup {NoCert}
      BY <1>1, Zenon DEF WorldTypes, Peer
    <3> QED BY <3>1, Zenon DEF native_wan_certificate_fingerprint
  <2> QED BY <2>1, Zenon DEF Pins
<1>6. pinned' \in [Send -> SUBSET Certificate]
  BY <1>1, <1>2, <1>5, Zenon DEF Observe, Types
<1>7. Types' /\ OwnCertificates'
  BY <1>1, <1>4, <1>6, Zenon DEF Types, OwnCertificates, WorldTypes, ConnType
<1>8. ASSUME NEW s \in Send PROVE CallInv(s)'
  BY <1>1, <1>2, CallKept, Zenon DEF SendInv
<1>9. ASSUME NEW s \in Send, NEW a \in Address PROVE ConnInv(s, a)' /\ VouchInv(s, a)'
  BY <1>1, <1>2, ConnKept, VouchKept, Zenon DEF SendInv
<1> QED BY <1>7, <1>8, <1>9, Zenon DEF SendInv

\* A stuttering step keeps SendInv.
LEMMA SendInvStutter == SendInv /\ UNCHANGED vars => SendInv'
<1> SUFFICES ASSUME SendInv, UNCHANGED vars PROVE SendInv'
  BY Zenon
<1>1. UNCHANGED <<at, gen, accepts, conn, heard, peers, send, pinned, vouched>>
  BY Zenon DEF vars, connectionVars, worldVars
<1>2. Types' /\ OwnCertificates'
  BY <1>1, Zenon DEF SendInv, Types, OwnCertificates, Calls
<1>3. ASSUME NEW s \in Send PROVE CallInv(s)'
  BY <1>1, Zenon DEF SendInv, CallInv, Secured
<1>4. ASSUME NEW s \in Send, NEW a \in Address PROVE ConnInv(s, a)' /\ VouchInv(s, a)'
  BY <1>1, Zenon DEF SendInv, ConnInv, VouchInv, Secured
<1> QED BY <1>2, <1>3, <1>4, Zenon DEF SendInv

\* SendInv holds in every reachable state.
LEMMA SendInvariant == Spec => []SendInv
BY SendInvInit, SendInvNext, SendInvStutter, PTL DEF Spec

\* Files reach only the device whose certificate was pinned for the peer that
\* the send resolved, whatever takes over its address, in every interleaving of
\* any number of sends (read_trust, verify_server_cert, the pinned client).
THEOREM DeliveryIsPinned == Spec => []PinnedDelivery
<1>1. SendInv => PinnedDelivery
  <2> SUFFICES ASSUME SendInv, NEW s \in Send
               PROVE  /\ \A a \in Address :
                           conn[s][a].hand \in {"chunks", "finish", "ack", "closing"}
                             \/ conn[s][a].published =>
                           conn[s][a].cert.dev = send[s].peer /\ conn[s][a].cert \in pinned[s]
                      /\ send[s].kind = "localsend_peer" /\ send[s].peer # None =>
                           send[s].cert.dev \in Plain \cup {send[s].peer}
    BY Zenon DEF PinnedDelivery
  <2>1. CallInv(s) /\ \A a \in Address : ConnInv(s, a)
    BY Zenon DEF SendInv
  <2> QED BY <2>1, Zenon DEF CallInv, ConnInv, Bound, Busy, Secured
<1> QED BY <1>1, SendInvariant, PTL

\* A device publishes only what came over a connection during which its operator
\* accepted this daemon (ensure_native_peer_trusted).
THEOREM ReceiptIsTrusted == Spec => []ReceiptWasTrusted
<1>1. SendInv => ReceiptWasTrusted
  BY Zenon DEF SendInv, VouchInv, ReceiptWasTrusted, Busy
<1> QED BY <1>1, SendInvariant, PTL


-----------------------------------------------------------------------------
(***************************************************************************)
(* What a send reports. The invariant speaks of one call x, its            *)
(* connections f, the results q that wait for it and its events e.         *)
(***************************************************************************)
\* Something was said on the connection.
Touched(c) == c.msg # None \/ c.hand \notin {"none", "hello", "ended"} \/ c.published

Connected == {"hello", "request", "done"}

\* Only the connection that the call chose is spoken on, no task dials it again,
\* and DoneAck is sent when the files are published.
StreamOK(x, a, c) ==
  /\ Touched(c) => a = x.address /\ x.pc \in Connected \cup {"ended", "gone"}
  /\ c.dialing => ~ Touched(c) /\ (x.pc \in Connected => a # x.address)
  /\ c.hand = "ack" \/ c.msg = "DoneAck" => c.published

\* A dial task reports once, when it is over, and only to a call that listens.
ResultOK(x, f, q) ==
  /\ q # <<>> => x.pc = "dial"
  /\ \A i \in DOMAIN q : ~ f[q[i].address].dialing
  /\ \A i, k \in DOMAIN q : q[i].address = q[k].address => i = k

AddressOK(x) ==
  /\ x.pc \in Connected \cup {"connect"} => x.address \in Address
  /\ x.pc = "trust" /\ x.kind = "native_peer" => x.address \in Address

EventsOK(x, f, e) ==
  /\ x.pc \in Step
  /\ x.pc = "new" => e = <<>>
  /\ x.pc \notin {"new", "ended"} => e = <<"TransferStarted">>
  /\ x.pc = "ended" => e \in {<<>>, <<"TransferStarted", "TransferFailed">>,
                              <<"TransferStarted", "TransferCompleted">>}
  /\ x.kind \in Native /\ e = <<"TransferStarted", "TransferCompleted">>
       => \E a \in Address : f[a].published

Report(x, f, q, e) ==
  /\ q \in Seq(DialResult) /\ ResultOK(x, f, q)
  /\ \A a \in Address : StreamOK(x, a, f[a])
  /\ AddressOK(x) /\ EventsOK(x, f, e)

ReportTypes == results \in [Send -> Seq(DialResult)] /\ events \in [Send -> Seq(DaemonEvent)]

ReportInv ==
  /\ accepts \in [Device -> PeerPolicy \cup {Absent}] /\ lan \in LanTable /\ ReportTypes
  /\ \A s \in Send : Report(send[s], conn[s], results[s], events[s])

\* A connection that is dropped, made or ended is not spoken on more than before.
LEMMA Quieter ==
  ASSUME NEW c \in Connection
  PROVE  /\ Touched(Dropped(c)) => Touched(c)
         /\ Dropped(c).dialing = c.dialing /\ Dropped(c).published = c.published
         /\ Dropped(c).hand = c.hand /\ (Dropped(c).msg = "DoneAck" => c.msg = "DoneAck")
<1>1. CASE c.link = "up"
  <2> DEFINE d == [c EXCEPT !.link = "down", !.msg = None]
  <2>1. d.hand = c.hand /\ d.published = c.published /\ d.dialing = c.dialing /\ d.msg = None
    BY Zenon DEF Connection
  <2>2. "DoneAck" # None
    BY SendAssumption, Zenon DEF ControlMessage
  <2> QED BY <1>1, <2>1, <2>2, Zenon DEF Dropped, Touched
<1>2. CASE c.link # "up"
  BY <1>2, Zenon DEF Dropped
<1> QED BY <1>1, <1>2, Zenon

\* A call that is not on a stream goes on: nothing was said and nothing is waiting.
LEMMA ReportGoesOn ==
  ASSUME NEW x, NEW f, NEW q, NEW e, Report(x, f, q, e),
         x.pc \notin Connected \cup {"dial", "ended", "gone"},
         NEW y, NEW e2, y.pc \notin Connected \cup {"dial"}, AddressOK(y), EventsOK(y, f, e2)
  PROVE  Report(y, f, q, e2)
<1>1. q = <<>>
  BY Zenon DEF Report, ResultOK
<1>2. ResultOK(y, f, q)
  BY <1>1 DEF ResultOK
<1>3. ASSUME NEW a \in Address PROVE StreamOK(y, a, f[a])
  BY Zenon DEF Report, StreamOK
<1> QED BY <1>2, <1>3, Zenon DEF Report

\* A call ends: some of its connections are dropped, and nothing waits for it.
LEMMA ReportEnds ==
  ASSUME NEW x, NEW f \in [Address -> Connection], NEW q, NEW e, Report(x, f, q, e),
         NEW y, NEW f2, NEW e2, y.address = x.address, y.pc \in {"ended", "gone"},
         \A a \in Address : f2[a] = f[a] \/ f2[a] = Dropped(f[a]),
         EventsOK(y, f2, e2)
  PROVE  Report(y, f2, <<>>, e2)
<1>1. ResultOK(y, f2, <<>>) /\ <<>> \in Seq(DialResult)
  BY DEF ResultOK
<1>2. AddressOK(y)
  BY Zenon DEF AddressOK, Connected
<1>3. ASSUME NEW a \in Address PROVE StreamOK(y, a, f2[a])
  <2>1. f[a] \in Connection /\ StreamOK(x, a, f[a])
    BY Zenon DEF Report
  <2>2. /\ Touched(f2[a]) => Touched(f[a])
        /\ f2[a].dialing = f[a].dialing /\ f2[a].published = f[a].published
        /\ f2[a].hand = f[a].hand /\ (f2[a].msg = "DoneAck" => f[a].msg = "DoneAck")
    BY <2>1, Quieter, Zenon
  <2>3. y.pc \notin Connected
    BY Zenon DEF Connected
  <2> QED BY <2>1, <2>2, <2>3, Zenon DEF StreamOK
<1> QED BY <1>1, <1>2, <1>3, Zenon DEF Report

\* The connection at a moves on by itself.
LEMMA ReportServes ==
  ASSUME NEW x, NEW f, NEW q, NEW e, Report(x, f, q, e),
         NEW a \in Address, NEW f2, NEW q2 \in Seq(DialResult), ResultOK(x, f2, q2),
         \A b \in Address : b # a => f2[b] = f[b],
         Touched(f2[a]) => Touched(f[a]), f2[a].dialing => f[a].dialing /\ ~ Touched(f2[a]),
         f2[a].hand = "ack" \/ f2[a].msg = "DoneAck" => f2[a].published,
         f[a].published => f2[a].published
  PROVE  Report(x, f2, q2, e)
<1>1. ASSUME NEW b \in Address PROVE StreamOK(x, b, f2[b])
  <2>1. StreamOK(x, b, f[b])
    BY Zenon DEF Report
  <2> QED BY <2>1, Zenon DEF StreamOK
<1>2. EventsOK(x, f2, e)
  BY Zenon DEF Report, EventsOK
<1> QED BY <1>1, <1>2, Zenon DEF Report

\* The call chooses the connection at a and says Hello.
LEMMA ReportConnects ==
  ASSUME NEW x, NEW f \in [Address -> Connection], NEW q, NEW e, Report(x, f, q, e),
         x.pc \in {"dial", "connect"},
         NEW y, NEW f2, NEW a \in Address, y.pc = "hello", y.kind = x.kind, y.address = a,
         \A b \in Address : b # a => f2[b] = f[b] \/ f2[b] = Dropped(f[b]),
         ~ f2[a].dialing, f2[a].hand # "ack", f2[a].msg # "DoneAck"
  PROVE  Report(y, f2, <<>>, e)
<1>1. ResultOK(y, f2, <<>>) /\ <<>> \in Seq(DialResult)
  BY DEF ResultOK
<1>2. AddressOK(y) /\ EventsOK(y, f2, e)
  <2>1. e = <<"TransferStarted">>
    BY Zenon DEF Report, EventsOK
  <2>2. e # <<"TransferStarted", "TransferCompleted">>
    BY <2>1
  <2> QED BY <2>1, <2>2, Zenon DEF AddressOK, EventsOK, Step
<1>3. ASSUME NEW b \in Address PROVE StreamOK(y, b, f2[b])
  <2>1. f[b] \in Connection /\ StreamOK(x, b, f[b]) /\ ~ Touched(f[b])
    BY Zenon DEF Report, StreamOK, Connected
  <2>2. CASE b = a
    BY <2>2, Zenon DEF StreamOK, Connected
  <2>3. CASE b # a
    <3>1. /\ ~ Touched(f2[b]) /\ f2[b].published = f[b].published
          /\ f2[b].hand = f[b].hand /\ (f2[b].msg = "DoneAck" => f[b].msg = "DoneAck")
      BY <2>1, <2>3, Quieter, ZenonT(40)
    <3> QED BY <2>1, <2>3, <3>1, Zenon DEF StreamOK
  <2> QED BY <2>2, <2>3, Zenon
<1> QED BY <1>1, <1>2, <1>3, Zenon DEF Report

\* The call answers on the connection it has chosen.
LEMMA ReportAnswers ==
  ASSUME NEW x, NEW f, NEW q, NEW e, Report(x, f, q, e), x.pc \in Connected,
         NEW y, NEW f2, y.pc \in Connected, y.kind = x.kind, y.address = x.address,
         \A b \in Address : b # x.address => f2[b] = f[b],
         LET a == x.address IN
           /\ f2[a].dialing = f[a].dialing /\ f2[a].hand = f[a].hand
           /\ f2[a].published = f[a].published /\ f2[a].msg # "DoneAck"
  PROVE  Report(y, f2, q, e)
<1>1. q = <<>> /\ x.address \in Address
  BY Zenon DEF Report, ResultOK, AddressOK, Connected
<1>2. ResultOK(y, f2, q)
  BY <1>1 DEF ResultOK
<1>3. AddressOK(y)
  BY <1>1, Zenon DEF AddressOK, Connected
<1>4. EventsOK(y, f2, e)
  <2>1. e = <<"TransferStarted">> /\ e # <<"TransferStarted", "TransferCompleted">>
    <3>1. e = <<"TransferStarted">>
      BY Zenon DEF Report, EventsOK, Connected
    <3> QED BY <3>1
  <2> QED BY <2>1, Zenon DEF EventsOK, Connected, Step
<1>5. ASSUME NEW b \in Address PROVE StreamOK(y, b, f2[b])
  <2>1. StreamOK(x, b, f[b])
    BY Zenon DEF Report
  <2>2. CASE b = x.address
    BY <2>1, <2>2, Zenon DEF StreamOK
  <2>3. CASE b # x.address
    BY <2>1, <2>3, Zenon DEF StreamOK
  <2> QED BY <2>2, <2>3, Zenon
<1> QED BY <1>1, <1>2, <1>3, <1>4, <1>5, Zenon DEF Report

\* What the others of a step on call s are: untouched.
Only(s) ==
  \A t \in Send \ {s} : /\ send'[t] = send[t] /\ conn'[t] = conn[t]
                        /\ results'[t] = results[t] /\ events'[t] = events[t]

Reports(s) ==
  ReportTypes' /\ Only(s) /\ Report(send'[s], conn'[s], results'[s], events'[s])

\* An element after another one.
LEMMA Appended ==
  ASSUME NEW S, NEW x \in S, NEW d \in S
  PROVE  Append(<<x>>, d) = <<x, d>>
<1>1. <<x>> \in Seq(S) /\ Len(<<x>>) = 1 /\ <<x, d>> \in Seq(S) /\ Len(<<x, d>>) = 2
  OBVIOUS
<1>2. /\ Append(<<x>>, d) \in Seq(S) /\ Len(Append(<<x>>, d)) = 2
      /\ Append(<<x>>, d)[1] = x /\ Append(<<x>>, d)[2] = d
  BY <1>1
<1>3. <<x, d>>[1] = x /\ <<x, d>>[2] = d
  OBVIOUS
<1>4. ASSUME NEW s \in Seq(S), NEW t \in Seq(S), Len(s) = 2, Len(t) = 2, s[1] = t[1], s[2] = t[2]
      PROVE  s = t
  BY <1>4
<1> QED BY <1>1, <1>2, <1>3, <1>4, Zenon

\* The events of a call that fails, completes or goes on.
LEMMA EventCases ==
  ASSUME NEW x, NEW f, NEW e, EventsOK(x, f, e), x.pc \notin {"new", "ended"}
  PROVE  /\ e = <<"TransferStarted">> /\ e \in Seq(DaemonEvent)
         /\ Append(e, "TransferFailed") = <<"TransferStarted", "TransferFailed">>
         /\ Append(e, "TransferCompleted") = <<"TransferStarted", "TransferCompleted">>
         /\ Append(e, "TransferFailed") \in Seq(DaemonEvent)
         /\ Append(e, "TransferCompleted") \in Seq(DaemonEvent)
         /\ \A g, y : y.pc \in Step \ {"new", "ended"} => EventsOK(y, g, e)
         /\ \A g, y : y.pc = "ended" => EventsOK(y, g, <<"TransferStarted", "TransferFailed">>)
<1>1. e = <<"TransferStarted">>
  BY Zenon DEF EventsOK
<1>a. \A d \in DaemonEvent : <<"TransferStarted">> \in Seq(DaemonEvent) /\ <<"TransferStarted", d>> \in Seq(DaemonEvent)
  BY DEF DaemonEvent
<1>b. \A d \in DaemonEvent : Append(<<"TransferStarted">>, d) = <<"TransferStarted", d>>
  BY Appended, ZenonT(40) DEF DaemonEvent
<1>2. /\ e \in Seq(DaemonEvent)
      /\ Append(e, "TransferFailed") = <<"TransferStarted", "TransferFailed">>
      /\ Append(e, "TransferCompleted") = <<"TransferStarted", "TransferCompleted">>
      /\ Append(e, "TransferFailed") \in Seq(DaemonEvent)
      /\ Append(e, "TransferCompleted") \in Seq(DaemonEvent)
  BY <1>1, <1>a, <1>b, Zenon DEF DaemonEvent
<1>3. /\ <<"TransferStarted">> # <<"TransferStarted", "TransferCompleted">>
      /\ <<"TransferStarted", "TransferFailed">> # <<"TransferStarted", "TransferCompleted">>
  OBVIOUS
<1>4. \A g, y : y.pc \in Step \ {"new", "ended"} => EventsOK(y, g, e)
  BY <1>1, <1>3, Zenon DEF EventsOK
<1>5. \A g, y : y.pc = "ended" => EventsOK(y, g, <<"TransferStarted", "TransferFailed">>)
  BY <1>3, Zenon DEF EventsOK, Step
<1> QED BY <1>1, <1>2, <1>4, <1>5, Zenon

\* What is assigned to the events of a call.
LEMMA EventsSet ==
  ASSUME ReportTypes, NEW s \in Send, NEW e \in Seq(DaemonEvent), events' = [events EXCEPT ![s] = e]
  PROVE  /\ events' \in [Send -> Seq(DaemonEvent)] /\ events'[s] = e
         /\ \A t \in Send \ {s} : events'[t] = events[t]
BY Zenon DEF ReportTypes

\* What is assigned to the results that wait for a call.
LEMMA ResultsSet ==
  ASSUME ReportTypes, NEW s \in Send, NEW q \in Seq(DialResult), results' = [results EXCEPT ![s] = q]
  PROVE  /\ results' \in [Send -> Seq(DialResult)] /\ results'[s] = q
         /\ \A t \in Send \ {s} : results'[t] = results[t]
BY Zenon DEF ReportTypes

\* What is assigned to the connections of a call, and to one of them.
LEMMA LinksSet ==
  ASSUME Types, NEW s \in Send, NEW f \in [Address -> Connection], conn' = [conn EXCEPT ![s] = f]
  PROVE  conn'[s] = f /\ \A t \in Send \ {s} : conn'[t] = conn[t]
BY Zenon DEF Types

\* One connection of a call is set.
LEMMA LinkSet ==
  ASSUME Types, NEW s \in Send, NEW a \in Address, NEW c, SetConn(s, a, c)
  PROVE  /\ conn'[s][a] = c /\ \A b \in Address : b # a => conn'[s][b] = conn[s][b]
         /\ \A t \in Send \ {s} : conn'[t] = conn[t]
BY Zenon DEF Types, SetConn

\* A call that fails where it is, or is left.
LEMMA FailReports ==
  ASSUME SendInv, ReportInv, NEW s \in Send, Fail(s), send[s].pc \notin {"new", "ended"},
         \A a \in Address : conn'[s][a] = conn[s][a] \/ conn'[s][a] = Dropped(conn[s][a]),
         \A t \in Send \ {s} : conn'[t] = conn[t] /\ results'[t] = results[t],
         results' \in [Send -> Seq(DialResult)], results'[s] = <<>>
  PROVE  Reports(s)
<1>1. Calls /\ Types /\ conn[s] \in [Address -> Connection] /\ ReportTypes
  BY Zenon DEF SendInv, Types, ReportInv
<1>2. Report(send[s], conn[s], results[s], events[s])
  BY Zenon DEF ReportInv
<1>3. /\ Keeps(s) /\ send'[s].pc = "ended" /\ send'[s].address = send[s].address
      /\ \A t \in Send : t # s => send'[t] = send[t]
  BY <1>1, CallGoes, Zenon DEF Fail, Terminal
<1> DEFINE e2 == Append(events[s], "TransferFailed")
<1>4. EventsOK(send[s], conn[s], events[s])
  BY <1>2, Zenon DEF Report
<1>5. e2 \in Seq(DaemonEvent) /\ e2 = <<"TransferStarted", "TransferFailed">>
  BY <1>4, EventCases, Zenon
<1>6. events' = [events EXCEPT ![s] = e2]
  BY Zenon DEF Fail, Terminal
<1> HIDE DEF e2
<1>7. /\ events' \in [Send -> Seq(DaemonEvent)] /\ events'[s] = e2
      /\ \A t \in Send \ {s} : events'[t] = events[t]
  BY <1>1, <1>5, <1>6, EventsSet, Zenon
<1>8. PICK y, f2 : y = send'[s] /\ f2 = conn'[s]
  BY Zenon
<1>9. EventsOK(y, f2, <<"TransferStarted", "TransferFailed">>)
  BY <1>3, <1>4, <1>8, EventCases, Zenon
<1>10. Report(y, f2, <<>>, e2)
  BY <1>1, <1>2, <1>3, <1>5, <1>8, <1>9, ReportEnds, Zenon
<1> QED BY <1>3, <1>7, <1>8, <1>10, Zenon DEF Reports, Only, ReportTypes

\* A call off any stream goes on, with no second event.
LEMMA MoveReports ==
  ASSUME SendInv, ReportInv, NEW s \in Send, UNCHANGED <<conn, results>>,
         send[s].pc \notin Connected \cup {"dial", "ended", "gone"},
         send'[s].pc \notin Connected \cup {"dial"},
         \A t \in Send : t # s => send'[t] = send[t],
         AddressOK(send'[s]), EventsOK(send'[s], conn[s], events'[s]),
         events' \in [Send -> Seq(DaemonEvent)], \A t \in Send \ {s} : events'[t] = events[t]
  PROVE  Reports(s)
<1>1. Report(send[s], conn[s], results[s], events[s]) /\ ReportTypes
  BY Zenon DEF ReportInv
<1>2. PICK y, e2 : y = send'[s] /\ e2 = events'[s]
  BY Zenon
<1>3. Report(y, conn[s], results[s], e2)
  BY <1>1, <1>2, ReportGoesOn, Zenon
<1> QED BY <1>1, <1>2, <1>3, Zenon DEF Reports, Only, ReportTypes

\* A call that fails and leaves the connections as they are.
LEMMA FailsHere ==
  ASSUME SendInv, ReportInv, NEW s \in Send, Fail(s), send[s].pc \notin {"new", "ended", "dial"},
         UNCHANGED <<conn, results>>
  PROVE  Reports(s)
<1>1. results \in [Send -> Seq(DialResult)] /\ Report(send[s], conn[s], results[s], events[s])
  BY Zenon DEF ReportInv, ReportTypes
<1>2. results[s] = <<>>
  BY <1>1, Zenon DEF Report, ResultOK
<1> QED BY <1>1, <1>2, FailReports, Zenon

\* A call off any stream goes on, and emits nothing.
LEMMA QuietReports ==
  ASSUME SendInv, ReportInv, NEW s \in Send, UNCHANGED <<conn, results, events>>,
         send[s].pc \in Step \ (Connected \cup {"new", "dial", "ended", "gone"}),
         send'[s].pc \in Step \ (Connected \cup {"new", "dial", "ended"}),
         \A t \in Send : t # s => send'[t] = send[t], AddressOK(send'[s])
  PROVE  Reports(s)
<1>1. Report(send[s], conn[s], results[s], events[s]) /\ ReportTypes
  BY Zenon DEF ReportInv
<1>2. EventsOK(send[s], conn[s], events[s])
  BY <1>1, Zenon DEF Report
<1>3. PICK y : y = send'[s]
  BY Zenon
<1>4. EventsOK(y, conn[s], events[s])
  BY <1>2, <1>3, EventCases, Zenon
<1> QED BY <1>1, <1>3, <1>4, MoveReports, Zenon DEF ReportTypes

\* The steps of a call that leave the connections alone.
LEMMA StartReports ==
  ASSUME SendInv, ReportInv, NEW s \in Send, send_files(s)
  PROVE  Reports(s)
<1>1. Calls /\ ReportTypes /\ send[s].pc = "new" /\ UNCHANGED <<conn, results>>
  BY Zenon DEF SendInv, Types, send_files, NoConnectionChange, connectionVars, ReportInv
<1>2. Report(send[s], conn[s], results[s], events[s]) /\ events[s] = <<>>
  BY <1>1, Zenon DEF ReportInv, Report, EventsOK
<1>3. /\ <<>> # <<"TransferStarted", "TransferCompleted">>
      /\ <<"TransferStarted">> # <<"TransferStarted", "TransferCompleted">>
      /\ <<"TransferStarted", "TransferFailed">> # <<"TransferStarted", "TransferCompleted">>
  OBVIOUS
<1>4. CASE Go(s, "ended") /\ UNCHANGED events
  <2>1. send'[s].pc = "ended" /\ \A t \in Send : t # s => send'[t] = send[t]
    BY <1>1, <1>4, CallGoes, Zenon DEF Go
  <2>2. AddressOK(send'[s]) /\ EventsOK(send'[s], conn[s], events'[s])
    BY <1>2, <1>3, <1>4, <2>1, Zenon DEF AddressOK, EventsOK, Step, Connected
  <2> QED BY <1>1, <1>4, <2>1, <2>2, MoveReports, Zenon DEF Connected, ReportTypes
<1>5. CASE ~ (Go(s, "ended") /\ UNCHANGED events)
  <2>1. PICK t \in Target :
          LET first == CASE t.kind = "localsend_url"  -> "client"
                         [] t.kind = "native_url"     -> "ended"
                         [] t.kind = "native_peer"    -> "discover"
                         [] t.kind = "localsend_peer" -> "scan"
                         [] t.kind = "wan_peer"       -> "trust"
          IN /\ send' = [send EXCEPT ![s] =
                  [pc |-> first, kind |-> t.kind, ref |-> t.ref, cert |-> None, address |-> None,
                   peer |-> IF t.kind = "wan_peer" THEN t.ref.id ELSE None]]
             /\ events' = [events EXCEPT ![s] =
                  IF first = "ended" THEN <<"TransferStarted", "TransferFailed">>
                                     ELSE <<"TransferStarted">>]
    BY <1>5, Zenon DEF send_files
  <2> DEFINE first == CASE t.kind = "localsend_url"  -> "client"
                        [] t.kind = "native_url"     -> "ended"
                        [] t.kind = "native_peer"    -> "discover"
                        [] t.kind = "localsend_peer" -> "scan"
                        [] t.kind = "wan_peer"       -> "trust"
             peer == IF t.kind = "wan_peer" THEN t.ref.id ELSE None
             x == [pc |-> first, kind |-> t.kind, ref |-> t.ref, cert |-> None, address |-> None,
                   peer |-> peer]
             e2 == IF first = "ended" THEN <<"TransferStarted", "TransferFailed">>
                                      ELSE <<"TransferStarted">>
  <2>2. send' = [send EXCEPT ![s] = x] /\ events' = [events EXCEPT ![s] = e2]
    BY <2>1, Zenon
  <2>3. /\ first \in {"client", "ended", "discover", "scan", "trust"}
        /\ first = "trust" => t.kind # "native_peer"
    BY SendAssumption DEF Kind
  <2> HIDE DEF first, peer
  <2>4. /\ x = [pc |-> x.pc, kind |-> x.kind, ref |-> x.ref, cert |-> x.cert,
                address |-> x.address, peer |-> x.peer]
        /\ x.pc = first /\ x.kind = t.kind
    BY Zenon
  <2>5. e2 \in Seq(DaemonEvent)
    <3>1. <<"TransferStarted">> \in Seq(DaemonEvent) /\ <<"TransferStarted", "TransferFailed">> \in Seq(DaemonEvent)
      BY DEF DaemonEvent
    <3> QED BY <3>1, Zenon
  <2>6. AddressOK(x) /\ EventsOK(x, conn[s], e2)
    <3> HIDE DEF x
    <3>1. first \notin Connected \cup {"connect", "new"} /\ first \in Step
      BY <2>3, Zenon DEF Connected, Step
    <3> QED BY <1>3, <2>3, <2>4, <3>1, Zenon DEF AddressOK, EventsOK
  <2> HIDE DEF x, e2
  <2>7. send'[s] = x /\ \A z \in Send : z # s => send'[z] = send[z]
    BY <1>1, <2>2, <2>4, CallSet, Zenon
  <2>8. /\ events' \in [Send -> Seq(DaemonEvent)] /\ events'[s] = e2
        /\ \A z \in Send \ {s} : events'[z] = events[z]
    BY <1>1, <2>2, <2>5, EventsSet, Zenon
  <2>9. send'[s].pc \notin Connected \cup {"dial"}
    BY <2>3, <2>4, <2>7, Zenon DEF Connected
  <2> QED BY <1>1, <2>6, <2>7, <2>8, <2>9, MoveReports, ZenonT(40) DEF Connected
<1> QED BY <1>4, <1>5, Zenon

\* discover_peer fails, or has found an address.
LEMMA DiscoverReports ==
  ASSUME SendInv, ReportInv, NEW s \in Send, discover_peer(s)
  PROVE  Reports(s)
<1>1. Calls /\ heard \subseteq Advert /\ send[s].pc = "discover" /\ UNCHANGED <<conn, results>>
  BY Zenon DEF SendInv, Types, discover_peer, NoConnectionChange, connectionVars
<1>2. CASE Fail(s)
  BY <1>1, <1>2, FailsHere, Zenon
<1>3. CASE ~ Fail(s)
  <2>0. PICK found \in discover(heard) : \E a \in resolve_peer_ref(found, send[s].ref) :
          Learn(s, "trust", a.cert, a.address, a.peer) /\ UNCHANGED events
    BY <1>3, Zenon DEF discover_peer
  <2>1. PICK a \in resolve_peer_ref(found, send[s].ref) :
          Learn(s, "trust", a.cert, a.address, a.peer) /\ UNCHANGED events
    BY <2>0, Zenon
  <2>2. a \in Advert
    BY <1>1, Zenon DEF discover, recv_resolved_all, resolve_peer_ref, matches
  <2>3. a.address \in Address
    BY <2>2, Zenon DEF Advert
  <2>4. /\ send'[s].pc = "trust" /\ send'[s].address = a.address
        /\ \A t \in Send : t # s => send'[t] = send[t]
    BY <1>1, <2>1, CallLearns
  <2>5. AddressOK(send'[s])
    BY <2>3, <2>4, Zenon DEF AddressOK
  <2> QED BY <1>1, <2>1, <2>4, <2>5, QuietReports, Zenon DEF Step, Connected
<1> QED BY <1>2, <1>3, Zenon

\* read_trust fails, or goes on to connect or to the rendezvous server.
LEMMA TrustReports ==
  ASSUME SendInv, ReportInv, NEW s \in Send, read_trust(s)
  PROVE  Reports(s)
<1>1. Calls /\ CallInv(s) /\ send[s].pc = "trust" /\ UNCHANGED <<conn, results>>
  BY Zenon DEF SendInv, Types, read_trust, NoConnectionChange, connectionVars
<1>2. CASE Fail(s)
  BY <1>1, <1>2, FailsHere, Zenon
<1>3. CASE ~ Fail(s)
  <2> DEFINE cert == native_wan_certificate_fingerprint(peers[send[s].peer])
             next == IF send[s].kind = "wan_peer" THEN "lookup" ELSE "connect"
  <2>1. Learn(s, next, cert, send[s].address, send[s].peer) /\ UNCHANGED events
    BY <1>3, Zenon DEF read_trust
  <2>2. next \in {"lookup", "connect"} /\ (next = "connect" => send[s].kind = "native_peer")
    BY <1>1 DEF CallInv, Native
  <2>3. AddressOK(send[s])
    BY Zenon DEF ReportInv, Report
  <2> HIDE DEF cert, next
  <2>4. /\ send'[s].pc = next /\ send'[s].address = send[s].address
        /\ \A t \in Send : t # s => send'[t] = send[t]
    BY <1>1, <2>1, CallLearns
  <2>5. AddressOK(send'[s])
    BY <1>1, <2>2, <2>3, <2>4, Zenon DEF AddressOK, Connected
  <2> QED BY <1>1, <2>1, <2>2, <2>4, <2>5, QuietReports, Zenon DEF Step, Connected
<1> QED BY <1>2, <1>3, Zenon

\* localsend_client reports nothing.
LEMMA ClientReports ==
  ASSUME SendInv, ReportInv, NEW s \in Send, localsend_client(s)
  PROVE  Reports(s)
<1>1. Calls /\ send[s].pc = "client" /\ UNCHANGED <<conn, results, events>>
  BY Zenon DEF SendInv, Types, localsend_client, NoConnectionChange, connectionVars
<1>2. send'[s].pc \in {"gone", "prepare"} /\ \A t \in Send : t # s => send'[t] = send[t]
  <2>1. CASE Go(s, "gone")
    BY <1>1, <2>1, CallGoes, Zenon DEF Go
  <2>2. CASE Learn(s, "prepare", send[s].cert, send[s].ref.id, send[s].peer)
    BY <1>1, <2>2, CallLearns
  <2> QED BY <2>1, <2>2, Zenon DEF localsend_client
<1>3. AddressOK(send'[s])
  BY <1>2, Zenon DEF AddressOK, Connected
<1> QED BY <1>1, <1>2, <1>3, QuietReports, Zenon DEF Step, Connected

\* resolve_lan fails, or goes on to the upload.
LEMMA ScanReports ==
  ASSUME SendInv, ReportInv, NEW s \in Send, resolve_lan(s)
  PROVE  Reports(s)
<1>1. Calls /\ send[s].pc = "scan" /\ UNCHANGED <<conn, results>>
  BY Zenon DEF SendInv, Types, resolve_lan, NoConnectionChange, connectionVars
<1>2. CASE Fail(s)
  BY <1>1, <1>2, FailsHere, Zenon
<1>3. CASE ~ Fail(s)
  <2>1. PICK c : Learn(s, "prepare", c, lan'[c], send[s].peer) /\ UNCHANGED events
    BY <1>3, Zenon DEF resolve_lan
  <2>2. send'[s].pc = "prepare" /\ \A t \in Send : t # s => send'[t] = send[t]
    BY <1>1, <2>1, CallLearns
  <2>3. AddressOK(send'[s])
    BY <2>2, Zenon DEF AddressOK, Connected
  <2> QED BY <1>1, <2>1, <2>2, <2>3, QuietReports, Zenon DEF Step, Connected
<1> QED BY <1>2, <1>3, Zenon

\* The LocalSend upload goes on, fails or completes.
LEMMA UploadReports ==
  ASSUME SendInv, ReportInv, NEW s \in Send, localsend_send_files_to_url(s)
  PROVE  Reports(s)
<1>1. /\ Calls /\ CallInv(s) /\ send[s].pc \in {"prepare", "upload"} /\ UNCHANGED <<conn, results>>
      /\ ReportTypes
  BY Zenon DEF SendInv, Types, localsend_send_files_to_url, NoConnectionChange, connectionVars,
               ReportInv
<1>2. CASE Fail(s)
  BY <1>1, <1>2, FailsHere, Zenon
<1>3. CASE /\ Learn(s, "upload", send[s].cert, send[s].address, at[send[s].address])
           /\ UNCHANGED events
  <2>1. send'[s].pc = "upload" /\ \A t \in Send : t # s => send'[t] = send[t]
    BY <1>1, <1>3, CallLearns
  <2>2. AddressOK(send'[s])
    BY <2>1, Zenon DEF AddressOK, Connected
  <2> QED BY <1>1, <1>3, <2>1, <2>2, QuietReports, Zenon DEF Step, Connected
<1>4. CASE Terminal(s, "TransferCompleted")
  <2>1. /\ send'[s].pc = "ended" /\ send'[s].kind = send[s].kind
        /\ \A t \in Send : t # s => send'[t] = send[t]
    BY <1>1, <1>4, CallGoes, Zenon DEF Terminal, Keeps
  <2>2. send[s].kind \notin Native
    BY <1>1 DEF CallInv, Native
  <2>3. EventsOK(send[s], conn[s], events[s])
    BY Zenon DEF ReportInv, Report
  <2> DEFINE e2 == Append(events[s], "TransferCompleted")
  <2>4. e2 \in Seq(DaemonEvent) /\ e2 = <<"TransferStarted", "TransferCompleted">>
    BY <1>1, <2>3, EventCases, Zenon
  <2>5. events' = [events EXCEPT ![s] = e2]
    BY <1>4, Zenon DEF Terminal
  <2> HIDE DEF e2
  <2>6. /\ events' \in [Send -> Seq(DaemonEvent)] /\ events'[s] = e2
        /\ \A t \in Send \ {s} : events'[t] = events[t]
    BY <1>1, <2>4, <2>5, EventsSet, Zenon
  <2>7. AddressOK(send'[s]) /\ EventsOK(send'[s], conn[s], events'[s])
    BY <2>1, <2>2, <2>4, <2>6, Zenon DEF AddressOK, EventsOK, Connected, Step
  <2> QED BY <1>1, <2>1, <2>6, <2>7, MoveReports, Zenon DEF Connected
<1> QED BY <1>2, <1>3, <1>4, Zenon DEF localsend_send_files_to_url

\* The steps of a call on its connections.
LEMMA LookupReports ==
  ASSUME SendInv, ReportInv, NEW s \in Send, lookup(s)
  PROVE  Reports(s)
<1>1. Types /\ Calls /\ send[s].pc = "lookup" /\ ReportTypes
  BY Zenon DEF SendInv, Types, lookup, ReportInv
<1>2. CASE Fail(s) /\ UNCHANGED <<conn, results>>
  BY <1>1, <1>2, FailsHere, Zenon
<1>3. CASE ~ (Fail(s) /\ UNCHANGED <<conn, results>>)
  <2>1. PICK cands : dial_candidates(s, cands) /\ Go(s, "dial") /\ UNCHANGED events
    BY <1>3, Zenon DEF lookup
  <2> DEFINE f == [a \in Address |-> [NoConnection EXCEPT !.dialing = a \in cands]]
  <2>2. conn' = [conn EXCEPT ![s] = f] /\ results' = [results EXCEPT ![s] = <<>>]
    BY <2>1, Zenon DEF dial_candidates
  <2>3. ASSUME NEW a \in Address
        PROVE  /\ f[a] \in Connection /\ f[a].hand = "none" /\ f[a].published = FALSE
               /\ f[a].msg = None
    <3>1. \A b \in BOOLEAN : LET d == [NoConnection EXCEPT !.dialing = b] IN
            d \in Connection /\ d.hand = "none" /\ d.published = FALSE /\ d.msg = None
      BY Zenon DEF NoConnection, Connection
    <3>2. (a \in cands) \in BOOLEAN
      OBVIOUS
    <3>3. PICK b \in BOOLEAN : b = (a \in cands)
      BY <3>2, Zenon
    <3>4. f[a] = [NoConnection EXCEPT !.dialing = b]
      BY <3>3, Zenon
    <3> HIDE DEF f
    <3> QED BY <3>1, <3>4, Zenon
  <2>4. f \in [Address -> Connection]
    BY <2>3, Zenon
  <2> HIDE DEF f
  <2>5. /\ send'[s].pc = "dial" /\ \A t \in Send : t # s => send'[t] = send[t]
    BY <1>1, <2>1, CallGoes, Zenon DEF Go
  <2>6. conn'[s] = f /\ \A t \in Send \ {s} : conn'[t] = conn[t]
    BY <1>1, <2>2, <2>4, LinksSet, Zenon
  <2>7. /\ results' \in [Send -> Seq(DialResult)] /\ results'[s] = <<>>
        /\ \A t \in Send \ {s} : results'[t] = results[t]
    <3>1. <<>> \in Seq(DialResult)
      OBVIOUS
    <3> QED BY <1>1, <2>2, <3>1, ResultsSet, Zenon
  <2>8. PICK y : y = send'[s]
    BY Zenon
  <2>9. Report(y, f, <<>>, events[s])
    <3>1. ResultOK(y, f, <<>>) /\ <<>> \in Seq(DialResult)
      BY DEF ResultOK
    <3>2. EventsOK(send[s], conn[s], events[s])
      BY Zenon DEF ReportInv, Report
    <3>3. EventsOK(y, f, events[s])
      BY <1>1, <2>5, <2>8, <3>2, EventCases, Zenon DEF Step
    <3>4. AddressOK(y)
      BY <2>5, <2>8, Zenon DEF AddressOK, Connected
    <3>5. None # "DoneAck"
      BY SendAssumption, Zenon DEF ControlMessage
    <3>6. ASSUME NEW a \in Address PROVE StreamOK(y, a, f[a])
      BY <2>3, <2>5, <2>8, <3>5, Zenon DEF StreamOK, Touched, Connected
    <3> QED BY <3>1, <3>3, <3>4, <3>6, Zenon DEF Report
  <2> QED BY <1>1, <2>1, <2>5, <2>6, <2>7, <2>8, <2>9, Zenon DEF Reports, Only, ReportTypes
<1> QED BY <1>2, <1>3, Zenon

\* The first of the results that wait.
LEMMA FirstResult ==
  ASSUME NEW q \in Seq(DialResult), q # <<>>, NEW x, NEW f, ResultOK(x, f, q)
  PROVE  /\ Head(q).address \in Address /\ Head(q).ok \in BOOLEAN /\ ~ f[Head(q).address].dialing
         /\ Tail(q) \in Seq(DialResult) /\ (Len(q) = 1 => Tail(q) = <<>>)
         /\ ResultOK(x, f, Tail(q))
<1>1. /\ 1 \in DOMAIN q /\ Head(q) = q[1] /\ q[1] \in DialResult /\ Tail(q) \in Seq(DialResult)
      /\ (Len(q) = 1 => Tail(q) = <<>>)
      /\ \A i \in DOMAIN Tail(q) : i + 1 \in DOMAIN q /\ Tail(q)[i] = q[i + 1]
      /\ \A i, k \in DOMAIN Tail(q) : i + 1 = k + 1 => i = k
  <2>1. 1 \in DOMAIN q /\ Head(q) = q[1] /\ q[1] \in DialResult /\ Tail(q) \in Seq(DialResult)
    OBVIOUS
  <2>2. ASSUME Len(q) = 1 PROVE Tail(q) = <<>>
    <3>1. Tail(q) \in Seq(DialResult) /\ Len(Tail(q)) = 0
      BY <2>2
    <3>2. \A p \in Seq(DialResult) : Len(p) = 0 => p = <<>>
      OBVIOUS
    <3> QED BY <3>1, <3>2, Zenon
  <2>3. ASSUME NEW i \in DOMAIN Tail(q) PROVE i + 1 \in DOMAIN q /\ Tail(q)[i] = q[i + 1]
    OBVIOUS
  <2>4. \A i, k \in DOMAIN Tail(q) : i + 1 = k + 1 => i = k
    OBVIOUS
  <2> QED BY <2>1, <2>2, <2>3, <2>4, Zenon
<1>2. Head(q).address \in Address /\ Head(q).ok \in BOOLEAN
  BY <1>1, Zenon DEF DialResult
<1>3. ~ f[Head(q).address].dialing
  BY <1>1, Zenon DEF ResultOK
<1>4. ResultOK(x, f, Tail(q))
  <2>1. ASSUME NEW i \in DOMAIN Tail(q) PROVE ~ f[Tail(q)[i].address].dialing
    BY <1>1, Zenon DEF ResultOK
  <2>2. ASSUME NEW i \in DOMAIN Tail(q), NEW k \in DOMAIN Tail(q), Tail(q)[i].address = Tail(q)[k].address
        PROVE  i = k
    <3>1. i + 1 \in DOMAIN q /\ k + 1 \in DOMAIN q /\ q[i + 1].address = q[k + 1].address
      BY <1>1, <2>2, Zenon
    <3>2. i + 1 = k + 1
      BY <3>1, Zenon DEF ResultOK
    <3> QED BY <1>1, <3>2, Zenon
  <2> QED BY <2>1, <2>2, Zenon DEF ResultOK
<1> QED BY <1>1, <1>2, <1>3, <1>4, Zenon

\* rx_recv takes a result: the call has its connection, waits for the next result,
\* or fails after the last.
LEMMA DialedReports ==
  ASSUME SendInv, ReportInv, NEW s \in Send, rx_recv(s)
  PROVE  Reports(s)
<1>1. /\ Types /\ Calls /\ ReportTypes /\ send[s].pc = "dial" /\ results[s] # <<>>
      /\ conn[s] \in [Address -> Connection] /\ results[s] \in Seq(DialResult)
  BY Zenon DEF SendInv, Types, rx_recv, ReportInv, ReportTypes
<1>2. Report(send[s], conn[s], results[s], events[s])
  BY Zenon DEF ReportInv
<1> DEFINE r == Head(results[s])
           rest == Tail(results[s])
<1>3. /\ r.address \in Address /\ r.ok \in BOOLEAN /\ ~ conn[s][r.address].dialing
      /\ rest \in Seq(DialResult) /\ (Len(results[s]) = 1 => rest = <<>>)
      /\ ResultOK(send[s], conn[s], rest)
  BY <1>1, <1>2, FirstResult, Zenon DEF Report
<1>4. CASE r.ok
  <2> DEFINE f == [a \in Address |->
                     IF a = r.address THEN Uses(conn[s][a])
                     ELSE IF conn[s][a].dialing THEN conn[s][a] ELSE Dropped(conn[s][a])]
             to == r.address
  <2>1. conn' = [conn EXCEPT ![s] = f]
    BY <1>1, <1>4, Zenon DEF rx_recv, Types
  <2>2. results' = [results EXCEPT ![s] = <<>>] /\ UNCHANGED events
    BY <1>4, Zenon DEF rx_recv
  <2>3. Learn(s, "hello", send[s].cert, to, send[s].peer)
    BY <1>4, Zenon DEF rx_recv
  <2>4. ASSUME NEW a \in Address PROVE f[a] \in Connection
    BY <1>1, UsesFields, DroppedFields, Zenon DEF Uses, ControlMessage
  <2>5. f \in [Address -> Connection] /\ \A a \in Address : a # to => f[a] = conn[s][a] \/ f[a] = Dropped(conn[s][a])
    BY <2>4, Zenon
  <2>6. ~ f[to].dialing /\ f[to].hand # "ack" /\ f[to].msg # "DoneAck"
    <3>1. f[to] = [conn[s][to] EXCEPT !.msg = "Hello"] /\ conn[s][to] \in Connection
      BY <1>1, <1>3, Zenon DEF Uses
    <3>2. ~ Touched(conn[s][to])
      BY <1>1, <1>2, <1>3, Zenon DEF Report, StreamOK, Connected
    <3>3. /\ f[to].dialing = conn[s][to].dialing /\ f[to].hand = conn[s][to].hand
          /\ f[to].msg = "Hello"
      <4>1. ASSUME NEW c \in Connection
            PROVE  LET d == [c EXCEPT !.msg = "Hello"]
                   IN  d.dialing = c.dialing /\ d.hand = c.hand /\ d.msg = "Hello"
        BY Zenon DEF Connection
      <4> HIDE DEF f, to
      <4> QED BY <3>1, <4>1, Zenon
    <3> QED BY <1>3, <3>2, <3>3, Zenon DEF Touched
  <2>7. to \in Address
    BY <1>3
  <2> HIDE DEF f, to, r
  <2>8. /\ send'[s].pc = "hello" /\ send'[s].kind = send[s].kind /\ send'[s].address = to
        /\ \A t \in Send : t # s => send'[t] = send[t]
    BY <1>1, <2>3, CallLearns
  <2>9. conn'[s] = f /\ \A t \in Send \ {s} : conn'[t] = conn[t]
    BY <1>1, <2>1, <2>5, LinksSet, Zenon
  <2>10. /\ results' \in [Send -> Seq(DialResult)] /\ results'[s] = <<>>
         /\ \A t \in Send \ {s} : results'[t] = results[t]
    <3>1. <<>> \in Seq(DialResult)
      OBVIOUS
    <3> QED BY <1>1, <2>2, <3>1, ResultsSet, Zenon
  <2>11. PICK y : y = send'[s]
    BY Zenon
  <2>12. Report(y, f, <<>>, events[s])
    <3>1. /\ send[s].pc \in {"dial", "connect"} /\ y.pc = "hello" /\ y.kind = send[s].kind
          /\ y.address = to
      BY <1>1, <2>8, <2>11, Zenon
    <3>2. PICK x0, f0, a0, f1 : x0 = send[s] /\ f0 = conn[s] /\ a0 = to /\ f1 = f
      BY Zenon
    <3>3. /\ f0 \in [Address -> Connection] /\ Report(x0, f0, results[s], events[s])
          /\ x0.pc \in {"dial", "connect"} /\ a0 \in Address
          /\ y.pc = "hello" /\ y.kind = x0.kind /\ y.address = a0
          /\ \A b \in Address : b # a0 => f1[b] = f0[b] \/ f1[b] = Dropped(f0[b])
          /\ ~ f1[a0].dialing /\ f1[a0].hand # "ack" /\ f1[a0].msg # "DoneAck"
      BY <1>1, <1>2, <2>5, <2>6, <2>7, <3>1, <3>2, Zenon
    <3>4. Report(y, f1, <<>>, events[s])
      BY <3>3, ReportConnects, Zenon
    <3> QED BY <3>2, <3>4, Zenon
  <2> QED BY <1>1, <2>2, <2>8, <2>9, <2>10, <2>11, <2>12, ZenonT(40) DEF Reports, Only, ReportTypes
<1>5. CASE ~ r.ok
  <2>1. results' = [results EXCEPT ![s] = rest] /\ UNCHANGED conn
    BY <1>1, <1>5, Zenon DEF rx_recv, ReportTypes
  <2>2. \/ Len(results[s]) = 1 /\ Fail(s)
        \/ UNCHANGED <<send, events>>
    BY <1>5, Zenon DEF rx_recv
  <2> HIDE DEF rest
  <2>3. /\ results' \in [Send -> Seq(DialResult)] /\ results'[s] = rest
        /\ \A t \in Send \ {s} : results'[t] = results[t]
    BY <1>1, <1>3, <2>1, ResultsSet, Zenon
  <2>4. CASE Len(results[s]) = 1 /\ Fail(s)
    BY <1>1, <1>3, <2>1, <2>3, <2>4, FailReports, Zenon
  <2>5. CASE UNCHANGED <<send, events>>
    <3>1. Report(send[s], conn[s], rest, events[s])
      BY <1>2, <1>3, Zenon DEF Report
    <3> QED BY <1>1, <2>1, <2>3, <2>5, <3>1, Zenon DEF Reports, Only, ReportTypes
  <2> QED BY <2>2, <2>4, <2>5, Zenon
<1> QED BY <1>3, <1>4, <1>5, Zenon

\* connect fails, or the call has its connection.
LEMMA ConnectReports ==
  ASSUME SendInv, ReportInv, NEW s \in Send, connect(s)
  PROVE  Reports(s)
<1>1. /\ Types /\ Calls /\ ReportTypes /\ send[s].pc = "connect" /\ UNCHANGED results
      /\ conn[s] \in [Address -> Connection]
  BY Zenon DEF SendInv, Types, connect, ReportInv
<1>2. CASE Fail(s) /\ UNCHANGED conn
  BY <1>1, <1>2, FailsHere, Zenon
<1>3. CASE ~ (Fail(s) /\ UNCHANGED conn)
  <2>1. Report(send[s], conn[s], results[s], events[s])
    BY Zenon DEF ReportInv
  <2> DEFINE a == send[s].address
             m == Made(conn[s][a], a)
             d == Uses(m)
  <2>2. /\ verify_server_cert(a, send[s].cert) /\ SetConn(s, a, d) /\ Go(s, "hello")
        /\ UNCHANGED events
    BY <1>3, Zenon DEF connect
  <2>3. a \in Address /\ at[a] # Nobody /\ conn[s][a] \in Connection
    BY <1>1, <2>1, <2>2, Zenon DEF Report, AddressOK, verify_server_cert, Types
  <2>4. m \in Connection /\ m.hand = "hello" /\ ~ m.dialing
    BY <1>1, <2>3, MadeFields, Zenon
  <2> HIDE DEF m
  <2>5. d.hand = "hello" /\ ~ d.dialing /\ d.msg = "Hello"
    BY <2>4, Zenon DEF Uses, Connection
  <2> HIDE DEF d
  <2>6. /\ conn'[s][a] = d /\ \A b \in Address : b # a => conn'[s][b] = conn[s][b]
        /\ \A t \in Send \ {s} : conn'[t] = conn[t]
    BY <1>1, <2>2, <2>3, LinkSet, Zenon
  <2>7. /\ send'[s].pc = "hello" /\ Keeps(s) /\ send'[s].address = a
        /\ \A t \in Send : t # s => send'[t] = send[t]
    BY <1>1, <2>2, CallGoes, Zenon DEF Go
  <2> HIDE DEF a
  <2>8. PICK y, f2 : y = send'[s] /\ f2 = conn'[s]
    BY Zenon
  <2>9. results[s] = <<>>
    BY <1>1, <2>1, Zenon DEF Report, ResultOK
  <2>10. Report(y, f2, <<>>, events[s])
    <3>1. /\ send[s].pc \in {"dial", "connect"} /\ y.pc = "hello" /\ y.kind = send[s].kind
          /\ y.address = a
      BY <1>1, <2>7, <2>8, Zenon DEF Keeps
    <3>2. /\ ~ f2[a].dialing /\ f2[a].hand # "ack" /\ f2[a].msg # "DoneAck"
          /\ \A b \in Address : b # a => f2[b] = conn[s][b]
      BY <2>5, <2>6, <2>8, Zenon
    <3> QED BY <1>1, <2>1, <2>3, <3>1, <3>2, ReportConnects, Zenon
  <2> QED BY <1>1, <2>2, <2>6, <2>7, <2>8, <2>9, <2>10, ZenonT(40) DEF Reports, Only, ReportTypes
<1> QED BY <1>2, <1>3, Zenon

\* send_prepared_native_files: DoneAck is answered only by a device that has
\* published the files.
LEMMA StreamReports ==
  ASSUME SendInv, ReportInv, NEW s \in Send, send_prepared_native_files(s)
  PROVE  Reports(s)
<1>1. /\ Types /\ Calls /\ ReportTypes /\ UNCHANGED results
      /\ send[s].pc \in Connected /\ conn[s] \in [Address -> Connection]
  BY Zenon DEF SendInv, Types, ReportInv, send_prepared_native_files, read_hello_ack, read_accept,
     read_done_ack, client_error, Answer, Connected
<1>2. Report(send[s], conn[s], results[s], events[s])
  BY Zenon DEF ReportInv
<1> DEFINE a == send[s].address
           c == conn[s][a]
<1>3. a \in Address /\ c \in Connection /\ StreamOK(send[s], a, c) /\ results[s] = <<>>
  BY <1>1, <1>2, Zenon DEF Report, AddressOK, ResultOK, Connected
<1>4. /\ send[s].pc \notin {"new", "ended"}
      /\ EventsOK(send[s], conn[s], events[s])
  BY <1>1, <1>2, Zenon DEF Connected, Report
<1>5. ASSUME NEW reply \in ControlMessage, reply # "DoneAck", NEW next \in Connected,
             SetConn(s, a, [c EXCEPT !.msg = reply]), Go(s, next), UNCHANGED events
      PROVE  Reports(s)
  <2> DEFINE d == [c EXCEPT !.msg = reply]
  <2>1. d.dialing = c.dialing /\ d.hand = c.hand /\ d.published = c.published /\ d.msg = reply
    BY <1>3 DEF Connection
  <2> HIDE DEF d
  <2>2. /\ conn'[s][a] = d /\ \A b \in Address : b # a => conn'[s][b] = conn[s][b]
        /\ \A t \in Send \ {s} : conn'[t] = conn[t]
    BY <1>1, <1>3, <1>5, LinkSet, Zenon DEF d
  <2>3. /\ send'[s].pc = next /\ Keeps(s) /\ send'[s].address = a
        /\ \A t \in Send : t # s => send'[t] = send[t]
    BY <1>1, <1>5, CallGoes, Zenon DEF Go
  <2>4. PICK x, f, y, f2 : x = send[s] /\ f = conn[s] /\ y = send'[s] /\ f2 = conn'[s]
    BY Zenon
  <2>5. /\ x.pc \in Connected /\ y.pc \in Connected /\ y.kind = x.kind /\ y.address = x.address
        /\ \A b \in Address : b # x.address => f2[b] = f[b]
        /\ f2[x.address].dialing = f[x.address].dialing /\ f2[x.address].hand = f[x.address].hand
        /\ f2[x.address].published = f[x.address].published /\ f2[x.address].msg # "DoneAck"
    BY <1>1, <1>5, <2>1, <2>2, <2>3, <2>4, Zenon DEF Keeps
  <2>6. Report(y, f2, results[s], events[s])
    <3>1. Report(x, f, results[s], events[s])
      BY <1>2, <2>4, Zenon
    <3> HIDE <2>4
    <3> QED BY <2>5, <3>1, ReportAnswers, ZenonT(30)
  <2> QED BY <1>1, <1>5, <2>2, <2>3, <2>4, <2>6, ZenonT(40) DEF Reports, Only, ReportTypes
<1>6. CASE read_hello_ack(s)
  BY <1>5, <1>6, Zenon DEF read_hello_ack, Answer, ControlMessage, Connected
<1>7. CASE read_accept(s)
  BY <1>5, <1>7, Zenon DEF read_accept, Answer, ControlMessage, Connected
<1>8. ASSUME SetConn(s, a, Dropped(c))
      PROVE  /\ conn'[s][a] = Dropped(c) /\ \A b \in Address : b # a => conn'[s][b] = conn[s][b]
             /\ \A t \in Send \ {s} : conn'[t] = conn[t]
  BY <1>1, <1>3, <1>8, LinkSet, Zenon
<1>9. CASE read_done_ack(s)
  <2>1. SetConn(s, a, Dropped(c)) /\ c.msg = "DoneAck" /\ Terminal(s, "TransferCompleted")
    BY <1>9, Zenon DEF read_done_ack
  <2>2. /\ conn'[s][a] = Dropped(c) /\ \A b \in Address : b # a => conn'[s][b] = conn[s][b]
        /\ \A t \in Send \ {s} : conn'[t] = conn[t]
    BY <1>8, <2>1, Zenon
  <2>3. conn'[s][a].published
    BY <1>3, <2>1, <2>2, Quieter, Zenon DEF StreamOK
  <2>4. PICK e : e = <<"TransferStarted", "TransferCompleted">>
    BY Zenon
  <2>5. Append(events[s], "TransferCompleted") = e /\ e \in Seq(DaemonEvent)
    BY <1>4, <2>4, EventCases, Zenon
  <2>6. events' = [events EXCEPT ![s] = e]
    BY <1>1, <2>1, <2>5, Zenon DEF Terminal, ReportTypes
  <2>7. /\ events' \in [Send -> Seq(DaemonEvent)] /\ events'[s] = e
        /\ \A t \in Send \ {s} : events'[t] = events[t]
    BY <1>1, <2>5, <2>6, EventsSet, Zenon
  <2>8. /\ send'[s].pc = "ended" /\ Keeps(s) /\ send'[s].address = a
        /\ \A t \in Send : t # s => send'[t] = send[t]
    BY <1>1, <2>1, CallGoes, Zenon DEF Terminal, Go
  <2>9. PICK x, f, y, f2 : x = send[s] /\ f = conn[s] /\ y = send'[s] /\ f2 = conn'[s]
    BY Zenon
  <2>10. EventsOK(y, f2, e)
    <3>1. e # <<>> /\ y.pc \in Step /\ y.pc # "new"
      BY <2>4, <2>8, <2>9 DEF Step
    <3>2. y.pc = "ended" /\ \E b \in Address : f2[b].published
      BY <1>3, <2>3, <2>8, <2>9, Zenon
    <3> QED BY <2>4, <3>1, <3>2, Zenon DEF EventsOK
  <2>11. /\ f \in [Address -> Connection] /\ Report(x, f, results[s], events[s])
         /\ y.address = x.address /\ y.pc \in {"ended", "gone"}
         /\ \A b \in Address : f2[b] = f[b] \/ f2[b] = Dropped(f[b])
    BY <1>1, <1>2, <2>2, <2>8, <2>9, Zenon
  <2>12. Report(y, f2, <<>>, e)
    BY <2>10, <2>11, ReportEnds, Zenon
  <2> QED BY <1>1, <1>3, <2>2, <2>7, <2>8, <2>9, <2>12, Zenon DEF Reports, Only, ReportTypes
<1>10. CASE client_error(s)
  <2>1. SetConn(s, a, Dropped(c)) /\ Fail(s)
    BY <1>10, Zenon DEF client_error
  <2>2. /\ conn'[s][a] = Dropped(c) /\ \A b \in Address : b # a => conn'[s][b] = conn[s][b]
        /\ \A t \in Send \ {s} : conn'[t] = conn[t]
    BY <1>8, <2>1, Zenon
  <2>3. \A b \in Address : conn'[s][b] = conn[s][b] \/ conn'[s][b] = Dropped(conn[s][b])
    BY <2>2, Zenon
  <2>4. /\ \A t \in Send \ {s} : conn'[t] = conn[t] /\ results'[t] = results[t]
        /\ results' \in [Send -> Seq(DialResult)] /\ results'[s] = <<>>
    BY <1>1, <1>3, <2>2, Zenon DEF ReportTypes
  <2> QED BY <1>4, <2>1, <2>3, <2>4, FailReports, Zenon
<1> QED BY <1>6, <1>7, <1>9, <1>10, Zenon DEF send_prepared_native_files

\* caller_leaves drops everything that is not being dialed.
LEMMA LeaveReports ==
  ASSUME SendInv, ReportInv, NEW s \in Send, caller_leaves(s)
  PROVE  Reports(s)
<1>1. /\ Types /\ Calls /\ ReportTypes /\ UNCHANGED events /\ send[s].pc \notin {"new", "ended"}
      /\ conn[s] \in [Address -> Connection]
  BY Zenon DEF SendInv, Types, ReportInv, caller_leaves
<1>2. Report(send[s], conn[s], results[s], events[s])
  BY Zenon DEF ReportInv
<1> DEFINE g == [a \in Address |->
                   IF conn[s][a].dialing THEN conn[s][a] ELSE Dropped(conn[s][a])]
<1>3. conn' = [conn EXCEPT ![s] = g] /\ results' = [results EXCEPT ![s] = <<>>]
  BY <1>1, Zenon DEF caller_leaves, Types
<1>4. g \in [Address -> Connection]
  <2>1. ASSUME NEW a \in Address PROVE g[a] \in Connection
    BY <1>1, DroppedFields, Zenon
  <2> QED BY <2>1, Zenon
<1>5. \A a \in Address : g[a] = conn[s][a] \/ g[a] = Dropped(conn[s][a])
  BY Zenon
<1> HIDE DEF g
<1>6. conn'[s] = g /\ \A t \in Send \ {s} : conn'[t] = conn[t]
  BY <1>1, <1>3, <1>4, LinksSet, Zenon
<1>7. /\ results' \in [Send -> Seq(DialResult)] /\ results'[s] = <<>>
      /\ \A t \in Send \ {s} : results'[t] = results[t]
  <2>1. <<>> \in Seq(DialResult)
    OBVIOUS
  <2> QED BY <1>1, <1>3, <2>1, ResultsSet, Zenon
<1>8. /\ send'[s].pc = "gone" /\ send'[s].address = send[s].address
      /\ \A t \in Send : t # s => send'[t] = send[t]
  BY <1>1, CallGoes, Zenon DEF caller_leaves, Go
<1>9. PICK x, f, y, f2 : x = send[s] /\ f = conn[s] /\ y = send'[s] /\ f2 = conn'[s]
  BY Zenon
<1>10. EventsOK(x, f, events[s]) /\ x.pc \notin {"new", "ended"} /\ y.pc \in Step \ {"new", "ended"}
  BY <1>1, <1>2, <1>8, <1>9, Zenon DEF Report, Step
<1>11. EventsOK(y, f2, events[s])
  BY <1>10, EventCases, Zenon
<1>12. /\ f \in [Address -> Connection] /\ Report(x, f, results[s], events[s])
       /\ y.address = x.address /\ y.pc \in {"ended", "gone"}
       /\ \A b \in Address : f2[b] = f[b] \/ f2[b] = Dropped(f[b])
  BY <1>1, <1>2, <1>5, <1>6, <1>8, <1>9, Zenon
<1>13. Report(y, f2, <<>>, events[s])
  BY <1>11, <1>12, ReportEnds, Zenon
<1> QED BY <1>1, <1>6, <1>7, <1>8, <1>9, <1>13, ZenonT(40) DEF Reports, Only, ReportTypes

\* A connection of a call goes on while the call waits.
LEMMA ServedReports ==
  ASSUME SendInv, ReportInv, NEW s \in Send, NEW a \in Address, NEW d, SetConn(s, a, d),
         UNCHANGED <<send, events, results>>,
         Touched(d) => Touched(conn[s][a]), d.dialing => conn[s][a].dialing /\ ~ Touched(d),
         d.hand = "ack" \/ d.msg = "DoneAck" => d.published, conn[s][a].published => d.published
  PROVE  Reports(s)
<1>1. Types /\ ReportTypes /\ Report(send[s], conn[s], results[s], events[s])
  BY Zenon DEF SendInv, ReportInv
<1>2. /\ conn'[s][a] = d /\ \A b \in Address : b # a => conn'[s][b] = conn[s][b]
      /\ \A t \in Send \ {s} : conn'[t] = conn[t]
  BY <1>1, LinkSet, Zenon
<1>3. PICK f, f2, q : f = conn[s] /\ f2 = conn'[s] /\ q = results[s]
  BY Zenon
<1>4. q \in Seq(DialResult) /\ ResultOK(send[s], f, q)
  BY <1>1, <1>3, Zenon DEF Report
<1>5. \A b \in Address : f2[b].dialing => f[b].dialing
  BY <1>2, <1>3, Zenon
<1>6. ResultOK(send[s], f2, q)
  <2>1. ASSUME NEW i \in DOMAIN q PROVE ~ f2[q[i].address].dialing
    <3>1. q[i] \in DialResult
      BY <1>4
    <3>2. q[i].address \in Address
      BY <3>1, Zenon DEF DialResult
    <3> QED BY <1>4, <1>5, <3>2, Zenon DEF ResultOK
  <2> QED BY <1>4, <2>1, Zenon DEF ResultOK
<1>7. /\ \A b \in Address : b # a => f2[b] = f[b]
      /\ (Touched(f2[a]) => Touched(f[a])) /\ (f2[a].dialing => f[a].dialing /\ ~ Touched(f2[a]))
      /\ (f2[a].hand = "ack" \/ f2[a].msg = "DoneAck" => f2[a].published)
      /\ (f[a].published => f2[a].published)
  BY <1>2, <1>3, Zenon
<1>8. Report(send[s], f, q, events[s])
  BY <1>1, <1>3, Zenon
<1>9. Report(send[s], f2, q, events[s])
  BY <1>4, <1>6, <1>7, <1>8, ReportServes, Zenon
<1> QED BY <1>1, <1>2, <1>3, <1>9, Zenon DEF Reports, Only, ReportTypes

\* A connection is lost.
LEMMA LoseReports ==
  ASSUME SendInv, ReportInv, NEW s \in Send, NEW a \in Address, lose(s, a), UNCHANGED <<send, events>>
  PROVE  Reports(s)
<1> DEFINE c == conn[s][a]
           d == Dropped(c)
<1>1. c \in Connection /\ StreamOK(send[s], a, c)
  BY Zenon DEF SendInv, Types, ReportInv, Report
<1>2. /\ Touched(d) => Touched(c)
      /\ d.dialing = c.dialing /\ d.published = c.published
      /\ d.hand = c.hand /\ (d.msg = "DoneAck" => c.msg = "DoneAck")
  BY <1>1, Quieter, Zenon
<1>3. SetConn(s, a, d) /\ UNCHANGED results
  BY Zenon DEF lose
<1> HIDE DEF d
<1> QED BY <1>1, <1>2, <1>3, ServedReports, Zenon DEF StreamOK

\* The handler of a connection answers what it has read, and sends DoneAck when
\* the files are published (handle_native_connection).
LEMMA HandlerReports ==
  ASSUME SendInv, ReportInv, NEW s \in Send, NEW a \in Address, handle_native_connection(s, a),
         UNCHANGED <<send, events>>
  PROVE  Reports(s)
<1> DEFINE c == conn[s][a]
<1>1. c \in Connection /\ StreamOK(send[s], a, c) /\ UNCHANGED results
  BY Zenon DEF SendInv, Types, ReportInv, Report, handle_native_connection
<1>2. ASSUME SetConn(s, a, Ended(c))
      PROVE  Reports(s)
  <2>1. /\ Ended(c).dialing = FALSE /\ Ended(c).msg = None /\ Ended(c).hand = "ended"
        /\ Ended(c).published = c.published
    BY DEF Ended, NoConnection
  <2>2. PICK d : d = Ended(c)
    BY Zenon
  <2>3. /\ Touched(d) => Touched(c)
        /\ d.hand # "ack" /\ d.msg # "DoneAck" /\ ~ d.dialing /\ d.published = c.published
    BY <2>1, <2>2, SendAssumption, Zenon DEF Touched, ControlMessage
  <2> QED BY <1>1, <1>2, <2>2, <2>3, ServedReports, Zenon
<1>3. ASSUME NEW d, SetConn(s, a, d), Touched(c), d.dialing = c.dialing,
             d.hand = "ack" \/ d.msg = "DoneAck" => d.published, c.published => d.published
      PROVE  Reports(s)
  BY <1>1, <1>3, ServedReports, Zenon DEF StreamOK
<1>4. ASSUME NEW hand, NEW msg, hand # "ack", msg # "DoneAck" \/ c.hand = "ack", Touched(c),
             SetConn(s, a, [c EXCEPT !.hand = hand, !.msg = msg])
      PROVE  Reports(s)
  <2>1. PICK d : d = [c EXCEPT !.hand = hand, !.msg = msg]
    BY Zenon
  <2>2. /\ d.dialing = c.dialing /\ d.published = c.published /\ d.hand = hand /\ d.msg = msg
    BY <1>1, <2>1 DEF Connection
  <2>3. c.hand = "ack" => c.published
    BY <1>1, Zenon DEF StreamOK
  <2> QED BY <1>3, <1>4, <2>1, <2>2, <2>3, ZenonT(40)
<1>5. None \notin ControlMessage
  BY SendAssumption, Zenon
<1> HIDE DEF c
<1>6. CASE read_hello(s, a)
  <2>1. Touched(c)
    BY <1>5, <1>6, Zenon DEF read_hello, Reads, c, Touched, ControlMessage
  <2>2. \/ SetConn(s, a, [c EXCEPT !.hand = "request", !.msg = "HelloAck"])
        \/ SetConn(s, a, Ended(c))
    BY <1>6, Zenon DEF read_hello, c
  <2> QED BY <1>2, <1>4, <2>1, <2>2, Zenon
<1>7. CASE read_request(s, a)
  <2>1. Touched(c)
    BY <1>7, Zenon DEF read_request, Reads, c, Touched
  <2>2. \/ SetConn(s, a, [c EXCEPT !.hand = "chunks", !.msg = "Accept"])
        \/ SetConn(s, a, Ended(c))
    BY <1>7, Zenon DEF read_request, c
  <2> QED BY <1>2, <1>4, <2>1, <2>2, Zenon
<1>8. CASE read_done(s, a)
  <2>1. Touched(c) /\ None # "DoneAck"
    BY <1>5, <1>8, Zenon DEF read_done, Reads, c, Touched, ControlMessage
  <2>2. \/ SetConn(s, a, [c EXCEPT !.hand = "finish", !.msg = None])
        \/ SetConn(s, a, Ended(c))
    BY <1>8, Zenon DEF read_done, c
  <2> QED BY <1>2, <1>4, <2>1, <2>2, Zenon
<1>9. CASE finish_transfer(s, a)
  <2>1. Touched(c)
    BY <1>9, Zenon DEF finish_transfer, c, Touched
  <2>2. CASE SetConn(s, a, [c EXCEPT !.hand = "ack", !.published = TRUE])
    <3>1. PICK d : d = [c EXCEPT !.hand = "ack", !.published = TRUE]
      BY Zenon
    <3>2. d.dialing = c.dialing /\ d.published = TRUE
      BY <1>1, <3>1 DEF Connection
    <3> QED BY <1>3, <2>1, <2>2, <3>1, <3>2, Zenon
  <2> QED BY <1>2, <1>9, <2>2, Zenon DEF finish_transfer, c
<1>10. CASE write_done(s, a)
  <2>1. c.hand = "ack" /\ SetConn(s, a, [c EXCEPT !.hand = "closing", !.msg = "DoneAck"])
    BY <1>10, Zenon DEF write_done, c
  <2>2. Touched(c)
    BY <2>1, Zenon DEF Touched
  <2> QED BY <1>4, <2>1, <2>2, Zenon
<1>11. CASE handler_ends(s, a)
  BY <1>2, <1>11, Zenon DEF handler_ends, c
<1> QED
  BY <1>6, <1>7, <1>8, <1>9, <1>10, <1>11, Zenon DEF handle_native_connection

\* Append leaves the elements where they are.
LEMMA AppendIs ==
  ASSUME NEW S, NEW q \in Seq(S), NEW r \in S
  PROVE  /\ Append(q, r) \in Seq(S)
         /\ \A i \in DOMAIN Append(q, r) : Append(q, r)[i] \in S
         /\ \A i \in DOMAIN Append(q, r) : \/ i \in DOMAIN q /\ Append(q, r)[i] = q[i]
                                           \/ i = Len(q) + 1 /\ Append(q, r)[i] = r
<1>1. Append(q, r) \in Seq(S) /\ DOMAIN Append(q, r) = 1 .. Len(q) + 1
  OBVIOUS
<1>2. DOMAIN q = 1 .. Len(q) /\ Len(q) \in Nat
  OBVIOUS
<1>3. ASSUME NEW i \in 1 .. Len(q) PROVE Append(q, r)[i] = q[i] /\ q[i] \in S
  OBVIOUS
<1>4. Append(q, r)[Len(q) + 1] = r
  OBVIOUS
<1>5. \A i \in 1 .. Len(q) + 1 : i \in 1 .. Len(q) \/ i = Len(q) + 1
  BY <1>2
<1>6. ASSUME NEW i \in DOMAIN Append(q, r)
      PROVE  /\ Append(q, r)[i] \in S
             /\ \/ i \in DOMAIN q /\ Append(q, r)[i] = q[i]
                \/ i = Len(q) + 1 /\ Append(q, r)[i] = r
  <2>1. CASE i \in 1 .. Len(q)
    BY <1>2, <1>3, <2>1
  <2>2. CASE i = Len(q) + 1
    BY <1>4, <2>2
  <2> QED BY <1>1, <1>5, <2>1, <2>2, SMTT(40)
<1> QED BY <1>1, <1>6

\* A dial task that is over adds its result to those of other addresses.
LEMMA ResultArrives ==
  ASSUME NEW x, NEW f, NEW f2, NEW q \in Seq(DialResult), ResultOK(x, f, q), NEW r \in DialResult,
         x.pc = "dial", f[r.address].dialing, ~ f2[r.address].dialing,
         \A b \in Address : f2[b].dialing => f[b].dialing
  PROVE  Append(q, r) \in Seq(DialResult) /\ ResultOK(x, f2, Append(q, r))
<1> DEFINE p == Append(q, r)
<1>1. /\ p \in Seq(DialResult)
      /\ \A i \in DOMAIN p : p[i] \in DialResult
      /\ \A i \in DOMAIN p : \/ i \in DOMAIN q /\ p[i] = q[i]
                             \/ i = Len(q) + 1 /\ p[i] = r
  BY AppendIs
<1> HIDE DEF p
<1>2. \A i \in DOMAIN p : p[i].address \in Address
  BY <1>1, Zenon DEF DialResult
<1>3. \A i \in DOMAIN q : ~ f[q[i].address].dialing /\ q[i].address # r.address
  BY Zenon DEF ResultOK
<1>4. ASSUME NEW i \in DOMAIN p PROVE ~ f2[p[i].address].dialing
  <2>1. CASE p[i] = r
    BY <2>1, Zenon
  <2>2. CASE i \in DOMAIN q /\ p[i] = q[i]
    BY <1>2, <1>3, <2>2, Zenon
  <2> QED BY <1>1, <2>1, <2>2, Zenon
<1>5. ASSUME NEW i \in DOMAIN p, NEW k \in DOMAIN p, p[i].address = p[k].address PROVE i = k
  <2>1. CASE i \in DOMAIN q /\ p[i] = q[i] /\ k \in DOMAIN q /\ p[k] = q[k]
    BY <1>5, <2>1, Zenon DEF ResultOK
  <2>2. CASE i = Len(q) + 1 /\ p[i] = r
    BY <1>1, <1>3, <1>5, <2>2, ZenonT(40)
  <2>3. CASE k = Len(q) + 1 /\ p[k] = r
    BY <1>1, <1>3, <1>5, <2>3, ZenonT(40)
  <2> QED BY <1>1, <2>1, <2>2, <2>3, Zenon
<1>6. ResultOK(x, f2, p)
  BY <1>4, <1>5, Zenon DEF ResultOK
<1> QED BY <1>1, <1>6, Zenon DEF p

\* A dial task is over: its connection has not been spoken on.
LEMMA DialReports ==
  ASSUME SendInv, ReportInv, NEW s \in Send, NEW a \in Address,
         dial_pair(s, a, send[s].cert, send[s].pc = "dial"), UNCHANGED <<send, events>>
  PROVE  Reports(s)
<1> DEFINE c == conn[s][a]
           m == Made(c, a)
           listening == send[s].pc = "dial"
<1>1. /\ Types /\ ReportTypes /\ c \in Connection /\ c.dialing
      /\ Report(send[s], conn[s], results[s], events[s])
  BY Zenon DEF SendInv, Types, ReportInv, dial_pair
<1>2. PICK ok \in {FALSE} \cup {verify_server_cert(a, send[s].cert)} :
        /\ SetConn(s, a, IF ~ok THEN [c EXCEPT !.dialing = FALSE]
                         ELSE IF listening THEN m ELSE Dropped(m))
        /\ results' = IF listening THEN [results EXCEPT ![s] = Append(@, [address |-> a, ok |-> ok])]
                                   ELSE results
  BY Zenon DEF dial_pair
<1>3. /\ ~ Touched(c) /\ c.msg = None /\ ~ c.published /\ c.hand # "ack"
  BY <1>1, Zenon DEF Report, StreamOK, Touched
<1>4. None # "DoneAck"
  BY SendAssumption, Zenon DEF ControlMessage
<1>5. PICK d : /\ SetConn(s, a, d) /\ ~ Touched(d) /\ ~ d.dialing
               /\ d.hand # "ack" /\ d.msg # "DoneAck" /\ ~ d.published
  <2>1. CASE ~ok
    <3> DEFINE d == [c EXCEPT !.dialing = FALSE]
    <3>1. d.hand = c.hand /\ d.msg = c.msg /\ d.published = c.published /\ d.dialing = FALSE
      BY <1>1 DEF Connection
    <3>2. SetConn(s, a, d)
      BY <1>2, <2>1, Zenon
    <3> HIDE DEF d
    <3> QED BY <1>3, <1>4, <3>1, <3>2, ZenonT(40) DEF Touched
  <2>2. CASE ok
    <3>1. at[a] # Nobody
      BY <1>2, <2>2, ZenonT(30) DEF verify_server_cert
    <3>2. m \in Connection /\ m.hand = "hello" /\ m.published = c.published /\ ~m.dialing
      BY <1>1, <3>1, MadeFields, ZenonT(40)
    <3>3. m.msg = None
      BY <1>1, <1>3 DEF Made, Connection
    <3> HIDE DEF m
    <3>4. ~ Touched(m)
      BY <1>3, <3>2, <3>3, Zenon DEF Touched
    <3>5. /\ ~ Touched(Dropped(m)) /\ ~ Dropped(m).dialing /\ Dropped(m).hand = "hello"
          /\ Dropped(m).msg # "DoneAck" /\ ~ Dropped(m).published
      BY <1>3, <1>4, <3>2, <3>3, <3>4, Quieter, ZenonT(40)
    <3>6. SetConn(s, a, m) \/ SetConn(s, a, Dropped(m))
      BY <1>2, <2>2, Zenon
    <3> QED BY <1>3, <1>4, <3>2, <3>3, <3>4, <3>5, <3>6, ZenonT(40)
  <2> QED BY <2>1, <2>2, Zenon
<1>6. CASE ~ listening
  <2>1. UNCHANGED results
    BY <1>2, <1>6, Zenon
  <2> QED BY <1>1, <1>5, <1>3, <2>1, ServedReports, ZenonT(40)
<1>7. CASE listening
  <2>1. PICK r : r = [address |-> a, ok |-> ok]
    BY Zenon
  <2>2. r \in DialResult /\ r.address = a
    <3>1. ok \in BOOLEAN
      BY <1>2, Zenon DEF verify_server_cert
    <3> QED BY <2>1, <3>1 DEF DialResult
  <2>3. PICK q2 : q2 = Append(results[s], r)
    BY Zenon
  <2>4. results' = [results EXCEPT ![s] = q2]
    BY <1>1, <1>2, <1>7, <2>1, <2>3, ZenonT(40) DEF ReportTypes
  <2>5. /\ conn'[s][a] = d /\ \A b \in Address : b # a => conn'[s][b] = conn[s][b]
        /\ \A t \in Send \ {s} : conn'[t] = conn[t]
    BY <1>1, <1>5, LinkSet, Zenon
  <2>6. PICK x, f, f2, q : x = send[s] /\ f = conn[s] /\ f2 = conn'[s] /\ q = results[s]
    BY Zenon
  <2>7. q \in Seq(DialResult) /\ ResultOK(x, f, q) /\ Report(x, f, q, events[s])
    BY <1>1, <2>6, Zenon DEF Report
  <2>8. /\ x.pc = "dial" /\ f[r.address].dialing /\ ~ f2[r.address].dialing
        /\ \A b \in Address : f2[b].dialing => f[b].dialing
    BY <1>1, <1>5, <1>7, <2>2, <2>5, <2>6, ZenonT(40)
  <2>9. q2 \in Seq(DialResult) /\ ResultOK(x, f2, q2)
    BY <2>2, <2>3, <2>6, <2>7, <2>8, ResultArrives, ZenonT(40)
  <2>10. /\ \A b \in Address : b # a => f2[b] = f[b]
         /\ ~ Touched(f2[a]) /\ ~ f2[a].dialing /\ f2[a].hand # "ack" /\ f2[a].msg # "DoneAck"
         /\ ~ f[a].published
    BY <1>3, <1>5, <2>5, <2>6, ZenonT(40)
  <2>11. Report(x, f2, q2, events[s])
    BY <2>7, <2>9, <2>10, ReportServes, ZenonT(40)
  <2>12. /\ results' \in [Send -> Seq(DialResult)] /\ results'[s] = q2
         /\ \A t \in Send \ {s} : results'[t] = results[t]
    BY <1>1, <2>4, <2>9, ResultsSet, Zenon
  <2> QED BY <1>1, <2>5, <2>6, <2>11, <2>12, ZenonT(40) DEF Reports, Only, ReportTypes
<1> QED BY <1>6, <1>7, Zenon

-----------------------------------------------------------------------------
\* The tables of other devices and of the LAN keep their types.
Tables == accepts \in [Device -> PeerPolicy \cup {Absent}] /\ lan \in LanTable

\* A row of the LAN table is written with an address that was advertised.
LEMMA RowKept ==
  ASSUME Tables, NEW x \in Advert, Recorded(x)
  PROVE  Tables' /\ UNCHANGED <<conn, results>>
<1>1. x.cert \in Certificate /\ x.address \in Address
  BY Zenon DEF Advert
<1> QED BY <1>1, Zenon DEF Tables, LanTable, Recorded, record_localsend_lan_peer

\* A scan writes the addresses that have answered.
LEMMA ScanKept ==
  ASSUME Tables, NEW answers, answers \subseteq Advert, lan' = scan_and_cache(lan, answers)
  PROVE  lan' \in LanTable
<1>1. ASSUME NEW c \in Certificate, \E x \in answers : x.cert = c
      PROVE  (CHOOSE x \in answers : x.cert = c).address \in Address
  <2>1. (CHOOSE x \in answers : x.cert = c) \in Advert
    BY <1>1, Zenon
  <2> QED BY <2>1, Zenon DEF Advert
<1> DEFINE row(c) == IF \E x \in answers : x.cert = c
                       THEN (CHOOSE x \in answers : x.cert = c).address ELSE lan[c]
<1>2. ASSUME NEW c \in Certificate PROVE row(c) \in Address \cup {Absent}
  BY <1>1, Zenon DEF Tables, LanTable
<1>3. lan' = [c \in Certificate |-> row(c)]
  BY Zenon DEF scan_and_cache
<1> HIDE DEF row
<1> QED BY <1>2, <1>3, Zenon DEF LanTable

\* Calls leave the tables typed.
LEMMA CallTables ==
  ASSUME SendInv, Tables, NEW s \in Send, CallStep(s)
  PROVE  Tables'
<1>1. UNCHANGED <<accepts, lan>> => Tables'
  BY Zenon DEF Tables
<1>2. CASE resolve_lan(s)
  <2>1. PICK answers \in discover(Adverts) : lan' = scan_and_cache(lan, answers)
    BY <1>2, Zenon DEF resolve_lan
  <2>2. Adverts \subseteq Advert
    BY AdvertsAreOwn, Zenon DEF AdvertsOwn, SendInv, Types, OwnCertificates, WorldTypes
  <2>3. answers \subseteq Advert
    BY <2>1, <2>2, Zenon DEF discover, recv_resolved_all
  <2>4. lan' \in LanTable
    BY <2>1, <2>3, ScanKept, Zenon
  <2> QED BY <1>2, <2>4, Zenon DEF Tables, resolve_lan, NoConnectionChange, connectionVars
<1>3. CASE send_files(s) \/ discover_peer(s) \/ read_trust(s)
  BY <1>1, <1>3, Zenon DEF send_files, discover_peer, read_trust, NoConnectionChange, connectionVars
<1>4. CASE lookup(s) \/ rx_recv(s) \/ connect(s) \/ send_prepared_native_files(s)
  BY <1>1, <1>4, Zenon DEF lookup, rx_recv, connect, send_prepared_native_files
<1>5. CASE localsend_client(s) \/ localsend_send_files_to_url(s)
  BY <1>1, <1>5, Zenon
     DEF localsend_client, localsend_send_files_to_url, NoConnectionChange, connectionVars
<1> QED BY <1>2, <1>3, <1>4, <1>5, Zenon DEF CallStep

\* Operators and apps leave the tables typed, and the calls alone.
LEMMA WorldTables ==
  ASSUME SendInv, Tables, World
  PROVE  Tables' /\ UNCHANGED <<conn, results>>
<1>1. Adverts \subseteq Advert /\ heard \subseteq Advert
  BY AdvertsAreOwn, Zenon DEF AdvertsOwn, SendInv, Types, OwnCertificates, WorldTypes
<1>2. CASE \E a \in Address : move(a)
  BY <1>2, Zenon DEF move, Tables
<1>3. CASE \E d \in Device : rekey(d)
  BY <1>3, Zenon DEF rekey, Tables
<1>4. CASE \E d \in Device : trusted_by(d)
  BY <1>4, SendAssumption, Zenon DEF trusted_by, Tables
<1>5. CASE trust_native_lan
  BY <1>5, Zenon DEF trust_native_lan, Tables
<1>6. CASE register \/ record_localsend_lan_peers
  BY <1>1, <1>6, RowKept, Zenon DEF register, record_localsend_lan_peers, announced
<1> QED BY <1>2, <1>3, <1>4, <1>5, <1>6, ZenonT(40) DEF World

\* A step of one call is a step of all.
LEMMA ReportKept ==
  ASSUME ReportInv, Tables', NEW s \in Send, Reports(s)
  PROVE  ReportInv'
<1>1. ASSUME NEW t \in Send PROVE Report(send'[t], conn'[t], results'[t], events'[t])
  <2>1. CASE t = s
    BY <2>1, Zenon DEF Reports
  <2>2. CASE t # s
    BY <2>2, Zenon DEF Reports, Only, ReportInv
  <2> QED BY <2>1, <2>2, Zenon
<1> QED BY <1>1, Zenon DEF ReportInv, Reports, Tables

\* Nothing has been reported in the beginning.
LEMMA ReportInit == Init => ReportInv
<1> SUFFICES ASSUME Init PROVE ReportInv
  BY Zenon
<1>1. Tables
  BY Zenon DEF Init, Tables, LanTable, PeerPolicy
<1>2. \A S : <<>> \in Seq(S)
  OBVIOUS
<1>3. ReportTypes
  BY <1>2, Zenon DEF Init, ConnectionInit, ReportTypes
<1>4. ASSUME NEW s \in Send PROVE Report(send[s], conn[s], results[s], events[s])
  <2>1. PICK x, f, q, e : x = send[s] /\ f = conn[s] /\ q = results[s] /\ e = events[s]
    BY Zenon
  <2>2. x.pc = "new" /\ q = <<>> /\ e = <<>>
    BY <2>1, Zenon DEF Init, NoSend, ConnectionInit
  <2>3. \A a \in Address : f[a] = NoConnection
    BY <2>1, Zenon DEF Init, ConnectionInit
  <2>4. \A a \in Address : StreamOK(x, a, f[a])
    <3>1. /\ NoConnection.msg = None /\ NoConnection.hand = "none"
          /\ NoConnection.published = FALSE /\ NoConnection.dialing = FALSE
      BY DEF NoConnection
    <3>2. ~ Touched(NoConnection) /\ NoConnection.msg # "DoneAck"
      BY <3>1, SendAssumption, Zenon DEF Touched, ControlMessage
    <3> QED BY <2>3, <3>1, <3>2, Zenon DEF StreamOK
  <2>5. q \in Seq(DialResult) /\ ResultOK(x, f, q)
    <3>1. DOMAIN q = {}
      BY <2>2
    <3> QED BY <1>2, <2>2, <3>1, Zenon DEF ResultOK
  <2>6. AddressOK(x) /\ EventsOK(x, f, e)
    <3>1. e # <<"TransferStarted", "TransferCompleted">>
      BY <2>2
    <3> QED BY <2>2, <3>1, Zenon DEF AddressOK, EventsOK, Connected, Step
  <2> QED BY <2>1, <2>4, <2>5, <2>6, Zenon DEF Report
<1> QED BY <1>1, <1>3, <1>4, Zenon DEF ReportInv, Tables

\* Every step keeps ReportInv.
LEMMA ReportNext == SendInv /\ ReportInv /\ Next => ReportInv'
<1> SUFFICES ASSUME SendInv, ReportInv, Next PROVE ReportInv'
  BY Zenon
<1>1. Tables
  BY Zenon DEF ReportInv, Tables
<1>2. ASSUME NEW s \in Send, CallStep(s) PROVE ReportInv'
  <2>1. Tables'
    BY <1>1, <1>2, CallTables, Zenon
  <2>2. Reports(s)
    <3>1. CASE send_files(s) \/ discover_peer(s) \/ read_trust(s) \/ lookup(s)
      BY <3>1, StartReports, DiscoverReports, TrustReports, LookupReports, Zenon
    <3>2. CASE rx_recv(s) \/ connect(s) \/ send_prepared_native_files(s)
      BY <3>2, DialedReports, ConnectReports, StreamReports, ZenonT(40)
    <3>3. CASE localsend_client(s) \/ resolve_lan(s) \/ localsend_send_files_to_url(s)
      BY <3>3, ClientReports, ScanReports, UploadReports, Zenon
    <3> QED BY <1>2, <3>1, <3>2, <3>3, Zenon DEF CallStep
  <2> QED BY <2>1, <2>2, ReportKept, Zenon
<1>3. ASSUME NEW s \in Send, caller_leaves(s) PROVE ReportInv'
  <2>1. Tables'
    BY <1>1, <1>3, Zenon DEF caller_leaves, Tables
  <2> QED BY <1>3, <2>1, LeaveReports, ReportKept, Zenon
<1>4. ASSUME NEW s \in Send, NEW a \in Address, ConnectionStep(s, a), UNCHANGED <<lan, send, events>>
      PROVE  ReportInv'
  <2>1. UNCHANGED accepts
    BY <1>4, Zenon DEF ConnectionStep, dial_pair, handle_native_connection, lose
  <2>2. Tables'
    BY <1>1, <1>4, <2>1, Zenon DEF Tables
  <2>3. Reports(s)
    BY <1>4, DialReports, HandlerReports, LoseReports, Zenon DEF ConnectionStep
  <2> QED BY <2>2, <2>3, ReportKept, Zenon
<1>5. ASSUME World, UNCHANGED <<send, events>> PROVE ReportInv'
  <2>1. Tables' /\ UNCHANGED <<conn, results>>
    BY <1>1, <1>5, WorldTables, Zenon
  <2> QED BY <1>5, <2>1, Zenon DEF ReportInv, ReportTypes, Tables
<1> QED BY <1>2, <1>3, <1>4, <1>5, ZenonT(40) DEF Next

\* A stuttering step keeps ReportInv.
LEMMA ReportStutter == ReportInv /\ UNCHANGED vars => ReportInv'
BY Zenon DEF vars, connectionVars, worldVars, ReportInv, ReportTypes

\* ReportInv is inductive together with SendInv.
LEMMA ReportInvariant == Spec => []ReportInv
BY SendInvariant, ReportInit, ReportNext, ReportStutter, PTL DEF Spec

\* What a sequence of the shapes that events can have contains.
LEMMA EventShapes ==
  ASSUME NEW e \in Seq(DaemonEvent)
  PROVE  /\ e \in {<<>>, <<"TransferStarted">>, <<"TransferStarted", "TransferFailed">>}
              => "TransferCompleted" \notin {e[i] : i \in DOMAIN e}
         /\ e \in {<<>>, <<"TransferStarted", "TransferFailed">>,
                   <<"TransferStarted", "TransferCompleted">>}
              => Len(e) # 1
<1>1. /\ DOMAIN e = 1 .. Len(e) /\ \A d : Len(<<d>>) = 1 /\ <<d>>[1] = d
      /\ \A c, d : Len(<<c, d>>) = 2 /\ <<c, d>>[1] = c /\ <<c, d>>[2] = d
  OBVIOUS
<1>2. CASE e = <<>>
  BY <1>2
<1>3. CASE e = <<"TransferStarted">>
  BY <1>3
<1>4. CASE e = <<"TransferStarted", "TransferFailed">>
  BY <1>4
<1>5. CASE e = <<"TransferStarted", "TransferCompleted">>
  BY <1>5
<1> QED BY <1>2, <1>3, <1>4, <1>5, Zenon

\* What a send reports is true, for any number of addresses that are dialed at
\* once: one device at most publishes the files, TransferCompleted of a native send
\* means that one did, and a call that has ended has said how (dial_candidates,
\* send_prepared_native_files, send_files of api/transfers.rs).
THEOREM SendsReportTheTruth == Spec => []ReportIsTrue
<1>1. ReportInv => ReportIsTrue
  <2> SUFFICES ASSUME ReportInv, NEW s \in Send
               PROVE  LET published == {a \in Address : conn[s][a].published} IN
                      /\ Cardinality(published) <= 1
                      /\ send[s].kind \in Native
                           /\ "TransferCompleted" \in {events[s][i] : i \in DOMAIN events[s]}
                           => published # {}
                      /\ send[s].pc = "ended" => Len(events[s]) # 1
    BY Zenon DEF ReportIsTrue
  <2> DEFINE published == {a \in Address : conn[s][a].published}
  <2>1. /\ Report(send[s], conn[s], results[s], events[s]) /\ events[s] \in Seq(DaemonEvent)
    BY Zenon DEF ReportInv, ReportTypes
  <2>2. Cardinality(published) <= 1
    <3>1. published \subseteq {send[s].address}
      BY <2>1, Zenon DEF Report, StreamOK, Touched
    <3>2. published = {} \/ published = {send[s].address}
      BY <3>1, Zenon
    <3>3. Cardinality(published) = 0 \/ Cardinality(published) = 1
      BY <3>2, FS_EmptySet, FS_Singleton, Zenon
    <3> HIDE DEF published
    <3> QED BY <3>3
  <2>3. events[s] \in {<<>>, <<"TransferStarted">>, <<"TransferStarted", "TransferFailed">>,
                       <<"TransferStarted", "TransferCompleted">>}
    BY <2>1, Zenon DEF Report, EventsOK
  <2>4. ASSUME send[s].kind \in Native,
               "TransferCompleted" \in {events[s][i] : i \in DOMAIN events[s]}
        PROVE  published # {}
    <3>1. events[s] = <<"TransferStarted", "TransferCompleted">>
      BY <2>1, <2>3, <2>4, EventShapes, Zenon
    <3> QED BY <2>1, <2>4, <3>1, Zenon DEF Report, EventsOK
  <2>5. send[s].pc = "ended" => Len(events[s]) # 1
    BY <2>1, EventShapes, Zenon DEF Report, EventsOK
  <2> QED BY <2>2, <2>4, <2>5, Zenon
<1> QED BY <1>1, ReportInvariant, PTL

\* A sequence whose elements name different addresses is not longer than the set
\* of addresses.
LEMMA ResultsFit ==
  ASSUME NEW q \in Seq(DialResult), NEW x, NEW f, ResultOK(x, f, q)
  PROVE  Len(q) <= Cardinality(Address)
<1> DEFINE g == [i \in DOMAIN q |-> q[i].address]
<1>1. Len(q) \in Nat /\ DOMAIN q = 1 .. Len(q)
  OBVIOUS
<1>2. ASSUME NEW i \in DOMAIN q PROVE q[i].address \in Address
  <2>1. q[i] \in DialResult
    OBVIOUS
  <2> QED BY <2>1, Zenon DEF DialResult
<1>3. g \in Injection(DOMAIN q, Address)
  <2>1. g \in [DOMAIN q -> Address] /\ DOMAIN g = DOMAIN q
    BY <1>2, Zenon
  <2>2. ASSUME NEW i \in DOMAIN q, NEW k \in DOMAIN q, g[i] = g[k] PROVE i = k
    BY <2>2, Zenon DEF ResultOK
  <2> QED BY <2>1, <2>2, Zenon DEF Injection, IsInjective
<1>4. Cardinality(DOMAIN q) <= Cardinality(Address)
  BY <1>3, RekeysAssumption, FS_Injection, Zenon
<1>5. Cardinality(1 .. Len(q)) = Len(q)
  BY <1>1, FS_Interval, SMTT(40)
<1> QED BY <1>1, <1>4, <1>5, Zenon

\* Types, among them that every dial task reports once: the channel of
\* dial_candidates, which has room for one result of each candidate, never blocks
\* a task.
THEOREM SendsAreTyped == Spec => []TypeOK
<1>1. SendInv /\ ReportInv => TypeOK
  <2> SUFFICES ASSUME SendInv, ReportInv PROVE TypeOK
    BY Zenon
  <2>1. Types /\ WorldTypes /\ ReportTypes
    BY Zenon DEF SendInv, Types, OwnCertificates, WorldTypes, ReportInv
  <2>2. ASSUME NEW s \in Send
        PROVE  /\ Len(results[s]) <= Cardinality(Address)
               /\ {results[s][i] : i \in DOMAIN results[s]} \subseteq DialResult
    <3>1. results[s] \in Seq(DialResult) /\ ResultOK(send[s], conn[s], results[s])
      BY Zenon DEF ReportInv, Report
    <3>2. \A q \in Seq(DialResult) : {q[i] : i \in DOMAIN q} \subseteq DialResult
      OBVIOUS
    <3> QED BY <3>1, <3>2, ResultsFit, Zenon
  <2>3. ASSUME NEW s \in Send
        PROVE  /\ send[s].pc \in Step
               /\ events[s] \in {<<>>, <<"TransferStarted">>} \cup
                    {<<"TransferStarted", e>> : e \in DaemonEvent \ {"TransferStarted"}}
    BY Zenon DEF ReportInv, Report, EventsOK, DaemonEvent
  <2>4. events \in [Send -> {<<>>, <<"TransferStarted">>} \cup
                      {<<"TransferStarted", e>> : e \in DaemonEvent \ {"TransferStarted"}}]
    BY <2>1, <2>3, Zenon DEF ReportTypes
  <2> QED BY <2>1, <2>2, <2>3, <2>4, Zenon DEF TypeOK, Types, WorldTypes, ReportInv
<1> QED BY <1>1, SendInvariant, ReportInvariant, PTL
=============================================================================
