---------------------------- MODULE NativePeers ----------------------------
(***************************************************************************)
(* How a daemon knows the devices around it: the tables peers and          *)
(* localsend_lan_peers of the trust database (core/trust/store.rs), the    *)
(* native advertisements of mDNS (native_lan.rs, discovery.rs) and the     *)
(* scan for LocalSend apps (localsend_lan.rs).                             *)
(*                                                                         *)
(* A device stands for its Ed25519 key and the fingerprint made from it.   *)
(* Its certificate is replaced when the files it is kept in are lost.      *)
(***************************************************************************)
EXTENDS Naturals, FiniteSets

CONSTANTS Device,        \* the other devices, by native fingerprint
          Alias,         \* Alias[d]: the name device d shows
          Address,
          MaxRekeys,     \* certificates a device may go through, less one
          Absent,        \* no row
          NoCert         \* a row or advertisement without certificate

ASSUME RekeysAssumption == MaxRekeys \in Nat /\ IsFiniteSet(Address)

Certificate == [dev : Device, gen : 0..MaxRekeys]

PeerPolicy == {"auto_accept", "prompt", "block"}

Peer == [policy : PeerPolicy, cert : Certificate \cup {NoCert}]

\* The pinned certificate is replaced together with the policy.
trust_with_native_certificate(peers, d, policy, cert) ==
  [peers EXCEPT ![d] = [policy |-> policy, cert |-> cert]]

\* What a send needs of the row: automatic acceptance and a pinned certificate.
native_wan_certificate_fingerprint(row) ==
  IF row # Absent /\ row.policy = "auto_accept" THEN row.cert ELSE NoCert

(***************************************************************************)
(* Native advertisements.                                                  *)
(***************************************************************************)
Advert == [peer : Device, address : Address, cert : Certificate]

\* What device d puts in its records when it starts at address a.
service_info_for_peer(d, a, cert) == [peer |-> d, address |-> a, cert |-> cert]

\* What a browse may receive until its time is over, of the advertisements in the
\* caches of the network, old ones among them.
recv_resolved_all(heard) == SUBSET heard

\* At most one of each fingerprint.
discover(heard) ==
  {found \in recv_resolved_all(heard) : \A a, b \in found : a.peer = b.peer => a = b}

\* What the rendezvous server may know of a peer: addresses that it has had.
lookup_peer_candidates(heard, d) == SUBSET {x.address : x \in {h \in heard : h.peer = d}}

matches(found, ref) == {a \in found : a.peer = ref.id \/ Alias[a.peer] = ref.alias}

\* The one match, if there is exactly one.
resolve_peer_ref(found, ref) ==
  IF Cardinality(matches(found, ref)) = 1 THEN matches(found, ref) ELSE {}

\* An advertisement that does not carry the certificate cannot be trusted.
trust_discovered_peer(peers, advert, policy) ==
  trust_with_native_certificate(peers, advert.peer, policy, advert.cert)

(***************************************************************************)
(* LocalSend apps on the LAN, by the fingerprint of their certificate.     *)
(***************************************************************************)
LanTable == [Certificate -> Address \cup {Absent}]

record_localsend_lan_peer(lan, cert, address) == [lan EXCEPT ![cert] = address]

\* The rows after a scan that was answered from the addresses in answers.
scan_and_cache(lan, answers) ==
  [c \in Certificate |->
     IF \E x \in answers : x.cert = c
       THEN (CHOOSE x \in answers : x.cert = c).address ELSE lan[c]]

list_localsend_lan_peers(lan) == {c \in Certificate : lan[c] # Absent}

resolve_localsend_lan_peer(lan, ref) ==
  LET found == {c \in list_localsend_lan_peers(lan) : c = ref.id \/ Alias[c.dev] = ref.alias}
  IN IF Cardinality(found) = 1 THEN found ELSE {}

=============================================================================
