--------------------------- MODULE WanLoopProofs ----------------------------
(***************************************************************************)
(* Proofs about WanLoop, for every interval, timeout, lag and number of    *)
(* losses that meets its assumptions: a registered peer is found, queued   *)
(* notifications have an owner, the loop stops promptly, and the server    *)
(* forgets what has expired in time.                                       *)
(***************************************************************************)
EXTENDS WanLoop, TLAPS

Entry == [candidates : SUBSET NativeCandidate, left : Int]

RegistryType == [entries : [Pubkey -> Entry \cup {Gone}],
                 notifications : [Pubkey -> Nat]]

RequestType == [kind : ClientMessage, stage : {"wire", "now"}, lag : Nat,
                pubkey : Pubkey, candidates : SUBSET NativeCandidate,
                ttl_seconds : Nat]

Owned(reg) == \A p \in Pubkey : reg.notifications[p] > 0 => reg.entries[p] # Gone

Live(reg, p, n) == reg.entries[p] # Gone /\ reg.entries[p].left >= n

Types ==
  /\ registry \in RegistryType
  /\ wire \in [Slot -> RequestType \cup {None}]
  /\ up \in BOOLEAN /\ shutdown \in BOOLEAN /\ registered \in BOOLEAN
  /\ loop \in {"gather", "register", "wait", "stopped"}
  /\ waited \in Nat /\ since \in Nat
  /\ failures \in Nat /\ failures <= MaxLosses
  /\ address \in Address

\* The timers of the loop: no stay outlasts its timeout.
OnTime ==
  /\ loop = "gather"   => waited <= GatherTime
  /\ loop = "register" => waited <= Patience
  /\ loop = "wait"     => waited <= Interval

\* What shutdown has cost so far is at most what the stay at hand has.
Stopping ==
  /\ loop = "stopped" => shutdown
  /\ ~shutdown => since = 0
  /\ loop = "gather"   => since <= waited
  /\ loop = "register" => since <= GatherTime + waited
  /\ since <= GatherTime + Patience

\* The daemon's own request, as handle_message gets it.
OwnRequest(r) ==
  /\ r.kind = "register" /\ r.pubkey = Daemon /\ r.candidates # {}
  /\ r.ttl_seconds = 3 * Interval /\ r.lag <= MaxLag

\* Requests are where the loop has left them; none outlives its server, and a
\* connection that cannot be made means that the server has forgotten the peer.
OnTheWire ==
  /\ loop # "register" => wire["loop"] = None
  /\ ~up => ~registered /\ wire["loop"] = None /\ wire["late"] = None
  /\ loop = "register" /\ wire["loop"] = None => ~registered /\ wire["late"] = None
  /\ wire["loop"] # None => OwnRequest(wire["loop"])
  /\ wire["late"] # None => OwnRequest(wire["late"])
  /\ wire["visitor"] # None => wire["visitor"].kind # "register"

\* One round of the loop at its longest, and how far the round at hand is.
Round == Interval + GatherTime + Patience

Position == CASE loop = "wait"     -> waited
              [] loop = "gather"   -> Interval + waited
              [] loop = "register" -> Interval + GatherTime + waited
              [] OTHER             -> 0

\* The entry has lost no more of its lifetime than the lag it was written with,
\* the rounds that failed since and the part of the round at hand.
Margin == 3 * Interval - MaxLag - failures * Round - Position

InTime == Position \in Nat /\ Margin \in Int /\ Margin > 0 /\ Margin <= 3 * Interval - MaxLag

Alive == registered /\ ~shutdown => Live(registry, Daemon, Margin)

WanInv == Types /\ OnTime /\ Stopping /\ OnTheWire /\ Owned(registry) /\ Alive

-----------------------------------------------------------------------------
\* The constants as numbers.
LEMMA Numbers ==
  /\ Interval \in Nat /\ Patience \in Nat /\ MaxLosses \in Nat
  /\ GatherTime \in Nat /\ MaxLag \in Nat /\ MaxTtl \in Nat /\ Round \in Nat
  /\ Interval > 0 /\ 3 * Interval <= MaxTtl
  /\ (MaxLosses + 1) * Round + Patience + MaxLag < 3 * Interval
<1>1. /\ Interval \in Nat /\ Patience \in Nat /\ MaxLosses \in Nat
      /\ StunTimeout \in Nat /\ PortShared \in BOOLEAN
  BY WanAssumption, Zenon
<1>2. GatherTime \in Nat
  BY <1>1, Zenon DEF GatherTime
<1>3. MaxLag \in Nat /\ MaxTtl \in Nat
  BY ServerAssumption, MaxTtlAssumption, Zenon
<1>4. Round \in Nat
  BY <1>1, <1>2 DEF Round
<1>5. (MaxLosses + 1) * Round + Patience + MaxLag < 3 * Interval
  BY TtlAssumption, Zenon DEF Round
<1>6. (MaxLosses + 1) * Round \in Nat
  BY <1>1, <1>4
<1> QED
  BY <1>1, <1>2, <1>3, <1>4, <1>5, <1>6, TtlAssumption

\* A product grows by a factor when its other factor grows by one, and rounds
\* that failed are no more than MaxLosses.
LEMMA Rounds ==
  ASSUME NEW n \in Nat
  PROVE  /\ n * Round \in Nat
         /\ (n + 1) * Round = n * Round + Round
         /\ n <= MaxLosses => n * Round + Round <= (MaxLosses + 1) * Round
<1>1. Round \in Nat /\ MaxLosses \in Nat
  BY Numbers, Zenon
<1>2. ASSUME NEW r \in Nat, NEW m \in Nat
      PROVE  /\ n * r \in Nat /\ (n + 1) * r = n * r + r
             /\ n <= m => n * r + r <= (m + 1) * r
  <2>1. n * r \in Nat /\ (n + 1) * r = n * r + r /\ (m + 1) * r = m * r + r
    BY <1>2
  <2>2. ASSUME n <= m PROVE n * r <= m * r
    <3>1. PICK k \in Nat : m = n + k
      <4>1. m - n \in Nat /\ m = n + (m - n)
        BY <1>2, <2>2
      <4> QED BY <4>1, Zenon
    <3>2. m * r = n * r + k * r /\ k * r \in Nat
      BY <3>1, <1>2
    <3> QED BY <3>2, <2>1
  <2> QED BY <2>1, <2>2, <1>2
<1> QED BY <1>1, <1>2, Zenon

-----------------------------------------------------------------------------
\* Pruning keeps the types and the owners, and every entry with time left.
LEMMA Pruned ==
  ASSUME NEW reg \in RegistryType, NEW lag \in Nat, Owned(reg)
  PROVE  /\ prune_expired(reg, lag) \in RegistryType
         /\ Owned(prune_expired(reg, lag))
         /\ \A p \in Pubkey, n \in Int :
              n > 0 /\ Live(reg, p, n) => Live(prune_expired(reg, lag), p, n)
<1>1. \A p \in Pubkey : reg.entries[p] # Gone => reg.entries[p] \in Entry
  BY Zenon DEF RegistryType
<1>2. reg.entries \in [Pubkey -> Entry \cup {Gone}] /\ reg.notifications \in [Pubkey -> Nat]
  BY Zenon DEF RegistryType
<1>3. prune_expired(reg, lag) \in RegistryType
  BY <1>2, Zenon DEF prune_expired, RegistryType
<1>4. Owned(prune_expired(reg, lag))
  BY <1>2 DEF prune_expired, Owned
<1>5. ASSUME NEW p \in Pubkey, NEW n \in Int, n > 0, Live(reg, p, n)
      PROVE  Live(prune_expired(reg, lag), p, n)
  <2>1. reg.entries[p] # Gone /\ reg.entries[p].left \in Int /\ reg.entries[p].left > 0
    BY <1>1, <1>5 DEF Live, Entry
  <2>2. ~Expired(reg, p, lag)
    BY <2>1 DEF Expired
  <2>3. prune_expired(reg, lag).entries[p] = reg.entries[p]
    BY <2>2, Zenon DEF prune_expired
  <2> QED BY <1>5, <2>3, Zenon DEF Live
<1> QED BY <1>3, <1>4, <1>5, Zenon

\* So does queueing a notification, which needs an entry that is there.
LEMMA Queued ==
  ASSUME NEW reg \in RegistryType, NEW q \in Pubkey, NEW lag \in Nat, Owned(reg)
  PROVE  /\ queue_notify(reg, q, lag) \in RegistryType
         /\ Owned(queue_notify(reg, q, lag))
         /\ \A p \in Pubkey, n \in Int :
              n > 0 /\ Live(reg, p, n) => Live(queue_notify(reg, q, lag), p, n)
<1> DEFINE pruned == prune_expired(reg, lag)
<1>1. /\ pruned \in RegistryType /\ Owned(pruned)
      /\ \A p \in Pubkey, n \in Int : n > 0 /\ Live(reg, p, n) => Live(pruned, p, n)
  BY Pruned, Zenon
<1>2. queue_notify(reg, q, lag)
        = IF pruned.entries[q] = Gone THEN pruned
          ELSE [pruned EXCEPT !.notifications[q] = @ + 1]
  BY Zenon DEF queue_notify, lookup
<1> HIDE DEF pruned
<1>3. CASE pruned.entries[q] = Gone
  BY <1>1, <1>2, <1>3, Zenon
<1>4. CASE pruned.entries[q] # Gone
  <2> DEFINE more == [pruned EXCEPT !.notifications[q] = @ + 1]
  <2>1. queue_notify(reg, q, lag) = more
    BY <1>2, <1>4, Zenon
  <2>2. more \in RegistryType /\ more.entries = pruned.entries
    BY <1>1 DEF RegistryType
  <2>3. \A p \in Pubkey : p # q => more.notifications[p] = pruned.notifications[p]
    BY <1>1, Zenon DEF RegistryType
  <2> HIDE DEF more
  <2>4. Owned(more)
    BY <1>1, <1>4, <2>2, <2>3, Zenon DEF Owned
  <2>5. \A p \in Pubkey, n \in Int : Live(pruned, p, n) => Live(more, p, n)
    BY <2>2, Zenon DEF Live
  <2> QED BY <1>1, <2>1, <2>2, <2>4, <2>5, Zenon
<1> QED BY <1>3, <1>4, Zenon

\* The daemon's own registration gives its entry all but the lag of its lifetime.
LEMMA Registered ==
  ASSUME NEW reg \in RegistryType, NEW r \in RequestType, OwnRequest(r), Owned(reg)
  PROVE  /\ register(reg, r, r.lag) \in RegistryType
         /\ Owned(register(reg, r, r.lag))
         /\ Live(register(reg, r, r.lag), Daemon, 3 * Interval - MaxLag)
<1> DEFINE fresh == [candidates |-> r.candidates,
                     left |-> capped_ttl(r.ttl_seconds) - r.lag]
<1>1. r.lag \in Nat /\ r.lag <= MaxLag /\ r.ttl_seconds = 3 * Interval /\ r.pubkey = Daemon
      /\ r.candidates # {} /\ r.candidates \in SUBSET NativeCandidate
  BY Zenon DEF OwnRequest, RequestType
<1>2. capped_ttl(3 * Interval) = 3 * Interval /\ 3 * Interval # 0 /\ 3 * Interval \in Int
  BY Numbers DEF capped_ttl
<1>3. fresh \in Entry /\ fresh.left >= 3 * Interval - MaxLag
  BY <1>1, <1>2, Numbers DEF Entry
<1>4. register(reg, r, r.lag) = [reg EXCEPT !.entries[Daemon] = fresh]
  BY <1>1, <1>2, Zenon DEF register, validate
<1>5. fresh # Gone
  BY <1>3, NothingAssumption, Zenon DEF Entry
<1>6. Daemon \in Pubkey
  BY WanAssumption, Zenon
<1> HIDE DEF fresh
<1> DEFINE after == [reg EXCEPT !.entries[Daemon] = fresh]
<1>7. /\ after \in RegistryType /\ after.entries[Daemon] = fresh
      /\ after.notifications = reg.notifications
      /\ \A p \in Pubkey : p # Daemon => after.entries[p] = reg.entries[p]
  BY <1>3, <1>6, Zenon DEF RegistryType
<1> HIDE DEF after
<1>8. Owned(after)
  BY <1>5, <1>7, Zenon DEF Owned
<1>9. Live(after, Daemon, 3 * Interval - MaxLag)
  BY <1>3, <1>5, <1>7, Zenon DEF Live
<1> QED BY <1>4, <1>7, <1>8, <1>9, Zenon DEF after

\* A tick takes one tick from every entry.
LEMMA AgedByOne ==
  ASSUME NEW reg \in RegistryType, Owned(reg)
  PROVE  /\ Aged(reg) \in RegistryType
         /\ Owned(Aged(reg))
         /\ \A p \in Pubkey, n \in Int : Live(reg, p, n) => Live(Aged(reg), p, n - 1)
<1> DEFINE older == [p \in Pubkey |->
              IF reg.entries[p] = Gone THEN Gone
              ELSE [candidates |-> reg.entries[p].candidates,
                    left |-> reg.entries[p].left - 1]]
<1>1. /\ reg.entries \in [Pubkey -> Entry \cup {Gone}]
      /\ reg.notifications \in [Pubkey -> Nat]
      /\ reg = [entries |-> reg.entries, notifications |-> reg.notifications]
  BY Zenon DEF RegistryType
<1>2. Aged(reg) = [entries |-> older, notifications |-> reg.notifications]
  BY <1>1 DEF Aged
<1>3. ASSUME NEW p \in Pubkey, reg.entries[p] # Gone
      PROVE  /\ older[p] \in Entry /\ older[p] # Gone
             /\ reg.entries[p].left \in Int
             /\ older[p].left = reg.entries[p].left - 1
  <2>1. reg.entries[p] \in Entry
    BY <1>1, <1>3, Zenon
  <2>2. older[p] = [candidates |-> reg.entries[p].candidates,
                    left |-> reg.entries[p].left - 1]
    BY <1>3, Zenon
  <2>3. older[p] \in Entry /\ reg.entries[p].left \in Int
        /\ older[p].left = reg.entries[p].left - 1
    BY <2>1, <2>2 DEF Entry
  <2> QED BY <2>3, NothingAssumption, Zenon DEF Entry
<1>4. \A p \in Pubkey : reg.entries[p] = Gone => older[p] = Gone
  BY Zenon
<1>5. older \in [Pubkey -> Entry \cup {Gone}]
  <2>1. older = [p \in Pubkey |-> older[p]]
    BY Zenon
  <2> HIDE DEF older
  <2>2. \A p \in Pubkey : older[p] \in Entry \cup {Gone}
    BY <1>3, <1>4, Zenon
  <2> QED BY <2>1, <2>2, Zenon
<1> HIDE DEF older
<1>6. Aged(reg) \in RegistryType
  BY <1>1, <1>2, <1>5 DEF RegistryType
<1>7. Owned(Aged(reg))
  BY <1>2, <1>3 DEF Owned
<1>8. ASSUME NEW p \in Pubkey, NEW n \in Int, Live(reg, p, n)
      PROVE  Live(Aged(reg), p, n - 1)
  BY <1>2, <1>3, <1>8 DEF Live
<1> QED BY <1>6, <1>7, <1>8, Zenon

-----------------------------------------------------------------------------
\* How far a round can be, where the loop is.
LEMMA Positions ==
  ASSUME Types, OnTime
  PROVE  /\ Position \in Nat /\ Position <= Round
         /\ loop = "wait" => Position = waited
         /\ loop = "gather" => Position = Interval + waited
         /\ loop = "register" => Position = Interval + GatherTime + waited
<1>1. waited \in Nat /\ loop \in {"gather", "register", "wait", "stopped"}
  BY Zenon DEF Types
<1>2. /\ loop = "wait" => Position = waited
      /\ loop = "gather" => Position = Interval + waited
      /\ loop = "register" => Position = Interval + GatherTime + waited
      /\ loop = "stopped" => Position = 0
  BY Zenon DEF Position
<1> QED BY <1>1, <1>2, Numbers DEF OnTime, Round

\* What is left to an entry that Alive speaks of is positive.
LEMMA TimeLeft == Types /\ OnTime => InTime
<1> SUFFICES ASSUME Types, OnTime PROVE InTime
  BY Zenon
<1>1. failures \in Nat /\ failures <= MaxLosses
  BY Zenon DEF Types
<1> DEFINE lost == failures * Round
           most == (MaxLosses + 1) * Round
<1>2. lost \in Nat /\ lost + Round <= most /\ most \in Nat
  <2>1. lost \in Nat /\ lost + Round <= most
    BY <1>1, Rounds, Zenon
  <2>2. most \in Nat
    BY Numbers
  <2> QED BY <2>1, <2>2, Zenon
<1>3. most + Patience + MaxLag < 3 * Interval
  BY Numbers, Zenon
<1>4. Position \in Nat /\ Position <= Round
  BY Positions, Zenon
<1> HIDE DEF lost, most
<1>5. /\ 3 * Interval - MaxLag - lost - Position \in Int
      /\ 3 * Interval - MaxLag - lost - Position > 0
      /\ 3 * Interval - MaxLag - lost - Position <= 3 * Interval - MaxLag
  BY <1>2, <1>3, <1>4, Numbers
<1> QED BY <1>4, <1>5, Zenon DEF lost, Margin, InTime

\* A lower bound holds when a higher one does.
LEMMA LiveLess ==
  ASSUME NEW reg \in RegistryType, NEW p \in Pubkey, NEW n \in Int, NEW m \in Int,
         m <= n, Live(reg, p, n)
  PROVE  Live(reg, p, m)
<1>1. reg.entries[p] \in Entry
  BY Zenon DEF RegistryType, Live
<1>2. reg.entries[p].left \in Int
  BY <1>1, Zenon DEF Entry
<1> QED BY <1>2 DEF Live

\* The request in a slot, when there is one.
LEMMA InSlot ==
  ASSUME Types, NEW s \in Slot, wire[s] # None
  PROVE  wire[s] \in RequestType
BY Zenon DEF Types

\* The loop starts with nothing registered.
LEMMA WanInvInit == Init => WanInv
<1> SUFFICES ASSUME Init PROVE WanInv
  BY Zenon
<1> USE DEF Init, ServerInit
<1>1. registry \in RegistryType /\ Owned(registry)
  BY DEF new, RegistryType, Owned
<1>2. Types
  <2>1. wire \in [Slot -> RequestType \cup {None}]
    BY Zenon
  <2>2. up \in BOOLEAN /\ shutdown \in BOOLEAN /\ registered \in BOOLEAN
    BY Zenon
  <2>3. /\ loop \in {"gather", "register", "wait", "stopped"}
        /\ waited \in Nat /\ since \in Nat /\ failures \in Nat /\ failures <= MaxLosses
        /\ address \in Address
    BY Numbers
  <2> QED BY <1>1, <2>1, <2>2, <2>3, Zenon DEF Types
<1>3. OnTime /\ Stopping
  BY Numbers DEF OnTime, Stopping
<1>4. OnTheWire
  BY WanAssumption, Zenon DEF OnTheWire
<1>5. Alive
  BY Zenon DEF Alive
<1> QED BY <1>1, <1>2, <1>3, <1>4, <1>5, Zenon DEF WanInv

\* Handling any request keeps types and owners and every entry with time left;
\* the daemon's own request gives it the lifetime it asked for.
LEMMA HandledFacts ==
  ASSUME Types, Owned(registry), OnTheWire, NEW s \in Slot, wire[s] # None
  PROVE  /\ Handled(wire[s]) \in RegistryType
         /\ Owned(Handled(wire[s]))
         /\ wire[s].kind = "register" =>
              Live(Handled(wire[s]), Daemon, 3 * Interval - MaxLag)
         /\ wire[s].kind # "register" =>
              \A n \in Int : n > 0 /\ Live(registry, Daemon, n)
                               => Live(Handled(wire[s]), Daemon, n)
<1> DEFINE r == wire[s]
<1>1. r \in RequestType
  BY InSlot, Zenon
<1>2. r.lag \in Nat /\ r.pubkey \in Pubkey /\ r.kind \in ClientMessage
  BY <1>1, Zenon DEF RequestType
<1>3. registry \in RegistryType /\ Daemon \in Pubkey
  BY WanAssumption, Zenon DEF Types
<1>4. r.kind = "register" => OwnRequest(r)
  BY WanAssumption, Zenon DEF OnTheWire
<1> HIDE DEF r
<1>5. CASE r.kind = "register"
  <2>1. Handled(r) = register(registry, r, r.lag)
    BY <1>5, Zenon DEF Handled
  <2>2. /\ register(registry, r, r.lag) \in RegistryType
        /\ Owned(register(registry, r, r.lag))
        /\ Live(register(registry, r, r.lag), Daemon, 3 * Interval - MaxLag)
    BY <1>1, <1>3, <1>4, <1>5, Registered, Zenon
  <2> QED BY <1>5, <2>1, <2>2, Zenon DEF r
<1>6. CASE r.kind = "lookup"
  <2>1. Handled(r) = prune_expired(registry, r.lag)
    BY <1>6, Zenon DEF Handled
  <2> QED BY <1>2, <1>3, <1>6, <2>1, Pruned, Zenon DEF r
<1>7. CASE r.kind = "notify"
  <2>1. Handled(r) = queue_notify(registry, r.pubkey, r.lag)
    BY <1>7, Zenon DEF Handled
  <2> QED BY <1>2, <1>3, <1>7, <2>1, Queued, Zenon DEF r
<1> QED BY <1>2, <1>5, <1>6, <1>7, Zenon DEF ClientMessage

-----------------------------------------------------------------------------
\* A step that leaves the timers, the losses and the registry's entry of the
\* daemon as they are, or better.
LEMMA AliveKept ==
  ASSUME WanInv, Types', registered' => registered, shutdown' = shutdown,
         UNCHANGED <<loop, waited, failures>>,
         \A n \in Int : n > 0 /\ Live(registry, Daemon, n) => Live(registry', Daemon, n)
  PROVE  Alive'
<1> SUFFICES ASSUME registered', ~shutdown'
             PROVE  Live(registry', Daemon, Margin')
  BY Zenon DEF Alive
<1>1. Margin' = Margin
  BY Zenon DEF Margin, Position
<1>2. Margin \in Int /\ Margin > 0
  BY TimeLeft, Zenon DEF WanInv, InTime
<1>3. Live(registry, Daemon, Margin)
  BY Zenon DEF WanInv, Alive
<1>4. Live(registry', Daemon, Margin)
  BY <1>2, <1>3, Zenon
<1> QED BY <1>1, <1>4, Zenon

\* A step after which the entry has the lifetime it asked for.
LEMMA AliveAfresh ==
  ASSUME Types', OnTime', Live(registry', Daemon, 3 * Interval - MaxLag)
  PROVE  Alive'
<1>1. Margin' \in Int /\ Margin' <= 3 * Interval - MaxLag
  <2>1. InTime'
    BY TimeLeft, PTL
  <2> QED BY <2>1, Zenon DEF InTime
<1>2. registry' \in RegistryType /\ Daemon \in Pubkey /\ 3 * Interval - MaxLag \in Int
  BY Numbers, WanAssumption DEF Types
<1>3. Live(registry', Daemon, Margin')
  BY <1>1, <1>2, LiveLess, Zenon
<1> QED BY <1>3, Zenon DEF Alive

\* A step that only takes from the margin.
LEMMA AliveLess ==
  ASSUME WanInv, Types', OnTime', UNCHANGED <<registry, shutdown>>,
         registered' => registered, Margin' <= Margin
  PROVE  Alive'
<1> SUFFICES ASSUME registered', ~shutdown' PROVE Live(registry', Daemon, Margin')
  BY Zenon DEF Alive
<1>1. InTime /\ InTime'
  BY TimeLeft, PTL DEF WanInv
<1>2. Live(registry, Daemon, Margin) /\ registry \in RegistryType
  BY Zenon DEF WanInv, Alive, Types
<1> QED BY <1>1, <1>2, LiveLess, WanAssumption, Zenon DEF InTime

\* A step of the loop later in the round.
LEMMA AliveLater ==
  ASSUME WanInv, Types', OnTime', UNCHANGED <<registry, shutdown, failures>>,
         registered' => registered, Position' >= Position
  PROVE  Alive'
<1> DEFINE lost == failures * Round
<1>1. lost \in Nat
  BY Rounds, Zenon DEF WanInv, Types
<1>2. Margin = 3 * Interval - MaxLag - lost - Position
  BY Zenon DEF Margin
<1>3. Margin' = 3 * Interval - MaxLag - lost - Position'
  BY Zenon DEF Margin
<1> HIDE DEF lost
<1>4. InTime /\ InTime'
  BY TimeLeft, PTL DEF WanInv
<1>5. \A l, a, b \in Nat :
        b >= a => 3 * Interval - MaxLag - l - b <= 3 * Interval - MaxLag - l - a
  BY Numbers
<1>6. Margin' <= Margin
  BY <1>1, <1>2, <1>3, <1>4, <1>5, Zenon DEF InTime
<1> QED BY <1>6, AliveLess, Zenon

-----------------------------------------------------------------------------
\* One lemma per action, or group of actions that disturb the same conjuncts.
LEMMA ConnectStep == WanInv /\ connect_client => WanInv'
<1> SUFFICES ASSUME WanInv, connect_client PROVE WanInv'
  BY Zenon
<1>1. PICK candidates \in gather_candidates(address) :
        wire' = IF up THEN [wire EXCEPT !["loop"] = build_register_request(candidates)]
                ELSE wire
  BY Zenon DEF connect_client
<1>2. /\ loop = "gather" /\ loop' = "register" /\ waited' = 0
      /\ UNCHANGED <<up, registry, address, shutdown, failures, registered, since>>
  BY Zenon DEF connect_client, Enter
<1> DEFINE r == build_register_request(candidates)
<1>3. candidates # {} /\ candidates \in SUBSET NativeCandidate
  <2>1. address \in Address
    BY Zenon DEF WanInv, Types
  <2>2. PICK found \in discover_server_reflexive_candidate(address) :
          candidates = local_candidates(address) \cup found
    BY Zenon DEF gather_candidates
  <2>3. found \in SUBSET NativeCandidate
    BY <2>1, <2>2, WanAssumption DEF discover_server_reflexive_candidate, NativeCandidate
  <2>4. local_candidates(address) # {} /\ local_candidates(address) \in SUBSET NativeCandidate
    BY <2>1 DEF local_candidates, NativeCandidate
  <2> QED BY <2>2, <2>3, <2>4, Zenon
<1>4. r \in RequestType /\ OwnRequest(r)
  <2>1. r = [kind |-> "register", stage |-> "wire", lag |-> 0, pubkey |-> Daemon,
             candidates |-> candidates, ttl_seconds |-> 3 * Interval]
    BY Numbers DEF build_register_request, Request, registration_ttl_seconds
  <2>2. 3 * Interval \in Nat /\ 0 <= MaxLag /\ Daemon \in Pubkey
    BY Numbers, WanAssumption
  <2> HIDE DEF r
  <2> QED BY <1>3, <2>1, <2>2, Zenon DEF RequestType, OwnRequest, ClientMessage
<1>5. r # None
  BY <1>4, NothingAssumption, Zenon DEF RequestType
<1> HIDE DEF r
<1>6. /\ wire' \in [Slot -> RequestType \cup {None}]
      /\ wire'["late"] = wire["late"] /\ wire'["visitor"] = wire["visitor"]
      /\ up => wire'["loop"] = r
      /\ ~up => wire' = wire
  BY <1>1, <1>4, WanAssumption, Zenon DEF WanInv, Types, r
<1>7. Types'
  BY <1>2, <1>6, Zenon DEF WanInv, Types
<1>8. OnTime' /\ Stopping'
  BY <1>2, Numbers DEF WanInv, Types, OnTime, Stopping
<1>9. OnTheWire'
  BY <1>2, <1>4, <1>5, <1>6, Zenon DEF WanInv, Types, OnTheWire
<1>10. Alive'
  <2>1. Position' >= Position
    <3>1. Position = Interval + waited /\ waited \in Nat /\ waited <= GatherTime
      BY <1>2, Positions, Zenon DEF WanInv, Types, OnTime
    <3>2. Position' = Interval + GatherTime + 0
      BY <1>2, Zenon DEF Position
    <3> QED BY <3>1, <3>2, Numbers
  <2> QED BY <1>2, <1>7, <1>8, <2>1, AliveLater, Zenon
<1> QED BY <1>2, <1>7, <1>8, <1>9, <1>10, Zenon DEF WanInv

\* The slot of a request that was handled is free, the others are as before.
LEMMA HandleFrame ==
  ASSUME WanInv, NEW s \in Slot, handle_message(s)
  PROVE  /\ up /\ wire[s] # None /\ up' = up
         /\ registry' = Handled(wire[s])
         /\ wire' \in [Slot -> RequestType \cup {None}]
         /\ wire'[s] = None
         /\ \A t \in Slot : t # s => wire'[t] = wire[t]
BY Zenon DEF WanInv, Types, handle_message, At

\* The server handles the registration of the loop.
LEMMA HandledStep ==
  ASSUME WanInv, NEW replied \in BOOLEAN, register_handled(replied)
  PROVE  WanInv'
<1>1. "loop" \in Slot /\ "late" \in Slot /\ "visitor" \in Slot
  BY WanAssumption, Zenon
<1>2. handle_message("loop")
  BY Zenon DEF register_handled
<1>3. /\ loop' = "wait" /\ waited' = 0 /\ registered' = TRUE
      /\ UNCHANGED <<address, shutdown, since>>
      /\ failures' \in Nat /\ failures' <= MaxLosses
  <2>1. failures \in Nat /\ failures <= MaxLosses
    BY Zenon DEF WanInv, Types
  <2>2. CASE replied = TRUE
    BY <2>2, Numbers DEF register_handled, Enter
  <2>3. CASE replied = FALSE
    BY <2>1, <2>3, Numbers DEF register_handled, Enter
  <2> QED BY <2>2, <2>3, Zenon
<1>4. /\ up /\ wire["loop"] # None /\ up' = up
      /\ registry' = Handled(wire["loop"])
      /\ wire' \in [Slot -> RequestType \cup {None}]
      /\ wire'["loop"] = None
      /\ wire'["late"] = wire["late"] /\ wire'["visitor"] = wire["visitor"]
  BY <1>1, <1>2, HandleFrame, Zenon
<1>5. loop = "register" /\ wire["loop"].kind = "register"
  BY <1>4, Zenon DEF WanInv, OnTheWire, OwnRequest
<1>6. /\ registry' \in RegistryType /\ Owned(registry')
      /\ Live(registry', Daemon, 3 * Interval - MaxLag)
  BY <1>1, <1>4, <1>5, HandledFacts, Zenon DEF WanInv
<1>7. Types'
  BY <1>3, <1>4, <1>6, Zenon DEF WanInv, Types
<1>8. OnTime' /\ Stopping'
  BY <1>3, <1>5, Numbers DEF WanInv, Types, OnTime, Stopping
<1>9. OnTheWire'
  BY <1>3, <1>4, Zenon DEF WanInv, OnTheWire
<1>10. Alive'
  BY <1>6, <1>7, <1>8, AliveAfresh, Zenon
<1> QED BY <1>6, <1>7, <1>8, <1>9, <1>10, Zenon DEF WanInv

\* The loop does not reach the server.
LEMMA NoConnectionStep == WanInv /\ connect_fails => WanInv'
<1> SUFFICES ASSUME WanInv, connect_fails PROVE WanInv'
  BY Zenon
<1>1. /\ loop = "register" /\ wire["loop"] = None /\ loop' = "wait" /\ waited' = 0
      /\ UNCHANGED <<up, registry, wire, address, shutdown, failures, registered, since>>
  BY Zenon DEF connect_fails, Enter, serverVars
<1>2. ~registered
  BY <1>1, Zenon DEF WanInv, OnTheWire
<1>3. Types'
  BY <1>1, Zenon DEF WanInv, Types
<1>4. OnTime' /\ Stopping'
  BY <1>1, Numbers DEF WanInv, Types, OnTime, Stopping
<1>5. OnTheWire'
  BY <1>1, Zenon DEF WanInv, OnTheWire
<1>6. Alive'
  BY <1>1, <1>2, Zenon DEF Alive
<1> QED BY <1>1, <1>3, <1>4, <1>5, <1>6, Zenon DEF WanInv

\* One more round is lost: the margin shrinks by no more than a round.
LEMMA LostStep ==
  ASSUME WanInv, NEW late \in BOOLEAN, register_fails(late)
  PROVE  WanInv'
<1>1. "loop" \in Slot /\ "late" \in Slot /\ "visitor" \in Slot
  BY WanAssumption, Zenon
<1>2. /\ loop = "register" /\ wire["loop"] # None /\ failures < MaxLosses
      /\ loop' = "wait" /\ waited' = 0 /\ failures' = failures + 1
      /\ UNCHANGED <<up, registry, address, shutdown, registered, since>>
  BY Zenon DEF register_fails, Enter
<1>3. /\ wire' \in [Slot -> RequestType \cup {None}]
      /\ wire'["loop"] = None /\ wire'["visitor"] = wire["visitor"]
      /\ wire'["late"] \in {wire["loop"], wire["late"]}
  BY <1>1, Zenon DEF WanInv, Types, register_fails
<1>4. up
  BY <1>2, Zenon DEF WanInv, OnTheWire
<1>5. failures \in Nat /\ failures' \in Nat /\ failures' <= MaxLosses
  BY <1>2, Numbers DEF WanInv, Types
<1>6. Types'
  BY <1>2, <1>3, <1>5, Zenon DEF WanInv, Types
<1>7. OnTime' /\ Stopping'
  BY <1>2, Numbers DEF WanInv, Types, OnTime, Stopping
<1>8. OnTheWire'
  BY <1>2, <1>3, <1>4, Zenon DEF WanInv, OnTheWire
<1>9. Alive'
  <2>1. Margin' <= Margin
    <3> DEFINE lost == failures * Round
    <3>1. lost \in Nat /\ failures' * Round = lost + Round
      BY <1>2, <1>5, Rounds, Zenon
    <3>2. Position' = 0
      BY <1>2, Zenon DEF Position
    <3>3. Margin = 3 * Interval - MaxLag - lost - Position
      BY Zenon DEF Margin
    <3>4. Margin' = 3 * Interval - MaxLag - (lost + Round) - 0
      BY <3>1, <3>2, Zenon DEF Margin
    <3>5. Position \in Nat /\ Position <= Round
      BY Positions, Zenon DEF WanInv
    <3> HIDE DEF lost
    <3>6. \A l, a \in Nat : a <= Round =>
            3 * Interval - MaxLag - (l + Round) - 0 <= 3 * Interval - MaxLag - l - a
      BY Numbers
    <3> QED BY <3>1, <3>3, <3>4, <3>5, <3>6, Zenon
  <2> QED BY <1>2, <1>6, <1>7, <2>1, AliveLess, Zenon
<1> QED BY <1>2, <1>6, <1>7, <1>8, <1>9, Zenon DEF WanInv

\* The loop waits.
LEMMA WaitStep == WanInv /\ wait_for_register_interval => WanInv'
<1> SUFFICES ASSUME WanInv, wait_for_register_interval PROVE WanInv'
  BY Zenon
<1>1. /\ loop = "wait" /\ (shutdown \/ waited = Interval)
      /\ loop' = (IF shutdown THEN "stopped" ELSE "gather") /\ waited' = 0
      /\ UNCHANGED <<up, registry, wire, address, shutdown, failures, registered, since>>
  BY Zenon DEF wait_for_register_interval, interval_over, Enter, serverVars
<1>2. Types'
  BY <1>1, Zenon DEF WanInv, Types
<1>3. OnTime' /\ Stopping'
  BY <1>1, Numbers DEF WanInv, Types, OnTime, Stopping
<1>4. OnTheWire'
  BY <1>1, Zenon DEF WanInv, OnTheWire
<1>5. Alive'
  <2>1. CASE shutdown
    BY <1>1, <2>1, Zenon DEF Alive
  <2>2. CASE ~shutdown
    <3>1. Position = waited /\ waited = Interval
      BY <1>1, <2>2, Positions, Zenon DEF WanInv
    <3>2. Position' = Interval + 0
      BY <1>1, <2>2, Zenon DEF Position
    <3>3. Position' >= Position
      BY <3>1, <3>2, Numbers
    <3> QED BY <1>1, <1>2, <1>3, <3>3, AliveLater, Zenon
  <2> QED BY <2>1, <2>2, Zenon
<1> QED BY <1>1, <1>2, <1>3, <1>4, <1>5, Zenon DEF WanInv

\* Shutdown and a new address touch neither the server nor the timers.
LEMMA OutsideStep == WanInv /\ (stop_wan_runtime \/ primary_ipv4_address) => WanInv'
<1> SUFFICES ASSUME WanInv, stop_wan_runtime \/ primary_ipv4_address PROVE WanInv'
  BY Zenon
<1>1. /\ UNCHANGED <<up, registry, wire, loop, waited, failures, registered, since>>
      /\ shutdown => shutdown'
      /\ shutdown' \in BOOLEAN /\ address' \in Address
  BY Zenon DEF stop_wan_runtime, primary_ipv4_address, serverVars, WanInv, Types
<1>2. Types'
  BY <1>1, Zenon DEF WanInv, Types
<1>3. OnTime' /\ Stopping'
  BY <1>1, Zenon DEF WanInv, Types, OnTime, Stopping
<1>4. OnTheWire'
  BY <1>1, Zenon DEF WanInv, OnTheWire
<1>5. Margin' = Margin
  BY <1>1, Zenon DEF Margin, Position
<1>6. Alive'
  BY <1>1, <1>5, Zenon DEF WanInv, Alive
<1> QED BY <1>1, <1>2, <1>3, <1>4, <1>6, Zenon DEF WanInv

\* The server handles a request that is late, or one of a visitor.
LEMMA OtherStep ==
  ASSUME WanInv, NEW s \in Slot, handle_other(s)
  PROVE  WanInv'
<1>1. Slot = {"loop", "late", "visitor"}
  BY WanAssumption, Zenon
<1>2. /\ s # "loop" /\ handle_message(s)
      /\ registered' = (registered \/ (wire[s].kind = "register" /\ wire[s].pubkey = Daemon))
      /\ UNCHANGED <<loop, waited, address, shutdown, failures, since>>
  BY Zenon DEF handle_other, loopVars
<1>3. /\ up /\ wire[s] # None /\ up' = up
      /\ registry' = Handled(wire[s])
      /\ wire' \in [Slot -> RequestType \cup {None}]
      /\ wire'[s] = None
      /\ \A t \in Slot : t # s => wire'[t] = wire[t]
  BY <1>2, HandleFrame, Zenon
<1>4. /\ registry' \in RegistryType /\ Owned(registry')
      /\ wire[s].kind = "register" => Live(registry', Daemon, 3 * Interval - MaxLag)
      /\ wire[s].kind # "register" =>
           \A n \in Int : n > 0 /\ Live(registry, Daemon, n) => Live(registry', Daemon, n)
  BY <1>3, HandledFacts, Zenon DEF WanInv
<1>5. Types'
  BY <1>2, <1>3, <1>4, Zenon DEF WanInv, Types
<1>6. OnTime' /\ Stopping'
  BY <1>2, Zenon DEF WanInv, Types, OnTime, Stopping
<1>7. OnTheWire'
  <2>1. CASE s = "late"
    BY <1>1, <1>2, <1>3, <2>1, Zenon DEF WanInv, OnTheWire
  <2>2. CASE s = "visitor"
    BY <1>1, <1>2, <1>3, <2>2, Zenon DEF WanInv, OnTheWire
  <2> QED BY <1>1, <1>2, <2>1, <2>2, Zenon
<1>8. Alive'
  <2>1. CASE wire[s].kind = "register"
    BY <1>4, <1>5, <1>6, <2>1, AliveAfresh, Zenon
  <2>2. CASE wire[s].kind # "register"
    BY <1>2, <1>4, <1>5, <2>2, AliveKept, Zenon
  <2> QED BY <2>1, <2>2, Zenon
<1> QED BY <1>4, <1>5, <1>6, <1>7, <1>8, Zenon DEF WanInv

\* Reading a request and asking for something leave the registry alone.
LEMMA ReadStep ==
  ASSUME WanInv, NEW s \in Slot, read_request(s)
  PROVE  WanInv'
<1>1. Slot = {"loop", "late", "visitor"}
  BY WanAssumption, Zenon
<1>2. /\ up /\ wire[s] # None /\ wire' = [wire EXCEPT ![s].stage = "now"]
      /\ UNCHANGED <<up, registry, loop, waited, address, shutdown, failures,
                     registered, since>>
  BY Zenon DEF read_request, accept, At, loopVars
<1> DEFINE r == [wire[s] EXCEPT !.stage = "now"]
<1>3. wire[s] \in RequestType
  BY <1>2, InSlot, Zenon DEF WanInv
<1>4. /\ r \in RequestType /\ r.kind = wire[s].kind
      /\ OwnRequest(wire[s]) => OwnRequest(r)
  BY <1>3, Zenon DEF RequestType, OwnRequest
<1>5. wire' = [wire EXCEPT ![s] = r]
  BY <1>2, Zenon
<1> HIDE DEF r
<1>6. /\ wire' \in [Slot -> RequestType \cup {None}]
      /\ wire'[s] = r
      /\ \A t \in Slot : t # s => wire'[t] = wire[t]
  BY <1>4, <1>5, Zenon DEF WanInv, Types
<1>7. Types'
  BY <1>2, <1>6, Zenon DEF WanInv, Types
<1>8. OnTime' /\ Stopping'
  BY <1>2, Zenon DEF WanInv, Types, OnTime, Stopping
<1>9. r # None
  BY <1>4, NothingAssumption, Zenon DEF RequestType
<1>10. OnTheWire'
  <2>1. \A t \in Slot : wire'[t] = None <=> wire[t] = None
    BY <1>2, <1>6, <1>9, Zenon
  <2>2. \A t \in Slot : wire'[t] = wire[t] \/ (t = s /\ wire'[t] = r)
    BY <1>6, Zenon
  <2> QED BY <1>1, <1>2, <1>4, <2>1, <2>2, Zenon DEF WanInv, OnTheWire
<1>11. Alive'
  BY <1>2, <1>7, AliveKept, Zenon
<1> QED BY <1>2, <1>7, <1>8, <1>10, <1>11, Zenon DEF WanInv

\* A visitor asks the server.
LEMMA VisitStep ==
  ASSUME WanInv, NEW v \in Visits, visit(v[1], v[2])
  PROVE  WanInv'
<1>1. Slot = {"loop", "late", "visitor"} /\ v[1] \in {"lookup", "notify"} /\ v[2] \in Pubkey
  BY WanAssumption, Zenon
<1> DEFINE r == [Request(v[1], v[2], {}, 0) EXCEPT !.stage = "now"]
<1>2. /\ up /\ wire' = [wire EXCEPT !["visitor"] = r]
      /\ UNCHANGED <<up, registry, loop, waited, address, shutdown, failures,
                     registered, since>>
  BY Zenon DEF visit, loopVars
<1>3. r \in RequestType /\ r.kind # "register"
  <2>1. r = [kind |-> v[1], stage |-> "now", lag |-> 0, pubkey |-> v[2],
             candidates |-> {}, ttl_seconds |-> 0]
    BY DEF Request
  <2> HIDE DEF r
  <2> QED BY <1>1, <2>1, Zenon DEF RequestType, ClientMessage
<1> HIDE DEF r
<1>4. /\ wire' \in [Slot -> RequestType \cup {None}] /\ wire'["visitor"] = r
      /\ wire'["loop"] = wire["loop"] /\ wire'["late"] = wire["late"]
  BY <1>1, <1>2, <1>3, Zenon DEF WanInv, Types
<1>5. Types'
  BY <1>2, <1>4, Zenon DEF WanInv, Types
<1>6. OnTime' /\ Stopping'
  BY <1>2, Zenon DEF WanInv, Types, OnTime, Stopping
<1>7. OnTheWire'
  BY <1>2, <1>3, <1>4, Zenon DEF WanInv, OnTheWire
<1>8. Alive'
  BY <1>2, <1>5, AliveKept, Zenon
<1> QED BY <1>2, <1>5, <1>6, <1>7, <1>8, Zenon DEF WanInv

\* The server removes the registrations that have expired.
LEMMA PruneStep == WanInv /\ prune => WanInv'
<1> SUFFICES ASSUME WanInv, prune PROVE WanInv'
  BY Zenon
<1>1. /\ registry' = prune_expired(registry, 0)
      /\ UNCHANGED <<up, wire, loop, waited, address, shutdown, failures,
                     registered, since>>
  BY Zenon DEF prune, prune_tick, loopVars
<1>2. /\ registry' \in RegistryType /\ Owned(registry')
      /\ \A n \in Int : n > 0 /\ Live(registry, Daemon, n) => Live(registry', Daemon, n)
  BY <1>1, Pruned, WanAssumption, Zenon DEF WanInv, Types
<1>3. Types'
  BY <1>1, <1>2, Zenon DEF WanInv, Types
<1>4. OnTime' /\ Stopping'
  BY <1>1, Zenon DEF WanInv, Types, OnTime, Stopping
<1>5. OnTheWire'
  BY <1>1, Zenon DEF WanInv, OnTheWire
<1>6. Alive'
  BY <1>1, <1>2, <1>3, AliveKept, Zenon
<1> QED BY <1>2, <1>3, <1>4, <1>5, <1>6, Zenon DEF WanInv

\* The server goes and comes back empty.
LEMMA ServerStep == WanInv /\ (stop_server \/ start_server) => WanInv'
<1> SUFFICES ASSUME WanInv, stop_server \/ start_server PROVE WanInv'
  BY Zenon
<1>1. Slot = {"loop", "late", "visitor"}
  BY WanAssumption, Zenon
<1>2. UNCHANGED <<loop, waited, address, shutdown, failures, since>>
  BY Zenon DEF stop_server, start_server, loopVars
<1>3. /\ registry' \in RegistryType /\ Owned(registry')
      /\ wire' \in [Slot -> RequestType \cup {None}]
      /\ up' \in BOOLEAN /\ registered' = FALSE
      /\ OnTheWire'
  <2>1. CASE stop_server
    <3>1. /\ registry' = new /\ wire' = [s \in Slot |-> None]
          /\ up' = FALSE /\ registered' = FALSE
      BY <2>1, Zenon DEF stop_server, server_stop
    <3>2. new \in RegistryType /\ Owned(new)
      BY DEF new, RegistryType, Owned
    <3>3. wire' \in [Slot -> RequestType \cup {None}]
      BY <3>1, Zenon
    <3>4. OnTheWire'
      BY <1>1, <3>1, Zenon DEF OnTheWire
    <3> QED BY <3>1, <3>2, <3>3, <3>4, Zenon
  <2>2. CASE start_server
    <3>1. ~up /\ up' = TRUE /\ UNCHANGED <<registry, wire, registered>>
      BY <2>2, Zenon DEF start_server, server_bind
    <3>2. registered' = FALSE
      BY <3>1, Zenon DEF WanInv, Types, OnTheWire
    <3>3. OnTheWire'
      BY <1>2, <3>1, <3>2, Zenon DEF WanInv, OnTheWire
    <3> QED BY <3>1, <3>2, <3>3, Zenon DEF WanInv, Types
  <2> QED BY <2>1, <2>2, Zenon
<1>4. Types'
  BY <1>2, <1>3, Zenon DEF WanInv, Types
<1>5. OnTime' /\ Stopping'
  BY <1>2, Zenon DEF WanInv, Types, OnTime, Stopping
<1>6. Alive'
  BY <1>3, Zenon DEF Alive
<1> QED BY <1>3, <1>4, <1>5, <1>6, Zenon DEF WanInv

\* A tick costs every entry one tick, and the margin too.
LEMMA TickStep == WanInv /\ tick => WanInv'
<1> SUFFICES ASSUME WanInv, tick PROVE WanInv'
  BY Zenon
<1>1. Slot = {"loop", "late", "visitor"}
  BY WanAssumption, Zenon
<1>2. /\ registry' = Aged(registry)
      /\ UNCHANGED <<up, loop, address, shutdown, failures, registered>>
      /\ waited' = IF loop = "stopped" THEN waited ELSE waited + 1
      /\ since' = IF shutdown /\ loop # "stopped" THEN since + 1 ELSE since
  BY Zenon DEF tick, server_tick
<1>3. /\ loop = "gather" => waited < GatherTime
      /\ loop = "register" => waited < Patience
      /\ loop = "wait" => ~shutdown /\ waited # Interval
  BY Zenon DEF tick, interval_over
<1>4. /\ registry' \in RegistryType /\ Owned(registry')
      /\ \A n \in Int : Live(registry, Daemon, n) => Live(registry', Daemon, n - 1)
  BY <1>2, AgedByOne, WanAssumption, Zenon DEF WanInv, Types
<1>5. ASSUME NEW s \in Slot
      PROVE  /\ wire'[s] \in RequestType \cup {None}
             /\ wire'[s] = None <=> wire[s] = None
             /\ wire[s] # None => wire'[s].kind = wire[s].kind
             /\ wire[s] # None /\ OwnRequest(wire[s]) => OwnRequest(wire'[s])
  <2>1. wire'[s] = IF At(s, "now") THEN [wire[s] EXCEPT !.lag = @ + 1] ELSE wire[s]
    BY Zenon DEF tick, server_tick
  <2>2. wire[s] \in RequestType \cup {None}
    BY Zenon DEF WanInv, Types
  <2>3. CASE At(s, "now")
    <3>1. wire[s] \in RequestType /\ wire[s].lag < MaxLag
      BY <2>2, <2>3, Zenon DEF tick, server_tick, At
    <3> DEFINE r == [wire[s] EXCEPT !.lag = @ + 1]
    <3>2. wire'[s] = r
      BY <2>1, <2>3, Zenon
    <3>3. r \in RequestType /\ r.kind = wire[s].kind
      BY <3>1 DEF RequestType
    <3>4. OwnRequest(wire[s]) => OwnRequest(r)
      <4>1. wire[s].lag \in Nat /\ r.lag = wire[s].lag + 1
        BY <3>1, Zenon DEF RequestType
      <4>2. r.pubkey = wire[s].pubkey /\ r.candidates = wire[s].candidates
            /\ r.ttl_seconds = wire[s].ttl_seconds
        BY <3>1, Zenon DEF RequestType
      <4>3. r.lag <= MaxLag
        BY <3>1, <4>1, Numbers
      <4> QED BY <3>3, <4>2, <4>3, Zenon DEF OwnRequest
    <3> HIDE DEF r
    <3>5. r # None /\ wire[s] # None
      BY <3>1, <3>3, NothingAssumption, Zenon DEF RequestType
    <3> QED BY <3>2, <3>3, <3>4, <3>5, Zenon
  <2>4. CASE ~At(s, "now")
    BY <2>1, <2>2, <2>4, Zenon
  <2> QED BY <2>3, <2>4, Zenon
<1>6. Types'
  <2>1. wire' = [s \in Slot |-> wire'[s]]
    BY Zenon DEF tick, server_tick
  <2>2. wire' \in [Slot -> RequestType \cup {None}]
    BY <1>5, <2>1, Zenon
  <2> QED BY <1>2, <1>4, <2>2 DEF WanInv, Types
<1>7. OnTime' /\ Stopping'
  BY <1>2, <1>3, Numbers DEF WanInv, Types, OnTime, Stopping
<1>8. OnTheWire'
  <2>1. \A s \in {"loop", "late", "visitor"} :
          /\ wire'[s] = None <=> wire[s] = None
          /\ wire[s] # None => wire'[s].kind = wire[s].kind
          /\ wire[s] # None /\ OwnRequest(wire[s]) => OwnRequest(wire'[s])
    BY <1>1, <1>5, Zenon
  <2> QED BY <1>2, <2>1, Zenon DEF WanInv, OnTheWire
<1>9. Alive'
  <2> SUFFICES ASSUME registered', ~shutdown' PROVE Live(registry', Daemon, Margin')
    BY Zenon DEF Alive
  <2>1. InTime /\ InTime'
    BY <1>6, <1>7, TimeLeft, PTL DEF WanInv
  <2>2. loop # "stopped" /\ waited \in Nat
    BY <1>2, Zenon DEF WanInv, Types, Stopping
  <2>3. Position' = Position + 1
    BY <1>2, <2>2, Numbers DEF Position, WanInv, Types
  <2>4. Margin' = Margin - 1
    <3> DEFINE lost == failures * Round
    <3>1. lost \in Nat
      BY Rounds, Zenon DEF WanInv, Types
    <3>2. Margin = 3 * Interval - MaxLag - lost - Position
      BY Zenon DEF Margin
    <3>3. Margin' = 3 * Interval - MaxLag - lost - (Position + 1)
      BY <1>2, <2>3, Zenon DEF Margin
    <3> HIDE DEF lost
    <3>4. \A l, a \in Nat :
            3 * Interval - MaxLag - l - (a + 1) = (3 * Interval - MaxLag - l - a) - 1
      BY Numbers
    <3> QED BY <2>1, <3>1, <3>2, <3>3, <3>4, Zenon DEF InTime
  <2>5. Live(registry, Daemon, Margin)
    BY <1>2, Zenon DEF WanInv, Alive
  <2>6. Live(registry', Daemon, Margin - 1)
    BY <1>4, <2>1, <2>5, Zenon DEF InTime
  <2> QED BY <2>4, <2>6, Zenon
<1> QED BY <1>4, <1>6, <1>7, <1>8, <1>9, Zenon DEF WanInv

\* WanInv is inductive.
LEMMA WanInvStep == WanInv /\ [Next]_vars => WanInv'
<1> SUFFICES ASSUME WanInv, [Next]_vars PROVE WanInv'
  BY Zenon
<1>1. CASE loop_step
  BY <1>1, ConnectStep, NoConnectionStep, WaitStep, Zenon DEF loop_step
<1>2. CASE \E replied \in BOOLEAN : register_handled(replied)
  BY <1>2, HandledStep, Zenon
<1>3. CASE \E late \in BOOLEAN : register_fails(late)
  BY <1>3, LostStep, Zenon
<1>4. CASE stop_wan_runtime \/ primary_ipv4_address
  BY <1>4, OutsideStep, Zenon
<1>5. CASE \E s \in Slot : read_request(s) \/ handle_other(s)
  BY <1>5, ReadStep, OtherStep, Zenon
<1>6. CASE \E v \in Visits : visit(v[1], v[2])
  BY <1>6, VisitStep, Zenon
<1>7. CASE prune \/ stop_server \/ start_server
  BY <1>7, PruneStep, ServerStep, Zenon
<1>8. CASE tick
  BY <1>8, TickStep, Zenon
<1>9. CASE UNCHANGED vars
  <2>1. /\ UNCHANGED <<registry, wire, up, loop, waited, address, shutdown, failures>>
        /\ UNCHANGED <<registered, since>>
    BY <1>9, Zenon DEF vars, serverVars, loopVars
  <2>2. Types' /\ OnTime' /\ Stopping'
    BY <2>1, Zenon DEF WanInv, Types, OnTime, Stopping
  <2>3. OnTheWire' /\ Owned(registry')
    BY <2>1, Zenon DEF WanInv, OnTheWire
  <2>4. Alive'
    BY <2>1, <2>2, AliveKept, Zenon
  <2> QED BY <2>2, <2>3, <2>4, Zenon DEF WanInv
<1> QED BY <1>1, <1>2, <1>3, <1>4, <1>5, <1>6, <1>7, <1>8, <1>9, Zenon DEF Next

\* WanInv holds in every reachable state.
LEMMA WanInvariant == Spec => []WanInv
BY WanInvInit, WanInvStep, PTL DEF Spec

\* A peer that the running server has accepted is found by every lookup while
\* the loop runs, whatever the interval, the lags and the losses that the
\* assumption on the lifetime allows (registration_ttl_seconds, prune_expired).
THEOREM PeerStaysFound == Spec => []FoundWhileRegistered
<1>1. WanInv => FoundWhileRegistered
  <2> SUFFICES ASSUME WanInv, registered, ~shutdown
               PROVE  lookup(registry, Daemon, 0) # Gone
    BY Zenon DEF FoundWhileRegistered
  <2>1. InTime
    BY TimeLeft, Zenon DEF WanInv
  <2>2. Live(registry, Daemon, Margin)
    BY Zenon DEF WanInv, Alive
  <2>3. Live(prune_expired(registry, 0), Daemon, Margin)
    BY <2>1, <2>2, Pruned, WanAssumption, Zenon DEF WanInv, Types, InTime
  <2> QED BY <2>3, Zenon DEF lookup, Live
<1> QED BY <1>1, WanInvariant, PTL

\* Only registered peers have notifications queued (queue_notify, prune_expired).
THEOREM QueueHasOwner == Spec => []NotificationsHaveOwner
<1>1. WanInv => NotificationsHaveOwner
  BY Zenon DEF WanInv, Owned, NotificationsHaveOwner
<1> QED BY <1>1, WanInvariant, PTL

\* After shutdown the loop goes on for one gathering and one connection at most
\* (wait_for_register_interval).
THEOREM LoopStopsPromptly == Spec => []StopIsPrompt
<1>1. WanInv => StopIsPrompt
  BY Zenon DEF WanInv, Stopping, StopIsPrompt
<1> QED BY <1>1, WanInvariant, PTL


-----------------------------------------------------------------------------
(***************************************************************************)
(* What the registry holds: how long it keeps what has expired, and how    *)
(* many notifications.                                                     *)
(***************************************************************************)
Fits(reg, n) ==
  \A p \in Pubkey : reg.entries[p] # Gone =>
    /\ reg.entries[p].left >= n /\ reg.entries[p].left <= MaxTtl
    /\ reg.entries[p].candidates # {}

Fewer(old, reg) == \A p \in Pubkey : reg.notifications[p] <= old.notifications[p]

\* An entry outlives its time by no more than the ticks since the last prune, and
\* there is room for the notification that a visitor has under way.
StoreInv ==
  /\ prune_in \in 0 .. PruneInterval /\ Fits(registry, 1 + prune_in - PruneInterval)
  /\ \A p \in Pubkey : registry.notifications[p] <= MaxQueued
  /\ ~up => \A p \in Pubkey : registry.entries[p] = Gone
  /\ wire["visitor"] # None /\ wire["visitor"].kind = "notify" =>
       registry.notifications[wire["visitor"].pubkey] < MaxQueued
  /\ loop = "stopped" => waited = 0
  /\ restarts \in 0 .. MaxRestarts

\* Pruning only removes; with a clock read under the lock nothing expired is left.
LEMMA PrunedFits ==
  ASSUME NEW reg \in RegistryType, NEW lag \in Nat, NEW n \in Int, Fits(reg, n)
  PROVE  /\ Fits(prune_expired(reg, lag), n) /\ (lag = 0 => Fits(prune_expired(reg, lag), 1))
         /\ Fewer(reg, prune_expired(reg, lag))
<1>1. reg.entries \in [Pubkey -> Entry \cup {Gone}] /\ reg.notifications \in [Pubkey -> Nat]
  BY Zenon DEF RegistryType
<1>2. PICK after : after = prune_expired(reg, lag)
  BY Zenon
<1>3. ASSUME NEW p \in Pubkey
      PROVE  /\ after.entries[p] = IF Expired(reg, p, lag) THEN Gone ELSE reg.entries[p]
             /\ after.notifications[p] = IF Expired(reg, p, lag) THEN 0 ELSE reg.notifications[p]
  BY <1>2 DEF prune_expired
<1>4. Fewer(reg, after)
  <2>1. ASSUME NEW p \in Pubkey PROVE after.notifications[p] <= reg.notifications[p]
    <3>1. reg.notifications[p] \in Nat
      BY <1>1, Zenon
    <3> QED BY <1>3, <3>1
  <2> QED BY <2>1, Zenon DEF Fewer
<1>5. ASSUME NEW p \in Pubkey, after.entries[p] # Gone
      PROVE  after.entries[p] = reg.entries[p] /\ ~ Expired(reg, p, lag)
  BY <1>3, <1>5, Zenon
<1>6. Fits(after, n)
  BY <1>5, Zenon DEF Fits
<1>7. ASSUME lag = 0, NEW p \in Pubkey, after.entries[p] # Gone
      PROVE  after.entries[p].left >= 1
  <2>1. reg.entries[p] \in Entry /\ ~ Expired(reg, p, 0)
    BY <1>1, <1>5, <1>7, Zenon
  <2>2. reg.entries[p].left \in Int
    BY <2>1, Zenon DEF Entry
  <2>3. ~ (reg.entries[p].left <= -0)
    BY <1>5, <1>7, <2>1, Zenon DEF Expired
  <2>4. reg.entries[p].left >= 1
    BY <2>2, <2>3
  <2> QED BY <1>5, <1>7, <2>4, Zenon
<1>8. lag = 0 => Fits(after, 1)
  BY <1>6, <1>7, Zenon DEF Fits
<1> QED BY <1>2, <1>4, <1>6, <1>8, Zenon

\* A notification adds one to the peer that it is for.
LEMMA QueuedFits ==
  ASSUME NEW reg \in RegistryType, NEW q \in Pubkey, NEW lag \in Nat, NEW n \in Int, Fits(reg, n),
         Owned(reg)
  PROVE  /\ Fits(queue_notify(reg, q, lag), n)
         /\ \A p \in Pubkey : \/ queue_notify(reg, q, lag).notifications[p] <= reg.notifications[p]
                              \/ /\ p = q
                                 /\ queue_notify(reg, q, lag).notifications[p] <= reg.notifications[p] + 1
<1> DEFINE pruned == prune_expired(reg, lag)
<1>1. Fits(pruned, n) /\ Fewer(reg, pruned)
  BY PrunedFits, Zenon
<1>2. pruned \in RegistryType
  BY Pruned, Zenon
<1>3. queue_notify(reg, q, lag)
        = IF pruned.entries[q] = Gone THEN pruned
          ELSE [pruned EXCEPT !.notifications[q] = @ + 1]
  BY Zenon DEF queue_notify, lookup
<1> HIDE DEF pruned
<1>4. CASE pruned.entries[q] = Gone
  BY <1>1, <1>3, <1>4, Zenon DEF Fewer
<1>5. CASE pruned.entries[q] # Gone
  <2>1. PICK more : more = [pruned EXCEPT !.notifications[q] = @ + 1]
    BY Zenon
  <2>2. queue_notify(reg, q, lag) = more
    BY <1>3, <1>5, <2>1, Zenon
  <2>3. /\ more.entries = pruned.entries /\ more.notifications[q] = pruned.notifications[q] + 1
        /\ pruned.notifications[q] \in Nat
    BY <1>2, <2>1 DEF RegistryType
  <2>4. \A p \in Pubkey : p # q => more.notifications[p] = pruned.notifications[p]
    BY <1>2, <2>1, Zenon DEF RegistryType
  <2>5. Fits(more, n)
    BY <1>1, <2>3, Zenon DEF Fits
  <2>6. reg.notifications[q] \in Nat /\ pruned.notifications[q] <= reg.notifications[q]
    BY <1>1, Zenon DEF RegistryType, Fewer
  <2>7. more.notifications[q] <= reg.notifications[q] + 1
    BY <2>3, <2>6
  <2>8. \A p \in Pubkey : p # q => more.notifications[p] <= reg.notifications[p]
    BY <1>1, <2>4, Zenon DEF Fewer
  <2> QED BY <2>2, <2>5, <2>7, <2>8, Zenon
<1> QED BY <1>4, <1>5, Zenon

\* The daemon's own registration leaves an entry with time left.
LEMMA RegisteredFits ==
  ASSUME NEW reg \in RegistryType, NEW r \in RequestType, OwnRequest(r), NEW n \in Int, Fits(reg, n),
         n <= 1
  PROVE  Fits(register(reg, r, r.lag), n) /\ Fewer(reg, register(reg, r, r.lag))
<1> DEFINE fresh == [candidates |-> r.candidates,
                     left |-> capped_ttl(r.ttl_seconds) - r.lag]
<1>1. r.lag \in Nat /\ r.lag <= MaxLag /\ r.ttl_seconds = 3 * Interval /\ r.pubkey = Daemon
      /\ r.candidates # {} /\ Daemon \in Pubkey
  BY WanAssumption, Zenon DEF OwnRequest, RequestType
<1>2. capped_ttl(3 * Interval) = 3 * Interval /\ 3 * Interval # 0 /\ 3 * Interval \in Int
  BY Numbers DEF capped_ttl
<1>3. fresh.left = 3 * Interval - r.lag /\ fresh.candidates = r.candidates
  BY <1>1, <1>2, Zenon
<1>4. 3 * Interval > MaxLag
  <2>1. \A m \in Nat : m + Patience + MaxLag < 3 * Interval => 3 * Interval > MaxLag
    BY Numbers
  <2>2. (MaxLosses + 1) * Round \in Nat
    BY Numbers
  <2> QED BY <2>1, <2>2, Numbers, Zenon
<1>5. fresh.left >= n /\ fresh.left <= MaxTtl
  BY <1>1, <1>3, <1>4, Numbers
<1>6. register(reg, r, r.lag) = [reg EXCEPT !.entries[Daemon] = fresh]
  BY <1>1, <1>2, Zenon DEF register, validate
<1> HIDE DEF fresh
<1>7. PICK after : after = [reg EXCEPT !.entries[Daemon] = fresh]
  BY Zenon
<1>8. /\ after.entries[Daemon] = fresh /\ after.notifications = reg.notifications
      /\ \A p \in Pubkey : p # Daemon => after.entries[p] = reg.entries[p]
  BY <1>1, <1>7, Zenon DEF RegistryType
<1>9. Fits(after, n)
  BY <1>1, <1>3, <1>5, <1>8, Zenon DEF Fits
<1>10. Fewer(reg, after)
  <2>1. \A p \in Pubkey : reg.notifications[p] \in Nat
    BY Zenon DEF RegistryType
  <2>2. \A m \in Nat : m <= m
    OBVIOUS
  <2> QED BY <1>8, <2>1, <2>2, Zenon DEF Fewer
<1> QED BY <1>6, <1>7, <1>9, <1>10, Zenon

\* A tick takes one tick from every entry, and no notification.
LEMMA AgedFits ==
  ASSUME NEW reg \in RegistryType, NEW n \in Int, Fits(reg, n)
  PROVE  /\ Fits(Aged(reg), n - 1) /\ Aged(reg).notifications = reg.notifications
         /\ \A p \in Pubkey : reg.entries[p] = Gone => Aged(reg).entries[p] = Gone
<1>1. PICK after : after = Aged(reg)
  BY Zenon
<1>2. reg.entries \in [Pubkey -> Entry \cup {Gone}]
  BY Zenon DEF RegistryType
<1>3. after.notifications = reg.notifications
  BY <1>1 DEF RegistryType, Aged
<1>4. ASSUME NEW p \in Pubkey
      PROVE  after.entries[p] = IF reg.entries[p] = Gone THEN Gone
                                ELSE [candidates |-> reg.entries[p].candidates,
                                      left |-> reg.entries[p].left - 1]
  BY <1>1 DEF RegistryType, Aged
<1>5. ASSUME NEW p \in Pubkey, after.entries[p] # Gone
      PROVE  /\ after.entries[p].left >= n - 1 /\ after.entries[p].left <= MaxTtl
             /\ after.entries[p].candidates # {}
  <2>1. reg.entries[p] # Gone /\ reg.entries[p] \in Entry
    BY <1>2, <1>4, <1>5, Zenon
  <2>2. /\ after.entries[p].candidates = reg.entries[p].candidates
        /\ after.entries[p].left = reg.entries[p].left - 1
    <3>1. PICK c, l : c = reg.entries[p].candidates /\ l = reg.entries[p].left
      BY Zenon
    <3>2. after.entries[p] = [candidates |-> c, left |-> l - 1]
      BY <1>4, <2>1, <3>1, Zenon
    <3>3. after.entries[p].candidates = c /\ after.entries[p].left = l - 1
      BY <3>2
    <3> QED BY <3>1, <3>3, Zenon
  <2>3. /\ reg.entries[p].left \in Int /\ reg.entries[p].left >= n
        /\ reg.entries[p].left <= MaxTtl /\ reg.entries[p].candidates # {}
    BY <2>1, Zenon DEF Entry, Fits
  <2>4. reg.entries[p].left - 1 >= n - 1 /\ reg.entries[p].left - 1 <= MaxTtl
    BY <2>3, Numbers
  <2> QED BY <2>2, <2>3, <2>4, Zenon
<1> QED BY <1>1, <1>3, <1>4, <1>5, Zenon DEF Fits

\* Nothing is stored when the server and the loop begin.
LEMMA StoreInvInit == Init => StoreInv
<1> SUFFICES ASSUME Init PROVE StoreInv
  BY Zenon
<1>1. /\ registry = new /\ prune_in = 0 /\ up = TRUE /\ wire = [s \in Slot |-> None]
      /\ loop = "gather" /\ restarts = 0
  BY Zenon DEF Init, ServerInit
<1>2. wire["visitor"] = None
  BY <1>1, WanAssumption, Zenon
<1>3. \A p \in Pubkey : new.entries[p] = Gone /\ new.notifications[p] = 0
  BY DEF new
<1>4. 0 \in 0 .. PruneInterval /\ 0 \in 0 .. MaxRestarts /\ 0 <= MaxQueued
  BY ServerAssumption, WanAssumption
<1>5. Fits(registry, 1 + prune_in - PruneInterval)
  BY <1>1, <1>3, Zenon DEF Fits
<1>6. \A p \in Pubkey : registry.notifications[p] <= MaxQueued
  BY <1>1, <1>3, <1>4, Zenon
<1> QED BY <1>1, <1>2, <1>4, <1>5, <1>6, Zenon DEF StoreInv

\* The steps that neither the server nor its visitors take.
LEMMA StoreKept ==
  ASSUME StoreInv, UNCHANGED <<up, registry, prune_in, restarts>>,
         wire'["visitor"] = wire["visitor"], loop' = "stopped" => waited' = 0
  PROVE  StoreInv'
BY Zenon DEF StoreInv

\* The loop sends, fails, waits and is told to stop.
LEMMA StoreLoopStep ==
  ASSUME WanInv, StoreInv,
         \/ loop_step \/ stop_wan_runtime \/ primary_ipv4_address \/ UNCHANGED vars
         \/ \E late \in BOOLEAN : register_fails(late)
  PROVE  StoreInv'
<1>1. {"loop", "late", "visitor"} \subseteq Slot /\ wire \in [Slot -> RequestType \cup {None}]
  BY WanAssumption, Zenon DEF WanInv, Types
<1>2. CASE connect_client
  <2>1. UNCHANGED <<up, registry, prune_in, restarts>> /\ loop' = "register"
    BY <1>2, Zenon DEF connect_client, Enter
  <2>2. wire'["visitor"] = wire["visitor"]
    BY <1>1, <1>2, Zenon DEF connect_client
  <2> QED BY <2>1, <2>2, StoreKept, Zenon
<1>3. CASE connect_fails \/ wait_for_register_interval
  BY <1>3, StoreKept, Zenon DEF connect_fails, wait_for_register_interval, Enter, serverVars
<1>4. CASE stop_wan_runtime \/ primary_ipv4_address
  <2>1. UNCHANGED <<up, registry, prune_in, wire, restarts, loop, waited>>
    BY <1>4, Zenon DEF stop_wan_runtime, primary_ipv4_address, serverVars
  <2> QED BY <2>1, StoreKept, Zenon DEF StoreInv
<1>5. CASE UNCHANGED vars
  <2>1. UNCHANGED <<up, registry, prune_in, wire, restarts, loop, waited>>
    BY <1>5, Zenon DEF vars, serverVars, loopVars
  <2> QED BY <2>1, StoreKept, Zenon DEF StoreInv
<1>6. CASE \E late \in BOOLEAN : register_fails(late)
  <2>1. PICK late \in BOOLEAN : register_fails(late)
    BY <1>6, Zenon
  <2>2. UNCHANGED <<up, registry, prune_in, restarts>> /\ loop' = "wait"
    BY <2>1, Zenon DEF register_fails, Enter
  <2>3. wire'["visitor"] = wire["visitor"]
    BY <1>1, <2>1, Zenon DEF register_fails
  <2> QED BY <2>2, <2>3, StoreKept, Zenon
<1> QED BY <1>2, <1>3, <1>4, <1>5, <1>6, Zenon DEF loop_step

\* What the server stores after it handled a request: only the notification of a
\* visitor, for which there was room, adds to a queue.
LEMMA HandledFits ==
  ASSUME WanInv, StoreInv, NEW s \in Slot, wire[s] # None
  PROVE  /\ Fits(Handled(wire[s]), 1 + prune_in - PruneInterval)
         /\ \A p \in Pubkey : Handled(wire[s]).notifications[p] <= MaxQueued
         /\ s # "visitor" => Fewer(registry, Handled(wire[s]))
<1>1. PICK r : r = wire[s]
  BY Zenon
<1>2. PICK n : n = 1 + prune_in - PruneInterval
  BY Zenon
<1>3. r \in RequestType /\ r.lag \in Nat /\ r.pubkey \in Pubkey /\ r.kind \in ClientMessage
  BY <1>1, InSlot, Zenon DEF WanInv, RequestType
<1>4. n \in Int /\ n <= 1 /\ Fits(registry, n)
  <2>1. n \in Int /\ n <= 1
    BY <1>2, ServerAssumption DEF StoreInv
  <2> QED BY <1>2, <2>1, Zenon DEF StoreInv
<1>5. /\ registry \in RegistryType /\ Owned(registry)
      /\ \A p \in Pubkey : registry.notifications[p] <= MaxQueued
      /\ \A p \in Pubkey : registry.notifications[p] \in Nat
  BY Zenon DEF WanInv, Types, StoreInv, RegistryType
<1>6. Slot = {"loop", "late", "visitor"} /\ MaxQueued \in Nat
  BY WanAssumption, Zenon
<1>7. ASSUME NEW reg \in RegistryType, Fewer(registry, reg)
      PROVE  \A p \in Pubkey : reg.notifications[p] <= MaxQueued
  <2>1. \A a, b \in Nat : a <= b /\ b <= MaxQueued => a <= MaxQueued
    BY <1>6
  <2>2. \A p \in Pubkey : reg.notifications[p] \in Nat
    BY <1>7, Zenon DEF RegistryType
  <2> QED BY <1>5, <1>7, <2>1, <2>2, Zenon DEF Fewer
<1>8. Handled(r) \in RegistryType
  BY <1>1, HandledFacts, Zenon DEF WanInv
<1>9. CASE r.kind = "register"
  <2>1. Handled(r) = register(registry, r, r.lag)
    BY <1>9 DEF Handled
  <2>2. OwnRequest(r)
    BY <1>1, <1>6, <1>9, Zenon DEF WanInv, OnTheWire
  <2>3. Fits(Handled(r), n) /\ Fewer(registry, Handled(r))
    BY <1>3, <1>4, <1>5, <2>1, <2>2, RegisteredFits, Zenon
  <2> QED BY <1>1, <1>2, <1>7, <1>8, <2>3, Zenon
<1>10. CASE r.kind = "lookup"
  <2>1. Handled(r) = prune_expired(registry, r.lag)
    BY <1>10 DEF Handled
  <2>2. Fits(Handled(r), n) /\ Fewer(registry, Handled(r))
    BY <1>3, <1>4, <1>5, <2>1, PrunedFits, Zenon
  <2> QED BY <1>1, <1>2, <1>7, <1>8, <2>2, Zenon
<1>11. CASE r.kind = "notify"
  <2>1. Handled(r) = queue_notify(registry, r.pubkey, r.lag)
    BY <1>11 DEF Handled
  <2>2. s = "visitor"
    <3>1. r.kind # "register"
      BY <1>11
    <3> QED BY <1>1, <1>6, <3>1, Zenon DEF WanInv, OnTheWire, OwnRequest
  <2>3. registry.notifications[r.pubkey] < MaxQueued
    BY <1>1, <1>11, <2>2, Zenon DEF StoreInv
  <2>4. /\ Fits(Handled(r), n)
        /\ \A p \in Pubkey : \/ Handled(r).notifications[p] <= registry.notifications[p]
                             \/ /\ p = r.pubkey
                                /\ Handled(r).notifications[p] <= registry.notifications[p] + 1
    <3>1. PICK q, lag, reg : q = r.pubkey /\ lag = r.lag /\ reg = registry
      BY Zenon
    <3>2. reg \in RegistryType /\ q \in Pubkey /\ lag \in Nat /\ Fits(reg, n) /\ Owned(reg)
      BY <1>3, <1>4, <1>5, <3>1, Zenon
    <3>3. /\ Fits(queue_notify(reg, q, lag), n)
          /\ \A p \in Pubkey : \/ queue_notify(reg, q, lag).notifications[p] <= reg.notifications[p]
                               \/ /\ p = q
                                  /\ queue_notify(reg, q, lag).notifications[p] <= reg.notifications[p] + 1
      BY <1>4, <3>2, QueuedFits
    <3>4. Handled(r) = queue_notify(reg, q, lag)
      BY <2>1, <3>1, Zenon
    <3> QED BY <3>1, <3>3, <3>4, Zenon
  <2>5. ASSUME NEW p \in Pubkey PROVE Handled(r).notifications[p] <= MaxQueued
    <3>1. PICK a : a = Handled(r).notifications[p]
      BY Zenon
    <3>2. PICK b : b = registry.notifications[p]
      BY Zenon
    <3>3. a \in Nat /\ b \in Nat
      BY <1>5, <1>8, <3>1, <3>2, Zenon DEF RegistryType
    <3>4. b <= MaxQueued /\ (a <= b \/ (b < MaxQueued /\ a <= b + 1))
      BY <1>5, <2>3, <2>4, <3>1, <3>2, Zenon
    <3>5. a <= MaxQueued
      BY <1>6, <3>3, <3>4
    <3> QED BY <3>1, <3>5, Zenon
  <2> QED BY <1>1, <1>2, <2>2, <2>4, <2>5, Zenon
<1> QED BY <1>3, <1>9, <1>10, <1>11, Zenon DEF ClientMessage

\* The server handles a request.
LEMMA StoreHandleStep ==
  ASSUME WanInv, StoreInv, NEW s \in Slot, handle_message(s), UNCHANGED restarts,
         loop' = "stopped" => waited' = 0
  PROVE  StoreInv'
<1>1. /\ up /\ wire[s] # None /\ up' = up /\ registry' = Handled(wire[s]) /\ wire'[s] = None
      /\ \A t \in Slot : t # s => wire'[t] = wire[t]
  BY HandleFrame, Zenon
<1>2. prune_in' = prune_in /\ "visitor" \in Slot
  BY WanAssumption, Zenon DEF handle_message
<1>3. /\ Fits(registry', 1 + prune_in - PruneInterval)
      /\ \A p \in Pubkey : registry'.notifications[p] <= MaxQueued
      /\ s # "visitor" => Fewer(registry, registry')
  BY <1>1, HandledFits, Zenon
<1>4. ASSUME wire'["visitor"] # None, wire'["visitor"].kind = "notify"
      PROVE  registry'.notifications[wire'["visitor"].pubkey] < MaxQueued
  <2>1. s # "visitor" /\ wire'["visitor"] = wire["visitor"]
    BY <1>1, <1>2, <1>4, Zenon
  <2>2. PICK p : p = wire["visitor"].pubkey
    BY Zenon
  <2>3. p \in Pubkey
    BY <1>2, <1>4, <2>1, <2>2, InSlot, Zenon DEF WanInv, RequestType
  <2>4. registry.notifications[p] < MaxQueued /\ registry'.notifications[p] <= registry.notifications[p]
    BY <1>3, <1>4, <2>1, <2>2, <2>3, Zenon DEF StoreInv, Fewer
  <2>5. registry' \in RegistryType /\ registry \in RegistryType
    BY <1>1, HandledFacts, Zenon DEF WanInv, Types
  <2>6. registry.notifications[p] \in Nat /\ registry'.notifications[p] \in Nat
    BY <2>3, <2>5, Zenon DEF RegistryType
  <2>7. \A a, b \in Nat : a <= b /\ b < MaxQueued => a < MaxQueued
    BY WanAssumption
  <2> QED BY <2>1, <2>2, <2>4, <2>6, <2>7, Zenon
<1> QED BY <1>1, <1>2, <1>3, <1>4, Zenon DEF StoreInv

\* A task reads a request.
LEMMA StoreReadStep ==
  ASSUME WanInv, StoreInv, NEW s \in Slot, read_request(s)
  PROVE  StoreInv'
<1>1. /\ up /\ wire[s] # None /\ wire' = [wire EXCEPT ![s].stage = "now"]
      /\ UNCHANGED <<up, registry, prune_in, loop, waited, restarts>>
  BY Zenon DEF read_request, accept, At, loopVars
<1>2. "visitor" \in Slot /\ wire \in [Slot -> RequestType \cup {None}]
  BY WanAssumption, Zenon DEF WanInv, Types
<1>3. CASE s # "visitor"
  <2>1. wire'["visitor"] = wire["visitor"]
    BY <1>1, <1>2, <1>3, Zenon
  <2> QED BY <1>1, <2>1, StoreKept, Zenon DEF StoreInv
<1>4. CASE s = "visitor"
  <2>1. PICK r : r = wire["visitor"]
    BY Zenon
  <2>2. r \in RequestType /\ r # None
    BY <1>1, <1>2, <1>4, <2>1, Zenon
  <2>3. wire'["visitor"] = [r EXCEPT !.stage = "now"]
    BY <1>1, <1>2, <1>4, <2>1, Zenon
  <2>4. wire'["visitor"].kind = r.kind /\ wire'["visitor"].pubkey = r.pubkey
    BY <2>2, <2>3, Zenon DEF RequestType
  <2> QED BY <1>1, <2>1, <2>2, <2>4, Zenon DEF StoreInv
<1> QED BY <1>3, <1>4, Zenon

\* A visitor asks for what there is room for.
LEMMA StoreVisitStep ==
  ASSUME WanInv, StoreInv, NEW v \in Visits, visit(v[1], v[2])
  PROVE  StoreInv'
<1>1. "visitor" \in Slot /\ wire \in [Slot -> RequestType \cup {None}]
  BY WanAssumption, Zenon DEF WanInv, Types
<1>2. /\ v[1] = "notify" => registry.notifications[v[2]] < MaxQueued
      /\ UNCHANGED <<up, registry, prune_in, loop, waited, restarts>>
  BY Zenon DEF visit, loopVars
<1>3. wire'["visitor"] = [Request(v[1], v[2], {}, 0) EXCEPT !.stage = "now"]
  BY <1>1, Zenon DEF visit
<1>4. wire'["visitor"].kind = v[1] /\ wire'["visitor"].pubkey = v[2]
  BY <1>3 DEF Request
<1> QED BY <1>2, <1>4, Zenon DEF StoreInv

\* After the prune tick no entry is expired.
LEMMA StorePruneStep ==
  ASSUME WanInv, StoreInv, prune
  PROVE  StoreInv'
<1>1. /\ up /\ registry' = prune_expired(registry, 0) /\ prune_in' = PruneInterval
      /\ UNCHANGED <<up, wire, loop, waited, restarts>>
  BY Zenon DEF prune, prune_tick, loopVars
<1>2. PICK reg, n, after : /\ reg = registry /\ n = 1 + prune_in - PruneInterval
                           /\ after = registry'
  BY Zenon
<1>3. n \in Int
  BY <1>2, ServerAssumption DEF StoreInv
<1>4. reg \in RegistryType /\ Fits(reg, n) /\ 0 \in Nat /\ Owned(reg)
  BY <1>2, Zenon DEF WanInv, Types, StoreInv
<1>5. Fits(after, 1) /\ Fewer(reg, after) /\ after \in RegistryType
  BY <1>1, <1>2, <1>3, <1>4, PrunedFits, Pruned, Zenon
<1>6. 1 + prune_in' - PruneInterval = 1 /\ prune_in' \in 0 .. PruneInterval
  BY <1>1, ServerAssumption
<1>7. Fits(registry', 1 + prune_in' - PruneInterval)
  BY <1>2, <1>5, <1>6, Zenon
<1>8. \A p \in Pubkey : reg.notifications[p] \in Nat /\ after.notifications[p] \in Nat
  BY <1>4, <1>5, Zenon DEF RegistryType
<1>9. \A a, b \in Nat : a <= b =>
        /\ b <= MaxQueued => a <= MaxQueued
        /\ b < MaxQueued => a < MaxQueued
  BY WanAssumption
<1>10. \A p \in Pubkey : registry'.notifications[p] <= MaxQueued
  BY <1>2, <1>5, <1>8, <1>9, Zenon DEF StoreInv, Fewer
<1>11. wire["visitor"] # None => wire["visitor"].pubkey \in Pubkey
  BY WanAssumption, InSlot, Zenon DEF WanInv, RequestType
<1>12. wire["visitor"] # None /\ wire["visitor"].kind = "notify" =>
         registry'.notifications[wire["visitor"].pubkey] < MaxQueued
  BY <1>2, <1>5, <1>8, <1>9, <1>11, Zenon DEF StoreInv, Fewer
<1> QED BY <1>1, <1>6, <1>7, <1>10, <1>12, Zenon DEF StoreInv

\* The server ends, and begins with nothing.
LEMMA StoreServerStep ==
  ASSUME WanInv, StoreInv, stop_server \/ start_server
  PROVE  StoreInv'
<1>1. UNCHANGED <<loop, waited>> /\ "visitor" \in Slot
  BY WanAssumption, Zenon DEF stop_server, start_server, loopVars
<1>2. CASE stop_server
  <2>1. /\ registry' = new /\ wire' = [s \in Slot |-> None] /\ prune_in' = prune_in
        /\ restarts < MaxRestarts /\ restarts' = restarts + 1
    BY <1>2, Zenon DEF stop_server, server_stop
  <2>2. \A p \in Pubkey : new.entries[p] = Gone /\ new.notifications[p] = 0
    BY DEF new
  <2>3. restarts' \in 0 .. MaxRestarts
    BY <2>1, WanAssumption DEF StoreInv
  <2>4. 0 <= MaxQueued
    BY WanAssumption
  <2>5. \A p \in Pubkey : registry'.entries[p] = Gone /\ registry'.notifications[p] <= MaxQueued
    BY <2>1, <2>2, <2>4, Zenon
  <2>6. Fits(registry', 1 + prune_in' - PruneInterval)
    BY <2>5, Zenon DEF Fits
  <2>7. wire'["visitor"] = None
    BY <1>1, <2>1, Zenon
  <2> QED BY <1>1, <2>1, <2>3, <2>5, <2>6, <2>7, Zenon DEF StoreInv
<1>3. CASE start_server
  <2>1. /\ ~up /\ up' = TRUE /\ prune_in' = 0 /\ UNCHANGED <<registry, wire, restarts>>
    BY <1>3, Zenon DEF start_server, server_bind
  <2>2. 0 \in 0 .. PruneInterval
    BY ServerAssumption
  <2>3. Fits(registry', 1 + prune_in' - PruneInterval)
    BY <2>1, Zenon DEF StoreInv, Fits
  <2> QED BY <1>1, <2>1, <2>2, <2>3, Zenon DEF StoreInv
<1> QED BY <1>2, <1>3, Zenon

\* A tick brings the prune nearer by as much as it takes from the entries.
LEMMA StoreTickStep ==
  ASSUME WanInv, StoreInv, tick
  PROVE  StoreInv'
<1>1. /\ registry' = Aged(registry) /\ UNCHANGED <<up, loop, restarts>>
      /\ waited' = IF loop = "stopped" THEN waited ELSE waited + 1
      /\ up => prune_in > 0
      /\ prune_in' = IF up THEN prune_in - 1 ELSE prune_in
  BY Zenon DEF tick, server_tick
<1>2. PICK reg, n, after : /\ reg = registry /\ n = 1 + prune_in - PruneInterval
                           /\ after = registry'
  BY Zenon
<1>3. n \in Int /\ prune_in' \in 0 .. PruneInterval /\ (up => 1 + prune_in' - PruneInterval = n - 1)
  BY <1>1, <1>2, ServerAssumption DEF StoreInv
<1>4. reg \in RegistryType /\ Fits(reg, n)
  BY <1>2, Zenon DEF WanInv, Types, StoreInv
<1>5. /\ Fits(after, n - 1) /\ after.notifications = reg.notifications
      /\ \A p \in Pubkey : reg.entries[p] = Gone => after.entries[p] = Gone
  BY <1>1, <1>2, <1>3, <1>4, AgedFits, Zenon
<1>6. ~up' => \A p \in Pubkey : registry'.entries[p] = Gone
  BY <1>1, <1>2, <1>5, Zenon DEF StoreInv
<1>7. Fits(registry', 1 + prune_in' - PruneInterval)
  <2>1. CASE up
    BY <1>2, <1>3, <1>5, <2>1, Zenon
  <2>2. CASE ~up
    BY <1>1, <1>6, <2>2, Zenon DEF Fits
  <2> QED BY <2>1, <2>2, Zenon
<1>8. wire'["visitor"] = wire["visitor"] \/ /\ wire["visitor"] \in RequestType
                                            /\ wire'["visitor"] = [wire["visitor"] EXCEPT !.lag = @ + 1]
  <2>1. "visitor" \in Slot
    BY WanAssumption, Zenon
  <2>2. wire'["visitor"] = IF At("visitor", "now") THEN [wire["visitor"] EXCEPT !.lag = @ + 1]
                           ELSE wire["visitor"]
    BY <2>1, Zenon DEF tick, server_tick
  <2>3. At("visitor", "now") => wire["visitor"] \in RequestType
    BY <2>1, InSlot, Zenon DEF WanInv, At
  <2> QED BY <2>2, <2>3, Zenon
<1>9. \/ wire'["visitor"] = wire["visitor"]
      \/ /\ wire["visitor"] # None /\ wire'["visitor"].kind = wire["visitor"].kind
         /\ wire'["visitor"].pubkey = wire["visitor"].pubkey
  <2>1. CASE wire'["visitor"] = wire["visitor"]
    BY <2>1, Zenon
  <2>2. CASE wire["visitor"] \in RequestType /\ wire'["visitor"] = [wire["visitor"] EXCEPT !.lag = @ + 1]
    <3>1. wire["visitor"] # None
      BY <2>2, NothingAssumption, Zenon DEF RequestType
    <3>2. /\ wire'["visitor"].kind = wire["visitor"].kind
          /\ wire'["visitor"].pubkey = wire["visitor"].pubkey
      BY <2>2, Zenon DEF RequestType
    <3> QED BY <3>1, <3>2, Zenon
  <2> QED BY <1>8, <2>1, <2>2, Zenon
<1>10. /\ \A p \in Pubkey : registry'.notifications[p] <= MaxQueued
       /\ wire'["visitor"] # None /\ wire'["visitor"].kind = "notify" =>
            registry'.notifications[wire'["visitor"].pubkey] < MaxQueued
  BY <1>2, <1>5, <1>9, Zenon DEF StoreInv
<1> QED BY <1>1, <1>3, <1>6, <1>7, <1>10, Zenon DEF StoreInv

\* StoreInv is inductive, given WanInv.
LEMMA StoreInvStep == WanInv /\ StoreInv /\ [Next]_vars => StoreInv'
<1> SUFFICES ASSUME WanInv, StoreInv, [Next]_vars PROVE StoreInv'
  BY Zenon
<1>1. CASE \/ loop_step \/ stop_wan_runtime \/ primary_ipv4_address \/ UNCHANGED vars
           \/ \E late \in BOOLEAN : register_fails(late)
  BY <1>1, StoreLoopStep
<1>2. CASE \E replied \in BOOLEAN : register_handled(replied)
  <2>1. "loop" \in Slot /\ handle_message("loop") /\ UNCHANGED restarts /\ loop' = "wait"
    BY <1>2, WanAssumption, Zenon DEF register_handled, Enter
  <2>2. loop' # "stopped"
    BY <2>1
  <2> QED BY <2>1, <2>2, StoreHandleStep, Zenon
<1>3. CASE \E s \in Slot : read_request(s)
  BY <1>3, StoreReadStep, Zenon
<1>4. CASE \E s \in Slot : handle_other(s)
  <2>1. PICK s \in Slot : handle_message(s) /\ UNCHANGED <<loop, waited, restarts>>
    BY <1>4, Zenon DEF handle_other, loopVars
  <2> QED BY <2>1, StoreHandleStep, Zenon DEF StoreInv
<1>5. CASE \E v \in Visits : visit(v[1], v[2])
  BY <1>5, StoreVisitStep, Zenon
<1>6. CASE prune \/ stop_server \/ start_server
  BY <1>6, StorePruneStep, StoreServerStep, Zenon
<1>7. CASE tick
  BY <1>7, StoreTickStep, Zenon
<1> QED BY <1>1, <1>2, <1>3, <1>4, <1>5, <1>6, <1>7, Zenon DEF Next

\* Both invariants give the types and bounds.
LEMMA StoreIsTyped == WanInv /\ StoreInv => TypeOK
<1> SUFFICES ASSUME WanInv, StoreInv PROVE TypeOK
  BY Zenon
<1>1. ASSUME NEW p \in Pubkey, registry.entries[p] # Gone
      PROVE  /\ registry.entries[p].left \in (1 - PruneInterval) .. MaxTtl
             /\ registry.entries[p].candidates \in (SUBSET NativeCandidate) \ {{}}
  <2>1. PICK l : l = registry.entries[p].left
    BY Zenon
  <2>2. registry.entries[p] \in Entry
    BY <1>1, Zenon DEF WanInv, Types, RegistryType
  <2>3. /\ l \in Int /\ l >= 1 + prune_in - PruneInterval /\ l <= MaxTtl
        /\ registry.entries[p].candidates # {}
        /\ registry.entries[p].candidates \in SUBSET NativeCandidate
    BY <1>1, <2>1, <2>2, Zenon DEF StoreInv, Fits, Entry
  <2>4. prune_in \in 0 .. PruneInterval
    BY Zenon DEF StoreInv
  <2>5. l \in (1 - PruneInterval) .. MaxTtl
    BY <2>3, <2>4, ServerAssumption, Numbers
  <2>6. registry.entries[p].candidates \in (SUBSET NativeCandidate) \ {{}}
    BY <2>3
  <2> QED BY <2>1, <2>5, <2>6, Zenon
<1>2. registry.notifications \in [Pubkey -> 0 .. MaxQueued]
  <2>1. registry.notifications \in [Pubkey -> Nat]
    BY Zenon DEF WanInv, Types, RegistryType
  <2>2. \A k \in Nat : k <= MaxQueued => k \in 0 .. MaxQueued
    BY WanAssumption
  <2>3. \A p \in Pubkey : registry.notifications[p] <= MaxQueued
    BY Zenon DEF StoreInv
  <2> QED BY <2>1, <2>2, <2>3, Zenon
<1>3. waited \in 0 .. (Interval + GatherTime)
  <2>1. Patience <= Interval
    <3>1. 0 \in Nat /\ 0 <= MaxLosses
      BY Numbers
    <3>2. 0 * Round = 0 /\ 0 * Round + Round <= (MaxLosses + 1) * Round
      BY <3>1, Rounds, Numbers
    <3>3. PICK all : all = (MaxLosses + 1) * Round
      BY Zenon
    <3>4. all \in Int /\ Round <= all /\ all + Patience + MaxLag < 3 * Interval
      BY <3>2, <3>3, Numbers
    <3>5. Round = Interval + GatherTime + Patience
      BY Zenon DEF Round
    <3> QED BY <3>4, <3>5, Numbers
  <2>2. /\ waited \in Nat /\ loop \in {"gather", "register", "wait", "stopped"}
        /\ loop = "stopped" => waited = 0
    BY Zenon DEF WanInv, Types, StoreInv
  <2>3. waited <= GatherTime \/ waited <= Patience \/ waited <= Interval \/ waited = 0
    BY <2>2, Zenon DEF WanInv, OnTime
  <2> QED BY <2>1, <2>2, <2>3, Numbers
<1>4. \A s \in Slot : wire[s] # None => wire[s].kind \in ClientMessage
  BY InSlot, Zenon DEF WanInv, RequestType
<1>5. failures \in 0 .. MaxLosses
  BY Numbers DEF WanInv, Types
<1>6. /\ up \in BOOLEAN /\ loop \in {"gather", "register", "wait", "stopped"}
      /\ prune_in \in 0 .. PruneInterval /\ restarts \in 0 .. MaxRestarts
  BY Zenon DEF WanInv, Types, StoreInv
<1>7. \A p \in Pubkey : registry.entries[p] # Gone =>
        /\ registry.entries[p].left \in (1 - PruneInterval) .. MaxTtl
        /\ registry.entries[p].candidates \in (SUBSET NativeCandidate) \ {{}}
  BY <1>1, Zenon
<1> QED BY <1>2, <1>3, <1>4, <1>5, <1>6, <1>7, Zenon DEF TypeOK

\* Types and bounds: an expired entry is gone before another interval of the prune
\* tick is over, and the queues, timers and counters stay within their limits.
THEOREM ServerForgetsInTime == Spec => []TypeOK
<1>1. StoreInv /\ WanInv /\ [Next]_vars => StoreInv'
  BY StoreInvStep, Zenon
<1> QED BY <1>1, WanInvariant, StoreInvInit, StoreIsTyped, PTL DEF Spec
=============================================================================
