-------------------------- MODULE LocalSendProofs ---------------------------
(***************************************************************************)
(* What LocalSend promises of an upload, for any sessions, files, bodies   *)
(* and number of handlers: the inductive invariant, that every action      *)
(* preserves it, and what follows from it.                                 *)
(***************************************************************************)
EXTENDS LocalSend, TLAPS

Handler ==
  [pc : Pc, slot : Slot \cup {NoSlot}, token : Nat, body : Seq(Nat), sent : Nat,
   fd : Nat, target : Target \cup {NoTarget}, gone : BOOLEAN]

HasFile(u) == up[u].pc \in {"stream", "check", "target", "rename"}
Rename == [upload : Upload, slot : Slot, inode : Nat]

\* Every variable has its type; a handler past "idle" has a slot, of a session that
\* was prepared, unless a legacy request was refused for want of one.
Shapes ==
  /\ sessions \in [Session -> {"none", "live", "expired", "gone"}]
  /\ uploaded \subseteq Slot /\ contended \subseteq PartPath /\ raced \subseteq Name
  /\ data \in Seq(Seq(Nat))
  /\ part \in [PartPath -> Nat]
  /\ inbox \in [Target -> Nat]
  /\ up \in [Upload -> Handler]
  /\ published \subseteq Rename
  /\ \A u \in Upload : up[u].pc \notin {"idle", "refused"} =>
       up[u].slot \in Slot /\ sessions[up[u].slot[1]] # "none"
  /\ \A u \in Upload : up[u].pc \in {"authorize", "create"} => up[u].sent = 0
  /\ \A u \in Upload : up[u].pc = "rename" =>
       up[u].target \in Target /\ up[u].target[1] = Meta[up[u].slot].name

\* Which inodes there are, and that each has one name at most: a .part path, or an
\* inbox name once it is published.
Inodes ==
  /\ \A path \in PartPath : part[path] \in Inode \cup {NoInode}
  /\ \A n \in Target : inbox[n] \in Inode \cup {NoInode}
  /\ \A u \in Upload : HasFile(u) \/ At(u, "mark") => up[u].fd \in Inode
  /\ \A p \in published : p.inode \in Inode
  /\ \A m, n \in Target : inbox[m] = inbox[n] /\ inbox[m] # NoInode => m = n
  /\ \A x, y \in PartPath : part[x] = part[y] /\ part[x] # NoInode => x = y
  /\ \A path \in PartPath, n \in Target : part[path] # NoInode => part[path] # inbox[n]
  /\ \A path \in PartPath, p \in published : part[path] # p.inode

\* Two handlers on one .part path are recorded.
Sole ==
  \A u, v \in Upload : Working(u) /\ Working(v) /\ u # v /\ PathOf(u) = PathOf(v) =>
    PathOf(u) \in contended

\* A handle leads to the inode at the handler's own path, or to one that was
\* published from there.
Handles ==
  \A u \in Upload : HasFile(u) =>
    /\ \A path \in PartPath : part[path] = up[u].fd => path = PathOf(u)
    /\ \A p \in published : p.inode = up[u].fd => PathOf(u) = incoming_file_name(p.slot)

\* A handler alone on its path finds in the file what it has streamed so far, all
\* of the body once it has come to its end, and the right one once it has checked.
Streamed ==
  \A u \in Upload : HasFile(u) /\ PathOf(u) \notin contended =>
    /\ part[PathOf(u)] = up[u].fd
    /\ up[u].sent <= Len(up[u].body)
    /\ data[up[u].fd] = SubSeq(up[u].body, 1, up[u].sent)
    /\ ~ At(u, "stream") => up[u].sent = Len(up[u].body)
    /\ up[u].pc \in {"target", "rename"} => Intact(up[u].slot, up[u].body)

\* A published file is in the inbox under a name its slot asked for, and a name
\* that was picked is still free, unless the name was raced for.
Named ==
  /\ \A p \in published :
       Meta[p.slot].name \in raced \/ \E n \in Target : inbox[n] = p.inode
  /\ \A p \in published, n \in Target : inbox[n] = p.inode => n[1] = Meta[p.slot].name
  /\ \A u \in Upload : At(u, "rename") =>
       Meta[up[u].slot].name \in raced \/ inbox[up[u].target] = NoInode
  /\ \A u, v \in Upload :
       At(u, "rename") /\ At(v, "rename") /\ u # v /\ Meta[up[u].slot].name = Meta[up[v].slot].name =>
         Meta[up[u].slot].name \in raced

\* Who published is past the rename; once answered, either the slot is marked or
\* its session is gone, and a handler alone on its path works on an unmarked slot
\* that nobody was refused for.
Answered ==
  /\ \A p \in published :
       /\ up[p.upload].slot = p.slot
       /\ up[p.upload].pc \in {"mark", "ok", "refused", "dropped"}
       /\ At(p.upload, "ok") => p.slot \in uploaded
       /\ At(p.upload, "refused") => sessions[p.slot[1]] = "gone"
  /\ \A u \in Upload : up[u].pc \in {"mark", "ok"} => \E p \in published : p.upload = u
  /\ \A u \in Upload : Working(u) /\ PathOf(u) \notin contended =>
       /\ up[u].slot \notin uploaded
       /\ \A p \in published : p.slot = up[u].slot => ~ At(p.upload, "refused")

IInv == /\ Shapes /\ Inodes /\ Sole /\ Handles /\ Streamed /\ Named /\ Answered
        /\ PublishedIntact /\ PublishedOnce

-----------------------------------------------------------------------------
(* Facts about the operators *)

\* Every slot has a path below .incoming.
LEMMA SlotHasPath ==
  ASSUME NEW slot \in Slot
  PROVE  incoming_file_name(slot) \in PartPath /\ Meta[slot].name \in Name /\ slot[1] \in Session
BY LocalSendAssumption, Zenon DEF PartPath, Name

\* What a step of handler u that only changes where it stands leaves alone.
OthersKept(u) == \A v \in Upload : v # u => up'[v] = up[v]
FieldsKept(u) ==
  /\ up'[u].slot = up[u].slot /\ up'[u].token = up[u].token /\ up'[u].body = up[u].body
  /\ up'[u].sent = up[u].sent /\ up'[u].fd = up[u].fd /\ up'[u].target = up[u].target

\* Goto changes where the handler stands and nothing else.
LEMMA GotoEffect ==
  ASSUME up \in [Upload -> Handler], NEW u \in Upload, NEW label \in Pc, Goto(u, label)
  PROVE  /\ up' \in [Upload -> Handler]
         /\ OthersKept(u) /\ FieldsKept(u)
         /\ up'[u].pc = label /\ up'[u].gone = up[u].gone
BY Zenon DEF Goto, Handler, OthersKept, FieldsKept

\* Sessions only go forward: what was prepared stays so, and what is gone stays gone.
SessionsForward ==
  /\ sessions' \in [Session -> {"none", "live", "expired", "gone"}]
  /\ \A s \in Session : sessions[s] # "none" => sessions'[s] # "none"
  /\ \A s \in Session : sessions[s] = "gone" => sessions'[s] = "gone"

\* Pruning takes a session that expired out of the table, and nothing else.
LEMMA PrunedForward ==
  ASSUME sessions \in [Session -> {"none", "live", "expired", "gone"}],
         sessions' = Pruned
  PROVE  SessionsForward
BY Zenon DEF Pruned, SessionsForward

\* The parts of the invariant, when the state they are about stays as it is and no
\* handler comes to hold more than before.
LEMMA InodesKept ==
  ASSUME Inodes, UNCHANGED <<data, part, inbox, published>>,
         \A v \in Upload : HasFile(v)' \/ At(v, "mark")' =>
           (HasFile(v) \/ At(v, "mark")) /\ up'[v].fd = up[v].fd
  PROVE  Inodes'
<1>1. Inode' = Inode
  BY Zenon DEF Inode
<1>2. \A v \in Upload : HasFile(v)' \/ At(v, "mark")' => up'[v].fd \in Inode
  BY Zenon DEF Inodes
<1> QED
  BY <1>1, <1>2, Zenon DEF Inodes

\* Likewise for handlers on one path.
LEMMA SoleKept ==
  ASSUME Sole, UNCHANGED contended,
         \A v \in Upload : Working(v)' => Working(v) /\ PathOf(v)' = PathOf(v)
  PROVE  Sole'
<1> SUFFICES ASSUME NEW v \in Upload, NEW w \in Upload, Working(v)', Working(w)', v # w,
                    PathOf(v)' = PathOf(w)'
             PROVE  PathOf(v)' \in contended'
  BY Zenon DEF Sole
<1>1. Working(v) /\ Working(w) /\ PathOf(v)' = PathOf(v) /\ PathOf(w)' = PathOf(w)
  BY Zenon
<1>2. PathOf(v) \in contended
  BY <1>1, Zenon DEF Sole
<1> QED
  BY <1>1, <1>2, Zenon

\* Likewise for their handles.
LEMMA HandlesKept ==
  ASSUME Handles, UNCHANGED <<part, published>>,
         \A v \in Upload : HasFile(v)' =>
           HasFile(v) /\ PathOf(v)' = PathOf(v) /\ up'[v].fd = up[v].fd
  PROVE  Handles'
<1> SUFFICES ASSUME NEW v \in Upload, HasFile(v)'
             PROVE  /\ \A path \in PartPath : part'[path] = up'[v].fd => path = PathOf(v)'
                    /\ \A p \in published' : p.inode = up'[v].fd => PathOf(v)' = incoming_file_name(p.slot)
  BY Zenon DEF Handles
<1>1. HasFile(v) /\ PathOf(v)' = PathOf(v) /\ up'[v].fd = up[v].fd
  BY Zenon
<1>2. /\ \A path \in PartPath : part[path] = up[v].fd => path = PathOf(v)
      /\ \A p \in published : p.inode = up[v].fd => PathOf(v) = incoming_file_name(p.slot)
  BY <1>1, Zenon DEF Handles
<1> QED
  BY <1>1, <1>2, Zenon

\* Likewise for what they have streamed.
LEMMA StreamedKept ==
  ASSUME Streamed, UNCHANGED <<data, part, contended>>,
         \A v \in Upload : HasFile(v)' =>
           /\ HasFile(v) /\ PathOf(v)' = PathOf(v) /\ up'[v].slot = up[v].slot
           /\ up'[v].fd = up[v].fd /\ up'[v].sent = up[v].sent /\ up'[v].body = up[v].body
           /\ PathOf(v) \notin contended =>
                /\ ~ At(v, "stream")' => up[v].sent = Len(up[v].body)
                /\ up'[v].pc \in {"target", "rename"} => Intact(up[v].slot, up[v].body)
  PROVE  Streamed'
<1> SUFFICES ASSUME NEW v \in Upload, HasFile(v)', PathOf(v)' \notin contended'
             PROVE  /\ part'[PathOf(v)'] = up'[v].fd
                    /\ up'[v].sent <= Len(up'[v].body)
                    /\ data'[up'[v].fd] = SubSeq(up'[v].body, 1, up'[v].sent)
                    /\ ~ At(v, "stream")' => up'[v].sent = Len(up'[v].body)
                    /\ up'[v].pc \in {"target", "rename"} => Intact(up'[v].slot, up'[v].body)
  BY Zenon DEF Streamed, Intact
<1>1. /\ HasFile(v) /\ PathOf(v)' = PathOf(v) /\ PathOf(v) \notin contended
      /\ up'[v].slot = up[v].slot
      /\ up'[v].fd = up[v].fd /\ up'[v].sent = up[v].sent /\ up'[v].body = up[v].body
  BY Zenon
<1>2. /\ part[PathOf(v)] = up[v].fd /\ up[v].sent <= Len(up[v].body)
      /\ data[up[v].fd] = SubSeq(up[v].body, 1, up[v].sent)
  BY <1>1, Zenon DEF Streamed
<1>3. /\ ~ At(v, "stream")' => up[v].sent = Len(up[v].body)
      /\ up'[v].pc \in {"target", "rename"} => Intact(up[v].slot, up[v].body)
  BY <1>1, Zenon
<1> QED
  BY <1>1, <1>2, <1>3, Zenon

\* Likewise for names.
LEMMA NamedKept ==
  ASSUME Named, UNCHANGED <<inbox, published, raced>>,
         \A v \in Upload : At(v, "rename")' =>
           At(v, "rename") /\ up'[v].slot = up[v].slot /\ up'[v].target = up[v].target
  PROVE  Named'
<1>1. /\ \A p \in published :
           Meta[p.slot].name \in raced \/ \E n \in Target : inbox[n] = p.inode
      /\ \A p \in published, n \in Target : inbox[n] = p.inode => n[1] = Meta[p.slot].name
  BY Zenon DEF Named
<1>2. ASSUME NEW v \in Upload, At(v, "rename")'
      PROVE  Meta[up'[v].slot].name \in raced \/ inbox[up'[v].target] = NoInode
  <2>1. At(v, "rename") /\ up'[v].slot = up[v].slot /\ up'[v].target = up[v].target
    BY <1>2, Zenon
  <2> QED
    BY <2>1, Zenon DEF Named
<1>3. ASSUME NEW v \in Upload, NEW w \in Upload, At(v, "rename")', At(w, "rename")', v # w,
             Meta[up'[v].slot].name = Meta[up'[w].slot].name
      PROVE  Meta[up'[v].slot].name \in raced
  <2>1. At(v, "rename") /\ At(w, "rename") /\ up'[v].slot = up[v].slot /\ up'[w].slot = up[w].slot
    BY <1>3, Zenon
  <2> QED
    BY <1>3, <2>1, Zenon DEF Named
<1> QED
  BY <1>1, <1>2, <1>3, Zenon DEF Named

\* Likewise for answers and for what is published, as long as nobody who published
\* or was answered moves.
LEMMA AnsweredKept ==
  ASSUME Answered, PublishedOnce, PublishedIntact, published \subseteq Rename,
         UNCHANGED <<sessions, uploaded, data, published, contended>>,
         \A v \in Upload :
           /\ up'[v].slot = up[v].slot
           /\ Working(v)' => Working(v) /\ PathOf(v)' = PathOf(v)
           /\ up[v].pc \in {"mark", "ok", "refused", "dropped"} => up'[v].pc = up[v].pc
           /\ up'[v].pc \in {"mark", "ok"} => up[v].pc = up'[v].pc
  PROVE  Answered' /\ PublishedOnce' /\ PublishedIntact'
<1>1. ASSUME NEW p \in published
      PROVE  /\ p.upload \in Upload /\ up[p.upload].slot = p.slot /\ up'[p.upload].slot = p.slot
             /\ up[p.upload].pc \in {"mark", "ok", "refused", "dropped"}
             /\ up'[p.upload].pc = up[p.upload].pc
  <2>1. p.upload \in Upload
    BY Zenon DEF Rename
  <2>2. up[p.upload].slot = p.slot /\ up[p.upload].pc \in {"mark", "ok", "refused", "dropped"}
    BY Zenon DEF Answered
  <2> QED
    BY <2>1, <2>2, Zenon
<1>2. \A p \in published : /\ At(p.upload, "ok") => p.slot \in uploaded
                           /\ At(p.upload, "refused") => sessions[p.slot[1]] = "gone"
  BY Zenon DEF Answered
<1>3. ASSUME NEW v \in Upload, up'[v].pc \in {"mark", "ok"} PROVE \E p \in published : p.upload = v
  BY <1>3, Zenon DEF Answered
<1>4. ASSUME NEW v \in Upload, Working(v)', PathOf(v)' \notin contended
      PROVE  /\ up'[v].slot \notin uploaded
             /\ \A p \in published : p.slot = up'[v].slot => ~ At(p.upload, "refused")'
  <2>1. Working(v) /\ PathOf(v) \notin contended /\ up'[v].slot = up[v].slot
    BY <1>4, Zenon
  <2>2. /\ up[v].slot \notin uploaded
        /\ \A p \in published : p.slot = up[v].slot => ~ At(p.upload, "refused")
    BY <2>1, Zenon DEF Answered
  <2> QED
    BY <1>1, <2>1, <2>2, Zenon DEF At
<1>5. Answered'
  <2>1. ASSUME NEW p \in published
        PROVE  /\ up'[p.upload].slot = p.slot
               /\ up'[p.upload].pc \in {"mark", "ok", "refused", "dropped"}
               /\ At(p.upload, "ok")' => p.slot \in uploaded
               /\ At(p.upload, "refused")' => sessions[p.slot[1]] = "gone"
    BY <1>1, <1>2, Zenon DEF At
  <2> QED
    BY <1>3, <1>4, <2>1, Zenon DEF Answered
<1>6. PublishedOnce'
  <2>1. \A p \in published : At(p.upload, "dropped") => At(p.upload, "dropped")'
    BY <1>1, Zenon DEF At
  <2> QED
    BY <2>1, Zenon DEF PublishedOnce
<1>7. PublishedIntact'
  BY Zenon DEF PublishedIntact, Intact
<1> QED
  BY <1>5, <1>6, <1>7, Zenon

-----------------------------------------------------------------------------
(* The invariant holds initially, and every action preserves it *)

\* No session, no handler, an empty inbox.
LEMMA InitInvariant == Init => IInv
<1> SUFFICES ASSUME Init PROVE IInv
  BY Zenon
<1>1. Shapes
  BY LocalSendAssumption DEF Init, Shapes, Idle, Handler, Pc, NoInode
<1>2. Inodes /\ Sole /\ Handles /\ Streamed
  BY Zenon DEF Init, Inodes, Sole, Handles, Streamed, HasFile, Working, At, Idle
<1>3. Named /\ Answered /\ PublishedIntact /\ PublishedOnce
  BY Zenon DEF Init, Named, Answered, PublishedIntact, PublishedOnce, Working, At, Idle
<1> QED
  BY <1>1, <1>2, <1>3, Zenon DEF IInv

\* A session is prepared, expires or is cancelled.
LEMMA SessionStep ==
  ASSUME IInv, SessionsForward, UNCHANGED <<uploaded, disk, up, contended, raced>>
  PROVE  IInv'
<1>1. Shapes'
  <2>1. \A u \in Upload : up[u].slot \in Slot => up[u].slot[1] \in Session
    BY SlotHasPath, Zenon
  <2> QED
    BY <2>1, Zenon DEF IInv, Shapes, SessionsForward, disk
<1>2. Inodes' /\ Sole' /\ Handles' /\ Streamed'
  BY Zenon DEF IInv, Inodes, Inode, Sole, Handles, Streamed, HasFile, Working, At, PathOf, disk
<1>3. Named' /\ PublishedIntact' /\ PublishedOnce'
  BY Zenon DEF IInv, Named, PublishedIntact, PublishedOnce, At, disk
<1>4. Answered'
  <2>1. \A p \in published : p.slot[1] \in Session
    BY SlotHasPath, Zenon DEF IInv, Shapes, Rename
  <2> QED
    BY <2>1, Zenon DEF IInv, Answered, SessionsForward, Working, At, PathOf, disk
<1> QED
  BY <1>1, <1>2, <1>3, <1>4, Zenon DEF IInv

\* A handler that has not published gives up: it is refused, or dropped.
LEMMA HandlerEnds ==
  ASSUME IInv, SessionsForward, NEW u \in Upload, NEW label \in {"refused", "dropped"},
         Goto(u, label), up[u].pc \notin {"mark", "ok", "refused", "dropped"},
         label = "dropped" => up[u].pc # "idle",
         UNCHANGED <<uploaded, disk, contended, raced>>
  PROVE  IInv'
<1>1. /\ up' \in [Upload -> Handler] /\ OthersKept(u) /\ FieldsKept(u) /\ up'[u].pc = label
  BY GotoEffect, Zenon DEF IInv, Shapes, Pc
<1>2. Shapes'
  <2>1. \A v \in Upload : up[v].slot \in Slot => up[v].slot[1] \in Session
    BY SlotHasPath, Zenon
  <2>2. \A v \in Upload : up'[v].pc \notin {"idle", "refused"} =>
          up'[v].slot \in Slot /\ sessions'[up'[v].slot[1]] # "none"
    BY <1>1, <2>1 DEF IInv, Shapes, SessionsForward, OthersKept, FieldsKept
  <2>3. \A v \in Upload : up'[v].pc \in {"authorize", "create", "rename"} => up'[v] = up[v]
    BY <1>1, Zenon DEF OthersKept
  <2> QED
    BY <1>1, <2>2, <2>3 DEF IInv, Shapes, SessionsForward, disk
<1>3. Inodes' /\ Sole' /\ Handles' /\ Streamed'
  BY <1>1 DEF IInv, Inodes, Inode, Sole, Handles, Streamed, HasFile, Working, At, PathOf, OthersKept, disk
<1>4. Named' /\ PublishedIntact'
  BY <1>1 DEF IInv, Named, PublishedIntact, At, OthersKept, disk
<1>5. \A p \in published : p.upload \in Upload /\ p.upload # u /\ p.slot[1] \in Session
  BY SlotHasPath DEF IInv, Answered, Shapes, Rename
<1>6. Answered'
  BY <1>1, <1>5 DEF IInv, Answered, SessionsForward, Working, At, PathOf, OthersKept, disk
<1>7. PublishedOnce'
  BY <1>1, <1>5 DEF IInv, PublishedOnce, At, OthersKept, disk
<1> QED
  BY <1>2, <1>3, <1>4, <1>6, <1>7, Zenon DEF IInv

\* A request arrives for a slot of a prepared session.
LEMMA HandlerStarts ==
  ASSUME IInv, SessionsForward, NEW u \in Upload, At(u, "idle"),
         NEW slot \in Slot, sessions[slot[1]] # "none", NEW token \in Nat, NEW body \in Seq(Nat),
         up' = [up EXCEPT ![u] = [Idle EXCEPT !.pc = "authorize", !.slot = slot,
                                              !.token = token, !.body = body]],
         UNCHANGED <<uploaded, disk, contended, raced>>
  PROVE  IInv'
<1> DEFINE new == [Idle EXCEPT !.pc = "authorize", !.slot = slot, !.token = token, !.body = body]
<1>1. new \in Handler /\ new.pc = "authorize" /\ new.slot = slot /\ new.sent = 0
  BY Zenon DEF Idle, Handler, Pc, NoInode
<1> HIDE DEF new
<1>2. up' = [up EXCEPT ![u] = new]
  BY Zenon DEF new
<1>3. /\ up' \in [Upload -> Handler] /\ OthersKept(u)
      /\ up'[u].pc = "authorize" /\ up'[u].slot = slot /\ up'[u].sent = 0
  BY <1>1, <1>2, ZenonT(30) DEF IInv, Shapes, OthersKept
<1>4. Shapes'
  <2>1. \A v \in Upload : up[v].slot \in Slot => up[v].slot[1] \in Session
    BY SlotHasPath, Zenon
  <2>2. slot[1] \in Session
    BY SlotHasPath, Zenon
  <2>3. \A v \in Upload : up'[v].pc \notin {"idle", "refused"} =>
          up'[v].slot \in Slot /\ sessions'[up'[v].slot[1]] # "none"
    BY <1>3, <2>1, <2>2 DEF IInv, Shapes, SessionsForward, OthersKept
  <2>4. \A v \in Upload : up'[v].pc \in {"create", "rename"} => up'[v] = up[v]
    BY <1>3, Zenon DEF OthersKept
  <2>5. \A v \in Upload : up'[v].pc \in {"authorize", "create"} => up'[v].sent = 0
    BY <1>3, Zenon DEF OthersKept, IInv, Shapes
  <2> QED
    BY <1>3, <2>3, <2>4, <2>5 DEF IInv, Shapes, SessionsForward, disk
<1>5. Inodes' /\ Sole' /\ Handles' /\ Streamed'
  BY <1>3 DEF IInv, Inodes, Inode, Sole, Handles, Streamed, HasFile, Working, At, PathOf, OthersKept, disk
<1>6. Named' /\ PublishedIntact'
  BY <1>3 DEF IInv, Named, PublishedIntact, At, OthersKept, disk
<1>7. \A p \in published : p.upload \in Upload /\ p.upload # u /\ p.slot[1] \in Session
  BY SlotHasPath, ZenonT(30) DEF IInv, Answered, Shapes, Rename, At
<1>8. Answered'
  BY <1>3, <1>7 DEF IInv, Answered, SessionsForward, Working, At, PathOf, OthersKept, disk
<1>9. PublishedOnce'
  BY <1>3, <1>7 DEF IInv, PublishedOnce, At, OthersKept, disk
<1> QED
  BY <1>4, <1>5, <1>6, <1>8, <1>9, Zenon DEF IInv

\* The lock is taken, and the token is the right one for a file not yet uploaded.
LEMMA HandlerAuthorized ==
  ASSUME IInv, NEW u \in Upload, authorize_upload(u), up'[u].pc = "create"
  PROVE  IInv'
<1>1. /\ up[u].pc = "authorize" /\ up[u].slot \in Slot /\ sessions' = Pruned
      /\ Goto(u, "create") /\ UNCHANGED <<uploaded, disk, raced>>
  BY GotoEffect, Zenon DEF authorize_upload, At, IInv, Shapes, Pc
<1>2. /\ up' \in [Upload -> Handler] /\ OthersKept(u) /\ FieldsKept(u)
  BY <1>1, GotoEffect, Zenon DEF IInv, Shapes, Pc
<1>3. /\ Pruned[up[u].slot[1]] = "live" /\ up[u].slot \notin uploaded
      /\ contended' = IF \E v \in Upload \ {u} : Working(v) /\ PathOf(v) = PathOf(u)
                      THEN contended \cup {PathOf(u)} ELSE contended
  BY GotoEffect, Zenon DEF authorize_upload, IInv, Shapes, Pc
<1>4. SessionsForward
  BY <1>1, PrunedForward, Zenon DEF IInv, Shapes
<1>5. contended \subseteq contended' /\ contended' \subseteq PartPath
  BY <1>1, <1>3, SlotHasPath, Zenon DEF IInv, Shapes, PathOf
<1>6. Shapes'
  <2>1. \A v \in Upload : up[v].slot \in Slot => up[v].slot[1] \in Session
    BY SlotHasPath, Zenon
  <2>2. \A v \in Upload : up'[v].pc \notin {"idle", "refused"} =>
          up'[v].slot \in Slot /\ sessions'[up'[v].slot[1]] # "none"
    BY <1>1, <1>2, <1>4, <2>1, ZenonT(30) DEF IInv, Shapes, SessionsForward, OthersKept, FieldsKept
  <2>3. \A v \in Upload : up'[v].pc = "rename" => up'[v] = up[v]
    BY <1>2, Zenon DEF OthersKept
  <2>4. \A v \in Upload : up'[v].pc \in {"authorize", "create"} => up'[v].sent = 0
    BY <1>1, <1>2, Zenon DEF OthersKept, FieldsKept, IInv, Shapes
  <2> QED
    BY <1>1, <1>2, <1>4, <1>5, <2>2, <2>3, <2>4 DEF IInv, Shapes, SessionsForward, disk
<1>7. Inodes' /\ Handles' /\ Streamed'
  BY <1>1, <1>2, <1>5 DEF IInv, Inodes, Inode, Handles, Streamed, HasFile, At, PathOf, OthersKept, disk
<1>8. Sole'
  <2> SUFFICES ASSUME NEW v \in Upload, NEW w \in Upload, v # w,
                      Working(v)', Working(w)', PathOf(v)' = PathOf(w)'
               PROVE  PathOf(v)' \in contended'
    BY Zenon DEF Sole
  <2>1. \A x \in Upload : PathOf(x)' = PathOf(x) /\ (x # u => Working(x)' = Working(x))
    BY <1>2, Zenon DEF PathOf, Working, OthersKept, FieldsKept
  <2>2. CASE v # u /\ w # u
    BY <1>5, <2>1, <2>2, Zenon DEF IInv, Sole
  <2>3. CASE v = u \/ w = u
    BY <1>3, <2>1, <2>3, Zenon
  <2> QED
    BY <2>2, <2>3, Zenon
<1>9. Named' /\ PublishedIntact'
  BY <1>1, <1>2, <1>5 DEF IInv, Named, PublishedIntact, At, OthersKept, disk
<1>10. \A p \in published : p.upload \in Upload /\ p.upload # u /\ p.slot[1] \in Session
  <2>1. \A p \in published : p.upload \in Upload /\ p.slot \in Slot
    BY Zenon DEF IInv, Shapes, Rename
  <2>2. \A p \in published : p.upload # u
    BY <1>1, Zenon DEF IInv, Answered
  <2> QED
    BY <2>1, <2>2, SlotHasPath
<1>11. Answered'
  <2>1. \A p \in published : p.slot = up[u].slot => ~ At(p.upload, "refused")
    BY <1>1, <1>3, <1>10, Zenon DEF IInv, Answered, Pruned
  <2>2. \A p \in published : At(p.upload, "refused")' = At(p.upload, "refused")
    BY <1>2, <1>10, Zenon DEF At, OthersKept
  <2>3. \A v \in Upload : Working(v)' /\ PathOf(v)' \notin contended' =>
          /\ up'[v].slot \notin uploaded
          /\ \A p \in published : p.slot = up'[v].slot => ~ At(p.upload, "refused")
    BY <1>2, <1>3, <1>5, <2>1 DEF IInv, Answered, Working, PathOf, OthersKept, FieldsKept
  <2>4. \A p \in published' :
       /\ up'[p.upload].slot = p.slot
       /\ up'[p.upload].pc \in {"mark", "ok", "refused", "dropped"}
       /\ At(p.upload, "ok")' => p.slot \in uploaded'
       /\ At(p.upload, "refused")' => sessions'[p.slot[1]] = "gone"
    BY <1>1, <1>2, <1>4, <1>10 DEF IInv, Answered, SessionsForward, At, OthersKept, disk
  <2>5. \A v \in Upload : up'[v].pc \in {"mark", "ok"} => \E p \in published' : p.upload = v
    BY <1>1, <1>2, Zenon DEF IInv, Answered, OthersKept, disk
  <2> QED
    BY <1>1, <2>2, <2>3, <2>4, <2>5, Zenon DEF Answered, disk
<1>12. PublishedOnce'
  BY <1>1, <1>2, <1>5, <1>10 DEF IInv, PublishedOnce, At, OthersKept, disk
<1> QED
  BY <1>6, <1>7, <1>8, <1>9, <1>11, <1>12, Zenon DEF IInv

\* A handler that is dropped while a blocking thread has its operation only notes it.
LEMMA GoneEffect ==
  ASSUME up \in [Upload -> Handler], NEW u \in Upload, up' = [up EXCEPT ![u].gone = TRUE]
  PROVE  /\ up' \in [Upload -> Handler] /\ OthersKept(u) /\ FieldsKept(u)
         /\ up'[u].pc = up[u].pc
BY Zenon DEF Handler, OthersKept, FieldsKept

\* File::create opens a new inode, or truncates the one at the path.
LEMMA PartCreated ==
  ASSUME IInv, NEW u \in Upload, create_part(u)
  PROVE  IInv'
<1> DEFINE path == PathOf(u)
           fresh == part[path] = NoInode
           inode == IF fresh THEN Len(data) + 1 ELSE part[path]
           label == After(u, "stream")
<1>1. /\ up[u].pc = "create" /\ up[u].slot \in Slot /\ path \in PartPath /\ up[u].sent = 0
      /\ UNCHANGED <<sessions, uploaded, inbox, published, contended, raced>>
  BY SlotHasPath, Zenon DEF create_part, At, IInv, Shapes, PathOf, server
<1>2. /\ data \in Seq(Seq(Nat)) /\ Len(data) \in Nat /\ part[path] \in 0 .. Len(data)
      /\ part' = [part EXCEPT ![path] = inode]
      /\ data' = IF fresh THEN Append(data, <<>>) ELSE [data EXCEPT ![inode] = <<>>]
  BY <1>1 DEF create_part, IInv, Shapes, Inodes, Inode, NoInode
<1>3. /\ inode \in Nat /\ inode # NoInode
      /\ inode \in 1 .. Len(data) => inode = part[path]
  BY <1>2 DEF NoInode
<1>4. /\ data' \in Seq(Seq(Nat)) /\ data'[inode] = <<>>
      /\ Len(data') \in Nat /\ Len(data') >= Len(data) /\ inode \in 1 .. Len(data')
      /\ \A i \in 1 .. Len(data) : i # inode => data'[i] = data[i]
  BY <1>2 DEF NoInode
<1>5. label \in {"stream", "dropped"} /\ label \in Pc
  BY Zenon DEF After, Pc
<1>6. up' = [up EXCEPT ![u].pc = label, ![u].fd = inode]
  BY Zenon DEF create_part
<1> HIDE DEF inode, label, path
<1>7. /\ up' \in [Upload -> Handler] /\ OthersKept(u)
      /\ up'[u].pc = label /\ up'[u].fd = inode
      /\ up'[u].slot = up[u].slot /\ up'[u].body = up[u].body /\ up'[u].sent = 0
  <2>1. up \in [Upload -> Handler]
    BY Zenon DEF IInv, Shapes
  <2> QED
    BY <1>1, <1>3, <1>5, <1>6, <2>1, ZenonT(30) DEF Handler, OthersKept
<1>8. \A v \in Upload : PathOf(v)' = PathOf(v) /\ (v # u => up'[v] = up[v])
  BY <1>7, Zenon DEF PathOf, OthersKept
<1>9. /\ part' \in [PartPath -> Nat] /\ part'[path] = inode
      /\ \A x \in PartPath : x # path => part'[x] = part[x]
  BY <1>1, <1>2, <1>3, Zenon DEF IInv, Shapes
<1>10. Shapes'
  <2>1. \A v \in Upload : up'[v].pc \notin {"idle", "refused"} =>
          up'[v].slot \in Slot /\ sessions[up'[v].slot[1]] # "none"
    BY <1>1, <1>7, Zenon DEF IInv, Shapes, OthersKept
  <2>2. \A v \in Upload : up'[v].pc \in {"authorize", "create", "rename"} => up'[v] = up[v]
    BY <1>5, <1>7, Zenon DEF OthersKept
  <2> QED
    BY <1>1, <1>4, <1>7, <1>9, <2>1, <2>2, ZenonT(30) DEF IInv, Shapes
<1>11. Inodes'
  <2>1. /\ \A x \in PartPath : part'[x] \in Inode' \cup {NoInode}
        /\ \A n \in Target : inbox'[n] \in Inode' \cup {NoInode}
        /\ \A p \in published' : p.inode \in Inode'
    BY <1>1, <1>2, <1>4, <1>9 DEF IInv, Shapes, Rename, Inodes, Inode, NoInode
  <2>2. \A v \in Upload : HasFile(v)' \/ At(v, "mark")' => up'[v].fd \in Inode'
    <3>1. \A v \in Upload : v # u /\ (HasFile(v)' \/ At(v, "mark")') => up'[v].fd \in 1 .. Len(data)
      BY <1>7, Zenon DEF IInv, Inodes, Inode, HasFile, At, OthersKept
    <3> QED
      BY <1>2, <1>4, <1>7, <3>1, SMTT(40) DEF Inode
  <2>3. \A x, y \in PartPath : part'[x] = part'[y] /\ part'[x] # NoInode => x = y
    BY <1>1, <1>3, <1>9 DEF IInv, Inodes, Inode
  <2>4. /\ \A x \in PartPath, n \in Target : part'[x] # NoInode => part'[x] # inbox'[n]
        /\ \A x \in PartPath, p \in published' : part'[x] # p.inode
    BY <1>1, <1>3, <1>9 DEF IInv, Inodes, Inode, NoInode
  <2> QED
    BY <1>1, <2>1, <2>2, <2>3, <2>4, Zenon DEF IInv, Inodes
<1>12. Sole'
  BY <1>1, <1>5, <1>7, <1>8 DEF IInv, Sole, Working
<1>13. Handles'
  <2>1. \A v \in Upload : v # u /\ HasFile(v) => (up[v].fd = inode => PathOf(v) = path)
    BY <1>1, <1>3, Zenon DEF IInv, Inodes, Inode, Handles
  <2>2. \A v \in Upload : HasFile(v)' => \A x \in PartPath : part'[x] = up'[v].fd => x = PathOf(v)
    BY <1>1, <1>3, <1>7, <1>8, <1>9, <2>1 DEF IInv, Inodes, Inode, Handles, HasFile, path
  <2>3. \A v \in Upload : HasFile(v)' =>
          \A p \in published : p.inode = up'[v].fd => PathOf(v) = incoming_file_name(p.slot)
    BY <1>1, <1>3, <1>7, <1>8, <1>9 DEF IInv, Inodes, Inode, Handles, HasFile
  <2> QED
    BY <1>1, <1>8, <2>2, <2>3, Zenon DEF Handles
<1>14. Streamed'
  <2> SUFFICES ASSUME NEW v \in Upload, HasFile(v)', PathOf(v) \notin contended
               PROVE  /\ part'[PathOf(v)] = up'[v].fd
                      /\ up'[v].sent <= Len(up'[v].body)
                      /\ data'[up'[v].fd] = SubSeq(up'[v].body, 1, up'[v].sent)
                      /\ ~ At(v, "stream")' => up'[v].sent = Len(up'[v].body)
                      /\ up'[v].pc \in {"target", "rename"} => Intact(up'[v].slot, up'[v].body)
    BY <1>1, <1>8, Zenon DEF Streamed, Intact
  <2>1. CASE v = u
    <3>1. up[u].body \in Seq(Nat)
      BY Zenon DEF IInv, Shapes, Handler
    <3>2. SubSeq(up[u].body, 1, 0) = <<>> /\ 0 <= Len(up[u].body)
      BY <3>1
    <3> QED
      BY <1>4, <1>5, <1>7, <1>9, <2>1, <3>2, Zenon DEF At, HasFile, path
  <2>2. CASE v # u
    <3>1. HasFile(v) /\ up'[v] = up[v]
      BY <1>8, <2>2, Zenon DEF HasFile
    <3>2. PathOf(v) # path
      BY <1>1, <2>2, <3>1, Zenon DEF IInv, Sole, Working, HasFile, path
    <3>3. up[v].slot \in Slot /\ PathOf(v) \in PartPath
      BY <3>1, SlotHasPath, Zenon DEF IInv, Shapes, HasFile, PathOf
    <3>4. up[v].fd \in 1 .. Len(data) /\ part[PathOf(v)] = up[v].fd
      BY <3>1, Zenon DEF IInv, Inodes, Inode, Streamed
    <3>5. up[v].fd # inode
      BY <1>1, <1>3, <3>2, <3>3, <3>4, Zenon DEF IInv, Inodes
    <3>6. data'[up[v].fd] = data[up[v].fd] /\ part'[PathOf(v)] = part[PathOf(v)]
      BY <1>4, <1>9, <3>2, <3>3, <3>4, <3>5, Zenon
    <3> QED
      BY <3>1, <3>6, Zenon DEF IInv, Streamed, At
  <2> QED
    BY <2>1, <2>2, Zenon
<1>15. Named'
  BY <1>1, <1>5, <1>7, <1>8 DEF IInv, Named, At
<1>16. \A p \in published : p.upload \in Upload /\ p.upload # u
  BY <1>1, Zenon DEF IInv, Answered, Shapes, Rename
<1>17. Answered'
  <2>1. \A v \in Upload : Working(v)' => Working(v)
    BY <1>1, <1>8, Zenon DEF Working
  <2>2. \A v \in Upload : up'[v].pc \in {"mark", "ok"} => up[v].pc \in {"mark", "ok"}
    BY <1>5, <1>7, <1>8, Zenon
  <2>3. \A v \in Upload : up'[v].slot = up[v].slot
    BY <1>7, <1>8, Zenon
  <2> QED
    BY <1>1, <1>8, <1>16, <2>1, <2>2, <2>3 DEF IInv, Answered, At
<1>18. PublishedIntact'
  <2>1. \A p \in published : p.inode \in 1 .. Len(data) /\ p.inode # inode
    BY <1>1, <1>3, ZenonT(30) DEF IInv, Inodes, Inode
  <2>2. \A p \in published : data'[p.inode] = data[p.inode]
    BY <1>4, <2>1, Zenon
  <2> QED
    BY <1>1, <2>2, Zenon DEF IInv, PublishedIntact
<1>19. PublishedOnce'
  BY <1>1, <1>8, <1>16 DEF IInv, PublishedOnce, At
<1> QED
  BY <1>10, <1>11, <1>12, <1>13, <1>14, <1>15, <1>17, <1>18, <1>19, Zenon DEF IInv

\* One byte more at the handle's position: what is there grows by that byte.
LEMMA PutAppends ==
  ASSUME NEW body \in Seq(Nat), NEW n \in Nat, n < Len(body)
  PROVE  PutAt(SubSeq(body, 1, n), n + 1, body[n + 1]) = SubSeq(body, 1, n + 1)
<1>1. /\ Len(SubSeq(body, 1, n)) = n /\ \A j \in 1 .. n : SubSeq(body, 1, n)[j] = body[j]
  OBVIOUS
<1>2. SubSeq(body, 1, n + 1) = [j \in 1 .. n + 1 |-> body[j]]
  OBVIOUS
<1> QED
  BY <1>1, <1>2 DEF PutAt

\* What a write leaves is a file of bytes again.
LEMMA PutType ==
  ASSUME NEW bytes \in Seq(Nat), NEW i \in Nat \ {0}, NEW byte \in Nat
  PROVE  PutAt(bytes, i, byte) \in Seq(Nat)
BY DEF PutAt

\* A byte of the body is written through the handle.
LEMMA ByteWritten ==
  ASSUME IInv, NEW u \in Upload, stream(u), up[u].sent < Len(up[u].body),
         up[u].sent < Meta[up[u].slot].size
  PROVE  IInv'
<1> DEFINE fd == up[u].fd
           body == up[u].body
           i == up[u].sent + 1
           label == After(u, "stream")
<1>1. /\ up[u].pc = "stream" /\ up[u].slot \in Slot /\ HasFile(u) /\ Working(u)
      /\ UNCHANGED <<sessions, uploaded, part, inbox, published, contended, raced>>
  BY Zenon DEF stream, At, IInv, Shapes, server, HasFile, Working
<1>2. /\ data \in Seq(Seq(Nat)) /\ fd \in 1 .. Len(data) /\ body \in Seq(Nat)
      /\ up[u].sent \in Nat /\ i \in Nat \ {0} /\ i <= Len(body) /\ body[i] \in Nat
  <2>1. data \in Seq(Seq(Nat)) /\ fd \in 1 .. Len(data)
    BY <1>1, Zenon DEF IInv, Shapes, Inodes, Inode
  <2>2. body \in Seq(Nat) /\ up[u].sent \in Nat
    BY ZenonT(30) DEF IInv, Shapes, Handler
  <2> HIDE DEF body
  <2>3. i \in Nat \ {0} /\ i <= Len(body) /\ body[i] \in Nat
    BY <2>2, SMTT(30) DEF body
  <2> QED
    BY <2>1, <2>2, <2>3, Zenon
<1>3. Meta[up[u].slot].size \in Nat
  BY <1>1, LocalSendAssumption, Zenon
<1>4. /\ data' = [data EXCEPT ![fd] = PutAt(data[fd], i, body[i])]
      /\ up' = [up EXCEPT ![u].sent = i, ![u].pc = label]
  <2>1. ~ i > Len(body) /\ ~ i > Meta[up[u].slot].size
    <3>1. Len(body) \in Nat /\ up[u].sent \in Nat /\ i <= Len(body)
      BY <1>2
    <3> QED
      BY <1>3, <3>1
  <2> QED
    BY <2>1, Zenon DEF stream
<1>5. label \in {"stream", "dropped"} /\ label \in Pc
  BY Zenon DEF After, Pc
<1> HIDE DEF i, label
<1>6. /\ data' \in Seq(Seq(Nat)) /\ Len(data') = Len(data)
      /\ data'[fd] = PutAt(data[fd], i, body[i])
      /\ \A j \in 1 .. Len(data) : j # fd => data'[j] = data[j]
  <2>1. PutAt(data[fd], i, body[i]) \in Seq(Nat)
    <3>1. data[fd] \in Seq(Nat)
      BY <1>2
    <3> HIDE DEF fd, body
    <3> QED
      BY <1>2, <3>1, PutType, Zenon
  <2> QED
    BY <1>2, <1>4, <2>1
<1>7. /\ up' \in [Upload -> Handler] /\ OthersKept(u)
      /\ up'[u].pc = label /\ up'[u].fd = up[u].fd
      /\ up'[u].slot = up[u].slot /\ up'[u].body = up[u].body /\ up'[u].sent = i
  <2>1. up \in [Upload -> Handler]
    BY Zenon DEF IInv, Shapes
  <2> QED
    BY <1>2, <1>4, <1>5, <2>1, ZenonT(30) DEF Handler, OthersKept
<1>8. \A v \in Upload : /\ PathOf(v)' = PathOf(v) /\ (v # u => up'[v] = up[v])
                        /\ up'[v].slot = up[v].slot /\ up'[v].fd = up[v].fd
  BY <1>7, Zenon DEF PathOf, OthersKept
<1>9. \A v \in Upload : /\ HasFile(v)' => HasFile(v)
                        /\ Working(v)' => Working(v)
                        /\ up'[v].pc \in {"mark", "ok", "rename"} => v # u
                        /\ At(v, "mark")' => At(v, "mark")
  BY <1>1, <1>5, <1>7, <1>8, Zenon DEF HasFile, Working, At
<1>10. Shapes'
  <2>1. \A v \in Upload : up'[v].pc \notin {"idle", "refused"} =>
          up'[v].slot \in Slot /\ sessions[up'[v].slot[1]] # "none"
    BY <1>1, <1>7, ZenonT(30) DEF IInv, Shapes, OthersKept
  <2>2. \A v \in Upload : up'[v].pc \in {"authorize", "create", "rename"} => up'[v] = up[v]
    BY <1>5, <1>7, Zenon DEF OthersKept
  <2> QED
    BY <1>1, <1>6, <1>7, <2>1, <2>2, ZenonT(30) DEF IInv, Shapes
<1>11. Inodes'
  BY <1>1, <1>6, <1>8, <1>9, ZenonT(30) DEF IInv, Inodes, Inode
<1>12. Sole' /\ Handles'
  BY <1>1, <1>8, <1>9, SoleKept, HandlesKept, ZenonT(30) DEF IInv
<1>13. Streamed'
  <2> SUFFICES ASSUME NEW v \in Upload, HasFile(v)', PathOf(v) \notin contended
               PROVE  /\ part[PathOf(v)] = up'[v].fd
                      /\ up'[v].sent <= Len(up'[v].body)
                      /\ data'[up'[v].fd] = SubSeq(up'[v].body, 1, up'[v].sent)
                      /\ ~ At(v, "stream")' => up'[v].sent = Len(up'[v].body)
                      /\ up'[v].pc \in {"target", "rename"} => Intact(up'[v].slot, up'[v].body)
    BY <1>1, <1>8, Zenon DEF Streamed, Intact
  <2>1. CASE v = u
    <3>1. part[PathOf(u)] = fd /\ data[fd] = SubSeq(body, 1, up[u].sent)
      BY <1>1, <2>1, Zenon DEF IInv, Streamed
    <3>2. data'[fd] = SubSeq(body, 1, i)
      BY <1>2, <1>6, <3>1, PutAppends, Zenon DEF i
    <3>3. up'[u].pc = "stream"
      BY <1>5, <1>7, <2>1, Zenon DEF HasFile
    <3> QED
      BY <1>2, <1>7, <2>1, <3>1, <3>2, <3>3, ZenonT(30) DEF At
  <2>2. CASE v # u
    <3>1. HasFile(v) /\ up'[v] = up[v]
      BY <1>8, <1>9, <2>2, Zenon
    <3>2. PathOf(v) # PathOf(u)
      BY <1>1, <2>2, <3>1, Zenon DEF IInv, Sole, Working, HasFile
    <3>3. PathOf(v) \in PartPath /\ part[PathOf(v)] = up[v].fd /\ up[v].fd \in 1 .. Len(data)
      BY <3>1, SlotHasPath, Zenon DEF IInv, Shapes, Inodes, Inode, HasFile, PathOf, Streamed
    <3>4. up[v].fd # fd
      BY <1>1, <3>2, <3>3, Zenon DEF IInv, Handles
    <3> QED
      BY <1>6, <3>1, <3>3, <3>4, ZenonT(30) DEF IInv, Streamed, At
  <2> QED
    BY <2>1, <2>2, Zenon
<1>14. Named'
  <2>1. \A v \in Upload : At(v, "rename")' =>
          At(v, "rename") /\ up'[v].slot = up[v].slot /\ up'[v].target = up[v].target
    BY <1>8, <1>9, ZenonT(30) DEF At
  <2> QED
    BY <1>1, <2>1, NamedKept, ZenonT(30) DEF IInv
<1>15. \A p \in published : p.upload \in Upload /\ p.upload # u
  BY <1>1, ZenonT(30) DEF IInv, Answered, Shapes, Rename
<1>16. Answered'
  BY <1>1, <1>8, <1>9, <1>15 DEF IInv, Answered, At
<1>17. PublishedIntact'
  <2> SUFFICES ASSUME NEW p \in published, incoming_file_name(p.slot) \notin contended
               PROVE  data'[p.inode] = data[p.inode]
    BY <1>1, Zenon DEF IInv, PublishedIntact
  <2>1. p.inode \in 1 .. Len(data)
    BY Zenon DEF IInv, Inodes, Inode
  <2>2. p.inode # fd
    <3>1. SUFFICES ASSUME p.inode = fd PROVE FALSE
      BY Zenon
    <3>2. PathOf(u) \notin contended
      BY <1>1, <3>1, Zenon DEF IInv, Handles
    <3>3. part[PathOf(u)] = fd /\ PathOf(u) \in PartPath
      BY <1>1, <3>2, SlotHasPath, Zenon DEF IInv, Streamed, PathOf
    <3> QED
      BY <3>1, <3>3, Zenon DEF IInv, Inodes
  <2> QED
    BY <1>6, <2>1, <2>2, Zenon
<1>18. PublishedOnce'
  BY <1>1, <1>8, <1>15 DEF IInv, PublishedOnce, At
<1> QED
  BY <1>10, <1>11, <1>12, <1>13, <1>14, <1>16, <1>17, <1>18, Zenon DEF IInv

\* A handler goes from the end of the body to the check, or past a check that held,
\* or loses its client while a blocking thread has its operation.
LEMMA HandlerMoves ==
  ASSUME IInv, NEW u \in Upload, up' \in [Upload -> Handler], OthersKept(u), FieldsKept(u),
         \/ At(u, "stream") /\ up'[u].pc = "check" /\ up[u].sent + 1 > Len(up[u].body)
         \/ At(u, "check") /\ up'[u].pc = "target"
              /\ (up[u].sent = Len(up[u].body) => Intact(up[u].slot, up[u].body))
         \/ up'[u].pc = up[u].pc /\ ~ At(u, "mark"),
         UNCHANGED <<server, disk, contended, raced>>
  PROVE  IInv'
<1>1. UNCHANGED <<sessions, uploaded, data, part, inbox, published, contended, raced>>
  BY Zenon DEF server, disk
<1>2. \A v \in Upload : /\ PathOf(v)' = PathOf(v) /\ (v # u => up'[v] = up[v])
                        /\ up'[v].slot = up[v].slot /\ up'[v].fd = up[v].fd
                        /\ up'[v].sent = up[v].sent /\ up'[v].body = up[v].body
                        /\ up'[v].target = up[v].target
  BY Zenon DEF PathOf, OthersKept, FieldsKept
<1>3. \A v \in Upload : /\ HasFile(v)' <=> HasFile(v)
                        /\ Working(v)' <=> Working(v)
                        /\ At(v, "mark")' <=> At(v, "mark")
                        /\ At(v, "rename")' <=> At(v, "rename")
                        /\ \A label \in {"idle", "refused", "authorize", "create", "ok", "dropped"} :
                             up'[v].pc = label <=> up[v].pc = label
  BY <1>2, Zenon DEF HasFile, Working, At
<1>4. Shapes'
  <2>1. \A v \in Upload : up'[v].pc \notin {"idle", "refused"} =>
          up'[v].slot \in Slot /\ sessions[up'[v].slot[1]] # "none"
    <3>1. \A v \in Upload : up'[v].pc \notin {"idle", "refused"} => up[v].pc \notin {"idle", "refused"}
      BY <1>3, Zenon
    <3> QED
      BY <1>2, <3>1 DEF IInv, Shapes
  <2>2. \A v \in Upload : up'[v].pc \in {"authorize", "create"} => up'[v].sent = 0
    <3>1. \A v \in Upload : up'[v].pc \in {"authorize", "create"} => up[v].pc \in {"authorize", "create"}
      BY <1>3, Zenon
    <3> QED
      BY <1>2, <3>1, ZenonT(30) DEF IInv, Shapes
  <2>3. \A v \in Upload : up'[v].pc = "rename" =>
          up'[v].target \in Target /\ up'[v].target[1] = Meta[up'[v].slot].name
    <3>1. \A v \in Upload : up'[v].pc = "rename" => up[v].pc = "rename"
      BY <1>3, ZenonT(30) DEF At
    <3> QED
      BY <1>2, <3>1, ZenonT(30) DEF IInv, Shapes
  <2> QED
    BY <1>1, <2>1, <2>2, <2>3, Zenon DEF IInv, Shapes
<1>5. Inodes' /\ Sole' /\ Handles'
  BY <1>1, <1>2, <1>3, InodesKept, SoleKept, HandlesKept, Zenon DEF IInv
<1>6. Streamed'
  <2> SUFFICES ASSUME NEW v \in Upload, HasFile(v), PathOf(v) \notin contended
               PROVE  /\ ~ At(v, "stream")' => up[v].sent = Len(up[v].body)
                      /\ up'[v].pc \in {"target", "rename"} => Intact(up[v].slot, up[v].body)
    BY <1>1, <1>2, <1>3, StreamedKept, Zenon DEF IInv
  <2>1. /\ up[v].sent <= Len(up[v].body) /\ up[v].sent \in Nat /\ Len(up[v].body) \in Nat
        /\ ~ At(v, "stream") => up[v].sent = Len(up[v].body)
        /\ up[v].pc \in {"target", "rename"} => Intact(up[v].slot, up[v].body)
    <3>1. up[v].sent \in Nat /\ up[v].body \in Seq(Nat)
      BY ZenonT(30) DEF IInv, Shapes, Handler
    <3>2. Len(up[v].body) \in Nat
      BY <3>1
    <3> QED
      BY <3>1, <3>2, ZenonT(30) DEF IInv, Streamed
  <2> QED
    BY <1>2, <2>1 DEF At
<1>7. Named'
  BY <1>1, <1>2, <1>3, NamedKept, Zenon DEF IInv
<1>9. Answered' /\ PublishedOnce' /\ PublishedIntact'
  <2>1. \A v \in Upload :
          /\ up[v].pc \in {"mark", "ok", "refused", "dropped"} => up'[v].pc = up[v].pc
          /\ up'[v].pc \in {"mark", "ok"} => up[v].pc = up'[v].pc
    BY <1>3, Zenon DEF At
  <2>2. published \subseteq Rename
    BY Zenon DEF IInv, Shapes
  <2> QED
    BY <1>1, <1>2, <1>3, <2>1, <2>2, AnsweredKept, Zenon DEF IInv
<1> QED
  BY <1>4, <1>5, <1>6, <1>7, <1>9, Zenon DEF IInv

\* A free name is picked; if somebody else holds a pick of the same name, it is raced.
LEMMA NamePicked ==
  ASSUME IInv, NEW u \in Upload, next_available_target(u)
  PROVE  IInv'
<1> DEFINE name == Meta[up[u].slot].name
<1>1. /\ up[u].pc = "target" /\ up[u].slot \in Slot /\ name \in Name
      /\ UNCHANGED <<sessions, uploaded, data, part, inbox, published, contended>>
  BY SlotHasPath, Zenon DEF next_available_target, At, IInv, Shapes, server, disk
<1>2. PICK k \in 0 .. MaxSuffix :
        /\ inbox[<<name, k>>] = NoInode
        /\ up' = [up EXCEPT ![u].pc = "rename", ![u].target = <<name, k>>]
  BY Zenon DEF next_available_target
<1>3. raced' = IF \E v \in Upload : At(v, "rename") /\ Meta[up[v].slot].name = name
               THEN raced \cup {name} ELSE raced
  BY Zenon DEF next_available_target
<1>4. raced \subseteq raced' /\ raced' \subseteq Name
  BY <1>1, <1>3, Zenon DEF IInv, Shapes
<1>5. <<name, k>> \in Target
  BY <1>1, Zenon DEF Target
<1>6. /\ up' \in [Upload -> Handler] /\ OthersKept(u)
      /\ up'[u].pc = "rename" /\ up'[u].target = <<name, k>> /\ up'[u].fd = up[u].fd
      /\ up'[u].slot = up[u].slot /\ up'[u].body = up[u].body /\ up'[u].sent = up[u].sent
  <2>1. up \in [Upload -> Handler]
    BY Zenon DEF IInv, Shapes
  <2> HIDE DEF name
  <2> QED
    BY <1>2, <1>5, <2>1, ZenonT(30) DEF Handler, OthersKept, Pc
<1>7. \A v \in Upload : /\ PathOf(v)' = PathOf(v) /\ (v # u => up'[v] = up[v])
                        /\ up'[v].slot = up[v].slot /\ up'[v].fd = up[v].fd
                        /\ up'[v].sent = up[v].sent /\ up'[v].body = up[v].body
  BY <1>6, Zenon DEF PathOf, OthersKept
<1>8. \A v \in Upload : /\ HasFile(v)' <=> HasFile(v)
                        /\ Working(v)' <=> Working(v)
                        /\ At(v, "mark")' <=> At(v, "mark")
                        /\ At(v, "stream")' <=> At(v, "stream")
                        /\ up'[v].pc \in {"target", "rename"} => up[v].pc \in {"target", "rename"}
                        /\ \A label \in {"idle", "refused", "authorize", "create", "ok", "dropped"} :
                             up'[v].pc = label <=> up[v].pc = label
  BY <1>1, <1>6, <1>7, Zenon DEF HasFile, Working, At
<1>9. Shapes'
  <2>1. \A v \in Upload : up'[v].pc \notin {"idle", "refused"} =>
          up'[v].slot \in Slot /\ sessions[up'[v].slot[1]] # "none"
    <3>1. \A v \in Upload : up'[v].pc \notin {"idle", "refused"} => up[v].pc \notin {"idle", "refused"}
      BY <1>8, Zenon
    <3> QED
      BY <1>7, <3>1 DEF IInv, Shapes
  <2>2. \A v \in Upload : up'[v].pc \in {"authorize", "create"} => up'[v].sent = 0
    BY <1>7, <1>8, ZenonT(30) DEF IInv, Shapes
  <2>3. \A v \in Upload : up'[v].pc = "rename" =>
          up'[v].target \in Target /\ up'[v].target[1] = Meta[up'[v].slot].name
    <3>1. \A v \in Upload : v # u /\ up'[v].pc = "rename" =>
            up'[v].target \in Target /\ up'[v].target[1] = Meta[up'[v].slot].name
      BY <1>7 DEF IInv, Shapes
    <3>2. up'[u].target \in Target /\ up'[u].target[1] = Meta[up'[u].slot].name
      BY <1>5, <1>6
    <3> QED
      BY <3>1, <3>2, Zenon
  <2> QED
    BY <1>1, <1>4, <1>6, <2>1, <2>2, <2>3, Zenon DEF IInv, Shapes
<1>10. Inodes' /\ Sole' /\ Handles'
  BY <1>1, <1>7, <1>8, InodesKept, SoleKept, HandlesKept, Zenon DEF IInv
<1>10a. Streamed'
  <2>1. ASSUME NEW v \in Upload, HasFile(v), PathOf(v) \notin contended
        PROVE  /\ ~ At(v, "stream")' => up[v].sent = Len(up[v].body)
               /\ up'[v].pc \in {"target", "rename"} => Intact(up[v].slot, up[v].body)
    BY <1>8, <2>1, Zenon DEF IInv, Streamed
  <2> QED
    BY <1>1, <1>7, <1>8, <2>1, StreamedKept, Zenon DEF IInv
<1>11. Named'
  <2>1. \A v \in Upload : v # u /\ At(v, "rename")' => At(v, "rename") /\ up'[v].target = up[v].target
    BY <1>7, Zenon DEF At
  <2>2. \A v \in Upload : At(v, "rename")' =>
          Meta[up'[v].slot].name \in raced' \/ inbox'[up'[v].target] = NoInode
    BY <1>1, <1>2, <1>4, <1>6, <1>7, <2>1, ZenonT(30) DEF IInv, Named
  <2>3. \A v, w \in Upload :
          At(v, "rename")' /\ At(w, "rename")' /\ v # w
            /\ Meta[up'[v].slot].name = Meta[up'[w].slot].name =>
          Meta[up'[v].slot].name \in raced'
    <3> SUFFICES ASSUME NEW v \in Upload, NEW w \in Upload, At(v, "rename")', At(w, "rename")', v # w,
                        Meta[up[v].slot].name = Meta[up[w].slot].name
                 PROVE  Meta[up[v].slot].name \in raced'
      BY <1>7, Zenon
    <3>1. CASE v # u /\ w # u
      BY <1>4, <2>1, <3>1, Zenon DEF IInv, Named
    <3>2. CASE v = u
      BY <1>3, <2>1, <3>2, Zenon
    <3>3. CASE w = u
      BY <1>3, <2>1, <3>3, Zenon
    <3> QED
      BY <3>1, <3>2, <3>3, Zenon
  <2> QED
    BY <1>1, <1>4, <2>2, <2>3, Zenon DEF IInv, Named
<1>13. Answered' /\ PublishedOnce' /\ PublishedIntact'
  <2>1. \A v \in Upload :
          /\ up[v].pc \in {"mark", "ok", "refused", "dropped"} => up'[v].pc = up[v].pc
          /\ up'[v].pc \in {"mark", "ok"} => up[v].pc = up'[v].pc
    BY <1>8, Zenon DEF At
  <2>2. published \subseteq Rename
    BY Zenon DEF IInv, Shapes
  <2> QED
    BY <1>1, <1>7, <1>8, <2>1, <2>2, AnsweredKept, Zenon DEF IInv
<1> QED
  BY <1>9, <1>10, <1>10a, <1>11, <1>13, Zenon DEF IInv

\* The .part file becomes a file of the inbox.
LEMMA PartRenamed ==
  ASSUME IInv, NEW u \in Upload, rename_part(u), part[PathOf(u)] # NoInode
  PROVE  IInv'
<1> DEFINE path == PathOf(u)
           inode == part[path]
           slot == up[u].slot
           n0 == up[u].target
           new == [upload |-> u, slot |-> slot, inode |-> inode]
           label == After(u, "mark")
<1>1. /\ up[u].pc = "rename" /\ slot \in Slot /\ path \in PartPath /\ n0 \in Target
      /\ n0[1] = Meta[slot].name /\ Working(u) /\ HasFile(u)
      /\ UNCHANGED <<sessions, uploaded, data, contended, raced>>
  BY SlotHasPath, Zenon DEF rename_part, At, IInv, Shapes, PathOf, server, Working, HasFile
<1>2. /\ inbox' = [inbox EXCEPT ![n0] = inode]
      /\ part' = [part EXCEPT ![path] = NoInode]
      /\ published' = published \cup {new}
      /\ Goto(u, label)
  BY Zenon DEF rename_part
<1>3. label \in {"mark", "dropped"} /\ label \in Pc
  BY Zenon DEF After, Pc
<1>4. /\ up' \in [Upload -> Handler] /\ OthersKept(u) /\ FieldsKept(u) /\ up'[u].pc = label
  <2>1. up \in [Upload -> Handler]
    BY Zenon DEF IInv, Shapes
  <2> HIDE DEF label
  <2> QED
    BY <1>2, <1>3, <2>1, Zenon DEF Goto, Handler, OthersKept, FieldsKept
<1>5. \A v \in Upload : /\ PathOf(v)' = PathOf(v) /\ (v # u => up'[v] = up[v])
                        /\ up'[v].slot = up[v].slot /\ up'[v].fd = up[v].fd
  BY <1>4, Zenon DEF PathOf, OthersKept, FieldsKept
<1>6. /\ inode \in Inode /\ inode \in Nat /\ inode # NoInode
      /\ part' \in [PartPath -> Nat] /\ part'[path] = NoInode
      /\ \A x \in PartPath : x # path => part'[x] = part[x]
      /\ inbox' \in [Target -> Nat] /\ inbox'[n0] = inode
      /\ \A n \in Target : n # n0 => inbox'[n] = inbox[n]
  BY <1>1, <1>2, Zenon DEF IInv, Shapes, Inodes, Inode, NoInode
<1>7. new \in Rename /\ new.upload = u /\ new.slot = slot /\ new.inode = inode
  BY <1>1, <1>6, Zenon DEF Rename
<1>8. \A v \in Upload : /\ HasFile(v)' => HasFile(v) /\ v # u
                        /\ Working(v)' => Working(v)
                        /\ At(v, "rename")' => At(v, "rename") /\ v # u
                        /\ v # u => (At(v, "mark")' <=> At(v, "mark"))
  BY <1>1, <1>3, <1>4, <1>5, Zenon DEF HasFile, Working, At
<1>9. \A p \in published : /\ p.upload \in Upload /\ p.upload # u /\ p.slot \in Slot
                           /\ p.inode \in Inode /\ p.inode # NoInode /\ p.inode # inode
  <2>1. \A p \in published : p.upload \in Upload /\ p.upload # u /\ p.slot \in Slot
    BY <1>1, ZenonT(30) DEF IInv, Answered, Shapes, Rename
  <2>2. \A p \in published : p.inode \in Inode /\ p.inode # inode
    BY <1>1, Zenon DEF IInv, Inodes
  <2> QED
    BY <2>1, <2>2 DEF Inode, NoInode
<1> HIDE DEF label, new, inode, slot, path, n0
<1>10. Shapes'
  <2>1. \A v \in Upload : up'[v].pc \notin {"idle", "refused"} =>
          up'[v].slot \in Slot /\ sessions[up'[v].slot[1]] # "none"
    BY <1>1, <1>4 DEF IInv, Shapes, OthersKept, FieldsKept
  <2>2. \A v \in Upload : up'[v].pc \in {"authorize", "create", "rename"} => up'[v] = up[v]
    BY <1>3, <1>4, Zenon DEF OthersKept
  <2>3. published' \subseteq Rename
    BY <1>2, <1>7, Zenon DEF IInv, Shapes
  <2> QED
    BY <1>1, <1>4, <1>6, <2>1, <2>2, <2>3 DEF IInv, Shapes
<1>11. Inodes'
  <2>1. Inode' = Inode
    BY <1>1, Zenon DEF Inode
  <2>2. /\ \A x \in PartPath : part'[x] \in Inode \cup {NoInode}
        /\ \A n \in Target : inbox'[n] \in Inode \cup {NoInode}
        /\ \A p \in published' : p.inode \in Inode
    BY <1>1, <1>2, <1>6, <1>7, Zenon DEF IInv, Inodes
  <2>3. \A v \in Upload : HasFile(v)' \/ At(v, "mark")' => up'[v].fd \in Inode
    BY <1>1, <1>5, <1>8, Zenon DEF IInv, Inodes
  <2>4. \A x \in PartPath, n \in Target : part[x] # NoInode => part[x] # inbox[n]
    BY Zenon DEF IInv, Inodes
  <2>5. \A m, n \in Target : inbox'[m] = inbox'[n] /\ inbox'[m] # NoInode => m = n
    BY <1>1, <1>6, <2>4 DEF IInv, Inodes, inode
  <2>6. \A x, y \in PartPath : part'[x] = part'[y] /\ part'[x] # NoInode => x = y
    BY <1>6 DEF IInv, Inodes
  <2>7. \A x \in PartPath : x # path => part[x] # inode
    BY <1>1, <1>6, Zenon DEF IInv, Inodes, inode
  <2>8. \A x \in PartPath, n \in Target : part'[x] # NoInode => part'[x] # inbox'[n]
    BY <1>6, <2>4, <2>7, Zenon
  <2>9. \A x \in PartPath, p \in published' : part'[x] # p.inode
    BY <1>2, <1>6, <1>7, <1>9, <2>7, ZenonT(30) DEF IInv, Inodes
  <2> QED
    BY <2>1, <2>2, <2>3, <2>5, <2>6, <2>8, <2>9, Zenon DEF Inodes
<1>12. Sole'
  BY <1>1, <1>5, <1>8, SoleKept, Zenon DEF IInv
<1>13. Handles'
  <2> SUFFICES ASSUME NEW v \in Upload, HasFile(v)'
               PROVE  /\ \A x \in PartPath : part'[x] = up[v].fd => x = PathOf(v)
                      /\ \A p \in published' : p.inode = up[v].fd => PathOf(v) = incoming_file_name(p.slot)
    BY <1>5 DEF Handles
  <2>1. HasFile(v) /\ up[v].fd \in Inode /\ up[v].fd # NoInode
    BY <1>8 DEF IInv, Inodes, Inode, NoInode
  <2>2. up[v].fd = inode => PathOf(v) = incoming_file_name(slot)
    BY <1>1, <2>1, Zenon DEF IInv, Handles, inode, path, slot, PathOf
  <2> QED
    BY <1>2, <1>6, <1>7, <2>1, <2>2, Zenon DEF IInv, Handles
<1>14. Streamed'
  <2> SUFFICES ASSUME NEW v \in Upload, HasFile(v)', PathOf(v) \notin contended
               PROVE  part'[PathOf(v)] = part[PathOf(v)]
    <3>1. \A v \in Upload : HasFile(v)' => up'[v] = up[v] /\ HasFile(v)
      BY <1>5, <1>8, Zenon
    <3> QED
      BY <1>1, <1>5, <3>1 DEF IInv, Streamed, At
  <2>1. PathOf(v) # path
    BY <1>1, <1>8, Zenon DEF IInv, Sole, Working, HasFile, path
  <2>2. PathOf(v) \in PartPath
    BY <1>8, SlotHasPath, ZenonT(30) DEF IInv, Shapes, HasFile, PathOf
  <2> QED
    BY <1>6, <2>1, <2>2, ZenonT(40)
<1>15. Named'
  <2>1. \A p \in published : Meta[p.slot].name \in raced \/ \E n \in Target : inbox'[n] = p.inode
    <3> SUFFICES ASSUME NEW p \in published, Meta[p.slot].name \notin raced
                 PROVE  \E n \in Target : inbox'[n] = p.inode
      BY Zenon
    <3>1. PICK n \in Target : inbox[n] = p.inode
      BY Zenon DEF IInv, Named
    <3>2. n # n0
      <4>1. SUFFICES ASSUME n = n0 PROVE FALSE
        BY Zenon
      <4>2. inbox[n0] # NoInode /\ n0[1] = Meta[p.slot].name
        BY <1>9, <3>1, <4>1, Zenon DEF IInv, Named
      <4>3. Meta[slot].name \in raced
        BY <1>1, <4>2, Zenon DEF IInv, Named, At, slot, n0
      <4> QED
        BY <1>1, <4>2, <4>3, Zenon
    <3> QED
      BY <1>6, <3>1, <3>2, Zenon
  <2>2. \A p \in published' : Meta[p.slot].name \in raced \/ \E n \in Target : inbox'[n] = p.inode
    BY <1>1, <1>2, <1>6, <1>7, <2>1, Zenon
  <2>3. \A n \in Target : inbox[n] # inode
    BY <1>1, <1>6, ZenonT(30) DEF IInv, Inodes, inode
  <2>4. \A p \in published', n \in Target : inbox'[n] = p.inode => n[1] = Meta[p.slot].name
    BY <1>1, <1>2, <1>6, <1>7, <1>9, <2>3 DEF IInv, Named
  <2>5. \A v \in Upload : At(v, "rename")' =>
          Meta[up[v].slot].name \in raced \/ inbox'[up[v].target] = NoInode
    <3> SUFFICES ASSUME NEW v \in Upload, At(v, "rename")', Meta[up[v].slot].name \notin raced
                 PROVE  inbox'[up[v].target] = NoInode
      BY Zenon
    <3>1. /\ At(v, "rename") /\ v # u /\ inbox[up[v].target] = NoInode
          /\ up[v].target \in Target /\ up[v].target[1] = Meta[up[v].slot].name
      BY <1>8, Zenon DEF IInv, Named, Shapes, At
    <3>2. up[v].target # n0
      BY <1>1, <3>1, ZenonT(30) DEF IInv, Named, At, slot
    <3> QED
      BY <1>6, <3>1, <3>2, Zenon
  <2>6. \A v \in Upload : At(v, "rename")' => At(v, "rename") /\ up'[v] = up[v]
    BY <1>5, <1>8, Zenon
  <2> QED
    <3>1. ASSUME NEW v \in Upload, NEW w \in Upload, At(v, "rename")', At(w, "rename")', v # w,
                 Meta[up'[v].slot].name = Meta[up'[w].slot].name
          PROVE  Meta[up'[v].slot].name \in raced
      BY <2>6, <3>1, Zenon DEF IInv, Named
    <3>2. ASSUME NEW v \in Upload, At(v, "rename")'
          PROVE  Meta[up'[v].slot].name \in raced \/ inbox'[up'[v].target] = NoInode
      BY <2>5, <2>6, <3>2, Zenon
    <3> QED
      BY <1>1, <2>2, <2>4, <3>1, <3>2, Zenon DEF Named
<1>16. Answered'
  <2>1. \A p \in published' :
       /\ up'[p.upload].slot = p.slot
       /\ up'[p.upload].pc \in {"mark", "ok", "refused", "dropped"}
       /\ At(p.upload, "ok")' => p.slot \in uploaded'
       /\ At(p.upload, "refused")' => p # new /\ sessions'[p.slot[1]] = "gone"
    <3>1. up'[u].slot = slot /\ up'[u].pc \in {"mark", "dropped"}
      BY <1>3, <1>4, Zenon DEF FieldsKept, slot
    <3>2. \A p \in published : up'[p.upload] = up[p.upload]
      BY <1>5, <1>9, Zenon
    <3> QED
      BY <1>1, <1>2, <1>7, <3>1, <3>2 DEF IInv, Answered, At
  <2>2. \A v \in Upload : up'[v].pc \in {"mark", "ok"} => \E p \in published' : p.upload = v
    BY <1>2, <1>5, <1>7 DEF IInv, Answered
  <2>3. \A p \in published' : At(p.upload, "refused")' => p \in published /\ At(p.upload, "refused")
    BY <1>2, <1>5, <1>9, <2>1, ZenonT(30) DEF At
  <2>4. \A v \in Upload : Working(v)' /\ PathOf(v)' \notin contended' =>
          /\ up'[v].slot \notin uploaded'
          /\ \A p \in published' : p.slot = up'[v].slot => ~ At(p.upload, "refused")'
    <3> SUFFICES ASSUME NEW v \in Upload, Working(v)', PathOf(v)' \notin contended'
                 PROVE  /\ up[v].slot \notin uploaded
                        /\ \A p \in published' : p.slot = up[v].slot => ~ At(p.upload, "refused")'
      BY <1>1, <1>5, Zenon
    <3>1. Working(v) /\ PathOf(v) \notin contended
      BY <1>1, <1>5, <1>8, Zenon
    <3> QED
      BY <2>3, <3>1, Zenon DEF IInv, Answered
  <2> QED
    BY <2>1, <2>2, <2>4, Zenon DEF Answered
<1>17. PublishedIntact'
  <2>1. incoming_file_name(slot) \notin contended => Intact(slot, data[inode])
    <3> SUFFICES ASSUME PathOf(u) \notin contended
                 PROVE  Intact(up[u].slot, data[part[PathOf(u)]])
      BY Zenon DEF PathOf, slot, inode, path
    <3>1. /\ data[part[PathOf(u)]] = SubSeq(up[u].body, 1, Len(up[u].body))
          /\ Intact(up[u].slot, up[u].body)
      BY <1>1, Zenon DEF IInv, Streamed, At
    <3>2. up[u].body \in Seq(Nat)
      BY Zenon DEF IInv, Shapes, Handler
    <3>3. SubSeq(up[u].body, 1, Len(up[u].body)) = up[u].body
      BY <3>2
    <3> QED
      BY <3>1, <3>3, Zenon
  <2> QED
    BY <1>1, <1>2, <1>7, <2>1, Zenon DEF IInv, PublishedIntact, Intact
<1>18. PublishedOnce'
  <2>1. \A p \in published : p.slot = slot /\ incoming_file_name(p.slot) \notin contended =>
          At(p.upload, "dropped")
    <3> SUFFICES ASSUME NEW p \in published, p.slot = slot, PathOf(u) \notin contended
                 PROVE  At(p.upload, "dropped")
      BY Zenon DEF PathOf, slot
    <3>1. PathOf(p.upload) = PathOf(u) /\ p.slot = up[u].slot /\ p.upload \in Upload /\ p.upload # u
      BY <1>9, Zenon DEF IInv, Answered, PathOf, slot
    <3>2. ~ At(p.upload, "mark")
      BY <1>1, <3>1, Zenon DEF IInv, Sole, Working, At
    <3>3. ~ At(p.upload, "ok") /\ ~ At(p.upload, "refused")
      BY <1>1, <3>1, Zenon DEF IInv, Answered
    <3> QED
      BY <3>2, <3>3, Zenon DEF IInv, Answered, At
  <2>2. \A p \in published : At(p.upload, "dropped")' <=> At(p.upload, "dropped")
    BY <1>5, <1>9, Zenon DEF At
  <2> QED
    BY <1>1, <1>2, <1>7, <2>1, <2>2, Zenon DEF IInv, PublishedOnce
<1> QED
  BY <1>10, <1>11, <1>12, <1>13, <1>14, <1>15, <1>16, <1>17, <1>18, Zenon DEF IInv

\* The published file is marked in its session, if there still is one.
LEMMA FileMarked ==
  ASSUME IInv, NEW u \in Upload, mark_uploaded(u)
  PROVE  IInv'
<1> DEFINE slot == up[u].slot
           label == IF Pruned[slot[1]] = "live" THEN "ok" ELSE "refused"
<1>1. /\ up[u].pc = "mark" /\ slot \in Slot /\ slot[1] \in Session /\ Working(u)
      /\ sessions[slot[1]] # "none" /\ sessions' = Pruned
      /\ UNCHANGED <<data, part, inbox, published, contended, raced>>
  BY SlotHasPath, Zenon DEF mark_uploaded, At, IInv, Shapes, disk, Working
<1>2. /\ Goto(u, label)
      /\ uploaded' = IF Pruned[slot[1]] = "live" THEN uploaded \cup {slot} ELSE uploaded
  BY Zenon DEF mark_uploaded
<1>3. SessionsForward
  BY <1>1, PrunedForward, Zenon DEF IInv, Shapes
<1>4. /\ label \in {"ok", "refused"} /\ label \in Pc
      /\ label = "ok" => slot \in uploaded'
      /\ label = "refused" => sessions'[slot[1]] = "gone"
  BY <1>1, <1>2, Zenon DEF Pc, Pruned, IInv, Shapes
<1>5. uploaded \subseteq uploaded' /\ uploaded' \subseteq uploaded \cup {slot} /\ uploaded' \subseteq Slot
  BY <1>1, <1>2, Zenon DEF IInv, Shapes
<1> HIDE DEF label
<1>6. /\ up' \in [Upload -> Handler] /\ OthersKept(u) /\ FieldsKept(u) /\ up'[u].pc = label
  <2>1. up \in [Upload -> Handler]
    BY Zenon DEF IInv, Shapes
  <2> QED
    BY <1>2, <1>4, <2>1, ZenonT(30) DEF Goto, Handler, OthersKept, FieldsKept
<1>7. \A v \in Upload : /\ PathOf(v)' = PathOf(v) /\ (v # u => up'[v] = up[v])
                        /\ up'[v].slot = up[v].slot /\ up'[v].fd = up[v].fd
  BY <1>6, Zenon DEF PathOf, OthersKept, FieldsKept
<1>8. \A v \in Upload : /\ HasFile(v)' => HasFile(v) /\ v # u
                        /\ Working(v)' => Working(v) /\ v # u
                        /\ At(v, "rename")' => At(v, "rename") /\ v # u
                        /\ At(v, "mark")' => At(v, "mark") /\ v # u
  BY <1>1, <1>4, <1>6, <1>7, Zenon DEF HasFile, Working, At
<1>9. Shapes'
  <2>1. \A v \in Upload : up[v].slot \in Slot => up[v].slot[1] \in Session
    BY SlotHasPath, Zenon
  <2>2. \A v \in Upload : up'[v].pc \notin {"idle", "refused"} =>
          up'[v].slot \in Slot /\ sessions'[up'[v].slot[1]] # "none"
    <3>1. \A v \in Upload : up'[v].pc \notin {"idle", "refused"} =>
            up[v].slot \in Slot /\ sessions[up[v].slot[1]] # "none"
      BY <1>1, <1>7, Zenon DEF IInv, Shapes
    <3> QED
      BY <1>3, <1>7, <2>1, <3>1, ZenonT(30) DEF SessionsForward
  <2>3. \A v \in Upload : up'[v].pc \in {"authorize", "create", "rename"} => up'[v] = up[v]
    BY <1>4, <1>6, Zenon DEF OthersKept
  <2> QED
    BY <1>1, <1>3, <1>5, <1>6, <2>2, <2>3, ZenonT(30) DEF IInv, Shapes, SessionsForward
<1>10. Inodes' /\ Sole' /\ Handles'
  BY <1>1, <1>7, <1>8, InodesKept, SoleKept, HandlesKept, Zenon DEF IInv
<1>11. Streamed' /\ PublishedIntact'
  <2>1. \A v \in Upload : HasFile(v)' => HasFile(v) /\ up'[v] = up[v]
    BY <1>7, <1>8, Zenon
  <2> QED
    <3>1. Streamed'
      <4>1. ASSUME NEW v \in Upload, HasFile(v)', PathOf(v) \notin contended
            PROVE  /\ ~ At(v, "stream")' => up[v].sent = Len(up[v].body)
                   /\ up'[v].pc \in {"target", "rename"} => Intact(up[v].slot, up[v].body)
        BY <2>1, <4>1, Zenon DEF IInv, Streamed, At
      <4> QED
        BY <1>1, <1>7, <2>1, <4>1, StreamedKept, Zenon DEF IInv
    <3>2. PublishedIntact'
      BY <1>1, Zenon DEF IInv, PublishedIntact, Intact
    <3> QED
      BY <3>1, <3>2, Zenon
<1>12. Named'
  <2>1. \A v \in Upload : At(v, "rename")' => At(v, "rename") /\ up'[v] = up[v]
    BY <1>7, <1>8, Zenon
  <2> QED
    BY <1>1, <2>1, NamedKept, Zenon DEF IInv
<1>13. \A p \in published : /\ p.upload \in Upload /\ p.slot \in Slot /\ p.slot[1] \in Session
                            /\ p.upload = u => p.slot = slot
  BY SlotHasPath, ZenonT(30) DEF IInv, Shapes, Rename, Answered
<1>14. Answered'
  <2>1. \A p \in published :
       /\ up'[p.upload].slot = p.slot
       /\ up'[p.upload].pc \in {"mark", "ok", "refused", "dropped"}
       /\ At(p.upload, "ok")' => p.slot \in uploaded'
       /\ At(p.upload, "refused")' => sessions'[p.slot[1]] = "gone"
    BY <1>3, <1>4, <1>5, <1>6, <1>7, <1>13 DEF IInv, Answered, At, SessionsForward
  <2>2. \A v \in Upload : up'[v].pc \in {"mark", "ok"} => \E p \in published : p.upload = v
    BY <1>1, <1>7 DEF IInv, Answered
  <2>3. \A v \in Upload : Working(v)' /\ PathOf(v) \notin contended => up[v].slot # slot /\ Working(v)
    BY <1>1, <1>8, Zenon DEF IInv, Sole, PathOf
  <2>4. \A p \in published : At(p.upload, "refused")' => At(p.upload, "refused") \/ p.slot = slot
    BY <1>7, <1>13, Zenon DEF At
  <2>5. \A v \in Upload : Working(v)' /\ PathOf(v) \notin contended =>
          /\ up[v].slot \notin uploaded'
          /\ \A p \in published : p.slot = up[v].slot => ~ At(p.upload, "refused")'
    BY <1>5, <2>3, <2>4, ZenonT(30) DEF IInv, Answered
  <2> QED
    BY <1>1, <1>7, <2>1, <2>2, <2>5 DEF Answered
<1>15. PublishedOnce'
  <2>1. ASSUME NEW p \in published, At(p.upload, "dropped") PROVE At(p.upload, "dropped")'
    BY <1>1, <1>7, <1>13, <2>1, Zenon DEF At
  <2> QED
    BY <1>1, <2>1, Zenon DEF IInv, PublishedOnce
<1> QED
  BY <1>9, <1>10, <1>11, <1>12, <1>14, <1>15, Zenon DEF IInv

-----------------------------------------------------------------------------
\* A poll of a handler preserves the invariant.
LEMMA StepInvariant ==
  ASSUME IInv, NEW u \in Upload, Step(u)
  PROVE  IInv'
<1>1. CASE authorize_upload(u)
  <2>1. CASE up'[u].pc = "create"
    BY <1>1, <2>1, HandlerAuthorized, Zenon
  <2>2. CASE up'[u].pc # "create"
    <3>1. up \in [Upload -> Handler] /\ sessions \in [Session -> {"none", "live", "expired", "gone"}]
      BY Zenon DEF IInv, Shapes
    <3>2. Goto(u, "refused") /\ UNCHANGED <<uploaded, disk, contended, raced>>
      BY <1>1, <2>2, <3>1, GotoEffect, Zenon DEF authorize_upload, Pc
    <3>3. SessionsForward /\ up[u].pc = "authorize"
      BY <1>1, <3>1, PrunedForward, Zenon DEF authorize_upload, At
    <3> QED
      BY <3>2, <3>3, HandlerEnds, Zenon
  <2> QED
    BY <2>1, <2>2, Zenon
<1>2. UNCHANGED sessions => SessionsForward
  BY Zenon DEF IInv, Shapes, SessionsForward
<1>3. CASE validate_file_name(u)
  BY <1>2, <1>3, HandlerEnds, Zenon DEF validate_file_name, At, server
<1>4. CASE create_part(u)
  BY <1>4, PartCreated, Zenon
<1>5. CASE stream(u)
  <2>1. /\ up \in [Upload -> Handler] /\ up[u].pc = "stream" /\ up[u].slot \in Slot
        /\ up[u].sent \in Nat /\ up[u].body \in Seq(Nat)
    BY <1>5, Zenon DEF stream, At, IInv, Shapes, Handler
  <2>2. Meta[up[u].slot].size \in Nat
    BY <2>1, LocalSendAssumption, Zenon
  <2>3. CASE up[u].sent < Len(up[u].body) /\ up[u].sent < Meta[up[u].slot].size
    BY <1>5, <2>3, ByteWritten, Zenon
  <2>4. CASE ~ up[u].sent < Len(up[u].body)
    <3>1. up[u].sent + 1 > Len(up[u].body)
      BY <2>1, <2>4
    <3>2. Goto(u, After(u, "check")) /\ UNCHANGED <<server, disk, contended, raced>>
      BY <1>5, <3>1, Zenon DEF stream, disk
    <3>3. CASE up[u].gone
      BY <1>2, <2>1, <3>2, <3>3, HandlerEnds, Zenon DEF After, server
    <3>4. CASE ~ up[u].gone
      <4>1. /\ up' \in [Upload -> Handler] /\ OthersKept(u) /\ FieldsKept(u) /\ up'[u].pc = "check"
        BY <2>1, <3>2, <3>4, GotoEffect, Zenon DEF After, Pc
      <4> QED
        BY <2>1, <3>1, <3>2, <4>1, HandlerMoves, Zenon DEF At
    <3> QED
      BY <3>3, <3>4, Zenon
  <2>5. CASE up[u].sent < Len(up[u].body) /\ ~ up[u].sent < Meta[up[u].slot].size
    <3>1. ~ up[u].sent + 1 > Len(up[u].body) /\ up[u].sent + 1 > Meta[up[u].slot].size
      BY <2>1, <2>2, <2>5
    <3>2. Goto(u, After(u, "refused")) /\ UNCHANGED <<server, disk, contended, raced>>
      BY <1>5, <3>1, Zenon DEF stream, disk
    <3>3. After(u, "refused") \in {"refused", "dropped"}
      BY Zenon DEF After
    <3> QED
      BY <1>2, <2>1, <3>2, <3>3, HandlerEnds, Zenon DEF server
  <2> QED
    BY <2>3, <2>4, <2>5, Zenon
<1>6. CASE check_upload(u)
  <2>1. up \in [Upload -> Handler] /\ up[u].pc = "check" /\ UNCHANGED <<server, disk, contended, raced>>
    BY <1>6, Zenon DEF check_upload, At, IInv, Shapes
  <2>2. CASE Goto(u, "refused")
    BY <1>2, <2>1, <2>2, HandlerEnds, Zenon DEF server
  <2>3. CASE /\ Goto(u, "target") /\ up[u].sent = Meta[up[u].slot].size
             /\ Meta[up[u].slot].sha256 # NoHash => up[u].body = Meta[up[u].slot].sha256
    <3>1. /\ up' \in [Upload -> Handler] /\ OthersKept(u) /\ FieldsKept(u) /\ up'[u].pc = "target"
      BY <2>1, <2>3, GotoEffect, Zenon DEF Pc
    <3>2. up[u].sent = Len(up[u].body) => Intact(up[u].slot, up[u].body)
      BY <2>3, Zenon DEF Intact
    <3> QED
      BY <2>1, <3>1, <3>2, HandlerMoves, Zenon DEF At
  <2> QED
    BY <1>6, <2>2, <2>3, Zenon DEF check_upload
<1>7. CASE next_available_target(u)
  BY <1>7, NamePicked, Zenon
<1>8. CASE rename_part(u)
  <2>1. CASE part[PathOf(u)] # NoInode
    BY <1>8, <2>1, PartRenamed, Zenon
  <2>2. CASE part[PathOf(u)] = NoInode
    <3>1. /\ Goto(u, After(u, "refused")) /\ up[u].pc = "rename"
          /\ UNCHANGED <<server, disk, contended, raced>>
      BY <1>8, <2>2, Zenon DEF rename_part, At
    <3>2. After(u, "refused") \in {"refused", "dropped"}
      BY Zenon DEF After
    <3> QED
      BY <1>2, <3>1, <3>2, HandlerEnds, Zenon DEF server
  <2> QED
    BY <2>1, <2>2, Zenon
<1>9. CASE mark_uploaded(u)
  BY <1>9, FileMarked, Zenon
<1> QED
  BY <1>1, <1>3, <1>4, <1>5, <1>6, <1>7, <1>8, <1>9, Zenon DEF Step

\* Every step of the receiver and of its clients preserves the invariant.
LEMMA NextInvariant == IInv /\ [Next]_vars => IInv'
<1> SUFFICES ASSUME IInv, [Next]_vars PROVE IInv'
  BY Zenon
<1> USE DEF server, disk
<1>0. /\ sessions \in [Session -> {"none", "live", "expired", "gone"}] /\ up \in [Upload -> Handler]
      /\ UNCHANGED sessions => SessionsForward
  BY Zenon DEF IInv, Shapes, SessionsForward
<1>1. ASSUME NEW s \in Session, prepare(s) \/ Expire(s) \/ cancel(s) PROVE IInv'
  <2>1. SessionsForward
    BY <1>0, <1>1, Zenon DEF prepare, Expire, cancel, Pruned, SessionsForward
  <2> QED
    BY <1>1, <2>1, SessionStep, Zenon DEF prepare, Expire, cancel
<1>2. CASE cancel_all
  BY <1>0, <1>2, SessionStep, Zenon DEF cancel_all, SessionsForward
<1>3. ASSUME NEW u \in Upload, NEW slot \in Slot, upload(u, slot[1], slot[2]) PROVE IInv'
  <2>1. slot = <<slot[1], slot[2]>> /\ slot[1] \in Nat /\ Bodies[slot] \subseteq Seq(Nat)
    BY LocalSendAssumption, Zenon
  <2>2. PICK body \in Bodies[slot] :
          up' = [up EXCEPT ![u] = [Idle EXCEPT !.pc = "authorize", !.slot = slot,
                                               !.token = slot[1], !.body = body]]
    BY <1>3, <2>1, Zenon DEF upload
  <2> QED
    BY <1>0, <1>3, <2>1, <2>2, HandlerStarts, Zenon DEF upload
<1>4. ASSUME NEW u \in Upload, NEW slot \in Slot, legacy_send(u, slot[1], slot[2]) PROVE IInv'
  <2> DEFINE holders == {x \in Session : Pruned[x] = "live" /\ slot[2] \in Files(x)}
  <2>1. /\ slot = <<slot[1], slot[2]>> /\ slot[1] \in Nat /\ Bodies[slot] \subseteq Seq(Nat)
        /\ SessionsForward /\ At(u, "idle") /\ UNCHANGED <<uploaded, disk, contended, raced>>
    BY <1>0, <1>4, LocalSendAssumption, PrunedForward, Zenon DEF legacy_send
  <2>2. CASE Goto(u, "refused")
    BY <2>1, <2>2, HandlerEnds, Zenon DEF At
  <2>3. CASE \E first \in holders, body \in Bodies[slot] :
               up' = [up EXCEPT ![u] = [Idle EXCEPT !.pc = "authorize", !.slot = <<first, slot[2]>>,
                                                    !.token = slot[1], !.body = body]]
    <3>1. PICK first \in holders, body \in Bodies[slot] :
               up' = [up EXCEPT ![u] = [Idle EXCEPT !.pc = "authorize", !.slot = <<first, slot[2]>>,
                                                    !.token = slot[1], !.body = body]]
      BY <2>3, Zenon
    <3>2. <<first, slot[2]>> \in Slot /\ sessions[<<first, slot[2]>>[1]] # "none"
      BY <1>0, <3>1, LocalSendAssumption, ZenonT(30) DEF Files, Pruned
    <3>3. body \in Seq(Nat)
      BY <2>1, Zenon
    <3> QED
      BY <2>1, <3>1, <3>2, <3>3, HandlerStarts, Zenon
  <2> QED
    BY <1>4, <2>1, <2>2, <2>3, Zenon DEF legacy_send
<1>5. ASSUME NEW u \in Upload, Step(u) PROVE IInv'
  BY <1>5, StepInvariant, Zenon
<1>6. ASSUME NEW u \in Upload, Drop(u) PROVE IInv'
  <2>1. /\ up[u].pc \in {"create", "stream", "check", "target", "rename"}
        /\ UNCHANGED <<server, disk, contended, raced>>
    BY <1>6, Zenon DEF Drop, Working, At
  <2>2. CASE Goto(u, "dropped")
    BY <1>0, <2>1, <2>2, HandlerEnds, Zenon
  <2>3. CASE up' = [up EXCEPT ![u].gone = TRUE]
    <3>1. /\ up' \in [Upload -> Handler] /\ OthersKept(u) /\ FieldsKept(u)
          /\ up'[u].pc = up[u].pc
      BY <1>0, <2>3, GoneEffect, Zenon
    <3>2. ~ At(u, "mark")
      BY <2>1, Zenon DEF At
    <3> QED
      BY <2>1, <3>1, <3>2, HandlerMoves, Zenon
  <2> QED
    BY <1>6, <2>2, <2>3, Zenon DEF Drop
<1>7. CASE UNCHANGED vars
  BY <1>0, <1>7, SessionStep, Zenon DEF vars
<1> QED
  BY <1>1, <1>2, <1>3, <1>4, <1>5, <1>6, <1>7, Zenon DEF Next

\* The invariant holds throughout.
LEMMA Invariant == Spec => []IInv
BY InitInvariant, NextInvariant, PTL DEF Spec

-----------------------------------------------------------------------------
(* What the runs check *)

\* Every variable keeps its type, no inode has two names, and a handler that
\* streams, checks or renames has an open file.
THEOREM UploadsTyped == Spec => []TypeOK
<1>1. IInv => TypeOK
  <2> SUFFICES ASSUME IInv PROVE TypeOK
    BY Zenon
  <2>1. \A i \in Inode : data[i] \in Seq(Nat)
    <3>1. data \in Seq(Seq(Nat))
      BY Zenon DEF IInv, Shapes
    <3> QED
      BY <3>1 DEF Inode
  <2>2. part \in [PartPath -> Inode \cup {NoInode}] /\ inbox \in [Target -> Inode \cup {NoInode}]
    BY Zenon DEF IInv, Shapes, Inodes
  <2>3. ASSUME NEW u \in Upload
        PROVE  /\ up[u].pc \in Pc
               /\ up[u].pc \notin {"idle", "refused"} => up[u].slot \in Slot
               /\ up[u].pc \in {"stream", "check", "target", "rename", "mark"} => up[u].fd \in Inode
               /\ up[u].pc = "rename" => up[u].target \in Target
    <3>1. up[u].pc \in Pc
      BY Zenon DEF IInv, Shapes, Handler
    <3>2. up[u].pc \notin {"idle", "refused"} => up[u].slot \in Slot
      BY Zenon DEF IInv, Shapes
    <3>3. up[u].pc \in {"stream", "check", "target", "rename", "mark"} => up[u].fd \in Inode
      BY Zenon DEF IInv, Inodes, HasFile, At
    <3>4. up[u].pc = "rename" => up[u].target \in Target
      BY Zenon DEF IInv, Shapes
    <3> QED
      BY <3>1, <3>2, <3>3, <3>4, Zenon
  <2>4. /\ sessions \in [Session -> {"none", "live", "expired", "gone"}]
        /\ uploaded \subseteq Slot /\ contended \subseteq PartPath /\ raced \subseteq Name
    BY Zenon DEF IInv, Shapes
  <2>5. /\ \A m, n \in Target : inbox[m] = inbox[n] /\ inbox[m] # NoInode => m = n
        /\ \A path \in PartPath, n \in Target : part[path] # NoInode => part[path] # inbox[n]
    BY Zenon DEF IInv, Inodes
  <2> QED
    BY <2>1, <2>2, <2>3, <2>4, <2>5, Zenon DEF TypeOK
<1> QED
  BY <1>1, Invariant, PTL

\* A file that write_upload moved into the inbox has the size and digest that were
\* announced for it, and keeps them, unless two handlers had its .part path at once.
THEOREM PublishedStaysIntact == Spec => []PublishedIntact
<1>1. IInv => PublishedIntact
  BY Zenon DEF IInv
<1> QED
  BY <1>1, Invariant, PTL

\* An upload that was answered 200 is listed in the inbox from then on, with the
\* announced size, unless its name was raced for or its .part path was shared.
THEOREM AcknowledgedStaysListed == Spec => []AckedKept
<1>1. IInv => AckedKept
  <2> SUFFICES ASSUME IInv, NEW u \in Upload, At(u, "ok")
               PROVE  \E p \in published :
                        /\ p.upload = u
                        /\ \/ Meta[p.slot].name \in raced
                           \/ \E entry \in list_inbox_entries :
                                /\ entry.inode = p.inode
                                /\ incoming_file_name(p.slot) \in contended \/ entry.size = Meta[p.slot].size
    BY Zenon DEF AckedKept
  <2>1. PICK p \in published : p.upload = u
    BY Zenon DEF IInv, Answered, At
  <2>2. p.inode \in Inode
    BY Zenon DEF IInv, Inodes
  <2>3. CASE Meta[p.slot].name \notin raced
    <3>1. PICK n \in Target : inbox[n] = p.inode
      BY <2>3, Zenon DEF IInv, Named
    <3>2. inbox[n] # NoInode
      BY <2>2, <3>1 DEF Inode, NoInode
    <3>3. [inode |-> inbox[n], size |-> Len(data[inbox[n]])] \in list_inbox_entries
      BY <3>2, Zenon DEF list_inbox_entries
    <3>4. incoming_file_name(p.slot) \notin contended => Len(data[inbox[n]]) = Meta[p.slot].size
      BY <3>1, Zenon DEF IInv, PublishedIntact, Intact
    <3> DEFINE entry == [inode |-> inbox[n], size |-> Len(data[inbox[n]])]
    <3>5. entry.inode = inbox[n] /\ entry.size = Len(data[inbox[n]])
      BY Zenon
    <3> QED
      BY <2>1, <3>1, <3>3, <3>4, <3>5, Zenon
  <2> QED
    BY <2>1, <2>3, Zenon
<1> QED
  BY <1>1, Invariant, PTL

\* A file of a session is published once, unless handlers shared its .part path or
\* one of the two publishers was dropped by its client.
THEOREM SlotPublishedOnce == Spec => []PublishedOnce
<1>1. IInv => PublishedOnce
  BY Zenon DEF IInv
<1> QED
  BY <1>1, Invariant, PTL

\* A client whose file was published is refused only when its session is over.
THEOREM RefusalMeansEnded == Spec => []RefusedOnlyIfEnded
<1>1. IInv => RefusedOnlyIfEnded
  BY Zenon DEF IInv, Answered, RefusedOnlyIfEnded
<1> QED
  BY <1>1, Invariant, PTL
=============================================================================
