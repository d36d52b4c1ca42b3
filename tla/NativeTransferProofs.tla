------------------------ MODULE NativeTransferProofs ------------------------
(***************************************************************************)
(* Theorems about NativeTransfer, for every set of connections and         *)
(* transfers, every offer, chunk size and source: types; verified rows     *)
(* stand for bytes that are there; a Completed transfer is delivered; what *)
(* a task publishes is what it verified, as long as no rival works on the  *)
(* transfer; hence the receiver implements InboxService.                   *)
(***************************************************************************)
EXTENDS NativeTransfer, TLAPS

-----------------------------------------------------------------------------
(* Planned chunks lie inside the file *)

\* The last multiple of the chunk size that plan_chunks visits is below the size.
LEMMA ChunkStart ==
  ASSUME NEW size \in Nat, NEW cs \in Nat \ {0},
         NEW k \in 1 .. (size + cs - 1) \div cs
  PROVE  (k - 1) * cs \in Nat /\ (k - 1) * cs < size
<1> DEFINE a == size + cs - 1
           q == a \div cs
<1>1. a \in Nat /\ cs \in Nat /\ cs > 0
  OBVIOUS
<1>2. q \in Nat /\ q * cs <= a
  BY <1>1
<1>3. k \in Nat /\ 1 <= k /\ k <= q
  BY <1>2
<1>4. k * cs <= q * cs
  BY <1>1, <1>2, <1>3
<1>5. (k - 1) * cs = k * cs - cs
  BY <1>1, <1>3
<1>6. (k - 1) * cs >= 0
  BY <1>1, <1>3
<1> QED
  BY <1>1, <1>2, <1>3, <1>4, <1>5, <1>6

\* Every chunk of a plan is a non-empty range of the file, and its length is
\* determined by its offset.
LEMMA PlanInFile ==
  ASSUME NEW size \in Nat, NEW cs \in Nat \ {0}, NEW r \in Range(plan_chunks(size, cs))
  PROVE  /\ r.offset \in Nat /\ r.length \in Nat
         /\ r.length > 0
         /\ r.offset + r.length <= size
         /\ r.length = LesserOf(cs, size - r.offset)
<1>1. PICK k \in 1 .. (size + cs - 1) \div cs :
        r = [offset |-> (k - 1) * cs, length |-> LesserOf(cs, size - (k - 1) * cs)]
  BY Zenon DEF Range, plan_chunks
<1>2. (k - 1) * cs \in Nat /\ (k - 1) * cs < size
  BY ChunkStart, Zenon
<1> DEFINE o == (k - 1) * cs
<1>3. r.offset = o /\ r.length = LesserOf(cs, size - o)
  BY <1>1, Zenon
<1>4. o \in Nat /\ o < size
  BY <1>2, Zenon
<1> HIDE DEF o
<1> QED
  BY <1>3, <1>4 DEF LesserOf

\* Facts about the constants, in the form the provers use.
LEMMA OfferTypes ==
  ASSUME NEW t \in Transfer
  PROVE  /\ FileIds(t) = 1 .. Len(Offer[t])
         /\ Len(Offer[t]) \in Nat /\ Len(Offer[t]) > 0
         /\ \A f \in FileIds(t) :
              /\ f \in Nat /\ <<t, f>> \in Entry
              /\ Offer[t][f].size \in Nat
              /\ Offer[t][f].name \in Name
              /\ \A k \in 0 .. MaxSuffix : <<Offer[t][f].name, k>> \in Target
<1> DEFINE FileOffer == [name : Name, size : Nat, blake3 : Seq(Nat) \cup {NoHash}]
<1>1. Offer[t] \in Seq(FileOffer)
  BY OfferAssumption, Zenon
<1>2. Offer[t] # <<>>
  BY OfferAssumption, Zenon
<1>3. FileIds(t) = 1 .. Len(Offer[t]) /\ Len(Offer[t]) \in Nat /\ Len(Offer[t]) > 0
  BY <1>1, <1>2 DEF FileIds
<1>4. ASSUME NEW f \in FileIds(t)
      PROVE  /\ f \in Nat /\ <<t, f>> \in Entry
             /\ Offer[t][f] \in FileOffer
  <2>1. <<t, f>> \in {t} \X FileIds(t)
    BY Zenon
  <2>2. <<t, f>> \in Entry
    BY <2>1, Zenon DEF Entry
  <2>3. f \in 1 .. Len(Offer[t])
    BY <1>3, Zenon
  <2>4. Offer[t][f] \in FileOffer
    <3> HIDE DEF FileOffer
    <3> QED
      BY <1>1, <2>3
  <2> QED
    BY <2>2, <2>3, <2>4, <1>3
<1> QED
  BY <1>3, <1>4, Zenon DEF Target

\* An entry is a transfer and one of its files.
LEMMA EntryIs ==
  ASSUME NEW e \in Entry
  PROVE  \E t \in Transfer : \E f \in FileIds(t) : e = <<t, f>>
BY DEF Entry

\* Both senders send chunks of that kind: they come from plan_chunks.
LEMMA PlannedSendable ==
  ASSUME NEW t \in Transfer, NEW cs \in Nat \ {0}, NEW S,
         \A x \in S : \E f \in FileIds(t) : \E r \in Range(plan_chunks(Offer[t][f].size, cs)) :
            x = [file |-> f, offset |-> r.offset, length |-> r.length]
  PROVE  Sendable(t, S)
<1>1. ASSUME NEW x \in S
      PROVE  /\ x \in Chunk /\ x.file \in FileIds(t) /\ x.length > 0
             /\ x.offset + x.length <= Offer[t][x.file].size
             /\ x.length = LesserOf(cs, Offer[t][x.file].size - x.offset)
             /\ x = [file |-> x.file, offset |-> x.offset, length |-> x.length]
  <2>1. PICK f \in FileIds(t) : \E r \in Range(plan_chunks(Offer[t][f].size, cs)) :
               x = [file |-> f, offset |-> r.offset, length |-> r.length]
    BY Zenon
  <2>2. PICK r \in Range(plan_chunks(Offer[t][f].size, cs)) :
               x = [file |-> f, offset |-> r.offset, length |-> r.length]
    BY <2>1, Zenon
  <2>3. f \in Nat /\ Offer[t][f].size \in Nat
    BY OfferTypes, Zenon
  <2>4. /\ r.offset \in Nat /\ r.length \in Nat /\ r.length > 0
        /\ r.offset + r.length <= Offer[t][f].size
        /\ r.length = LesserOf(cs, Offer[t][f].size - r.offset)
    BY <2>3, PlanInFile, Zenon
  <2> QED
    BY <2>2, <2>3, <2>4, Zenon DEF Chunk
<1>2. ASSUME NEW x \in S, NEW y \in S, x.file = y.file, x.offset = y.offset
      PROVE  x = y
  BY <1>1, <1>2, Zenon
<1> QED
  BY <1>1, <1>2, Zenon DEF Sendable

\* What the first sender plans (planned_chunks) and what a resuming one plans
\* (resume_plan) can be sent.
LEMMA SendersSendable ==
  ASSUME NEW t \in Transfer
  PROVE  /\ Sendable(t, planned_chunks(t))
         /\ \A cs \in ResumeSizes : Sendable(t, resume_plan(t, cs))
<1>1. Sendable(t, planned_chunks(t))
  <2>1. \A x \in planned_chunks(t) : \E f \in FileIds(t) :
          \E r \in Range(plan_chunks(Offer[t][f].size, ChunkSize)) :
            x = [file |-> f, offset |-> r.offset, length |-> r.length]
    BY Zenon DEF planned_chunks, ChunksOf
  <2> QED
    BY <2>1, PlannedSendable, BoundsAssumption
<1>2. ASSUME NEW cs \in ResumeSizes
      PROVE  Sendable(t, resume_plan(t, cs))
  <2>1. \A x \in resume_plan(t, cs) : \E f \in FileIds(t) :
          \E r \in Range(plan_chunks(Offer[t][f].size, cs)) :
            x = [file |-> f, offset |-> r.offset, length |-> r.length]
    BY Zenon DEF resume_plan, ChunksOf, missing_ranges
  <2>2. cs \in Nat \ {0}
    BY BoundsAssumption, Zenon
  <2> QED
    BY <2>1, <2>2, PlannedSendable
<1> QED
  BY <1>1, <1>2, Zenon

-----------------------------------------------------------------------------
(* What a chunk write leaves in the .part file *)

OldData(data) == IF data = NoFile THEN <<>> ELSE data

\* A write of sender bytes keeps the file at least as long, keeps every byte
\* that was not a hole that way, and fills the bytes it covers.
LEMMA WriteAtFacts ==
  ASSUME NEW data \in Seq(Nat) \cup {NoFile}, NEW offset \in Nat,
         NEW bytes \in Seq(Nat \ {Hole})
  PROVE  LET w == WriteAt(data, offset, bytes) IN
         /\ w \in Seq(Nat)
         /\ Len(w) >= Len(OldData(data))
         /\ \A i \in 1 .. Len(OldData(data)) : OldData(data)[i] # Hole => w[i] # Hole
         /\ bytes # <<>> =>
              /\ Len(w) >= offset + Len(bytes)
              /\ \A i \in offset + 1 .. offset + Len(bytes) : w[i] # Hole
<1> DEFINE old == OldData(data)
           w == WriteAt(data, offset, bytes)
           n == GreaterOf(Len(old), offset + Len(bytes))
<1>1. old \in Seq(Nat)
  BY DEF OldData
<1>2. Len(bytes) \in Nat /\ \A i \in 1 .. Len(bytes) : bytes[i] \in Nat /\ bytes[i] # Hole
  OBVIOUS
<1>3. Len(old) \in Nat /\ \A i \in 1 .. Len(old) : old[i] \in Nat
  BY <1>1
<1>4. n \in Nat /\ n >= Len(old) /\ n >= offset + Len(bytes)
      /\ (n = Len(old) \/ n = offset + Len(bytes))
  BY <1>2, <1>3 DEF GreaterOf
<1>5. CASE bytes = <<>>
  <2>1. w = old
    BY <1>5, Zenon DEF WriteAt, OldData
  <2> QED
    BY <2>1, <1>5, <1>1, <1>3
<1>6. CASE bytes # <<>>
  <2> DEFINE Byte(i) == CASE i > offset /\ i <= offset + Len(bytes) -> bytes[i - offset]
                          [] i <= offset /\ i > Len(old)            -> Hole
                          [] OTHER                                  -> old[i]
  <2>1. w = [i \in 1 .. n |-> Byte(i)]
    BY <1>6, Zenon DEF WriteAt, OldData
  <2> HIDE DEF n, w, old
  <2>2. ASSUME NEW i \in 1 .. n
        PROVE  /\ Byte(i) \in Nat
               /\ i > offset /\ i <= offset + Len(bytes) => Byte(i) # Hole
               /\ i <= Len(old) /\ old[i] # Hole => Byte(i) # Hole
    <3>1. CASE i > offset /\ i <= offset + Len(bytes)
      <4>1. i - offset \in 1 .. Len(bytes) /\ Byte(i) = bytes[i - offset]
        BY <3>1, <1>2, <1>4
      <4> QED
        BY <4>1, <1>2, Zenon
    <3>2. CASE i <= offset /\ i > Len(old)
      <4>1. Byte(i) = Hole
        BY <3>2, <1>2, <1>3, <1>4
      <4> QED
        BY <4>1, <3>2, <1>3, <1>4, <1>2 DEF Hole
    <3>3. CASE ~ (i > offset /\ i <= offset + Len(bytes)) /\ ~ (i <= offset /\ i > Len(old))
      <4>1. Byte(i) = old[i] /\ i \in 1 .. Len(old)
        BY <3>3, <1>2, <1>3, <1>4
      <4> QED
        BY <4>1, <3>3, <1>3, Zenon
    <3> QED
      BY <3>1, <3>2, <3>3, Zenon
  <2> HIDE DEF Byte
  <2>3. w \in Seq(Nat) /\ Len(w) = n /\ \A i \in 1 .. n : w[i] = Byte(i)
    BY <2>1, <2>2, <1>4
  <2> QED
    BY <2>2, <2>3, <1>2, <1>3, <1>4, SMTT(30) DEF w, old
<1> QED
  BY <1>5, <1>6, Zenon

\* The bytes a sender reads for a prefix of a chunk.
LEMMA SourceBytes ==
  ASSUME NEW t \in Transfer, NEW f \in FileIds(t), NEW data \in Source[<<t, f>>],
         NEW offset \in Nat, NEW n \in Nat, offset + n <= Offer[t][f].size
  PROVE  /\ SubSeq(data, offset + 1, offset + n) \in Seq(Nat \ {Hole})
         /\ Len(SubSeq(data, offset + 1, offset + n)) = n
<1>1. <<t, f>> \in Entry
  BY OfferTypes, Zenon
<1>2. data \in Seq(Nat \ {Hole}) /\ Len(data) = Offer[t][f].size
  BY <1>1, SourceAssumption, Zenon
<1> QED
  BY <1>2

-----------------------------------------------------------------------------
(* What the two halves of receive_chunk_with_hash do, without their quantifiers *)

\* Task c wrote chunk x, or a prefix of it.
Written(c, x) ==
  LET e == <<on[c], x.file>>
  IN  /\ is_next(c, x)
      /\ x \in Chunk /\ x.file \in FileIds(on[c]) /\ e \in Entry
      /\ part'[e] \in Seq(Nat)
      /\ part' = [part EXCEPT ![e] = part'[e]]
      /\ Len(part'[e]) >= Len(OldData(part[e]))
      /\ \A i \in 1 .. Len(OldData(part[e])) : OldData(part[e])[i] # Hole => part'[e][i] # Hole
      /\ \/ Goto(c, "closed")
         \/ /\ Goto(c, "record")
            /\ x.offset + x.length <= Len(part'[e])
            /\ \A i \in x.offset + 1 .. x.offset + x.length : part'[e][i] # Hole

\* write_chunk writes one of the chunks that are due, whole or in part.
LEMMA WriteChunkEffect ==
  ASSUME TypeOK, NEW c \in Conn, write_chunk(c)
  PROVE  \E x \in todo[c] : Written(c, x)
<1>1. PICK x \in todo[c] :
        /\ is_next(c, x)
        /\ \E data \in Source[<<on[c], x.file>>], n \in 0 .. x.length :
             /\ part' = [part EXCEPT ![<<on[c], x.file>>] =
                  WriteAt(@, x.offset, SubSeq(data, x.offset + 1, x.offset + n))]
             /\ Goto(c, IF n = x.length THEN "record" ELSE "closed")
  BY Zenon DEF write_chunk
<1>2. PICK data \in Source[<<on[c], x.file>>], n \in 0 .. x.length :
        /\ part' = [part EXCEPT ![<<on[c], x.file>>] =
             WriteAt(@, x.offset, SubSeq(data, x.offset + 1, x.offset + n))]
        /\ Goto(c, IF n = x.length THEN "record" ELSE "closed")
  BY <1>1, Zenon
<1> DEFINE e == <<on[c], x.file>>
           bytes == SubSeq(data, x.offset + 1, x.offset + n)
           w == WriteAt(part[e], x.offset, bytes)
<1>3. /\ on[c] \in Transfer /\ x \in Chunk /\ x.file \in FileIds(on[c])
      /\ x.offset \in Nat /\ x.length \in Nat /\ n \in Nat /\ x.length > 0
      /\ x.offset + n <= Offer[on[c]][x.file].size
  <2>1. on[c] \in Transfer /\ x \in Chunk /\ x.file \in FileIds(on[c])
        /\ x.offset + x.length <= Offer[on[c]][x.file].size /\ x.length > 0
    BY Zenon DEF write_chunk, TypeOK, Sendable
  <2>2. Offer[on[c]][x.file].size \in Nat
    BY <2>1, OfferTypes, Zenon
  <2> QED
    BY <2>1, <2>2 DEF Chunk
<1>4. bytes \in Seq(Nat \ {Hole}) /\ Len(bytes) = n
  BY <1>3, SourceBytes, Zenon
<1>5. e \in Entry /\ part[e] \in Seq(Nat) \cup {NoFile}
  BY <1>3, OfferTypes, Zenon DEF TypeOK
<1>6. bytes # <<>> \/ n = 0
  BY <1>4, Zenon
<1> HIDE DEF bytes
<1>7. /\ w \in Seq(Nat)
      /\ Len(w) >= Len(OldData(part[e]))
      /\ \A i \in 1 .. Len(OldData(part[e])) : OldData(part[e])[i] # Hole => w[i] # Hole
      /\ n # 0 => /\ Len(w) >= x.offset + n
                  /\ \A i \in x.offset + 1 .. x.offset + n : w[i] # Hole
  BY <1>3, <1>4, <1>5, <1>6, WriteAtFacts, Zenon
<1>8. part' = [part EXCEPT ![e] = w] /\ part'[e] = w
  BY <1>2, <1>5, Zenon DEF TypeOK, bytes
<1> HIDE DEF w
<1>9. CASE n = x.length
  <2>1. Goto(c, "record")
    BY <1>2, <1>9, Zenon
  <2>2. x.offset + x.length <= Len(part'[e])
        /\ \A i \in x.offset + 1 .. x.offset + x.length : part'[e][i] # Hole
    <3>1. n # 0
      BY <1>3, <1>9
    <3>2. Len(w) >= x.offset + x.length /\ \A i \in x.offset + 1 .. x.offset + x.length : w[i] # Hole
      BY <1>7, <1>9, <3>1, Zenon
    <3>3. Len(w) \in Nat
      BY <1>7
    <3> HIDE DEF e
    <3> QED
      BY <1>3, <1>8, <3>2, <3>3, Zenon
  <2> QED
    BY <2>1, <2>2, <1>1, <1>3, <1>5, <1>7, <1>8, ZenonT(30) DEF Written
<1>10. CASE n # x.length
  BY <1>10, <1>1, <1>2, <1>3, <1>5, <1>7, <1>8, Zenon DEF Written
<1> QED
  BY <1>9, <1>10, Zenon

RowOf(t, x) == [transfer |-> t, file |-> x.file, offset |-> x.offset, length |-> x.length]

\* Task c recorded chunk x, or found it invalid and ended.
Recorded(c, x) ==
  /\ is_next(c, x)
  /\ \/ /\ verified' = {v \in verified :
             ~ (v.transfer = on[c] /\ v.file = x.file /\ v.offset = x.offset)} \cup {RowOf(on[c], x)}
        /\ todo' = [todo EXCEPT ![c] = @ \ {x}]
        /\ Goto(c, "receive")
     \/ UNCHANGED <<verified, todo>> /\ Goto(c, "closed")

\* record_verified_chunk records one of the chunks that are due, or fails.
LEMMA RecordEffect ==
  ASSUME NEW c \in Conn, record_verified_chunk(c)
  PROVE  \E x \in todo[c] : Recorded(c, x)
BY Zenon DEF record_verified_chunk, Recorded, RowOf

-----------------------------------------------------------------------------
(* What the steps of the finish loops do *)

\* A loop over the files goes to the next file, or leaves at the last one.
LEMMA AdvanceEffect ==
  ASSUME TypeOK, NEW c \in Conn, Live(c), NEW label, Advance(c, label)
  PROVE  /\ \/ Goto(c, label) /\ at[c] = Len(Offer[on[c]]) /\ at' = [at EXCEPT ![c] = 1]
            \/ Goto(c, pc[c]) /\ at' = [at EXCEPT ![c] = at[c] + 1]
         /\ \E f \in FileIds(on[c]) : at' = [at EXCEPT ![c] = f]
<1>1. /\ on[c] \in Transfer /\ at[c] \in FileIds(on[c])
      /\ FileIds(on[c]) = 1 .. Len(Offer[on[c]]) /\ Len(Offer[on[c]]) \in Nat
  BY OfferTypes, Zenon DEF TypeOK, Live
<1>2. CASE at[c] = Len(Offer[on[c]])
  BY <1>1, <1>2 DEF Advance, Loop
<1>3. CASE at[c] # Len(Offer[on[c]])
  <2>1. at[c] + 1 \in FileIds(on[c]) /\ at' = [at EXCEPT ![c] = at[c] + 1]
    BY <1>1, <1>3 DEF Advance
  <2>2. Goto(c, pc[c])
    BY <1>3, Zenon DEF Advance, Goto, TypeOK
  <2> QED
    BY <2>1, <2>2, ZenonT(30)
<1> QED
  BY <1>2, <1>3, Zenon

\* Task c renamed the file its cursor is on into the inbox.
Published(c) ==
  LET e == <<on[c], at[c]>>
  IN  /\ part[e] # NoFile
      /\ inbox' = [inbox EXCEPT ![target[c]] = part[e]]
      /\ part' = [part EXCEPT ![e] = NoFile]
      /\ delivered' = delivered \cup {[transfer |-> on[c], file |-> at[c], data |-> part[e]]}
      /\ target' = [target EXCEPT ![c] = NoTarget]
      /\ \/ Goto(c, "recheck") /\ at[c] = Len(Offer[on[c]])
         \/ Goto(c, "target") /\ at' = [at EXCEPT ![c] = at[c] + 1]
      /\ \E f \in FileIds(on[c]) : at' = [at EXCEPT ![c] = f]

\* rename_file fails and changes nothing on the disk, or publishes the file that
\* the cursor is on.
LEMMA RenameEffect ==
  ASSUME TypeOK, NEW c \in Conn, rename_file(c)
  PROVE  \/ Goto(c, "closed") /\ UNCHANGED <<disk, at, target>>
         \/ Published(c)
<1>1. /\ on[c] \in Transfer /\ at[c] \in FileIds(on[c])
      /\ FileIds(on[c]) = 1 .. Len(Offer[on[c]]) /\ Len(Offer[on[c]]) \in Nat
  BY OfferTypes, Zenon DEF rename_file, TypeOK
<1>2. CASE part[<<on[c], at[c]>>] = NoFile
  BY <1>2, Zenon DEF rename_file
<1>3. CASE part[<<on[c], at[c]>>] # NoFile /\ at[c] = Len(Offer[on[c]])
  <2>1. at' = [at EXCEPT ![c] = 1] /\ 1 \in FileIds(on[c]) /\ Goto(c, "recheck")
    BY <1>1, <1>3 DEF rename_file, Loop
  <2> QED
    BY <1>3, <2>1, Zenon DEF rename_file, Published
<1>4. CASE part[<<on[c], at[c]>>] # NoFile /\ at[c] # Len(Offer[on[c]])
  <2>1. at' = [at EXCEPT ![c] = at[c] + 1] /\ at[c] + 1 \in FileIds(on[c]) /\ Goto(c, "target")
    BY <1>1, <1>4 DEF rename_file
  <2> QED
    BY <1>4, <2>1, Zenon DEF rename_file, Published
<1> QED
  BY <1>2, <1>3, <1>4, Zenon

-----------------------------------------------------------------------------
(* Type correctness *)

\* The initial states are typed.
LEMMA TypeInit == Init => TypeOK
BY NullAssumption DEF Init, TypeOK, TransferState, Pc

\* Connect and Resume give a task a transfer and chunks of that transfer.
LEMMA TypeBegin ==
  ASSUME TypeOK, NEW c \in Conn, NEW t \in Transfer, NEW S, Sendable(t, S),
         NEW label \in {"accept", "receive"},
         pc[c] = "idle",
         Begin(c, t, S), Goto(c, label), UNCHANGED <<store, disk>>
  PROVE  TypeOK'
<1>0. 1 \in FileIds(t)
  BY OfferTypes
<1>1. 1 \in FileIds(t) /\ at[c] = 1
  BY <1>0, Zenon DEF TypeOK
<1>2. S \in SUBSET Chunk
  BY Zenon DEF Sendable
<1>3. pc' = [pc EXCEPT ![c] = label] /\ pc' \in [Conn -> Pc]
  BY Zenon DEF Goto, TypeOK, Pc
<1>4. on' = [on EXCEPT ![c] = t] /\ todo' = [todo EXCEPT ![c] = S] /\ at' = at /\ target' = target
  BY Zenon DEF Begin
<1>5. on' \in [Conn -> Transfer \cup {NoTransfer}] /\ todo' \in [Conn -> SUBSET Chunk]
  BY <1>2, <1>4, Zenon DEF TypeOK
<1>6. overlapped' \subseteq Transfer
  BY Zenon DEF Begin, TypeOK
<1>7. \A d \in Conn : pc'[d] # "idle" =>
        on'[d] \in Transfer /\ at'[d] \in FileIds(on'[d]) /\ Sendable(on'[d], todo'[d])
  BY <1>1, <1>2, <1>3, <1>4, Zenon DEF TypeOK
<1>8. \A d \in Conn : pc'[d] = "rename" => target'[d] \in Target
  BY <1>3, <1>4, Zenon DEF TypeOK
<1>9. \A d \in Conn : pc'[d] = "idle" => at'[d] = 1
  BY <1>3, <1>4, Zenon DEF TypeOK
<1> QED
  BY <1>3, <1>4, <1>5, <1>6, <1>7, <1>8, <1>9, Zenon DEF TypeOK, store, disk

\* A live task moves on without touching anything but its label and its cursor.
LEMMA TypeMove ==
  ASSUME TypeOK, NEW c \in Conn, Live(c), NEW label \in Pc \ {"idle", "rename"},
         Goto(c, label), UNCHANGED <<on, todo, target, overlapped>>,
         \/ UNCHANGED at
         \/ \E f \in FileIds(on[c]) : at' = [at EXCEPT ![c] = f]
  PROVE  /\ pc' \in [Conn -> Pc]
         /\ on' \in [Conn -> Transfer \cup {NoTransfer}]
         /\ todo' \in [Conn -> SUBSET Chunk]
         /\ at' \in [Conn -> Nat]
         /\ target' \in [Conn -> Target \cup {NoTarget}]
         /\ overlapped' \subseteq Transfer
         /\ \A d \in Conn : pc'[d] # "idle" =>
              on'[d] \in Transfer /\ at'[d] \in FileIds(on'[d]) /\ Sendable(on'[d], todo'[d])
         /\ \A d \in Conn : pc'[d] = "idle" => at'[d] = 1
         /\ \A d \in Conn : pc'[d] = "rename" => target'[d] \in Target
<1>1. on[c] \in Transfer /\ at[c] \in FileIds(on[c]) /\ Sendable(on[c], todo[c])
  BY Zenon DEF Live, TypeOK
<1>2. \A f \in FileIds(on[c]) : f \in Nat
  BY <1>1, OfferTypes, Zenon
<1>3. pc' = [pc EXCEPT ![c] = label]
  BY Zenon DEF Goto
<1>4. at' \in [Conn -> Nat] /\ at'[c] \in FileIds(on[c]) /\ \A d \in Conn \ {c} : at'[d] = at[d]
  BY <1>1, <1>2, ZenonT(30) DEF TypeOK
<1> QED
  BY <1>1, <1>3, <1>4, Zenon DEF TypeOK

\* Every step keeps the types.
LEMMA TypeStep == TypeOK /\ [Next]_vars => TypeOK'
<1> SUFFICES ASSUME TypeOK, [Next]_vars PROVE TypeOK'
  BY Zenon
<1>1. CASE UNCHANGED vars
  BY <1>1, Zenon DEF TypeOK, vars, store, disk, local
<1>2. ASSUME NEW c \in Conn, NEW t \in Transfer, Connect(c, t)
      PROVE  TypeOK'
  BY <1>2, SendersSendable, TypeBegin, Zenon DEF Connect
<1>3. ASSUME NEW c \in Conn, NEW t \in Transfer, NEW cs \in ResumeSizes, Resume(c, t, cs)
      PROVE  TypeOK'
  BY <1>3, SendersSendable, TypeBegin, Zenon DEF Resume
<1>4. ASSUME NEW c \in Conn, accept_transfer(c)
      PROVE  TypeOK'
  BY <1>4, TypeMove, Zenon DEF accept_transfer, TypeOK, Live, Pc, store, disk, local
<1>5. ASSUME NEW c \in Conn, create_transfer(c)
      PROVE  TypeOK'
  <2>1. transfers' \in [Transfer -> TransferState]
    BY <1>5, ZenonT(30) DEF create_transfer, TypeOK, TransferState
  <2> QED
    BY <1>5, <2>1, TypeMove, Zenon DEF create_transfer, TypeOK, Live, Pc, disk, local
<1>6. ASSUME NEW c \in Conn, NEW from \in Pc \ {"idle", "done", "closed"}, NEW state \in TransferState,
             NEW to \in Pc \ {"idle", "rename"}, set_state(c, from, state, to)
      PROVE  TypeOK'
  <2>1. transfers' \in [Transfer -> TransferState]
    BY <1>6, Zenon DEF set_state, TypeOK
  <2> QED
    BY <1>6, <2>1, TypeMove, Zenon DEF set_state, TypeOK, Live, disk, local
<1>7. ASSUME NEW c \in Conn, write_chunk(c)
      PROVE  TypeOK'
  <2>1. PICK x \in todo[c] : Written(c, x)
    BY <1>7, WriteChunkEffect, Zenon
  <2>2. part' \in [Entry -> Seq(Nat) \cup {NoFile}]
    BY <2>1, Zenon DEF Written, TypeOK
  <2> QED
    BY <1>7, <2>1, <2>2, TypeMove, ZenonT(30)
    DEF write_chunk, Written, TypeOK, Live, Pc, store, local
<1>8. ASSUME NEW c \in Conn, record_verified_chunk(c)
      PROVE  TypeOK'
  <2>1. PICK x \in todo[c] : Recorded(c, x)
    BY <1>8, RecordEffect, Zenon
  <2>2. /\ on[c] \in Transfer /\ Sendable(on[c], todo[c]) /\ x \in Chunk /\ x.file \in FileIds(on[c])
    BY <1>8, Zenon DEF record_verified_chunk, TypeOK, Sendable
  <2>3. verified' \subseteq Row /\ \A v \in verified' : v.file \in FileIds(v.transfer)
    BY <2>1, <2>2 DEF Recorded, RowOf, Row, Chunk, TypeOK
  <2>4. todo' \in [Conn -> SUBSET Chunk] /\ Sendable(on[c], todo'[c])
        /\ \A d \in Conn \ {c} : todo'[d] = todo[d]
    <3>1. \A R : Sendable(on[c], todo[c] \ R)
      BY <2>2, Zenon DEF Sendable
    <3>2. todo' = [todo EXCEPT ![c] = todo[c] \ {x}] \/ todo' = todo
      BY <2>1, Zenon DEF Recorded
    <3>3. todo \in [Conn -> SUBSET Chunk]
      BY Zenon DEF TypeOK
    <3> QED
      BY <2>2, <3>1, <3>2, <3>3, Zenon
  <2>5. pc' \in [Conn -> Pc] /\ (pc'[c] = "receive" \/ pc'[c] = "closed")
        /\ \A d \in Conn \ {c} : pc'[d] = pc[d]
    BY <2>1, Zenon DEF Recorded, TypeOK, Goto, Pc
  <2>6. UNCHANGED <<transfers, disk, on, at, target, overlapped>> /\ pc[c] = "record"
    BY <1>8, Zenon DEF record_verified_chunk
  <2>7. \A d \in Conn : pc'[d] # "idle" =>
          on'[d] \in Transfer /\ at'[d] \in FileIds(on'[d]) /\ Sendable(on'[d], todo'[d])
    BY <2>4, <2>5, <2>6, Zenon DEF TypeOK
  <2> QED
    BY <2>3, <2>4, <2>5, <2>6, <2>7, Zenon DEF TypeOK, disk
<1>9. ASSUME NEW c \in Conn, finish_transfer(c)
      PROVE  TypeOK'
  BY <1>9, TypeMove, ZenonT(30) DEF finish_transfer, TypeOK, Live, Pc, store, disk, local
<1>10. ASSUME NEW c \in Conn, verify_file(c)
       PROVE  TypeOK'
  <2>1. Live(c) /\ UNCHANGED <<store, disk, on, todo, target, overlapped>>
    BY <1>10, Zenon DEF verify_file, Live
  <2>2. \/ (Goto(c, "closed") \/ Goto(c, "fail")) /\ UNCHANGED at
        \/ /\ Goto(c, "target") \/ Goto(c, "verify")
           /\ \E f \in FileIds(on[c]) : at' = [at EXCEPT ![c] = f]
    BY <1>10, <2>1, AdvanceEffect, Zenon DEF verify_file
  <2> QED
    BY <2>1, <2>2, TypeMove, Zenon DEF TypeOK, Pc, store, disk
<1>11. ASSUME NEW c \in Conn, available_target_path(c)
       PROVE  TypeOK'
  <2>1. Live(c) /\ UNCHANGED <<store, disk, on, todo, at, overlapped>>
    BY <1>11, Zenon DEF available_target_path, Live
  <2>2. CASE Goto(c, "closed") /\ UNCHANGED target
    BY <2>1, <2>2, TypeMove, Zenon DEF TypeOK, Pc, store, disk
  <2>3. CASE Goto(c, "rename") /\ \E k \in 0 .. MaxSuffix :
               target' = [target EXCEPT ![c] = <<Offer[on[c]][at[c]].name, k>>]
    <3>1. on[c] \in Transfer /\ at[c] \in FileIds(on[c])
      BY <2>1, Zenon DEF TypeOK, Live
    <3>2. \E n \in Target : target' = [target EXCEPT ![c] = n]
      BY <2>3, <3>1, OfferTypes, Zenon
    <3>3. pc' = [pc EXCEPT ![c] = "rename"] /\ pc[c] # "idle"
      BY <2>1, <2>3, Zenon DEF Goto, Live
    <3> QED
      BY <2>1, <3>2, <3>3, Zenon DEF TypeOK, Pc, store, disk
  <2> QED
    BY <1>11, <2>2, <2>3, Zenon DEF available_target_path
<1>12. ASSUME NEW c \in Conn, rename_file(c)
       PROVE  TypeOK'
  <2>1. Live(c) /\ UNCHANGED <<store, on, todo, overlapped>> /\ target[c] \in Target
    BY <1>12, Zenon DEF rename_file, Live, TypeOK
  <2>2. CASE Goto(c, "closed") /\ UNCHANGED <<disk, at, target>>
    BY <2>1, <2>2, TypeMove, Zenon DEF TypeOK, Pc, store, disk
  <2>3. CASE Published(c)
    <3>1. /\ on[c] \in Transfer /\ at[c] \in FileIds(on[c]) /\ at[c] \in Nat /\ <<on[c], at[c]>> \in Entry
      BY <2>1, OfferTypes, Zenon DEF TypeOK, Live
    <3>2. part[<<on[c], at[c]>>] \in Seq(Nat)
      BY <2>3, <3>1, Zenon DEF TypeOK, Published
    <3>3. /\ part' \in [Entry -> Seq(Nat) \cup {NoFile}]
          /\ inbox' \in [Target -> Seq(Nat) \cup {NoFile}]
          /\ delivered' \subseteq DeliveryRecord
      <4>1. /\ part' = [part EXCEPT ![<<on[c], at[c]>>] = NoFile]
            /\ inbox' = [inbox EXCEPT ![target[c]] = part[<<on[c], at[c]>>]]
        BY <2>3, Zenon DEF Published
      <4>2. delivered' \subseteq DeliveryRecord
        <5>1. delivered' = delivered \cup {[transfer |-> on[c], file |-> at[c], data |-> part[<<on[c], at[c]>>]]}
          BY <2>3, Zenon DEF Published
        <5>2. [transfer |-> on[c], file |-> at[c], data |-> part[<<on[c], at[c]>>]] \in DeliveryRecord
          BY <3>1, <3>2, Zenon DEF DeliveryRecord
        <5>3. delivered \subseteq DeliveryRecord
          BY Zenon DEF TypeOK
        <5> QED
          BY <5>1, <5>2, <5>3, Zenon
      <4> QED
        BY <2>1, <3>1, <3>2, <4>1, <4>2, Zenon DEF TypeOK
    <3>4. PICK g \in FileIds(on[c]) : at' = [at EXCEPT ![c] = g]
      BY <2>3, ZenonT(30) DEF Published
    <3>5. PICK label \in {"target", "recheck"} : pc' = [pc EXCEPT ![c] = label]
      BY <2>3, Zenon DEF Published, Goto
    <3>6. target' = [target EXCEPT ![c] = NoTarget] /\ pc[c] # "idle" /\ g \in Nat
      BY <2>1, <2>3, <3>1, <3>4, OfferTypes, Zenon DEF Published, Live
    <3>7. /\ pc' \in [Conn -> Pc] /\ at' \in [Conn -> Nat]
          /\ target' \in [Conn -> Target \cup {NoTarget}]
          /\ \A d \in Conn : pc'[d] = "rename" => target'[d] \in Target
      BY <3>4, <3>5, <3>6, Zenon DEF TypeOK, Pc
    <3> QED
      BY <2>1, <3>1, <3>3, <3>4, <3>5, <3>6, <3>7, Zenon DEF TypeOK, store
  <2> QED
    BY <1>12, <2>2, <2>3, RenameEffect, Zenon
<1>13. ASSUME NEW c \in Conn, recheck_complete(c)
       PROVE  TypeOK'
  BY <1>13, TypeMove, Zenon DEF recheck_complete, TypeOK, Live, Pc, store, disk, local
<1>14. ASSUME NEW c \in Conn, acknowledge(c)
       PROVE  TypeOK'
  BY <1>14, TypeMove, Zenon DEF acknowledge, TypeOK, Live, Pc, store, disk, local
<1>15. ASSUME NEW c \in Conn, Abort(c)
       PROVE  TypeOK'
  BY <1>15, TypeMove, Zenon DEF Abort, TypeOK, Pc, store, disk, local
<1>16. ASSUME NEW c \in Conn,
              set_active(c) \/ set_interrupted(c) \/ set_failed(c) \/ set_completed(c)
       PROVE  TypeOK'
  BY <1>16, <1>6, Zenon
  DEF set_active, set_interrupted, set_failed, set_completed, Pc, TransferState
<1> QED
  BY <1>1, <1>2, <1>3, <1>4, <1>5, <1>7, <1>8, <1>9, <1>10, <1>11, <1>12, <1>13, <1>14, <1>15, <1>16, Zenon
  DEF Next, Step

\* Type correctness: cursors, chunks and rows never leave the files they belong to.
THEOREM TypeCorrect == Spec => []TypeOK
BY TypeInit, TypeStep, PTL DEF Spec

-----------------------------------------------------------------------------
(* The inductive invariant *)

\* The bytes [offset, offset + length) of a file came from the sender and are on
\* disk, unless the whole file went to the inbox.
Backed(t, f, offset, length) ==
  \/ IsDelivered(t, f)
  \/ /\ part[<<t, f>>] # NoFile
     /\ offset + length <= Len(part[<<t, f>>])
     /\ \A i \in offset + 1 .. offset + length : part[<<t, f>>][i] # Hole

\* The chunk a task is about to record is one it has written.
InFlightBacked ==
  \A c \in Conn : pc[c] = "record" =>
    \A x \in todo[c] : is_next(c, x) => Backed(on[c], x.file, x.offset, x.length)

DataInv == TypeOK /\ InFlightBacked /\ VerifiedBacked

-----------------------------------------------------------------------------
(* Which steps touch what *)

\* A step of one task leaves the local state of every other task alone.
LEMMA OwnStep ==
  ASSUME TypeOK, [Next]_vars, NEW d \in Conn
  PROVE  \/ pc'[d] = pc[d] /\ on'[d] = on[d] /\ todo'[d] = todo[d] /\ at'[d] = at[d] /\ target'[d] = target[d]
         \/ \E t \in Transfer : Connect(d, t) \/ \E cs \in ResumeSizes : Resume(d, t, cs)
         \/ Step(d)
         \/ Abort(d)
<1> DEFINE Same == pc'[d] = pc[d] /\ on'[d] = on[d] /\ todo'[d] = todo[d] /\ at'[d] = at[d] /\ target'[d] = target[d]
<1>1. CASE UNCHANGED vars
  BY <1>1, Zenon DEF vars, local
<1>2. ASSUME NEW c \in Conn, c # d,
             \/ \E t \in Transfer : Connect(c, t) \/ \E cs \in ResumeSizes : Resume(c, t, cs)
             \/ Step(c)
             \/ Abort(c)
      PROVE  Same
  <2>1. ASSUME NEW t, NEW S, NEW label, Begin(c, t, S), Goto(c, label) PROVE Same
    BY <1>2, <2>1, Zenon DEF Begin, Goto, TypeOK
  <2>2. ASSUME NEW label, Goto(c, label), UNCHANGED local PROVE Same
    BY <1>2, <2>2, Zenon DEF Goto, local, TypeOK
  <2>3. ASSUME record_verified_chunk(c) PROVE Same
    <3>1. PICK x \in todo[c] : Recorded(c, x)
      BY <2>3, RecordEffect, Zenon
    <3>2. UNCHANGED <<on, at, target>>
      BY <2>3, Zenon DEF record_verified_chunk
    <3> QED
      BY <1>2, <3>1, <3>2, Zenon DEF Recorded, Goto, TypeOK
  <2>4. ASSUME verify_file(c) PROVE Same
    BY <1>2, <2>4, Zenon DEF verify_file, Advance, Loop, Goto, TypeOK
  <2>5. ASSUME available_target_path(c) PROVE Same
    BY <1>2, <2>5, Zenon DEF available_target_path, Goto, TypeOK
  <2>6. ASSUME rename_file(c) PROVE Same
    BY <1>2, <2>6, Zenon DEF rename_file, Loop, Goto, TypeOK
  <2>7. ASSUME write_chunk(c) PROVE Same
    <3>1. PICK x \in todo[c] : Written(c, x)
      BY <2>7, WriteChunkEffect, Zenon
    <3> QED
      BY <2>2, <2>7, <3>1, Zenon DEF Written, write_chunk
  <2>8. ASSUME create_transfer(c) PROVE Same
    BY <2>2, <2>8, Zenon DEF create_transfer
  <2> QED
    BY <1>2, <2>1, <2>2, <2>3, <2>4, <2>5, <2>6, <2>7, <2>8, Zenon
    DEF Connect, Resume, Step, Abort, accept_transfer, set_active, set_interrupted, set_failed,
        set_completed, set_state, finish_transfer, recheck_complete, acknowledge
<1> QED
  BY <1>1, <1>2, Zenon DEF Next

\* Only a chunk write and a rename touch files.
LEMMA DiskStep ==
  ASSUME [Next]_vars
  PROVE  \/ UNCHANGED disk
         \/ \E c \in Conn : write_chunk(c) \/ rename_file(c)
<1>1. CASE UNCHANGED vars
  BY <1>1, Zenon DEF vars
<1>2. ASSUME NEW c \in Conn,
             \/ \E t \in Transfer : Connect(c, t) \/ \E cs \in ResumeSizes : Resume(c, t, cs)
             \/ Step(c) /\ ~ (write_chunk(c) \/ rename_file(c))
             \/ Abort(c)
      PROVE  UNCHANGED disk
  BY <1>2, Zenon
  DEF Connect, Resume, Step, Abort, accept_transfer, create_transfer, set_active, set_interrupted,
     set_failed, set_completed, set_state, record_verified_chunk, finish_transfer, verify_file,
     available_target_path, recheck_complete, acknowledge
<1> QED
  BY <1>1, <1>2, Zenon DEF Next

\* Only record_verified_chunk touches the verified rows.
LEMMA RowStep ==
  ASSUME [Next]_vars
  PROVE  UNCHANGED verified \/ \E c \in Conn : record_verified_chunk(c)
<1>1. CASE UNCHANGED vars
  BY <1>1, Zenon DEF vars, store
<1>2. ASSUME NEW c \in Conn,
             \/ \E t \in Transfer : Connect(c, t) \/ \E cs \in ResumeSizes : Resume(c, t, cs)
             \/ Step(c) /\ ~ record_verified_chunk(c)
             \/ Abort(c)
      PROVE  UNCHANGED verified
  BY <1>2, Zenon
  DEF Connect, Resume, Step, Abort, accept_transfer, create_transfer, set_active, set_interrupted,
     set_failed, set_completed, set_state, write_chunk, finish_transfer, verify_file,
     available_target_path, rename_file, recheck_complete, acknowledge, store
<1> QED
  BY <1>1, <1>2, Zenon DEF Next

\* Only create_transfer and set_state touch the transfer states.
LEMMA StateStep ==
  ASSUME [Next]_vars
  PROVE  \/ UNCHANGED transfers
         \/ \E c \in Conn : create_transfer(c) \/ set_active(c) \/ set_interrupted(c)
                            \/ set_failed(c) \/ set_completed(c)
<1>1. CASE UNCHANGED vars
  BY <1>1, Zenon DEF vars, store
<1>2. ASSUME NEW c \in Conn,
             \/ \E t \in Transfer : Connect(c, t) \/ \E cs \in ResumeSizes : Resume(c, t, cs)
             \/ Step(c) /\ ~ (create_transfer(c) \/ set_active(c) \/ set_interrupted(c)
                              \/ set_failed(c) \/ set_completed(c))
             \/ Abort(c)
      PROVE  UNCHANGED transfers
  BY <1>2, Zenon
  DEF Connect, Resume, Step, Abort, accept_transfer, record_verified_chunk, write_chunk,
     finish_transfer, verify_file, available_target_path, rename_file, recheck_complete, acknowledge, store
<1> QED
  BY <1>1, <1>2, Zenon DEF Next

-----------------------------------------------------------------------------
(* Verified rows are backed by bytes *)

\* What has been delivered stays delivered.
LEMMA DeliveredStays ==
  ASSUME TypeOK, [Next]_vars
  PROVE  delivered \subseteq delivered'
<1>1. ASSUME NEW c \in Conn, rename_file(c) PROVE delivered \subseteq delivered'
  BY <1>1, RenameEffect, Zenon DEF Published, disk
<1>2. ASSUME NEW c \in Conn, write_chunk(c) PROVE delivered \subseteq delivered'
  BY <1>2, Zenon DEF write_chunk
<1> QED
  BY <1>1, <1>2, DiskStep, Zenon DEF disk

\* Bytes that back a range are never lost: a write keeps them and a rename moves
\* the whole file to the inbox.
LEMMA BackedStays ==
  ASSUME TypeOK, [Next]_vars, NEW t \in Transfer, NEW f \in FileIds(t),
         NEW offset \in Nat, NEW length \in Nat, Backed(t, f, offset, length)
  PROVE  Backed(t, f, offset, length)'
<1> DEFINE e == <<t, f>>
<1>1. CASE IsDelivered(t, f)
  BY <1>1, DeliveredStays, Zenon DEF Backed, IsDelivered
<1>2. CASE UNCHANGED disk
  BY <1>2, Zenon DEF Backed, IsDelivered, disk
<1>3. e \in Entry /\ part[e] \in Seq(Nat) \cup {NoFile}
  BY OfferTypes, Zenon DEF TypeOK
<1>4. ASSUME NEW c \in Conn, write_chunk(c), ~ IsDelivered(t, f)
      PROVE  Backed(t, f, offset, length)'
  <2>1. /\ part[e] # NoFile /\ part[e] \in Seq(Nat)
        /\ offset + length <= Len(part[e])
        /\ \A i \in offset + 1 .. offset + length : part[e][i] # Hole
    BY <1>3, <1>4, Zenon DEF Backed
  <2>2. PICK x \in todo[c] : Written(c, x)
    BY <1>4, WriteChunkEffect, Zenon
  <2>3. CASE e = <<on[c], x.file>>
    <3>1. /\ part'[e] \in Seq(Nat)
          /\ Len(part'[e]) >= Len(part[e])
          /\ \A i \in 1 .. Len(part[e]) : part[e][i] # Hole => part'[e][i] # Hole
      BY <2>1, <2>2, <2>3, Zenon DEF Written, OldData
    <3>2. /\ offset + length <= Len(part'[e])
          /\ \A i \in offset + 1 .. offset + length : part'[e][i] # Hole
      <4> HIDE DEF e
      <4>1. Len(part'[e]) \in Nat /\ Len(part[e]) \in Nat
        BY <2>1, <3>1
      <4>2. \A i \in offset + 1 .. offset + length : i \in 1 .. Len(part[e])
        BY <2>1, <4>1
      <4>3. \A i \in offset + 1 .. offset + length : part'[e][i] # Hole
        BY <2>1, <3>1, <4>2, Zenon
      <4> QED
        BY <2>1, <3>1, <4>1, <4>3
    <3>3. part'[e] # NoFile
      BY <3>1, NullAssumption, Zenon
    <3> QED
      BY <3>2, <3>3, Zenon DEF Backed
  <2>4. CASE e # <<on[c], x.file>>
    <3>1. part'[e] = part[e]
      BY <1>3, <2>2, <2>4, Zenon DEF Written, TypeOK
    <3> QED
      BY <2>1, <3>1, Zenon DEF Backed
  <2> QED
    BY <2>3, <2>4, Zenon
<1>5. ASSUME NEW c \in Conn, rename_file(c), ~ IsDelivered(t, f), ~ UNCHANGED disk
      PROVE  Backed(t, f, offset, length)'
  <2>1. Published(c)
    BY <1>5, RenameEffect, Zenon
  <2>2. CASE e = <<on[c], at[c]>>
    <3>1. [transfer |-> t, file |-> f, data |-> part[e]] \in delivered'
      BY <2>1, <2>2, Zenon DEF Published
    <3> QED
      BY <3>1, Zenon DEF Backed, IsDelivered
  <2>3. CASE e # <<on[c], at[c]>>
    <3>1. part'[e] = part[e]
      BY <1>3, <2>1, <2>3, Zenon DEF Published, TypeOK
    <3> QED
      BY <1>5, <3>1, Zenon DEF Backed
  <2> QED
    BY <2>2, <2>3, Zenon
<1> QED
  BY <1>1, <1>2, <1>4, <1>5, DiskStep, Zenon

\* No chunk is verified in the beginning.
LEMMA DataInit == Init => DataInv
BY TypeInit, Zenon DEF Init, DataInv, InFlightBacked, VerifiedBacked

\* Every step keeps verified rows backed by bytes in the .part files.
LEMMA DataStep == DataInv /\ [Next]_vars => DataInv'
<1> SUFFICES ASSUME DataInv, [Next]_vars PROVE DataInv'
  BY Zenon
<1>1. TypeOK /\ TypeOK'
  BY TypeStep, Zenon DEF DataInv
<1>2. VerifiedBacked'
  <2>1. ASSUME NEW v \in verified
        PROVE  Backed(v.transfer, v.file, v.offset, v.length)'
    <3>1. /\ v.transfer \in Transfer /\ v.file \in FileIds(v.transfer)
          /\ v.offset \in Nat /\ v.length \in Nat
      BY <1>1, Zenon DEF TypeOK, Row
    <3>2. Backed(v.transfer, v.file, v.offset, v.length)
      BY Zenon DEF DataInv, VerifiedBacked, Backed
    <3> QED
      BY <1>1, <3>1, <3>2, BackedStays, Zenon
  <2>2. ASSUME NEW c \in Conn, record_verified_chunk(c), NEW v \in verified', v \notin verified
        PROVE  Backed(v.transfer, v.file, v.offset, v.length)'
    <3>1. PICK x \in todo[c] : Recorded(c, x)
      BY <2>2, RecordEffect, Zenon
    <3>2. v = RowOf(on[c], x)
      BY <2>2, <3>1, Zenon DEF Recorded
    <3>3. pc[c] = "record" /\ is_next(c, x)
      BY <2>2, <3>1, Zenon DEF record_verified_chunk, Recorded
    <3>4. on[c] \in Transfer /\ x.file \in FileIds(on[c]) /\ x.offset \in Nat /\ x.length \in Nat
      BY <1>1, <3>3, Zenon DEF TypeOK, Sendable, Chunk
    <3>5. Backed(on[c], x.file, x.offset, x.length)
      BY <3>3, Zenon DEF DataInv, InFlightBacked
    <3> QED
      BY <1>1, <3>2, <3>4, <3>5, BackedStays, Zenon DEF RowOf
  <2>3. \A v \in verified' : Backed(v.transfer, v.file, v.offset, v.length)'
    BY <2>1, <2>2, RowStep, Zenon
  <2> QED
    BY <2>3, Zenon DEF VerifiedBacked, Backed
<1>3. InFlightBacked'
  <2> SUFFICES ASSUME NEW d \in Conn, pc'[d] = "record", NEW x \in todo'[d], is_next(d, x)'
               PROVE  Backed(on[d], x.file, x.offset, x.length)' /\ on'[d] = on[d]
    BY Zenon DEF InFlightBacked
  <2>1. CASE pc'[d] = pc[d] /\ on'[d] = on[d] /\ todo'[d] = todo[d]
    <3>1. Backed(on[d], x.file, x.offset, x.length)
      BY <2>1, Zenon DEF DataInv, InFlightBacked, is_next
    <3>2. on[d] \in Transfer /\ x.file \in FileIds(on[d]) /\ x.offset \in Nat /\ x.length \in Nat
      BY <1>1, <2>1, Zenon DEF TypeOK, Sendable, Chunk
    <3> QED
      BY <1>1, <2>1, <3>1, <3>2, BackedStays, Zenon
  <2>2. CASE write_chunk(d)
    <3>1. PICK y \in todo[d] : Written(d, y)
      BY <1>1, <2>2, WriteChunkEffect, Zenon
    <3>2. UNCHANGED local /\ pc[d] = "receive"
      BY <2>2, Zenon DEF write_chunk
    <3>3. x = y
      <4>1. x \in todo[d] /\ is_next(d, x) /\ is_next(d, y)
        BY <3>1, <3>2, Zenon DEF is_next, local, Written
      <4>2. x \in Chunk /\ y \in Chunk /\ (x.file = y.file /\ x.offset = y.offset => x = y)
        BY <1>1, <3>2, <4>1, Zenon DEF TypeOK, Sendable
      <4> QED
        BY <4>1, <4>2 DEF is_next, Chunk
    <3>4. ~ Goto(d, "closed")
      BY <1>1, Zenon DEF Goto, TypeOK
    <3>5. /\ part'[<<on[d], x.file>>] \in Seq(Nat)
          /\ x.offset + x.length <= Len(part'[<<on[d], x.file>>])
          /\ \A i \in x.offset + 1 .. x.offset + x.length : part'[<<on[d], x.file>>][i] # Hole
      BY <3>1, <3>3, <3>4, ZenonT(30) DEF Written
    <3> QED
      BY <3>2, <3>5, NullAssumption, Zenon DEF Backed, local
  <2>3. CASE Step(d) /\ ~ write_chunk(d)
    <3>1. ~ record_verified_chunk(d)
      BY <1>1, RecordEffect, ZenonT(30) DEF Recorded, Goto, TypeOK
    <3>2. ~ verify_file(d)
      BY <1>1, Zenon DEF verify_file, Advance, Loop, Goto, TypeOK
    <3>3. ~ rename_file(d)
      BY <1>1, Zenon DEF rename_file, Loop, Goto, TypeOK
    <3>4. ~ available_target_path(d)
      BY <1>1, Zenon DEF available_target_path, Goto, TypeOK
    <3> QED
      BY <1>1, <2>3, <3>1, <3>2, <3>3, <3>4, Zenon
      DEF Step, accept_transfer, create_transfer, set_active, set_interrupted, set_failed, set_completed,
          set_state, finish_transfer, recheck_complete, acknowledge, Goto, TypeOK
  <2>4. CASE Abort(d) \/ \E t \in Transfer : Connect(d, t) \/ \E cs \in ResumeSizes : Resume(d, t, cs)
    BY <1>1, <2>4, Zenon DEF Abort, Connect, Resume, Goto, TypeOK
  <2> QED
    BY <1>1, <2>1, <2>2, <2>3, <2>4, OwnStep, Zenon
<1> QED
  BY <1>1, <1>2, <1>3, Zenon DEF DataInv

\* The manifest never claims more than the disk holds: every verified row is
\* backed by sender bytes in the .part file or by a published file.
THEOREM RowsAreBacked == Spec => []VerifiedBacked
<1>1. Spec => []DataInv
  BY DataInit, DataStep, PTL DEF Spec
<1>2. DataInv => VerifiedBacked
  BY Zenon DEF DataInv
<1> QED
  BY <1>1, <1>2, PTL

-----------------------------------------------------------------------------
(* The inductive invariant *)

\* A task in the publication loop has delivered the files behind its cursor, and
\* a task past the loop has delivered all of them.
LoopDelivered ==
  \A c \in Conn :
    /\ pc[c] \in {"target", "rename"} => \A f \in FileIds(on[c]) : f < at[c] => IsDelivered(on[c], f)
    /\ pc[c] \in {"recheck", "complete", "ack", "done"} =>
         \A f \in FileIds(on[c]) : IsDelivered(on[c], f)

PublishInv == LoopDelivered /\ CompletedDelivered

-----------------------------------------------------------------------------
(* Completed means delivered *)

\* How a task comes to the labels of the publication loop and after it.
LEMMA LoopEntry ==
  ASSUME TypeOK, [Next]_vars, NEW d \in Conn,
         pc'[d] \in {"target", "rename", "recheck", "complete", "ack", "done"}
  PROVE  /\ on'[d] = on[d]
         /\ \/ pc'[d] = pc[d] /\ at'[d] = at[d] /\ target'[d] = target[d]
            \/ pc'[d] = "target" /\ at'[d] = 1 /\ pc[d] = "verify" /\ verify_file(d)
            \/ pc'[d] = "rename" /\ at'[d] = at[d] /\ pc[d] = "target" /\ available_target_path(d)
            \/ pc'[d] = "target" /\ at'[d] = at[d] + 1 /\ pc[d] = "rename" /\ Published(d)
            \/ pc'[d] = "recheck" /\ at[d] = Len(Offer[on[d]]) /\ pc[d] = "rename" /\ Published(d)
            \/ pc'[d] = "complete" /\ pc[d] = "recheck" /\ recheck_complete(d)
            \/ pc'[d] = "ack" /\ pc[d] = "complete" /\ set_completed(d)
            \/ pc'[d] = "done" /\ pc[d] = "ack" /\ acknowledge(d)
<1>1. CASE pc'[d] = pc[d] /\ on'[d] = on[d] /\ at'[d] = at[d] /\ target'[d] = target[d]
  BY <1>1, Zenon
<1>2. CASE Abort(d) \/ \E t \in Transfer : Connect(d, t) \/ \E cs \in ResumeSizes : Resume(d, t, cs)
  BY <1>2, Zenon DEF Abort, Connect, Resume, Goto, TypeOK
<1>3. CASE verify_file(d)
  <2>1. Live(d) /\ pc[d] = "verify" /\ UNCHANGED on
    BY <1>3, Zenon DEF verify_file, Live
  <2>2. Advance(d, "target")
    BY <1>3, Zenon DEF verify_file, Goto, TypeOK
  <2>3. Goto(d, "target") /\ at' = [at EXCEPT ![d] = 1]
    BY <2>1, <2>2, AdvanceEffect, Zenon DEF Goto, TypeOK
  <2> QED
    BY <1>3, <2>1, <2>3, Zenon DEF Goto, TypeOK
<1>4. CASE available_target_path(d)
  BY <1>4, Zenon DEF available_target_path, Goto, TypeOK
<1>5. CASE rename_file(d)
  <2>1. Published(d) /\ UNCHANGED on /\ pc[d] = "rename"
    BY <1>5, RenameEffect, Zenon DEF rename_file, Goto, TypeOK
  <2>2. pc \in [Conn -> Pc] /\ at \in [Conn -> Nat]
    BY Zenon DEF TypeOK
  <2>3. CASE Goto(d, "recheck") /\ at[d] = Len(Offer[on[d]])
    BY <2>1, <2>2, <2>3, Zenon DEF Goto
  <2>4. CASE Goto(d, "target") /\ at' = [at EXCEPT ![d] = at[d] + 1]
    BY <2>1, <2>2, <2>4, Zenon DEF Goto
  <2> QED
    BY <2>1, <2>3, <2>4, Zenon DEF Published
<1>6. CASE write_chunk(d)
  <2>1. Goto(d, "closed") \/ Goto(d, "record")
    BY <1>6, WriteChunkEffect, Zenon DEF Written
  <2>2. pc \in [Conn -> Pc]
    BY Zenon DEF TypeOK
  <2> QED
    BY <2>1, <2>2, Zenon DEF Goto
<1>7. CASE record_verified_chunk(d)
  BY <1>7, RecordEffect, Zenon DEF Recorded, Goto, TypeOK
<1>8. CASE create_transfer(d) \/ accept_transfer(d) \/ finish_transfer(d)
  BY <1>8, Zenon DEF create_transfer, accept_transfer, finish_transfer, Goto, TypeOK
<1>9. CASE set_active(d) \/ set_interrupted(d) \/ set_failed(d)
  BY <1>9, Zenon DEF set_active, set_interrupted, set_failed, set_state, Goto, TypeOK
<1>10. CASE set_completed(d) \/ recheck_complete(d) \/ acknowledge(d)
  BY <1>10, Zenon DEF set_completed, set_state, recheck_complete, acknowledge, Goto, TypeOK, local
<1> QED
  BY <1>1, <1>2, <1>3, <1>4, <1>5, <1>6, <1>7, <1>8, <1>9, <1>10, OwnStep, Zenon DEF Step

\* Only set_completed writes the state Completed.
LEMMA CompletedBy ==
  ASSUME TypeOK, [Next]_vars, NEW t \in Transfer,
         transfers'[t] = "completed", transfers[t] # "completed"
  PROVE  \E c \in Conn : set_completed(c) /\ on[c] = t
<1>1. CASE UNCHANGED transfers
  BY <1>1, Zenon
<1>2. PICK c \in Conn : create_transfer(c) \/ set_active(c) \/ set_interrupted(c) \/ set_failed(c) \/ set_completed(c)
  BY StateStep, Zenon
<1>3. on[c] \in Transfer
  BY <1>2, Zenon
  DEF create_transfer, set_active, set_interrupted, set_failed, set_completed, set_state, TypeOK
<1>4. CASE create_transfer(c)
  BY <1>3, <1>4, Zenon DEF create_transfer, TypeOK
<1>5. CASE set_active(c)
  BY <1>3, <1>5, Zenon DEF set_active, set_state, TypeOK
<1>6. CASE set_interrupted(c)
  BY <1>3, <1>6, Zenon DEF set_interrupted, set_state, TypeOK
<1>7. CASE set_failed(c)
  BY <1>3, <1>7, Zenon DEF set_failed, set_state, TypeOK
<1>8. CASE set_completed(c)
  BY <1>3, <1>8, Zenon DEF set_completed, set_state, TypeOK
<1> QED
  BY <1>2, <1>4, <1>5, <1>6, <1>7, <1>8, Zenon

\* Nothing is delivered and no transfer completed in the beginning.
LEMMA PublishInit == Init => PublishInv
BY Zenon DEF Init, PublishInv, LoopDelivered, CompletedDelivered

\* Every step keeps deliveries ahead of the cursor of the finish loop.
LEMMA PublishStep == TypeOK /\ PublishInv /\ [Next]_vars => PublishInv'
<1> SUFFICES ASSUME TypeOK, PublishInv, [Next]_vars PROVE PublishInv'
  BY Zenon
<1> DEFINE Gets(t, f) == \E r \in delivered' : r.transfer = t /\ r.file = f
<1>1. ASSUME NEW t, NEW f, IsDelivered(t, f) PROVE Gets(t, f)
  BY <1>1, DeliveredStays, Zenon DEF IsDelivered
<1>2. LoopDelivered'
  <2> DEFINE InLoop(d) == pc'[d] \in {"target", "rename", "recheck", "complete", "ack", "done"}
  <2>1. ASSUME NEW d \in Conn, InLoop(d), NEW f \in FileIds(on[d]),
               pc'[d] \in {"target", "rename"} => f < at'[d]
        PROVE  Gets(on[d], f)
    <3>1. /\ on'[d] = on[d]
          /\ \/ pc'[d] = pc[d] /\ at'[d] = at[d]
             \/ pc'[d] = "target" /\ at'[d] = 1 /\ pc[d] = "verify"
             \/ pc'[d] = "rename" /\ at'[d] = at[d] /\ pc[d] = "target"
             \/ pc[d] = "rename" /\ Published(d) /\ pc'[d] = "target" /\ at'[d] = at[d] + 1
             \/ pc[d] = "rename" /\ Published(d) /\ at[d] = Len(Offer[on[d]])
             \/ pc[d] \in {"recheck", "complete", "ack"}
      BY <2>1, LoopEntry, Zenon
    <3>2. pc[d] # "idle"
      BY <2>1, <3>1, Zenon
    <3>3. on[d] \in Transfer /\ at[d] \in Nat
      BY <3>2, Zenon DEF TypeOK
    <3>4. f \in Nat /\ f <= Len(Offer[on[d]]) /\ f >= 1
      BY <2>1, <3>3, OfferTypes
    <3> HIDE DEF Gets
    <3>5. CASE pc'[d] = pc[d] /\ at'[d] = at[d]
      BY <1>1, <2>1, <3>5, Zenon DEF PublishInv, LoopDelivered
    <3>6. CASE pc'[d] = "target" /\ at'[d] = 1
      BY <2>1, <3>4, <3>6
    <3>7. CASE pc'[d] = "rename" /\ at'[d] = at[d] /\ pc[d] = "target"
      BY <1>1, <2>1, <3>7, Zenon DEF PublishInv, LoopDelivered
    <3>8. CASE /\ pc[d] = "rename" /\ Published(d)
               /\ (pc'[d] = "target" /\ at'[d] = at[d] + 1) \/ at[d] = Len(Offer[on[d]])
      <4>1. [transfer |-> on[d], file |-> at[d], data |-> part[<<on[d], at[d]>>]] \in delivered'
        BY <3>8, Zenon DEF Published
      <4>2. Gets(on[d], at[d])
        BY <4>1, Zenon DEF Gets
      <4>3. f = at[d] \/ f < at[d]
        BY <2>1, <3>3, <3>4, <3>8
      <4> QED
        BY <1>1, <2>1, <3>8, <4>2, <4>3, Zenon DEF PublishInv, LoopDelivered
    <3>9. CASE pc[d] \in {"recheck", "complete", "ack"}
      BY <1>1, <2>1, <3>9, Zenon DEF PublishInv, LoopDelivered
    <3> QED
      BY <3>1, <3>5, <3>6, <3>7, <3>8, <3>9, Zenon
  <2>2. ASSUME NEW d \in Conn, InLoop(d) PROVE on'[d] = on[d]
    BY <2>2, LoopEntry, Zenon
  <2> QED
    BY <2>1, <2>2 DEF LoopDelivered, IsDelivered
<1>3. CompletedDelivered'
  <2>1. ASSUME NEW t \in Transfer, transfers'[t] = "completed", NEW f \in FileIds(t)
        PROVE  Gets(t, f)
    <3>1. CASE transfers[t] = "completed"
      BY <1>1, <3>1, Zenon DEF PublishInv, CompletedDelivered
    <3>2. CASE transfers[t] # "completed"
      <4>1. PICK c \in Conn : set_completed(c) /\ on[c] = t
        BY <2>1, <3>2, CompletedBy, Zenon
      <4>2. pc[c] = "complete"
        BY <4>1, Zenon DEF set_completed, set_state
      <4> QED
        BY <1>1, <4>1, <4>2 DEF PublishInv, LoopDelivered
    <3> QED
      BY <3>1, <3>2, Zenon
  <2>2. ASSUME NEW c \in Conn, pc'[c] = "done", NEW f \in FileIds(on'[c])
        PROVE  Gets(on'[c], f)
    BY <1>2, <2>2, Zenon DEF LoopDelivered, IsDelivered
  <2> QED
    BY <2>1, <2>2, Zenon DEF CompletedDelivered, IsDelivered
<1> QED
  BY <1>2, <1>3, Zenon DEF PublishInv

\* A transfer is reported Completed, and its sender is told Done, only after every
\* one of its files was renamed into the inbox: the second loop of finish_transfer
\* has no way around a file.
THEOREM CompletedMeansDelivered == Spec => []CompletedDelivered
<1>1. Spec => []PublishInv
  BY TypeCorrect, PublishInit, PublishStep, PTL DEF Spec
<1>2. PublishInv => CompletedDelivered
  BY Zenon DEF PublishInv
<1> QED
  BY <1>1, <1>2, PTL

-----------------------------------------------------------------------------
(* The inductive invariant *)

\* Two live tasks on one transfer make it overlapped.
Exclusive ==
  \A c, d \in Conn : c # d /\ Live(c) /\ Live(d) /\ on[c] = on[d] => on[c] \in overlapped

\* The verify loop starts at the first file.
CursorAtStart ==
  \A c \in Conn : pc[c] \in {"accept", "create", "activate", "receive", "record"} => at[c] = 1

GoodPart(t, f) == part[<<t, f>>] # NoFile /\ Intact(t, f, part[<<t, f>>])

\* A task that has its transfer for itself has verified the .part files behind
\* the cursor of the first loop, and those ahead of the cursor of the second.
PartsVerified ==
  \A c \in Conn : pc[c] \in {"verify", "target", "rename"} /\ on[c] \notin overlapped =>
    \A f \in FileIds(on[c]) :
      /\ pc[c] = "verify" /\ f < at[c] => GoodPart(on[c], f)
      /\ pc[c] \in {"target", "rename"} /\ f >= at[c] => GoodPart(on[c], f)

IntactInv == Exclusive /\ CursorAtStart /\ PartsVerified /\ DeliveredIntact

-----------------------------------------------------------------------------
(* Tasks and their transfers *)

\* A step of a task that has begun keeps the task on its transfer.
LEMMA StepOn ==
  ASSUME NEW c \in Conn, Step(c) \/ Abort(c)
  PROVE  Live(c) /\ UNCHANGED <<on, overlapped>>
BY Zenon
DEF Step, Abort, accept_transfer, create_transfer, set_active, write_chunk, record_verified_chunk,
   finish_transfer, set_interrupted, verify_file, set_failed, available_target_path, rename_file,
   recheck_complete, set_completed, set_state, acknowledge, Live, local

\* How a task gets a transfer.
Begun(c, t) ==
  /\ pc[c] = "idle"
  /\ \E label \in {"accept", "receive"} : Goto(c, label)
  /\ \E S : Begin(c, t, S)
  /\ UNCHANGED <<store, disk>>

\* A task begins in the same way for a new connection and for a resume.
LEMMA BeginOn ==
  ASSUME NEW c \in Conn, NEW t \in Transfer, Connect(c, t) \/ \E cs \in ResumeSizes : Resume(c, t, cs)
  PROVE  Begun(c, t)
BY Zenon DEF Connect, Resume, Begun

\* A transfer on which two tasks met stays marked.
LEMMA OverlapGrows ==
  ASSUME [Next]_vars
  PROVE  overlapped \subseteq overlapped'
<1>1. CASE UNCHANGED vars
  BY <1>1, Zenon DEF vars
<1>2. ASSUME NEW c \in Conn, NEW t \in Transfer, Begun(c, t) PROVE overlapped \subseteq overlapped'
  BY <1>2, Zenon DEF Begun, Begin
<1> QED
  BY <1>1, <1>2, BeginOn, StepOn, Zenon DEF Next

\* A live task was live on the same transfer before, or has just been given one.
LEMMA LiveBefore ==
  ASSUME TypeOK, [Next]_vars, NEW c \in Conn, pc'[c] \notin {"idle", "done", "closed"}
  PROVE  \/ Live(c) /\ on'[c] = on[c]
         \/ \E t \in Transfer : Begun(c, t)
<1>1. CASE Step(c) \/ Abort(c)
  BY <1>1, StepOn, Zenon
<1>2. CASE pc'[c] = pc[c] /\ on'[c] = on[c]
  BY <1>2, Zenon DEF Live
<1> QED
  BY <1>1, <1>2, OwnStep, BeginOn, Zenon

\* Two live tasks never share a transfer that is not marked.
LEMMA ExclusiveStep == TypeOK /\ Exclusive /\ [Next]_vars => Exclusive'
<1> SUFFICES ASSUME TypeOK, Exclusive, [Next]_vars,
                    NEW c \in Conn, NEW d \in Conn, c # d,
                    pc'[c] \notin {"idle", "done", "closed"},
                    pc'[d] \notin {"idle", "done", "closed"}, on'[c] = on'[d]
             PROVE  on'[c] \in overlapped'
  BY Zenon DEF Exclusive, Live
<1>1. ASSUME NEW a \in Conn, NEW b \in Conn, a # b, NEW t \in Transfer, Begun(a, t),
             pc'[b] \notin {"idle", "done", "closed"}, on'[a] = on'[b]
      PROVE  on'[a] \in overlapped'
  <2>1. pc'[b] = pc[b] /\ on'[b] = on[b] /\ on'[a] = t
    BY <1>1, Zenon DEF Begun, Begin, Goto, TypeOK
  <2>2. Live(b) /\ on[b] = t
    BY <1>1, <2>1, Zenon DEF Live
  <2> QED
    BY <1>1, <2>1, <2>2, Zenon DEF Begun, Begin
<1>2. CASE Live(c) /\ on'[c] = on[c] /\ Live(d) /\ on'[d] = on[d]
  BY <1>2, OverlapGrows, ZenonT(30) DEF Exclusive
<1> QED
  BY <1>1, <1>2, LiveBefore, Zenon

\* Every step keeps the verify loop at its start.
LEMMA CursorStep == TypeOK /\ CursorAtStart /\ [Next]_vars => CursorAtStart'
<1> DEFINE Early == {"accept", "create", "activate", "receive", "record"}
<1> SUFFICES ASSUME TypeOK, CursorAtStart, [Next]_vars, NEW c \in Conn, pc'[c] \in Early
             PROVE  at'[c] = 1
  BY Zenon DEF CursorAtStart
<1>0. pc \in [Conn -> Pc] /\ at \in [Conn -> Nat]
  BY Zenon DEF TypeOK
<1>1. CASE pc'[c] = pc[c] /\ at'[c] = at[c]
  BY <1>1, Zenon DEF CursorAtStart
<1>2. ASSUME NEW t \in Transfer, Begun(c, t) PROVE at'[c] = 1
  BY <1>2, Zenon DEF Begun, Begin, TypeOK
<1>3. CASE accept_transfer(c) \/ create_transfer(c) \/ set_active(c)
  BY <1>3, Zenon DEF accept_transfer, create_transfer, set_active, set_state, local, CursorAtStart
<1>4. CASE write_chunk(c) \/ record_verified_chunk(c)
  BY <1>4, Zenon DEF write_chunk, record_verified_chunk, local, CursorAtStart
<1>5. CASE Abort(c) \/ finish_transfer(c) \/ set_interrupted(c) \/ set_failed(c)
  BY <1>0, <1>5, Zenon DEF Abort, finish_transfer, set_interrupted, set_failed, set_state, Goto
<1>6. CASE set_completed(c) \/ recheck_complete(c) \/ acknowledge(c)
  BY <1>0, <1>6, Zenon DEF set_completed, set_state, recheck_complete, acknowledge, Goto
<1>7. CASE verify_file(c)
  <2>1. CASE Goto(c, "closed") \/ Goto(c, "fail")
    BY <1>0, <2>1, Zenon DEF Goto
  <2>2. CASE Advance(c, "target")
    <3>1. Live(c) /\ pc[c] = "verify"
      BY <1>7, Zenon DEF verify_file, Live
    <3>2. Goto(c, "target") \/ Goto(c, "verify")
      BY <2>2, <3>1, AdvanceEffect, Zenon
    <3> QED
      BY <1>0, <3>2, Zenon DEF Goto
  <2> QED
    BY <1>7, <2>1, <2>2, Zenon DEF verify_file
<1>8. CASE available_target_path(c)
  BY <1>0, <1>8, Zenon DEF available_target_path, Goto
<1>9. CASE rename_file(c)
  <2>1. Goto(c, "closed") \/ Goto(c, "recheck") \/ Goto(c, "target")
    BY <1>9, RenameEffect, Zenon DEF Published
  <2> QED
    BY <1>0, <2>1, Zenon DEF Goto
<1> QED
  BY <1>1, <1>2, <1>3, <1>4, <1>5, <1>6, <1>7, <1>8, <1>9, OwnStep, BeginOn, Zenon DEF Step

-----------------------------------------------------------------------------
(* Verified .part files *)

\* A .part file changes only under a live task of its transfer, which writes a
\* chunk or renames the file its cursor is on.
LEMMA PartOwner ==
  ASSUME TypeOK, [Next]_vars, NEW t \in Transfer, NEW f \in FileIds(t),
         part'[<<t, f>>] # part[<<t, f>>]
  PROVE  \E k \in Conn : /\ Live(k) /\ on[k] = t
                         /\ \/ pc[k] = "receive" /\ todo[k] # {}
                            \/ pc[k] = "rename" /\ Published(k) /\ at[k] = f
<1>1. PICK k \in Conn : write_chunk(k) \/ rename_file(k)
  BY DiskStep, Zenon DEF disk
<1>2. part \in [Entry -> Seq(Nat) \cup {NoFile}]
  BY Zenon DEF TypeOK
<1>3. <<t, f>> \in Entry
  BY OfferTypes, Zenon
<1>4. CASE write_chunk(k)
  <2>1. pc[k] = "receive" /\ Live(k)
    BY <1>4, Zenon DEF write_chunk, Live
  <2>2. PICK x \in todo[k] : Written(k, x)
    BY <1>4, WriteChunkEffect, Zenon
  <2>3. part' = [part EXCEPT ![<<on[k], x.file>>] = part'[<<on[k], x.file>>]]
    BY <2>2, Zenon DEF Written
  <2>4. <<on[k], x.file>> = <<t, f>>
    BY <1>2, <1>3, <2>3, Zenon
  <2> QED
    BY <2>1, <2>2, <2>4, Zenon
<1>5. CASE rename_file(k)
  <2>1. pc[k] = "rename" /\ Live(k)
    BY <1>5, Zenon DEF rename_file, Live
  <2>2. Published(k)
    BY <1>5, RenameEffect, Zenon DEF disk
  <2>3. part' = [part EXCEPT ![<<on[k], at[k]>>] = NoFile]
    BY <2>2, Zenon DEF Published
  <2>4. <<on[k], at[k]>> = <<t, f>>
    BY <1>2, <1>3, <2>3, Zenon
  <2> QED
    BY <2>1, <2>2, <2>4, Zenon
<1> QED
  BY <1>1, <1>4, <1>5, Zenon

\* Without a rival, the finish loops of a task see the .part files change only
\* by their own renames.
LEMMA PartKept ==
  ASSUME TypeOK, Exclusive, [Next]_vars, NEW c \in Conn,
         pc[c] \in {"verify", "target", "rename", "recheck", "complete"}, on[c] \notin overlapped',
         NEW f \in FileIds(on[c]),
         ~ (pc[c] = "rename" /\ Published(c) /\ at[c] = f)
  PROVE  part'[<<on[c], f>>] = part[<<on[c], f>>]
<1>1. Live(c) /\ on[c] \in Transfer
  BY Zenon DEF Live, TypeOK
<1>2. SUFFICES ASSUME part'[<<on[c], f>>] # part[<<on[c], f>>] PROVE FALSE
  BY Zenon
<1>3. PICK k \in Conn : /\ Live(k) /\ on[k] = on[c]
                        /\ \/ pc[k] = "receive" /\ todo[k] # {}
                           \/ pc[k] = "rename" /\ Published(k) /\ at[k] = f
  BY <1>1, <1>2, PartOwner
<1>4. k # c
  BY <1>3, Zenon
<1>5. on[c] \in overlapped
  BY <1>1, <1>3, <1>4, Zenon DEF Exclusive
<1> QED
  BY <1>5, OverlapGrows, Zenon

\* verify_file moves on only past a .part file that is what was offered.
LEMMA VerifyPasses ==
  ASSUME TypeOK, NEW c \in Conn, verify_file(c), pc'[c] \in {"verify", "target"}
  PROVE  /\ GoodPart(on[c], at[c]) /\ UNCHANGED part /\ on'[c] = on[c]
         /\ \/ pc'[c] = "target" /\ at[c] = Len(Offer[on[c]]) /\ at'[c] = 1
            \/ pc'[c] = "verify" /\ at'[c] = at[c] + 1
<1>0. pc \in [Conn -> Pc] /\ at \in [Conn -> Nat]
  BY Zenon DEF TypeOK
<1>1. pc[c] = "verify" /\ Live(c) /\ UNCHANGED <<part, on>>
  BY Zenon DEF verify_file, Live, disk
<1>2. ~ Goto(c, "closed") /\ ~ Goto(c, "fail")
  BY <1>0, Zenon DEF Goto
<1>3. Advance(c, "target") /\ GoodPart(on[c], at[c])
  BY <1>2, Zenon DEF verify_file, GoodPart, Intact
<1>4. CASE Goto(c, "target") /\ at[c] = Len(Offer[on[c]]) /\ at' = [at EXCEPT ![c] = 1]
  BY <1>0, <1>1, <1>3, <1>4, Zenon DEF Goto
<1>5. CASE Goto(c, pc[c]) /\ at' = [at EXCEPT ![c] = at[c] + 1]
  BY <1>0, <1>1, <1>3, <1>5, Zenon DEF Goto
<1> QED
  BY <1>1, <1>3, <1>4, <1>5, AdvanceEffect, Zenon

\* How a task comes to be in the first loop.
LEMMA VerifyEntry ==
  ASSUME TypeOK, [Next]_vars, NEW c \in Conn, pc'[c] = "verify"
  PROVE  /\ on'[c] = on[c]
         /\ \/ pc[c] = "verify" /\ at'[c] = at[c]
            \/ pc[c] = "receive" /\ at'[c] = at[c]
            \/ pc[c] = "verify" /\ verify_file(c)
<1>0. pc \in [Conn -> Pc]
  BY Zenon DEF TypeOK
<1>1. CASE pc'[c] = pc[c] /\ on'[c] = on[c] /\ at'[c] = at[c]
  BY <1>1, Zenon
<1>2. CASE Abort(c) \/ \E t \in Transfer : Connect(c, t) \/ \E cs \in ResumeSizes : Resume(c, t, cs)
  BY <1>0, <1>2, Zenon DEF Abort, Connect, Resume, Goto
<1>3. CASE verify_file(c)
  BY <1>3, Zenon DEF verify_file
<1>4. CASE finish_transfer(c)
  BY <1>4, Zenon DEF finish_transfer, local
<1>5. CASE write_chunk(c)
  <2>1. Goto(c, "closed") \/ Goto(c, "record")
    BY <1>5, WriteChunkEffect, Zenon DEF Written
  <2> QED
    BY <1>0, <2>1, Zenon DEF Goto
<1>6. CASE record_verified_chunk(c)
  BY <1>0, <1>6, Zenon DEF record_verified_chunk, Goto
<1>7. CASE create_transfer(c) \/ accept_transfer(c) \/ available_target_path(c)
  BY <1>0, <1>7, Zenon DEF create_transfer, accept_transfer, available_target_path, Goto
<1>8. CASE set_active(c) \/ set_interrupted(c) \/ set_failed(c) \/ set_completed(c)
  BY <1>0, <1>8, Zenon DEF set_active, set_interrupted, set_failed, set_completed, set_state, Goto
<1>9. CASE recheck_complete(c) \/ acknowledge(c)
  BY <1>0, <1>9, Zenon DEF recheck_complete, acknowledge, Goto
<1>10. CASE rename_file(c)
  <2>1. Goto(c, "closed") \/ Goto(c, "recheck") \/ Goto(c, "target")
    BY <1>10, RenameEffect, Zenon DEF Published
  <2> QED
    BY <1>0, <2>1, Zenon DEF Goto
<1> QED
  BY <1>1, <1>2, <1>3, <1>4, <1>5, <1>6, <1>7, <1>8, <1>9, <1>10, OwnStep, ZenonT(30) DEF Step

-----------------------------------------------------------------------------
(* The invariant is inductive *)

\* What the verify loop has hashed stays as it was, without a rival task.
LEMMA PartsStep ==
  TypeOK /\ Exclusive /\ CursorAtStart /\ PartsVerified /\ [Next]_vars => PartsVerified'
<1> SUFFICES ASSUME TypeOK, Exclusive, CursorAtStart, PartsVerified, [Next]_vars,
                    NEW c \in Conn, pc'[c] \in {"verify", "target", "rename"},
                    on'[c] \notin overlapped', NEW f \in FileIds(on'[c]),
                    pc'[c] = "verify" => f < at'[c],
                    pc'[c] \in {"target", "rename"} => f >= at'[c]
             PROVE  part'[<<on'[c], f>>] # NoFile /\ Intact(on'[c], f, part'[<<on'[c], f>>])
  BY DEF PartsVerified, GoodPart, Intact
<1>1. on'[c] = on[c] /\ on[c] \notin overlapped' /\ on[c] \notin overlapped
  BY VerifyEntry, LoopEntry, OverlapGrows, Zenon
<1>2. ASSUME pc[c] \in {"verify", "target", "rename"}
      PROVE  on[c] \in Transfer /\ at[c] \in Nat /\ f \in FileIds(on[c])
             /\ FileIds(on[c]) = 1 .. Len(Offer[on[c]]) /\ Len(Offer[on[c]]) \in Nat
  BY <1>1, <1>2, OfferTypes, Zenon DEF TypeOK
<1>3. ASSUME pc[c] \in {"verify", "target", "rename"}, GoodPart(on[c], f),
             ~ (pc[c] = "rename" /\ Published(c) /\ at[c] = f)
      PROVE  part'[<<on'[c], f>>] # NoFile /\ Intact(on'[c], f, part'[<<on'[c], f>>])
  <2>1. part'[<<on[c], f>>] = part[<<on[c], f>>]
    BY <1>1, <1>2, <1>3, PartKept, Zenon
  <2> QED
    BY <1>1, <1>3, <2>1, Zenon DEF GoodPart
<1>4. CASE pc'[c] = "verify"
  <2>1. CASE pc[c] = "verify" /\ at'[c] = at[c]
    <3>1. GoodPart(on[c], f)
      BY <1>1, <1>2, <1>4, <2>1, Zenon DEF PartsVerified
    <3> QED
      BY <1>3, <2>1, <3>1, Zenon
  <2>2. CASE pc[c] = "receive" /\ at'[c] = at[c]
    <3>1. at'[c] = 1 /\ on[c] \in Transfer
      BY <2>2, Zenon DEF CursorAtStart, TypeOK
    <3>2. f \in 1 .. Len(Offer[on[c]]) /\ Len(Offer[on[c]]) \in Nat
      BY <1>1, <3>1, OfferTypes, Zenon
    <3> QED
      BY <1>4, <3>1, <3>2
  <2>3. CASE pc[c] = "verify" /\ verify_file(c)
    <3>1. GoodPart(on[c], at[c]) /\ at'[c] = at[c] + 1
      BY <1>4, <2>3, VerifyPasses, Zenon
    <3>2. f = at[c] \/ f < at[c]
      BY <1>2, <1>4, <2>3, <3>1
    <3>3. GoodPart(on[c], f)
      BY <1>1, <1>2, <2>3, <3>1, <3>2, Zenon DEF PartsVerified
    <3> QED
      BY <1>3, <2>3, <3>3, Zenon
  <2> QED
    BY <1>4, <2>1, <2>2, <2>3, VerifyEntry, Zenon
<1>5. CASE pc'[c] \in {"target", "rename"}
  <2>1. CASE pc[c] = "verify" /\ pc'[c] = "target" /\ verify_file(c)
    <3>1. GoodPart(on[c], at[c]) /\ at[c] = Len(Offer[on[c]])
      BY <2>1, VerifyPasses, Zenon
    <3>2. f = at[c] \/ f < at[c]
      BY <1>2, <2>1, <3>1
    <3>3. GoodPart(on[c], f)
      BY <1>1, <1>2, <2>1, <3>1, <3>2, Zenon DEF PartsVerified
    <3> QED
      BY <1>3, <2>1, <3>3, Zenon
  <2>2. CASE pc[c] = "rename" /\ at'[c] = at[c] + 1
    <3>1. f >= at[c] /\ at[c] # f
      BY <1>2, <1>5, <2>2
    <3>2. GoodPart(on[c], f)
      BY <1>1, <1>2, <2>2, <3>1, Zenon DEF PartsVerified
    <3> QED
      BY <1>3, <2>2, <3>1, <3>2, Zenon
  <2>3. CASE pc[c] \in {"target", "rename"} /\ at'[c] = at[c] /\ (pc'[c] = pc[c] \/ pc'[c] = "rename")
    <3>1. GoodPart(on[c], f)
      BY <1>1, <1>2, <1>5, <2>3, Zenon DEF PartsVerified
    <3>2. pc \in [Conn -> Pc] /\ at \in [Conn -> Nat]
      BY Zenon DEF TypeOK
    <3>3. ASSUME Published(c) PROVE pc'[c] = "recheck" \/ at'[c] = at[c] + 1
      BY <3>2, <3>3, Zenon DEF Published, Goto
    <3>4. ~ Published(c)
      BY <1>5, <2>3, <3>2, <3>3
    <3> QED
      BY <1>3, <2>3, <3>1, <3>4, Zenon
  <2> QED
    BY <1>5, <2>1, <2>2, <2>3, LoopEntry, Zenon
<1> QED
  BY <1>4, <1>5, Zenon

\* A delivery is of a file the task's cursor is on.
LEMMA DeliveredBy ==
  ASSUME TypeOK, [Next]_vars, delivered' # delivered
  PROVE  \E k \in Conn : /\ pc[k] = "rename" /\ Published(k)
                         /\ UNCHANGED <<transfers, overlapped>>
<1>1. PICK k \in Conn : write_chunk(k) \/ rename_file(k)
  BY DiskStep, Zenon DEF disk
<1>2. rename_file(k)
  BY <1>1, Zenon DEF write_chunk
<1>3. Published(k)
  BY <1>2, RenameEffect, Zenon DEF disk
<1> QED
  BY <1>2, <1>3, Zenon DEF rename_file, store

\* Every step keeps IntactInv.
LEMMA IntactStep == TypeOK /\ IntactInv /\ [Next]_vars => IntactInv'
<1> SUFFICES ASSUME TypeOK, IntactInv, [Next]_vars PROVE IntactInv'
  BY Zenon
<1>1. ASSUME NEW d \in delivered', d.transfer \notin overlapped'
      PROVE  Intact(d.transfer, d.file, d.data)
  <2>1. d.transfer \notin overlapped
    BY <1>1, OverlapGrows, Zenon
  <2>2. CASE d \in delivered
    BY <2>1, <2>2, Zenon DEF IntactInv, DeliveredIntact
  <2>3. CASE d \notin delivered
    <3>1. PICK k \in Conn : pc[k] = "rename" /\ Published(k)
      BY <1>1, <2>3, DeliveredBy, Zenon
    <3>2. d = [transfer |-> on[k], file |-> at[k], data |-> part[<<on[k], at[k]>>]]
      BY <1>1, <2>3, <3>1, Zenon DEF Published
    <3>3. at[k] \in FileIds(on[k]) /\ at[k] \in Nat
      BY <3>1, Zenon DEF TypeOK
    <3>4. GoodPart(on[k], at[k])
      BY <2>1, <3>1, <3>2, <3>3 DEF IntactInv, PartsVerified
    <3> QED
      BY <3>2, <3>4, Zenon DEF GoodPart
  <2> QED
    BY <2>2, <2>3, Zenon
<1>2. DeliveredIntact'
  BY <1>1, Zenon DEF DeliveredIntact, Intact
<1> QED
  BY <1>2, ExclusiveStep, CursorStep, PartsStep, Zenon DEF IntactInv

\* IntactInv holds in the beginning.
LEMMA IntactInit == Init => IntactInv
BY Zenon DEF Init, IntactInv, Exclusive, Live, CursorAtStart, PartsVerified, DeliveredIntact

\* finish_transfer verifies every .part file before it renames the first one.
\* For every set of transfers, tasks, contents and chunk sizes: a file that
\* reaches the inbox has the offered size and digest, unless two tasks worked
\* on its transfer at once.
THEOREM VerifiedIsPublished == Spec => []DeliveredIntact
<1>1. Spec => []IntactInv
  BY TypeCorrect, IntactInit, IntactStep, PTL DEF Spec
<1>2. IntactInv => DeliveredIntact
  BY Zenon DEF IntactInv
<1> QED
  BY <1>1, <1>2, PTL

-----------------------------------------------------------------------------
(* Every step of a task is a step of the service or changes nothing it shows *)

\* The transfers the service calls settled.
Settled == {t \in Transfer : transfers[t] = "completed"}

ServiceVars == <<overlapped, delivered, Settled>>

\* rename_file publishes one file of the transfer.
LEMMA PublishRefines ==
  ASSUME TypeOK, IntactInv, [Next]_vars, delivered' # delivered
  PROVE  Service!PublishOne
<1>1. PICK k \in Conn : pc[k] = "rename" /\ Published(k) /\ UNCHANGED <<transfers, overlapped>>
  BY DeliveredBy, Zenon
<1> DEFINE file == [transfer |-> on[k], file |-> at[k], data |-> part[<<on[k], at[k]>>]]
<1>2. delivered' = delivered \cup {file}
  BY <1>1, Zenon DEF Published
<1>3. on[k] \in Transfer /\ at[k] \in FileIds(on[k]) /\ at[k] \in Nat
  BY <1>1, Zenon DEF TypeOK
<1>4. on[k] \notin overlapped => Intact(on[k], at[k], part[<<on[k], at[k]>>])
  BY <1>1, <1>3 DEF IntactInv, PartsVerified, GoodPart
<1>5. file.transfer = on[k] /\ file.file = at[k] /\ file.data = part[<<on[k], at[k]>>]
  BY Zenon
<1>6. UNCHANGED Settled
  BY <1>1, Zenon DEF Settled
<1> HIDE DEF file
<1>7. Service!Publish(file)
  BY <1>1, <1>2, <1>4, <1>5, <1>6, Zenon DEF Service!Publish, Settled
<1>8. file \in delivered' /\ file.transfer \in Transfer
      /\ file.file \in [t \in Transfer |-> FileIds(t)][file.transfer]
  BY <1>2, <1>3, <1>5, Zenon
<1> QED
  BY <1>7, <1>8, Zenon DEF Service!PublishOne

\* A transfer becomes contended when a task is given one a live task works on.
LEMMA ContendRefines ==
  ASSUME [Next]_vars, overlapped' # overlapped
  PROVE  \E t \in Transfer : Service!Contend(t)
<1>1. PICK c \in Conn, t \in Transfer : Begun(c, t)
  BY BeginOn, StepOn, Zenon DEF Next, vars
<1>2. overlapped' = overlapped \cup {t}
  BY <1>1, Zenon DEF Begun, Begin
<1>3. UNCHANGED <<delivered, Settled>>
  BY <1>1, Zenon DEF Begun, store, disk, Settled
<1> QED
  BY <1>2, <1>3, Zenon DEF Service!Contend, Settled

\* The writers of transfers.state settle a transfer, reopen it or do neither.
LEMMA StateRefines ==
  ASSUME TypeOK, PublishInv', [Next]_vars, transfers' # transfers
  PROVE  UNCHANGED ServiceVars \/ \E t \in Transfer : Service!Settle(t) \/ Service!Reopen(t)
<1>1. PICK c \in Conn : create_transfer(c) \/ set_active(c) \/ set_interrupted(c) \/ set_failed(c) \/ set_completed(c)
  BY StateStep, Zenon
<1>2. on[c] \in Transfer /\ transfers \in [Transfer -> TransferState]
  BY <1>1, Zenon
  DEF create_transfer, set_active, set_interrupted, set_failed, set_completed, set_state, TypeOK
<1>3. UNCHANGED <<delivered, overlapped>>
  BY <1>1, Zenon
  DEF create_transfer, set_active, set_interrupted, set_failed, set_completed, set_state, disk
<1>4. PICK t \in Transfer : t = on[c]
  BY <1>2, Zenon
<1>5. CASE create_transfer(c)
  <2>1. transfers[on[c]] = "none" /\ transfers' = [transfers EXCEPT ![on[c]] = "pending"]
    BY <1>5, Zenon DEF create_transfer
  <2>2. Settled' = Settled
    BY <1>2, <2>1, Zenon DEF Settled
  <2> QED
    BY <1>3, <2>2, Zenon DEF ServiceVars
<1>6. CASE set_active(c) \/ set_interrupted(c) \/ set_failed(c)
  <2>1. PICK s \in {"active", "interrupted", "failed"} : transfers' = [transfers EXCEPT ![on[c]] = s]
    BY <1>6, Zenon DEF set_active, set_interrupted, set_failed, set_state
  <2>2. Settled' = Settled \ {t}
    BY <1>2, <1>4, <2>1, Zenon DEF Settled
  <2>3. Service!Reopen(t)
    BY <1>3, <2>2, Zenon DEF Service!Reopen, Settled
  <2> QED
    BY <2>3, Zenon
<1>7. CASE set_completed(c)
  <2>1. transfers' = [transfers EXCEPT ![on[c]] = "completed"]
    BY <1>7, Zenon DEF set_completed, set_state
  <2>2. Settled' = Settled \cup {t}
    BY <1>2, <1>4, <2>1, Zenon DEF Settled
  <2>3. transfers'[t] = "completed"
    BY <1>2, <1>4, <2>1, Zenon
  <2>4. \A f \in FileIds(t) : \E d \in delivered : d.transfer = t /\ d.file = f
    BY <1>3, <2>3, ZenonT(40) DEF PublishInv, CompletedDelivered, IsDelivered
  <2>5. Service!Settle(t)
    BY <1>3, <2>2, <2>4, Zenon DEF Service!Settle, Settled
  <2> QED
    BY <2>5, Zenon
<1> QED
  BY <1>1, <1>5, <1>6, <1>7, Zenon

\* The initial states are initial states of the abstract service.
LEMMA ServiceInit == Init => Service!Init
BY Zenon DEF Init, Service!Init

\* Every step is a step of the abstract service, or changes nothing it sees.
LEMMA ServiceStep ==
  TypeOK /\ IntactInv /\ PublishInv' /\ [Next]_vars => [Service!Next]_(Service!vars)
<1> SUFFICES ASSUME TypeOK, IntactInv, PublishInv', [Next]_vars
             PROVE  Service!Next \/ UNCHANGED ServiceVars
  BY Zenon DEF Service!vars, ServiceVars, Settled
<1>1. CASE delivered' # delivered
  BY <1>1, PublishRefines, Zenon DEF Service!Next
<1>2. CASE overlapped' # overlapped
  BY <1>2, ContendRefines, Zenon DEF Service!Next
<1>3. CASE transfers' # transfers
  BY <1>3, StateRefines, Zenon DEF Service!Next
<1>4. CASE UNCHANGED <<delivered, overlapped, transfers>>
  BY <1>4, Zenon DEF ServiceVars, Settled
<1> QED
  BY <1>1, <1>2, <1>3, <1>4, Zenon

\* The native receiver keeps the promises of InboxService for every instance:
\* what it publishes was offered, and a transfer it reports Completed has all
\* of its files in the inbox, whatever tasks interleave, fail or are retried.
THEOREM ReceiverImplementsService == Spec => ImplementsService
<1>1. Spec => [](TypeOK /\ IntactInv /\ PublishInv)
  <2>1. Init => TypeOK /\ IntactInv /\ PublishInv
    BY TypeInit, IntactInit, PublishInit, Zenon
  <2>2. TypeOK /\ IntactInv /\ PublishInv /\ [Next]_vars => (TypeOK /\ IntactInv /\ PublishInv)'
    BY TypeStep, IntactStep, PublishStep, Zenon
  <2> QED
    BY <2>1, <2>2, PTL DEF Spec
<1> QED
  BY <1>1, ServiceInit, ServiceStep, PTL DEF Spec, ImplementsService, Service!Spec

-----------------------------------------------------------------------------
(* A rename replaces nothing *)

\* A task about to rename holds a name of the file its cursor is on, and no file
\* of that name has appeared since it looked, unless others publish under it.
TargetFree ==
  \A c \in Conn : pc[c] = "rename" =>
    /\ target[c][1] = Offer[on[c]][at[c]].name
    /\ inbox[target[c]] = NoFile \/ SharedName(target[c][1])

\* An inbox name changes only by the rename of a task that picked it.
LEMMA InboxOwner ==
  ASSUME TypeOK, [Next]_vars, NEW n \in Target, inbox'[n] # inbox[n]
  PROVE  \E k \in Conn : /\ pc[k] = "rename" /\ target[k] = n /\ Published(k)
                         /\ UNCHANGED overlapped
<1>1. PICK k \in Conn : write_chunk(k) \/ rename_file(k)
  BY DiskStep, Zenon DEF disk
<1>2. rename_file(k)
  BY <1>1, Zenon DEF write_chunk
<1>3. Published(k) /\ pc[k] = "rename" /\ UNCHANGED overlapped
  BY <1>2, RenameEffect, Zenon DEF disk, rename_file
<1>4. inbox' = [inbox EXCEPT ![target[k]] = inbox'[target[k]]] /\ inbox \in [Target -> Seq(Nat) \cup {NoFile}]
  BY <1>3, Zenon DEF Published, TypeOK
<1>5. target[k] = n
  BY <1>4, Zenon
<1> QED
  BY <1>3, <1>5, Zenon

\* Two tasks that publish under one name make it shared.
LEMMA RivalsShare ==
  ASSUME TypeOK, Exclusive, NEW c \in Conn, NEW k \in Conn, c # k, pc[c] = "rename", pc[k] = "rename",
         Offer[on[c]][at[c]].name = Offer[on[k]][at[k]].name
  PROVE  SharedName(Offer[on[c]][at[c]].name)
<1>1. /\ on[c] \in Transfer /\ at[c] \in FileIds(on[c]) /\ Live(c)
      /\ on[k] \in Transfer /\ at[k] \in FileIds(on[k]) /\ Live(k)
  BY Zenon DEF TypeOK, Live
<1>2. CASE on[c] = on[k]
  <2>1. on[c] \in overlapped
    BY <1>1, <1>2, Zenon DEF Exclusive
  <2> QED
    BY <1>1, <2>1, Zenon DEF SharedName
<1>3. CASE on[c] # on[k]
  BY <1>1, <1>3, Zenon DEF SharedName
<1> QED
  BY <1>2, <1>3, Zenon

\* available_target_path picks a name that no file has.
LEMMA TargetPicked ==
  ASSUME TypeOK, NEW c \in Conn, available_target_path(c), pc'[c] = "rename"
  PROVE  /\ inbox[target'[c]] = NoFile /\ UNCHANGED <<inbox, on, at>>
         /\ target'[c][1] = Offer[on[c]][at[c]].name
<1>1. pc \in [Conn -> Pc] /\ target \in [Conn -> Target \cup {NoTarget}]
  BY Zenon DEF TypeOK
<1>2. ~ Goto(c, "closed")
  BY <1>1, Zenon DEF Goto
<1>3. PICK k \in 0 .. MaxSuffix :
        /\ inbox[<<Offer[on[c]][at[c]].name, k>>] = NoFile
        /\ target' = [target EXCEPT ![c] = <<Offer[on[c]][at[c]].name, k>>]
  BY <1>2, Zenon DEF available_target_path
<1>4. target'[c] = <<Offer[on[c]][at[c]].name, k>>
  BY <1>1, <1>3, Zenon
<1>5. UNCHANGED <<inbox, on, at>>
  BY Zenon DEF available_target_path, disk
<1>6. ASSUME NEW name, NEW pick, pick = <<name, k>> PROVE pick[1] = name
  BY <1>6
<1> QED
  BY <1>3, <1>4, <1>5, <1>6, Zenon

\* Every step keeps the name that a task is about to rename to free.
LEMMA TargetStep == TypeOK /\ Exclusive /\ TargetFree /\ [Next]_vars => TargetFree'
<1> SUFFICES ASSUME TypeOK, Exclusive, TargetFree, [Next]_vars, NEW c \in Conn, pc'[c] = "rename"
             PROVE  /\ target'[c][1] = Offer[on'[c]][at'[c]].name
                    /\ inbox'[target'[c]] = NoFile \/ SharedName(target[c][1])'
  BY Zenon DEF TargetFree
<1>1. CASE pc[c] = "rename" /\ on'[c] = on[c] /\ at'[c] = at[c] /\ target'[c] = target[c]
  <2>1. target[c] \in Target /\ target[c][1] = Offer[on[c]][at[c]].name
    BY <1>1, Zenon DEF TypeOK, TargetFree
  <2>2. CASE SharedName(target[c][1])
    <3>1. SharedName(target[c][1])'
      BY <1>1, <2>2, OverlapGrows, Zenon DEF SharedName
    <3> QED
      BY <1>1, <2>1, <3>1, Zenon
  <2>3. CASE inbox'[target[c]] = inbox[target[c]]
    BY <1>1, <2>1, <2>2, <2>3, Zenon DEF TargetFree
  <2>4. CASE inbox'[target[c]] # inbox[target[c]]
    <3>1. PICK k \in Conn : pc[k] = "rename" /\ target[k] = target[c] /\ Published(k)
      BY <2>1, <2>4, InboxOwner, Zenon
    <3>2. pc \in [Conn -> Pc] /\ (Goto(k, "recheck") \/ Goto(k, "target"))
      BY <3>1, Zenon DEF Published, TypeOK
    <3>3. k # c
      BY <3>2, Zenon DEF Goto
    <3>4. target[k][1] = Offer[on[k]][at[k]].name
      BY <3>1, Zenon DEF TargetFree
    <3>5. Offer[on[c]][at[c]].name = Offer[on[k]][at[k]].name
      BY <2>1, <3>1, <3>4, Zenon
    <3>6. SharedName(Offer[on[c]][at[c]].name)
      BY <1>1, <3>1, <3>3, <3>5, RivalsShare, Zenon
    <3> QED
      BY <2>1, <2>2, <3>6, Zenon
  <2> QED
    BY <2>3, <2>4, Zenon
<1>2. CASE available_target_path(c)
  BY <1>2, TargetPicked, Zenon
<1> QED
  BY <1>1, <1>2, LoopEntry, Zenon

\* available_target_path looks before rename_file acts, and nothing comes between
\* them. For every set of transfers, tasks and names: a rename never replaces a
\* file of the inbox, unless the name is shared with another transfer or rival
\* tasks worked on one transfer.
THEOREM RenameReplacesNothing == Spec => NoSilentReplace
<1>1. Init => TypeOK /\ IntactInv /\ TargetFree
  BY TypeInit, IntactInit, Zenon DEF Init, TargetFree
<1>2. TypeOK /\ IntactInv /\ TargetFree /\ [Next]_vars => (TypeOK /\ IntactInv /\ TargetFree)'
  BY TypeStep, IntactStep, TargetStep, Zenon DEF IntactInv
<1>3. ASSUME TypeOK, TargetFree, [Next]_vars, NEW n \in Target, inbox[n] # NoFile, inbox'[n] # inbox[n]
      PROVE  SharedName(n[1])
  <2>1. PICK k \in Conn : pc[k] = "rename" /\ target[k] = n
    BY <1>3, InboxOwner, Zenon
  <2>2. inbox[target[k]] = NoFile \/ SharedName(target[k][1])
    BY <1>3, <2>1, Zenon DEF TargetFree
  <2> QED
    BY <1>3, <2>1, <2>2, Zenon
<1>4. TypeOK /\ IntactInv /\ TargetFree /\ [Next]_vars =>
        [\A n \in Target : inbox[n] # NoFile /\ inbox'[n] # inbox[n] => SharedName(n[1])]_vars
  BY <1>3, Zenon
<1> QED
  BY <1>1, <1>2, <1>4, PTL DEF Spec, NoSilentReplace

-----------------------------------------------------------------------------
(* A completed transfer stays completed *)

\* Without a rival, a task that publishes leaves no .part file behind its cursor,
\* none at all once it is past the loop, and writes Completed only over a
\* complete manifest.
LoopEmpties ==
  \A c \in Conn : \A t \in Transfer : on[c] = t /\ t \notin overlapped =>
    /\ pc[c] \in {"target", "rename"} => \A f \in FileIds(t) : f < at[c] => part[<<t, f>>] = NoFile
    /\ pc[c] \in {"recheck", "complete"} => \A f \in FileIds(t) : part[<<t, f>>] = NoFile
    /\ pc[c] = "complete" => transfer_complete(t)

\* A finished transfer: its manifest is complete and its .part files are gone. A
\* task that resumes it has nothing to send, and ends at the first .part file it
\* cannot read; a task that was asked for it anew has not written yet.
Finished(t) ==
  /\ transfer_complete(t)
  /\ \A f \in FileIds(t) : part[<<t, f>>] = NoFile
  /\ \A c \in Conn : on[c] = t =>
       /\ pc[c] \in {"idle", "accept", "create", "activate", "receive", "verify", "ack", "done", "closed"}
       /\ pc[c] = "receive" => todo[c] = {}
       /\ pc[c] = "verify" => at[c] = 1

SettledQuiet == \A t \in Transfer : transfers[t] = "completed" /\ t \notin overlapped => Finished(t)

\* There is nothing to resume in a complete transfer, whatever the chunk size.
LEMMA NothingToResume ==
  ASSUME NEW t \in Transfer, transfer_complete(t), NEW cs \in ResumeSizes
  PROVE  resume_plan(t, cs) = {}
<1>1. cs \in Nat \ {0}
  BY BoundsAssumption
<1>2. SUFFICES ASSUME NEW f \in FileIds(t), NEW r \in missing_ranges(t, f, cs) PROVE FALSE
  BY Zenon DEF resume_plan, ChunksOf
<1> DEFINE size == Offer[t][f].size
           merged == merge_ranges(verified_ranges(RowsOf(t, f)))
<1>3. r \in Range(plan_chunks(size, cs)) /\ ~ range_fully_covered(r, merged)
  BY Zenon DEF missing_ranges
<1>4. size \in Nat
  BY OfferTypes, Zenon
<1>5. /\ r.offset \in Nat /\ r.length \in Nat /\ r.length > 0
      /\ r.offset + r.length <= size
  BY <1>1, <1>3, <1>4, PlanInFile
<1>6. size # 0
  BY <1>4, <1>5
<1>7. merged = <<[offset |-> 0, length |-> size]>>
  BY <1>6, Zenon DEF transfer_complete, ranges_cover
<1> HIDE DEF merged, size
<1>8. [offset |-> 0, length |-> size] \in Range(merged)
  BY <1>7 DEF Range
<1> QED
  BY <1>3, <1>4, <1>5, <1>8 DEF range_fully_covered

\* A transfer that has a row keeps one.
LEMMA RowExists ==
  ASSUME TypeOK, [Next]_vars, NEW t \in Transfer, transfers[t] # "none"
  PROVE  transfers'[t] # "none"
<1>1. SUFFICES ASSUME ~ UNCHANGED transfers PROVE transfers'[t] # "none"
  BY Zenon
<1>2. PICK c \in Conn : create_transfer(c) \/ set_active(c) \/ set_interrupted(c) \/ set_failed(c) \/ set_completed(c)
  BY <1>1, StateStep, Zenon
<1>3. on[c] \in Transfer /\ transfers \in [Transfer -> TransferState]
  BY <1>2, Zenon
  DEF create_transfer, set_active, set_interrupted, set_failed, set_completed, set_state, TypeOK
<1>4. \/ UNCHANGED transfers
      \/ \E s \in {"pending", "active", "interrupted", "failed", "completed"} :
           transfers' = [transfers EXCEPT ![on[c]] = s]
  BY <1>2, Zenon DEF create_transfer, set_active, set_interrupted, set_failed, set_completed, set_state
<1> QED
  BY <1>3, <1>4, Zenon

\* A manifest stays complete while no task records a chunk of it.
LEMMA CompleteKept ==
  ASSUME TypeOK, [Next]_vars, NEW t \in Transfer, transfer_complete(t),
         \A k \in Conn : on[k] = t => pc[k] # "record"
  PROVE  transfer_complete(t)'
<1>1. \A f \in FileIds(t) : RowsOf(t, f)' = RowsOf(t, f)
  <2>1. CASE UNCHANGED verified
    BY <2>1, Zenon DEF RowsOf
  <2>2. ASSUME NEW k \in Conn, record_verified_chunk(k)
        PROVE  \A f \in FileIds(t) : RowsOf(t, f)' = RowsOf(t, f)
    <3>1. on[k] # t
      BY <2>2, Zenon DEF record_verified_chunk
    <3>2. PICK x \in todo[k] : Recorded(k, x)
      BY <2>2, RecordEffect, Zenon
    <3>3. \A v : v.transfer = t => (v \in verified' <=> v \in verified)
      <4>1. RowOf(on[k], x).transfer # t
        BY <3>1 DEF RowOf
      <4> QED
        BY <3>1, <3>2, <4>1, Zenon DEF Recorded
    <3>4. ASSUME NEW f \in FileIds(t)
          PROVE  {v \in verified' : v.transfer = t /\ v.file = f} = {v \in verified : v.transfer = t /\ v.file = f}
      BY <3>3, Zenon
    <3> QED
      BY <3>4, Zenon DEF RowsOf
  <2> QED
    BY <2>1, <2>2, RowStep, Zenon
<1>2. transfers'[t] # "none"
  BY RowExists, Zenon DEF transfer_complete
<1> QED
  BY <1>1, <1>2, Zenon DEF transfer_complete

\* Every step of a task, its own or a stranger's, keeps LoopEmpties.
LEMMA EmptiesStep == TypeOK /\ Exclusive /\ LoopEmpties /\ [Next]_vars => LoopEmpties'
<1> DEFINE InLoop(d) == pc'[d] \in {"target", "rename", "recheck", "complete"}
<1> SUFFICES ASSUME TypeOK, Exclusive, LoopEmpties, [Next]_vars, NEW c \in Conn, NEW t \in Transfer,
                    on'[c] = t, t \notin overlapped', InLoop(c)
             PROVE  /\ pc'[c] \in {"target", "rename"} =>
                         \A f \in FileIds(t) : f < at'[c] => part'[<<t, f>>] = NoFile
                    /\ pc'[c] \in {"recheck", "complete"} => \A f \in FileIds(t) : part'[<<t, f>>] = NoFile
                    /\ pc'[c] = "complete" => transfer_complete(t)'
  BY Zenon DEF LoopEmpties
<1>1. on[c] = t /\ t \notin overlapped
  BY LoopEntry, OverlapGrows, Zenon
<1>2. FileIds(t) = 1 .. Len(Offer[t]) /\ Len(Offer[t]) \in Nat
  BY OfferTypes, Zenon
<1>3. /\ pc \in [Conn -> Pc] /\ at \in [Conn -> Nat]
      /\ part \in [Entry -> Seq(Nat) \cup {NoFile}]
  BY Zenon DEF TypeOK
<1>4. ASSUME pc[c] \in {"target", "rename", "recheck", "complete"}, NEW f \in FileIds(t),
             part[<<t, f>>] = NoFile
      PROVE  part'[<<t, f>>] = NoFile
  <2>1. CASE pc[c] = "rename" /\ Published(c) /\ at[c] = f
    BY <1>1, <1>4, <2>1, Zenon DEF Published
  <2> QED
    BY <1>1, <1>4, <2>1, PartKept, Zenon
<1>5. CASE pc[c] = "verify" /\ pc'[c] = "target" /\ at'[c] = 1
  BY <1>2, <1>5
<1>6. CASE pc[c] \in {"target", "rename"} /\ pc'[c] \in {"target", "rename"} /\ at'[c] = at[c]
  BY <1>1, <1>4, <1>6 DEF LoopEmpties
<1>7. CASE pc[c] = "rename" /\ Published(c)
  <2>1. part' = [part EXCEPT ![<<t, at[c]>>] = NoFile]
    BY <1>1, <1>7, Zenon DEF Published
  <2>2. ASSUME NEW f \in FileIds(t), f <= at[c] PROVE part'[<<t, f>>] = NoFile
    <3>1. CASE f = at[c]
      <4>1. <<t, f>> \in Entry
        BY OfferTypes, Zenon
      <4> QED
        BY <1>3, <2>1, <3>1, <4>1, Zenon
    <3>2. CASE f < at[c]
      BY <1>1, <1>4, <1>7, <3>2, Zenon DEF LoopEmpties
    <3> QED
      BY <1>2, <1>3, <2>2, <3>1, <3>2
  <2>3. CASE Goto(c, "recheck") /\ at[c] = Len(Offer[on[c]])
    <3>1. pc'[c] = "recheck"
      BY <1>3, <2>3, Zenon DEF Goto
    <3>2. \A f \in FileIds(t) : f <= at[c]
      BY <1>1, <1>2, <2>3
    <3> QED
      BY <2>2, <3>1, <3>2, Zenon
  <2>4. CASE Goto(c, "target") /\ at' = [at EXCEPT ![c] = at[c] + 1]
    <3>1. pc'[c] = "target" /\ at'[c] = at[c] + 1
      BY <1>3, <2>4, Zenon DEF Goto
    <3>2. \A f \in FileIds(t) : f < at'[c] => f <= at[c]
      BY <1>2, <1>3, <3>1
    <3> QED
      BY <2>2, <3>1, <3>2, Zenon
  <2> QED
    BY <1>7, <2>3, <2>4, Zenon DEF Published
<1>8. CASE pc[c] = "recheck" /\ pc'[c] = "recheck"
  BY <1>1, <1>4, <1>8, Zenon DEF LoopEmpties
<1>9. CASE pc'[c] = "complete" /\ pc[c] = "recheck" /\ recheck_complete(c)
  <2>1. transfer_complete(t)
    BY <1>1, <1>3, <1>9, Zenon DEF recheck_complete, Goto
  <2>2. transfer_complete(t)'
    BY <1>9, <2>1, Zenon DEF recheck_complete, store, transfer_complete, RowsOf
  <2> QED
    BY <1>1, <1>4, <1>9, <2>2, Zenon DEF LoopEmpties
<1>10. CASE pc[c] = "complete" /\ pc'[c] = "complete"
  <2>1. ASSUME NEW k \in Conn, on[k] = t PROVE pc[k] # "record"
    BY <1>1, <1>10, <2>1, Zenon DEF Exclusive, Live
  <2>2. transfer_complete(t)'
    BY <1>1, <1>10, <2>1, CompleteKept, Zenon DEF LoopEmpties
  <2> QED
    BY <1>1, <1>4, <1>10, <2>2, Zenon DEF LoopEmpties
<1> QED
  BY <1>5, <1>6, <1>7, <1>8, <1>9, <1>10, LoopEntry, Zenon

\* What the step of a task of a finished transfer may lead to.
LEMMA QuietTask ==
  ASSUME TypeOK, CursorAtStart, [Next]_vars, NEW t \in Transfer, Finished(t),
         transfers[t] = "completed", transfers'[t] = "completed", NEW c \in Conn, on'[c] = t
  PROVE  /\ pc'[c] \in {"idle", "accept", "create", "activate", "receive", "verify", "ack", "done", "closed"}
         /\ pc'[c] = "receive" => todo'[c] = {}
         /\ pc'[c] = "verify" => at'[c] = 1
<1> DEFINE Quiet == /\ pc'[c] \in {"idle", "accept", "create", "activate", "receive", "verify", "ack", "done", "closed"}
                    /\ pc'[c] = "receive" => todo'[c] = {}
                    /\ pc'[c] = "verify" => at'[c] = 1
<1>1. /\ pc \in [Conn -> Pc] /\ todo \in [Conn -> SUBSET Chunk] /\ on \in [Conn -> Transfer \cup {NoTransfer}]
      /\ transfers \in [Transfer -> TransferState]
  BY Zenon DEF TypeOK
<1>2. CASE pc'[c] = pc[c] /\ on'[c] = on[c] /\ todo'[c] = todo[c] /\ at'[c] = at[c]
  BY <1>2, Zenon DEF Finished
<1>3. ASSUME NEW u \in Transfer, Connect(c, u) PROVE Quiet
  BY <1>1, <1>3, Zenon DEF Connect, Goto
<1>4. ASSUME NEW u \in Transfer, NEW cs \in ResumeSizes, Resume(c, u, cs) PROVE Quiet
  <2>1. /\ on' = [on EXCEPT ![c] = u] /\ todo' = [todo EXCEPT ![c] = resume_plan(u, cs)]
        /\ Goto(c, "receive")
    BY <1>4, Zenon DEF Resume, Begin
  <2>2. u = t
    BY <1>1, <2>1, Zenon
  <2>3. resume_plan(u, cs) = {}
    BY <2>2, NothingToResume, Zenon DEF Finished
  <2> QED
    BY <1>1, <2>1, <2>3, Zenon DEF Goto
<1>5. ASSUME Step(c) \/ Abort(c)
      PROVE  /\ on[c] = t /\ pc[c] \in {"accept", "create", "activate", "receive", "verify", "ack"}
             /\ pc[c] = "receive" => todo[c] = {}
             /\ pc[c] = "verify" => at[c] = 1
  BY <1>5, StepOn, Zenon DEF Finished, Live
<1>6. CASE Abort(c) \/ acknowledge(c) \/ accept_transfer(c) \/ create_transfer(c)
  BY <1>1, <1>6, Zenon DEF Abort, acknowledge, accept_transfer, create_transfer, Goto
<1>7. CASE set_active(c)
  BY <1>1, <1>5, <1>7, Zenon DEF Step, set_active, set_state
<1>8. CASE write_chunk(c)
  BY <1>5, <1>8, Zenon DEF Step, write_chunk
<1>9. CASE finish_transfer(c)
  <2>1. pc[c] = "receive" /\ at[c] = 1 /\ UNCHANGED at
    BY <1>9, Zenon DEF finish_transfer, CursorAtStart, local
  <2>2. Goto(c, "verify")
    BY <1>5, <1>9, Zenon DEF Step, finish_transfer, Finished
  <2> QED
    BY <1>1, <2>1, <2>2, Zenon DEF Goto
<1>10. CASE verify_file(c)
  <2>1. pc[c] = "verify" /\ at[c] = 1 /\ on[c] = t
    BY <1>5, <1>10, Zenon DEF Step, verify_file
  <2>2. part[<<t, 1>>] = NoFile
    BY OfferTypes DEF Finished
  <2>3. Goto(c, "closed")
    BY <1>10, <2>1, <2>2, Zenon DEF verify_file
  <2> QED
    BY <1>1, <2>3, Zenon DEF Goto
<1>11. CASE record_verified_chunk(c) \/ set_interrupted(c) \/ set_failed(c) \/ available_target_path(c)
  BY <1>5, <1>11, Zenon
  DEF Step, record_verified_chunk, set_interrupted, set_failed, set_state, available_target_path
<1>12. CASE rename_file(c) \/ recheck_complete(c) \/ set_completed(c)
  BY <1>5, <1>12, Zenon DEF Step, rename_file, recheck_complete, set_completed, set_state
<1> QED
  BY <1>2, <1>3, <1>4, <1>6, <1>7, <1>8, <1>9, <1>10, <1>11, <1>12, OwnStep, Zenon DEF Step

\* Every step keeps a completed transfer finished.
LEMMA SettledStep ==
  TypeOK /\ Exclusive /\ CursorAtStart /\ LoopEmpties /\ SettledQuiet /\ [Next]_vars => SettledQuiet'
<1> SUFFICES ASSUME TypeOK, Exclusive, CursorAtStart, LoopEmpties, SettledQuiet, [Next]_vars,
                    NEW t \in Transfer, transfers'[t] = "completed", t \notin overlapped'
             PROVE  Finished(t)'
  BY Zenon DEF SettledQuiet
<1>1. t \notin overlapped
  BY OverlapGrows, Zenon
<1>2. CASE transfers[t] # "completed"
  <2>1. PICK k \in Conn : set_completed(k) /\ on[k] = t
    BY <1>2, CompletedBy, Zenon
  <2>2. /\ pc[k] = "complete" /\ Live(k) /\ Goto(k, "ack") /\ UNCHANGED <<verified, part, on, todo, at>>
        /\ pc \in [Conn -> Pc]
    BY <2>1, Zenon DEF set_completed, set_state, Live, disk, local, TypeOK
  <2>3. transfer_complete(t) /\ \A f \in FileIds(t) : part[<<t, f>>] = NoFile
    BY <1>1, <2>1, <2>2, Zenon DEF LoopEmpties
  <2>4. transfer_complete(t)'
    BY <2>2, <2>3, Zenon DEF transfer_complete, RowsOf
  <2>5. ASSUME NEW c \in Conn, on'[c] = t PROVE pc'[c] \in {"idle", "ack", "done", "closed"}
    <3>1. CASE c = k
      BY <2>2, <3>1, Zenon DEF Goto
    <3>2. CASE c # k
      <4>1. pc[c] \in {"idle", "done", "closed"}
        BY <1>1, <2>1, <2>2, <2>5, <3>2, Zenon DEF Exclusive, Live
      <4> QED
        BY <2>2, <3>2, <4>1, Zenon DEF Goto
    <3> QED
      BY <3>1, <3>2, Zenon
  <2> QED
    BY <2>2, <2>3, <2>4, <2>5, Zenon DEF Finished
<1>3. CASE transfers[t] = "completed"
  <2>1. Finished(t)
    BY <1>1, <1>3, Zenon DEF SettledQuiet
  <2>2. transfer_complete(t)'
    BY <2>1, CompleteKept, Zenon DEF Finished
  <2>3. ASSUME NEW f \in FileIds(t) PROVE part'[<<t, f>>] = NoFile
    <3>1. SUFFICES ASSUME part'[<<t, f>>] # part[<<t, f>>] PROVE FALSE
      BY <2>1, Zenon DEF Finished
    <3>2. PICK k \in Conn : on[k] = t /\ ((pc[k] = "receive" /\ todo[k] # {}) \/ pc[k] = "rename")
      BY <3>1, PartOwner
    <3> QED
      BY <2>1, <3>2, Zenon DEF Finished
  <2> QED
    BY <1>3, <2>1, <2>2, <2>3, QuietTask, Zenon DEF Finished
<1> QED
  BY <1>2, <1>3, Zenon

\* Only accept_transfer's set_state takes a finished transfer out of Completed.
LEMMA StableAction ==
  ASSUME TypeOK, SettledQuiet, [Next]_vars, NEW t \in Transfer, transfers[t] = "completed", t \notin overlapped
  PROVE  transfers'[t] \in {"completed", "active"}
<1>1. SUFFICES ASSUME transfers'[t] # transfers[t] PROVE transfers'[t] \in {"completed", "active"}
  BY Zenon
<1>2. PICK c \in Conn : create_transfer(c) \/ set_active(c) \/ set_interrupted(c) \/ set_failed(c) \/ set_completed(c)
  BY <1>1, StateStep, Zenon
<1>3. transfers \in [Transfer -> TransferState] /\ Finished(t)
  BY Zenon DEF TypeOK, SettledQuiet
<1>4. on[c] = t
  BY <1>1, <1>2, <1>3, Zenon
  DEF create_transfer, set_active, set_interrupted, set_failed, set_completed, set_state
<1>5. CASE create_transfer(c)
  BY <1>4, <1>5, Zenon DEF create_transfer
<1>6. CASE set_interrupted(c) \/ set_failed(c)
  BY <1>3, <1>4, <1>6, Zenon DEF set_interrupted, set_failed, set_state, Finished
<1>7. CASE set_active(c) \/ set_completed(c)
  BY <1>3, <1>4, <1>7, Zenon DEF set_active, set_completed, set_state
<1> QED
  BY <1>2, <1>5, <1>6, <1>7, Zenon

\* A resume of a transfer that is Completed finds nothing to send and no .part
\* file to verify, so it ends without a word to the manifest. For every set of
\* transfers, tasks, contents and chunk sizes: without rival tasks a Completed
\* transfer is never turned Interrupted or Failed, only accepted anew.
THEOREM CompletedStaysCompleted == Spec => CompletedStable
<1> DEFINE Inv == TypeOK /\ IntactInv /\ LoopEmpties /\ SettledQuiet
<1>1. Init => Inv
  BY TypeInit, IntactInit, Zenon DEF Init, LoopEmpties, SettledQuiet
<1>2. Inv /\ [Next]_vars => Inv'
  BY TypeStep, IntactStep, EmptiesStep, SettledStep, Zenon DEF IntactInv
<1>3. Inv /\ [Next]_vars =>
        [\A t \in Transfer : transfers[t] = "completed" /\ t \notin overlapped =>
           transfers'[t] \in {"completed", "active"}]_vars
  BY StableAction, Zenon
<1> QED
  BY <1>1, <1>2, <1>3, PTL DEF Spec, CompletedStable
=============================================================================
