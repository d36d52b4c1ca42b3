---------------------------- MODULE ManifestFile ----------------------------
(***************************************************************************)
(* The verified_chunks rows of one file of one transfer, and the questions *)
(* the resume code asks of them (ManifestStore in manifest.rs). The one    *)
(* operation that changes the rows is record_verified_chunk; offsets and   *)
(* lengths range over every u64 of the model, so the chunk may overlap,    *)
(* duplicate, shorten or overrun anything recorded before it.              *)
(***************************************************************************)
EXTENDS ChunkFrames

CONSTANTS MaxSize,      \* bound on the declared size of the file
          ChunkSizes,   \* chunk sizes a sender may resume with
          IdLengths     \* how long the id of the file may be

ASSUME SizeAssumption ==
  /\ MaxSize \in 0 .. U64Max
  /\ ChunkSizes \subseteq Nat \ {0}
  /\ IdLengths \subseteq Nat \ {0}

VARIABLES size,   \* transfer_files.size
          rows    \* verified_chunks rows: a set of [offset, length]

vars == <<size, rows>>

Init == size \in 0 .. MaxSize /\ rows = {}

\* Mutant: INSERT OR IGNORE, the older row wins.
ReplaceIgnored(rs, range) ==
  IF \E r \in rs : r.offset = range.offset THEN rs ELSE rs \cup {range}

\* INSERT OR REPLACE keyed by offset: a row with the same offset is dropped,
\* whatever its length was.
Replace(rs, range) == {r \in rs : r.offset # range.offset} \cup {range}

record_verified_chunk(offset, length) ==
  LET valid == /\ length # 0
               /\ ~ Overflows(offset, length)
               /\ offset + length <= size
  IN  /\ rows' = IF valid THEN Replace(rows, [offset |-> offset, length |-> length]) ELSE rows
      /\ UNCHANGED size

Next == \E offset, length \in 0 .. U64Max : record_verified_chunk(offset, length)

Spec == Init /\ [][Next]_vars

missing_ranges(rs, chunk_size) == missing_ranges_for(size, chunk_size, verified_ranges(rs))

-----------------------------------------------------------------------------
(* Reference definitions: a range is the set of its bytes. *)

BytesOf(range) == range.offset .. range.offset + range.length - 1
Bytes(ranges) == UNION {BytesOf(r) : r \in ranges}
FileBytes == 0 .. size - 1

\* The rows stay inside the file; merge_ranges keeps exactly the recorded bytes,
\* and leaves a gap of at least one byte between neighbours; range_fully_covered and ranges_cover look for a
\* single range that holds what they need, so they are wrong without the gap.
MergeExact ==
  LET merged == verified_ranges(rows)
  IN  /\ Bytes(rows) \subseteq FileBytes
      /\ Bytes(Range(merged)) = Bytes(rows)
      /\ \A i \in 1 .. Len(merged) - 1 :
           merged[i].offset + merged[i].length < merged[i + 1].offset

\* missing_ranges asks for a chunk exactly when one of its bytes was never
\* verified, asks for all of the unverified bytes and for none outside the
\* file, and asks for nothing exactly when ranges_cover says the file is done.
MissingExact ==
  \A cs \in ChunkSizes :
    LET missing == Range(missing_ranges(rows, cs))
    IN  /\ \A m \in missing : BytesOf(m) \subseteq FileBytes /\ ~ BytesOf(m) \subseteq Bytes(rows)
        /\ FileBytes \ Bytes(rows) \subseteq Bytes(missing)
        /\ (missing = {}) <=> ranges_cover(size, verified_ranges(rows))

\* A resumed sender that sends what missing_ranges asked for never makes the
\* manifest forget a verified byte, although INSERT OR REPLACE can drop a longer
\* row for a shorter one, and completes the file once all of it is recorded,
\* whichever chunk size it resumes with.
ResumeCompletes ==
  \A cs \in ChunkSizes :
    LET missing == missing_ranges(rows, cs)
        after[k \in 0 .. Len(missing)] ==
          IF k = 0 THEN rows ELSE Replace(after[k - 1], missing[k])
    IN  /\ \A m \in Range(missing) : Bytes(rows) \subseteq Bytes(Replace(rows, m))
        /\ ranges_cover(size, verified_ranges(after[Len(missing)]))

\* A chunk of the plan as send_file_chunks frames it, with the digest of its bytes.
Framed(id_len, range) ==
  [id_len |-> id_len, offset |-> range.offset, bytes_len |-> range.length, digest_matches |-> TRUE]

\* The copies of the chunk arithmetic agree: chunk.rs, which senders use, and
\* manifest.rs, which the receiver uses, on every set of rows the store can hold;
\* the daemon reads as many chunk frames (expected_chunk_count) as the sender's
\* plan writes, which cuts the file into consecutive pieces, so that neither side
\* waits for the other; and the reader takes each frame for the chunk that was
\* written, unless it is longer than the reader's limit.
CopiesAgree ==
  LET ranges == InOrder(rows)
  IN  /\ ranges_cover_file(size, ranges) = ranges_cover(size, ranges)
      /\ \A cs \in ChunkSizes :
           LET plan == plan_chunks(size, cs)
           IN  /\ plan_missing_chunks(size, cs, ranges) = missing_ranges_for(size, cs, ranges)
               /\ Len(plan) = expected_chunk_count(size, cs)
               /\ Bytes(Range(plan)) = FileBytes
               /\ \A i \in 1 .. Len(plan) - 1 : plan[i].offset + plan[i].length = plan[i + 1].offset
               /\ \A i \in 1 .. Len(plan), id_len \in IdLengths :
                    LET chunk == Framed(id_len, plan[i])
                        frame == write_chunk_frame(chunk)
                    IN  frame # Err /\ frame.frame_len <= MaxFrame => read_chunk_frame(frame) = chunk
=============================================================================
