------------------------------- MODULE Ranges -------------------------------
(***************************************************************************)
(* Byte-range arithmetic of native transfers: chunk planning in            *)
(* protocol-native-v1/src/chunk.rs and the resume math of manifest.rs.     *)
(* A range is a record [offset, length]; a Rust Vec of ranges is a         *)
(* sequence; a function that returns Result yields Err on its error path.  *)
(***************************************************************************)
EXTENDS Integers, Sequences, FiniteSets, Functions, Lists

CONSTANT U64Max     \* largest u64; small in a model so that overflow happens

ASSUME U64MaxAssumption == U64Max \in Nat

Err == [err |-> TRUE]

ByOffset(a, b) == a.offset < b.offset

LesserOf(a, b) == IF a <= b THEN a ELSE b
GreaterOf(a, b) == IF a >= b THEN a ELSE b

\* u64::checked_add: the sum fits, or there is no sum.
Overflows(a, b) == a + b > U64Max

-----------------------------------------------------------------------------
(* chunk.rs *)

\* The loop visits the multiples of chunk_size below file_size; the last chunk
\* is cut at the end of the file.
plan_chunks(file_size, chunk_size) ==
  IF chunk_size = 0
  THEN Err
  ELSE [k \in 1 .. (file_size + chunk_size - 1) \div chunk_size |->
         LET offset == (k - 1) * chunk_size
         IN  [offset |-> offset, length |-> LesserOf(chunk_size, file_size - offset)]]

validate_verified_ranges(file_size, ranges) ==
  \A r \in Range(ranges) :
    /\ r.length > 0
    /\ ~ Overflows(r.offset, r.length)
    /\ r.offset + r.length <= file_size

\* Mutant: adjacent ranges are left unmerged.
MergeIntoOverlapOnly(merged, range) ==
  IF merged = <<>>
  THEN <<range>>
  ELSE LET last      == merged[Len(merged)]
           last_end  == last.offset + last.length
           range_end == range.offset + range.length
       IN  IF range.offset < last_end
           THEN [merged EXCEPT ![Len(merged)].length = GreaterOf(range_end, last_end) - last.offset]
           ELSE Append(merged, range)

\* A range that starts at or before the end of the last merged one extends it.
MergeInto(merged, range) ==
  IF merged = <<>>
  THEN <<range>>
  ELSE LET last      == merged[Len(merged)]
           last_end  == last.offset + last.length
           range_end == range.offset + range.length
       IN  IF range.offset <= last_end
           THEN [merged EXCEPT ![Len(merged)].length = GreaterOf(range_end, last_end) - last.offset]
           ELSE Append(merged, range)

\* The loop over the sorted ranges.
MergeAll(sorted) ==
  LET merged[k \in 0 .. Len(sorted)] ==
        IF k = 0 THEN <<>> ELSE MergeInto(merged[k - 1], sorted[k])
  IN  merged[Len(sorted)]

\* Ranges, no two with the same offset, in the order of their offsets.
InOrder(ranges) ==
  CHOOSE seq \in [1 .. Cardinality(ranges) -> ranges] :
    \A i, j \in DOMAIN seq : i < j => ByOffset(seq[i], seq[j])

\* slice::sort_by_key; the offset is in the primary key of the rows, so none is there twice.
sort_by_offset(ranges) == InOrder(Range(ranges))

chunk_merge_ranges(ranges) == MergeAll(sort_by_offset(ranges))

\* Mutant: the last byte of the chunk is not looked at.
CoveredButLast(range, verified) ==
  \E v \in Range(verified) :
    /\ v.offset <= range.offset
    /\ v.offset + v.length >= range.offset + range.length - 1

\* Shared by chunk.rs and manifest.rs: one merged range holds the whole chunk.
range_fully_covered(range, verified) ==
  \E v \in Range(verified) :
    /\ v.offset <= range.offset
    /\ v.offset + v.length >= range.offset + range.length

\* The chunks of the plan that no one range of merged covers.
Uncovered(plan, merged) ==
  Kept(plan, {chunk \in Range(plan) : ~ range_fully_covered(chunk, merged)})

plan_missing_chunks(file_size, chunk_size, verified) ==
  IF ~ validate_verified_ranges(file_size, verified) \/ chunk_size = 0
  THEN Err
  ELSE Uncovered(plan_chunks(file_size, chunk_size), chunk_merge_ranges(verified))

ranges_cover_file(file_size, verified) ==
  IF ~ validate_verified_ranges(file_size, verified)
  THEN Err
  ELSE \/ file_size = 0
       \/ chunk_merge_ranges(verified) = <<[offset |-> 0, length |-> file_size]>>

-----------------------------------------------------------------------------
(* manifest.rs *)

\* As in chunk.rs, but ranges of length zero are skipped, not refused.
merge_ranges(ranges) ==
  MergeAll(Kept(sort_by_offset(ranges), [offset : Nat, length : Nat \ {0}]))

\* The rows of verified_chunks for one file, in offset order (the primary key
\* makes offsets unique), then merged.
verified_ranges(rows) == merge_ranges(InOrder(rows))

\* Mutant: coverage is looked for in the rows as they are.
MissingUnmerged(file_size, chunk_size, verified) ==
  Uncovered(plan_chunks(file_size, chunk_size), verified)

\* The chunks, on chunk_size boundaries, that a sender has to send again.
missing_ranges_for(file_size, chunk_size, verified) ==
  Uncovered(plan_chunks(file_size, chunk_size), merge_ranges(verified))

ranges_cover(size, ranges) ==
  \/ size = 0
  \/ merge_ranges(ranges) = <<[offset |-> 0, length |-> size]>>

\* daemon/src/main.rs: how many chunk frames one file contributes.
expected_chunk_count(size, chunk_size) ==
  IF size = 0 THEN 0 ELSE (size + chunk_size - 1) \div chunk_size
=============================================================================
