---------------------------- MODULE ChunkFrames -----------------------------
(***************************************************************************)
(* The binary frame one chunk travels in (protocol-native-v1/src/          *)
(* transfer.rs): lengths first, so that the reader knows where the frame   *)
(* ends and the next message begins. A file id and the bytes of a chunk    *)
(* are their lengths; whether the digest is that of the bytes is a         *)
(* Boolean.                                                                *)
(***************************************************************************)
EXTENDS Ranges

CONSTANTS U16Max, U32Max,   \* largest u16 and u32; small in a model
          MaxFrame          \* MAX_CHUNK_FRAME_BYTES

ASSUME FrameAssumption == U16Max \in Nat /\ U32Max \in Nat /\ MaxFrame \in Nat

TransferChunk == [id_len : Nat, offset : Nat, bytes_len : Nat, digest_matches : BOOLEAN]

\* Length of the id, the id, the offset, the digest in hex, length of the bytes, the bytes.
LenOfFrame(id_len, bytes_len) == 2 + id_len + 8 + 64 + 4 + bytes_len

\* Mutant: the frame length leaves out the file id.
WriteWithoutId(chunk) ==
  LET frame_len == LenOfFrame(0, chunk.bytes_len)
  IN  IF \/ chunk.id_len = 0 \/ chunk.id_len > U16Max
         \/ chunk.bytes_len = 0 \/ chunk.bytes_len > U32Max
         \/ ~ chunk.digest_matches
         \/ frame_len > U32Max
      THEN Err
      ELSE [frame_len |-> frame_len, chunk |-> chunk]

\* A frame is its announced length and what follows it.
write_chunk_frame(chunk) ==
  LET frame_len == LenOfFrame(chunk.id_len, chunk.bytes_len)
  IN  IF \/ chunk.id_len = 0 \/ chunk.id_len > U16Max
         \/ chunk.bytes_len = 0 \/ chunk.bytes_len > U32Max
         \/ ~ chunk.digest_matches
         \/ frame_len > U32Max
      THEN Err
      ELSE [frame_len |-> frame_len, chunk |-> chunk]

\* The lengths inside the frame have to add up to the announced one.
read_chunk_frame(frame) ==
  IF \/ frame.frame_len < LenOfFrame(0, 0)
     \/ frame.frame_len > MaxFrame
     \/ frame.chunk.id_len = 0 \/ frame.chunk.id_len > frame.frame_len
     \/ LenOfFrame(frame.chunk.id_len, frame.chunk.bytes_len) # frame.frame_len
     \/ ~ frame.chunk.digest_matches
  THEN Err
  ELSE frame.chunk
=============================================================================
