--------------------------- MODULE MCManifestFile ---------------------------
(* Files of up to five bytes, resumed with every chunk size up to one byte    *)
(* more than the file; U64Max = 6 leaves offsets past the end and sums that   *)
(* overflow. A frame has 78 bytes beside its id and its bytes: with these     *)
(* bounds some ids and frames are too long to write, and some to read.        *)
EXTENDS ManifestFile

MCChunkSizes == 1 .. MaxSize + 1
MCIdLengths == 1 .. 4
=============================================================================
