------------------------------ MODULE FileData ------------------------------
(***************************************************************************)
(* FileStorageReader::GetFileDataProvider and the DataProvider it returns: *)
(* which file is opened, and the blocks a caller gets of it.  The server   *)
(* has no caller yet; a caller asks for blocks of any size.                *)
(*                                                                         *)
(* The byte at offset k of a file is k, and 0 fills a buffer that grows.   *)
(***************************************************************************)
EXTENDS Integers, Sequences, SequencesExt

CONSTANTS
  MaxLength,  \* the longest file
  MaxNeeded   \* the largest block

ASSUME FileDataAssumption == MaxLength \in Nat /\ MaxNeeded \in Nat \ {0}

\* The three paths made of _root and fpath.
FilePaths == {"fpath", "root fpath", "root root fpath"}

NoFile == -1

VARIABLES
  length,          \* of the file at each path, or NoFile
  opened,          \* the path of the provider's file, "none" before
  stream_position, \* of the stream
  buffer,          \* _buffer
  isEnd, isReady,
  blocks,          \* for the properties: what the caller has got
  answer           \* the last answer: "none", "block" or "null"

fileVars == <<length, opened, stream_position, buffer, isEnd, isReady, blocks, answer>>

FileInit ==
  /\ length \in [FilePaths -> {NoFile} \cup 0 .. MaxLength]
  /\ opened = "none" /\ stream_position = 0 /\ buffer = <<>>
  /\ isEnd = FALSE /\ isReady = FALSE
  /\ blocks = <<>> /\ answer = "none"

\* TestIfPathExists puts the root before the path that has it already.
Chosen == IF length["root root fpath"] # NoFile THEN "root fpath" ELSE "fpath"

\* The stream opens what is there to be opened.
GetFileDataProvider ==
  /\ opened = "none" /\ opened' = Chosen
  /\ isReady' = (length[Chosen] # NoFile)
  /\ UNCHANGED <<length, stream_position, buffer, isEnd, blocks, answer>>

Left == length[opened] - stream_position

AtMost(n) == IF n <= Left THEN n ELSE Left

\* resize keeps what was there; read overwrites what it can.
BlockFilled(needed) ==
  [k \in 1 .. needed |-> IF k <= AtMost(needed) THEN stream_position + k
                         ELSE IF k <= Len(buffer) THEN buffer[k] ELSE 0]

\* A defect: the end is seen with the last byte.
EofWithLast(needed) == needed >= Left - 1

Eof(needed) == needed > Left

GetNextDataBlock ==
  /\ opened # "none" /\ isReady /\ ~isEnd
  /\ \E needed \in 1 .. MaxNeeded :
       /\ buffer' = BlockFilled(needed)
       /\ blocks' = blocks \o BlockFilled(needed)
       /\ stream_position' = stream_position + AtMost(needed)
       /\ isEnd' = Eof(needed)
  /\ answer' = "block"
  /\ UNCHANGED <<length, opened, isReady>>

GetNothing ==
  /\ opened # "none" /\ (~isReady \/ isEnd)
  /\ answer' = "null"
  /\ UNCHANGED <<length, opened, stream_position, buffer, isEnd, isReady, blocks>>

FileNext == GetFileDataProvider \/ GetNextDataBlock \/ GetNothing

FileSpec == FileInit /\ [][FileNext]_fileVars

-----------------------------------------------------------------------------

\* However the caller cuts it, the blocks until the null begin with the file, every byte
\* of it once and in order, and at most one block more follows, of bytes that were handed
\* out before or of zeros: the size of a last block that is short says no more than what
\* was asked for, and a read that ends with the file lets one more follow
\* (dataProvider.cpp:20-25).
BlocksAreFile ==
  LET file == [k \in 1 .. length[opened] |-> k]
      extra == SubSeq(blocks, Len(file) + 1, Len(blocks))
  IN  opened # "none" /\ isReady =>
        /\ IsPrefix(blocks, file) \/ IsPrefix(file, blocks)
        /\ answer = "null" =>
             /\ IsPrefix(file, blocks) /\ Len(extra) <= MaxNeeded
             /\ \A k \in DOMAIN extra : extra[k] \in 0 .. Len(file)
=============================================================================
