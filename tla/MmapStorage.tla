---------------------------- MODULE MmapStorage ----------------------------
(***************************************************************************)
(* MmapBackend and its three MmapStorageEngines for one channel.  A file   *)
(* is a meta header, with the published write offset, and the cells that   *)
(* follow.  A record is one piece, or for an orderbook a header and up to  *)
(* two level arrays that are appended one by one.  An append copies the    *)
(* piece and then publishes the offset; the process may die between.  The  *)
(* mapping is shared, so what was copied survives the process.             *)
(***************************************************************************)
EXTENDS Naturals, Sequences, FiniteSets, SequencesExt

CONSTANTS
  MaxFileSize,                 \* max_file_size_, in cells
  MaxFiles,                    \* bound: files of an engine
  MaxLevels,                   \* bound: cells of a level array
  TickSize                     \* cells of a StorageTickEnvelope or a BookTickerRecord

HeaderSize == 1                \* kHeaderSize
Engines == {"tick", "ob", "bt"}
Max2(a, b) == IF a > b THEN a ELSE b

\* No piece is larger than a fresh file (a record has a few kB, a file 2 GB).
ASSUME MmapAssumption ==
  /\ {MaxFileSize, MaxFiles, MaxLevels, TickSize} \subseteq Nat \ {0}
  /\ HeaderSize + Max2(MaxLevels, TickSize) < MaxFileSize

VARIABLES
  eng,                         \* each engine's open, seq (file_sequence_) and offset
  files,                       \* each engine's files: cells and written (write_offset)
  pending,                     \* pieces that the thread holding mtx_ has left to append
  copied,                      \* it is between memcpy and the store of write_offset
  intended,                    \* history: the pieces given to each engine in this run
  rollFailed                   \* history: engines whose RollNewFile has failed in this run

mmapVars == <<eng, files, pending, copied, intended, rollFailed>>

NoCell == [id |-> 0, part |-> "none", at |-> 0, of |-> 0]
Piece(e, id, part, size) == [engine |-> e, id |-> id, part |-> part, size |-> size]
Cells(piece) == [i \in 1..piece.size |-> [id |-> piece.id, part |-> piece.part, at |-> i, of |-> piece.size]]

-----------------------------------------------------------------------------
(* The engine *)

Copy(cells, offset, piece) ==
  [i \in 1..Max2(MaxFileSize, offset + piece.size) |->
     IF i \in (offset + 1)..(offset + piece.size) THEN Cells(piece)[i - offset]
     ELSE IF i <= MaxFileSize THEN cells[i] ELSE NoCell]

MustRoll(e, piece) == eng[e].offset + piece.size >= MaxFileSize

\* Without file_sequence_++ a roll opens the same file again.
MmapCopySameFile ==
  /\ pending # <<>> /\ ~copied
  /\ LET piece == Head(pending)  e == piece.engine
         offset == IF MustRoll(e, piece) THEN HeaderSize ELSE eng[e].offset
     IN /\ eng[e].open
        /\ eng' = [eng EXCEPT ![e].offset = offset]
        /\ files' = [files EXCEPT ![e][eng[e].seq] =
             [cells |-> Copy(@.cells, offset, piece), written |-> offset]]
  /\ copied' = TRUE
  /\ UNCHANGED <<pending, intended, rollFailed>>

\* AppendRecord and AppendRaw up to the memcpy, which they do not reach when
\* the engine is closed or the next file cannot be opened.
MmapCopy ==
  /\ pending # <<>> /\ ~copied
  /\ LET piece == Head(pending)  e == piece.engine
         offset == IF MustRoll(e, piece) THEN HeaderSize ELSE eng[e].offset
         seq == IF MustRoll(e, piece) THEN eng[e].seq + 1 ELSE eng[e].seq
     IN /\ eng[e].open /\ seq < MaxFiles
        /\ eng' = [eng EXCEPT ![e].seq = seq, ![e].offset = offset]
        /\ files' = [files EXCEPT ![e][seq] =
             [cells |-> Copy(@.cells, offset, piece),
              written |-> IF MustRoll(e, piece) THEN HeaderSize ELSE @.written]]
  /\ copied' = TRUE
  /\ UNCHANGED <<pending, intended, rollFailed>>

MmapRollFails ==
  /\ pending # <<>> /\ ~copied
  /\ LET e == Head(pending).engine
     IN /\ eng[e].open /\ MustRoll(e, Head(pending))
        /\ eng' = [eng EXCEPT ![e].open = FALSE, ![e].seq = @ + 1]
        /\ rollFailed' = rollFailed \union {e}
  /\ pending' = Tail(pending)
  /\ UNCHANGED <<files, copied, intended>>

MmapDrop ==
  /\ pending # <<>> /\ ~eng[Head(pending).engine].open
  /\ pending' = Tail(pending)
  /\ UNCHANGED <<eng, files, copied, intended, rollFailed>>

\* The release store of write_offset; current_mapped_offset_ follows.
MmapPublish ==
  /\ pending # <<>> /\ copied
  /\ LET piece == Head(pending)  e == piece.engine  end == eng[e].offset + piece.size
     IN /\ eng' = [eng EXCEPT ![e].offset = end]
        /\ files' = [files EXCEPT ![e][eng[e].seq].written = end]
  /\ pending' = Tail(pending) /\ copied' = FALSE
  /\ UNCHANGED <<intended, rollFailed>>

-----------------------------------------------------------------------------
(* Actions of the backend *)

MmapInit ==
  /\ eng = [e \in Engines |-> [open |-> FALSE, seq |-> 0, offset |-> HeaderSize]]
  /\ files = [e \in Engines |-> [n \in 0..(MaxFiles - 1) |->
       [cells |-> [i \in 1..MaxFileSize |-> NoCell], written |-> HeaderSize]]]
  /\ pending = <<>> /\ copied = FALSE
  /\ intended = [e \in Engines |-> <<>>] /\ rollFailed = {}

\* RegisterChannel: an engine that cannot open its first file is left out.
MmapRegister(opened) ==
  /\ eng' = [e \in Engines |-> [open |-> e \in opened, seq |-> 0, offset |-> HeaderSize]]
  /\ files' = [e \in Engines |-> IF e \in opened THEN [files[e] EXCEPT ![0].written = HeaderSize] ELSE files[e]]
  /\ UNCHANGED <<pending, copied, intended, rollFailed>>

\* InsertTick and InsertBookTicker append one piece; WriteOrderbook appends
\* the header and each level array that is not empty.
Pieces(e, id, bids, asks) ==
  IF e # "ob" THEN <<Piece(e, id, "record", TickSize)>>
  ELSE SelectSeq(<<Piece(e, id, "header", 1), Piece(e, id, "bids", bids), Piece(e, id, "asks", asks)>>,
                 LAMBDA p : p.size > 0)

MmapInsert(e, id, bids, asks) ==
  /\ pending = <<>>
  /\ eng[e].open \/ e \in rollFailed
  /\ pending' = Pieces(e, id, bids, asks)
  /\ intended' = [intended EXCEPT ![e] = @ \o pending']
  /\ UNCHANGED <<eng, files, copied, rollFailed>>

\* FlushAndClose takes mtx_ and closes every engine.
MmapFlushAndClose ==
  /\ pending = <<>>
  /\ eng' = [e \in Engines |-> [eng[e] EXCEPT !.open = FALSE]]
  /\ UNCHANGED <<files, pending, copied, intended, rollFailed>>

\* The process is gone; its files stay as they are.
MmapRestart ==
  /\ eng' = [e \in Engines |-> [open |-> FALSE, seq |-> 0, offset |-> HeaderSize]]
  /\ pending' = <<>> /\ copied' = FALSE
  /\ intended' = [e \in Engines |-> <<>>] /\ rollFailed' = {}
  /\ UNCHANGED files

MmapThread == MmapCopy \/ MmapRollFails \/ MmapDrop \/ MmapPublish

-----------------------------------------------------------------------------
(* Properties *)

\* Types of the state.
MmapTypeOK ==
  /\ \A e \in Engines :
       /\ eng[e].open \in BOOLEAN /\ eng[e].seq \in 0..MaxFiles
       /\ eng[e].offset \in HeaderSize..(MaxFileSize - 1)
       /\ \A n \in 0..(MaxFiles - 1) :
            /\ DOMAIN files[e][n].cells = 1..MaxFileSize
            /\ files[e][n].written \in HeaderSize..(MaxFileSize - 1)
  /\ copied => pending # <<>>
  /\ rollFailed \subseteq Engines

\* What a reader of the file may read: the cells up to write_offset.
Published(e, n) == SubSeq(files[e][n].cells, HeaderSize + 1, files[e][n].written)

\* AppendRecord and AppendRaw: below write_offset a tick or book ticker file
\* holds whole records, at every moment, after a crash, and in the files that
\* earlier runs left behind.
WholeRecords ==
  \A e \in {"tick", "bt"}, n \in 0..(MaxFiles - 1) :
    LET p == Published(e, n)
    IN /\ Len(p) % TickSize = 0
       /\ \A i \in 1..Len(p) :
            /\ p[i] # NoCell
            /\ p[i].at = ((i - 1) % TickSize) + 1
            /\ p[i].at > 1 => p[i].id = p[i - 1].id

\* RollNewFile and the appends lose, double and tear nothing: files hold whole
\* records; the published parts of the files of
\* this run, one after the other, are the pieces given to the engine so far, in
\* order; after a roll that failed, they are the first of those pieces.
StreamIntact ==
  /\ WholeRecords
  /\ \A e \in Engines :
       LET last == IF e \in rollFailed THEN eng[e].seq - 1 ELSE eng[e].seq
           stream == FlattenSeq([n \in 1..(last + 1) |-> Published(e, n - 1)])
           given == FlattenSeq([i \in 1..Len(intended[e]) |-> Cells(intended[e][i])])
           left == FlattenSeq([i \in 1..Len(pending) |->
                                 IF pending[i].engine = e THEN Cells(pending[i]) ELSE <<>>])
       IN IF e \in rollFailed THEN IsPrefix(stream, given)
          ELSE (eng[e].open \/ intended[e] # <<>>) => stream \o left = given
=============================================================================
