-------------------------------- MODULE WavIo --------------------------------
(***************************************************************************)
(* The wav reader and writer of common/wav_parser (and its identical copy  *)
(* in WebRtc_AMP_Port): read_header, which looks for the chunk IDs in the  *)
(* first 256 bytes of the file, write_header, read_samples.                *)
(*                                                                         *)
(* A file is its length in bytes, its RIFF type and its marks: the places  *)
(* where the four bytes of a chunk ID stand, with the chunk size and the   *)
(* format that follow them.  A mark need not begin a chunk: the letters of *)
(* "data" may stand in the text of a LIST chunk.                           *)
(***************************************************************************)
EXTENDS Integers, FiniteSets, FiniteSetsExt

BUFFER_SIZE == 256
ID_LEN == 4
RiffSize == 12    \* sizeof(RIFF_CHUNK)
FormatSize == 24  \* sizeof(FORMAT_CHUNK)
DataSize == 8     \* sizeof(DATA_CHUNK)

\* The files: len, type and marks, of which only one stands at a place.
WavFormat == [rate : Nat, channels : Nat, bits : Nat]
WavMark == [at : Nat, id : STRING, size : Nat, format : WavFormat]
WavFile ==
  {f \in [len : Nat, type : STRING, marks : SUBSET WavMark] :
     \A k, m \in f.marks : k.at = m.at => k = m}

\* The format of a mark that is not that of a format chunk.
NoFormat == [rate |-> 0, channels |-> 0, bits |-> 0]

NotFound == -1

\* search_ID: the first place of an ID that lies wholly in the size bytes from
\* the given one.
search_ID(f, id, from, size) ==
  LET hits == {m.at : m \in {k \in f.marks :
                 k.id = id /\ from <= k.at /\ k.at + ID_LEN <= from + size}}
  IN IF hits = {} THEN NotFound ELSE Min(hits)

MarkAt(f, at) == CHOOSE m \in f.marks : m.at = at

NoHeader == [ok |-> FALSE, riffSize |-> 0, format |-> NoFormat, formatSize |-> 0,
             dataSize |-> 0, start |-> 0]

AfterFormat(at) == at + FormatSize

\* Variant: the room for the header of the data chunk is not checked.
AnyRoom(left) == TRUE
DataFits(left) == left >= DataSize

\* read_header; start is where the file is left after the final fseek, which
\* also ends the end-of-file condition the first fread may have met.
read_header(f) ==
  LET n == Min({BUFFER_SIZE, f.len})
      riff == search_ID(f, "RIFF", 0, n)
      afterRiff == riff + RiffSize
      fmt == search_ID(f, "fmt ", afterRiff, n - afterRiff)
      data == search_ID(f, "data", AfterFormat(fmt), n - AfterFormat(fmt))
  IN IF \/ n = 0
        \/ riff = NotFound \/ n - riff < RiffSize \/ f.type # "WAVE"
        \/ fmt = NotFound \/ n - fmt < FormatSize
        \/ data = NotFound \/ ~DataFits(n - data)
     THEN NoHeader
     ELSE [ok |-> TRUE,
           riffSize |-> MarkAt(f, riff).size,
           format |-> MarkAt(f, fmt).format,
           formatSize |-> MarkAt(f, fmt).size,
           dataSize |-> MarkAt(f, data).size,
           start |-> data + DataSize]

\* Variant: the size of the format chunk is written as it was read.
KeptSize(h) == h.formatSize
WrittenSize(h) == 16

\* write_header writes the three chunk headers one after the other, the sizes of
\* the RIFF and the data chunk as they were read, and then the caller writes the
\* given number of bytes.
write_header(h, bytes) ==
  [len |-> RiffSize + FormatSize + DataSize + bytes,
   type |-> "WAVE",
   marks |-> {[at |-> 0, id |-> "RIFF", size |-> h.riffSize, format |-> NoFormat],
              [at |-> RiffSize, id |-> "fmt ", size |-> WrittenSize(h),
               format |-> h.format],
              [at |-> RiffSize + FormatSize, id |-> "data",
               size |-> h.dataSize, format |-> NoFormat]}]

\* read_samples (fread) of num samples of the given width at byte pos: the
\* samples it stores and returns, whether it stored part of one more, the new
\* position and whether the end of the file was met.
read_samples(f, pos, num, width) ==
  LET left == Max({0, f.len - pos})
      got == Min({num, left \div width})
  IN [got |-> got,
      partial |-> got < num /\ left % width # 0,
      pos |-> IF got < num THEN pos + left ELSE pos + got * width,
      eof |-> got < num]
-----------------------------------------------------------------------------
(***************************************************************************)
(* The reference: a RIFF file is a chain of chunks.                        *)
(***************************************************************************)
\* The bytes of a chunk: its header, its body, and a pad byte after an odd body.
ChunkLen(m) == 8 + m.size + (m.size % 2)

\* The first mark of that name begins the RIFF header.
RiffHeader(f, m) ==
  m.id = "RIFF" /\ \A k \in f.marks : k.id = "RIFF" => m.at <= k.at

\* Whether a chunk begins at the mark m once those in S are known to be chunks:
\* behind the RIFF header, or at the end of one of them.
Begins(f, S, m) ==
  \/ \E riff \in f.marks : RiffHeader(f, riff) /\ m.at = riff.at + RiffSize
  \/ \E k \in S : m.at = k.at + ChunkLen(k)

\* Nothing is missing from S: the chain of chunks never leads out of it.
Linked(f, S) == \A m \in f.marks : Begins(f, S, m) => m \in S

\* The chunks of a file, those no such set can do without, and the marks that
\* only look like one.
Chunks(f) ==
  {m \in f.marks : \A S \in SUBSET f.marks : Linked(f, S) => m \in S}
Lookalikes(f) == {m \in f.marks : m.id # "RIFF"} \ Chunks(f)

\* The first chunk of a name at or behind a place.
FirstChunk(f, id, from, m) ==
  /\ m \in Chunks(f) /\ m.id = id /\ from <= m.at
  /\ \A k \in Chunks(f) : k.id = id /\ from <= k.at => m.at <= k.at

\* A wav file whose format and data chunks, in that order, begin within what
\* read_header looks at.
IsWave(f, fmt, data) ==
  /\ f.type = "WAVE"
  /\ FirstChunk(f, "fmt ", 0, fmt)
  /\ FirstChunk(f, "data", fmt.at, data)
  /\ data.at + DataSize <= Min({BUFFER_SIZE, f.len})

\* The shortest format chunk read_header copes with: it skips that much.
WholeFormat(fmt) == fmt.size >= FormatSize - 8
=============================================================================
