------------------------------ MODULE StreamFramer ------------------------------
(***************************************************************************)
(* codeforge_shelf/stream_framer.py: bytes come in chunks, complete        *)
(* messages go out, a partial one is held back. The decoding of a message  *)
(* works on it alone, once it is cut out, and is left out.                 *)
(***************************************************************************)
EXTENDS Naturals, Sequences, FiniteSetsExt

CONSTANTS Bytes,
          Delimiter, \* self._delimiter, of one byte or more
          Strip,     \* self._strip, a set of bytes
          MaxChunk,  \* bound: the length of a chunk
          MaxStream  \* bound: the bytes fed between two flushes

VARIABLES buffer,   \* self._buffer
          messages, \* what feed() has returned since the last flush
          stream    \* history: what was fed since the last flush

vars == <<buffer, messages, stream>>

Init == buffer = <<>> /\ messages = <<>> /\ stream = <<>>

\* Where the delimiter stands in some bytes.
Found(bytes) ==
  {i \in 1..(Len(bytes) + 1 - Len(Delimiter)) :
     SubSeq(bytes, i, i + Len(Delimiter) - 1) = Delimiter}

Trimmed(raw) ==
  LET kept == {i \in DOMAIN raw : raw[i] \notin Strip}
  IN  IF kept = {} THEN <<>> ELSE SubSeq(raw, 1, Max(kept))

\* The loop of feed(): the messages in some bytes, and what is left of them.
Cut(bytes) ==
  LET From[at \in 1..(Len(bytes) + 1)] ==
        LET found == {i \in Found(bytes) : at <= i}
            index == Min(found)
            rest  == From[index + Len(Delimiter)]
        IN  IF found = {} THEN [out |-> <<>>, left |-> SubSeq(bytes, at, Len(bytes))]
            ELSE [out |-> <<Trimmed(SubSeq(bytes, at, index - 1))>> \o rest.out, left |-> rest.left]
  IN  From[1]

\* Mutant of Feed: the delimiter is looked for at the end of each chunk alone.
FeedByChunk(chunk) ==
  LET ends == Len(chunk) + 1 - Len(Delimiter) \in Found(chunk)
      all  == buffer \o chunk
  IN  /\ buffer'   = IF ends THEN <<>> ELSE all
      /\ messages' = IF ends THEN Append(messages, Trimmed(SubSeq(all, 1, Len(all) - Len(Delimiter))))
                     ELSE messages
      /\ stream'   = stream \o chunk

Feed(chunk) ==
  LET cut == Cut(buffer \o chunk)
  IN  /\ buffer'   = cut.left
      /\ messages' = messages \o cut.out
      /\ stream'   = stream \o chunk

Flush == buffer' = <<>> /\ messages' = <<>> /\ stream' = <<>>

Chunks == UNION {[1..n -> Bytes] : n \in 1..MaxChunk}

Next ==
  \/ \E chunk \in Chunks : Len(stream) + Len(chunk) <= MaxStream /\ Feed(chunk)
  \/ Flush

Spec == Init /\ [][Next]_vars

--------------------------------------------------------------------------------
\* The ends of the messages of a stream, whatever its chunks: the delimiters of the
\* stream read from its start, each at the first place it can stand behind the last.
EndsAt(bytes) ==
  LET F[i \in 0..Len(bytes)] ==
        IF i = 0 THEN <<>>
        ELSE IF /\ i + 1 - Len(Delimiter) \in Found(bytes)
                /\ F[i - 1] = <<>> \/ F[i - 1][Len(F[i - 1])] <= i - Len(Delimiter)
               THEN Append(F[i - 1], i) ELSE F[i - 1]
  IN  F[Len(bytes)]

\* "Emit only complete messages, holding a partial until the rest arrives": the
\* messages and the partial are those of the whole stream, though a delimiter, or
\* two that overlap, be split over any chunks.
ChunksDoNotMatter ==
  LET ends     == EndsAt(stream)
      Begin(i) == IF i = 1 THEN 1 ELSE ends[i - 1] + 1
  IN  /\ messages = [i \in DOMAIN ends |->
                       Trimmed(SubSeq(stream, Begin(i), ends[i] - Len(Delimiter)))]
      /\ buffer   = SubSeq(stream, Begin(Len(ends) + 1), Len(stream))
================================================================================
