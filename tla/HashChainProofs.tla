---------------------------- MODULE HashChainProofs ----------------------------
(***************************************************************************)
(* For any number of appending processes, any payloads and ledgers of any  *)
(* length: a break is never papered over, tampering with the past shows,   *)
(* a clean read is a complete history, and what nothing disturbs is clean. *)
(***************************************************************************)
EXTENDS HashChain, KeepingProofs

\* The lines that read() does not skip, and how many there are up to one of them.
Filled(text)    == {text[i] : i \in DOMAIN text} \ {Empty, Spaces}
FilledAt(text)  == Places(text, Filled(text))
RankOf(text, i) == Rank(text, Filled(text), i)

LEMMA FilledLines ==
  ASSUME NEW A, NEW text \in Seq(A)
  PROVE  /\ FilledAt(text) = {i \in DOMAIN text : text[i] \notin {Empty, Spaces}}
         /\ DOMAIN text = 1..Len(text) /\ Len(text) \in Nat
         /\ \A i \in DOMAIN text : IsRow(text[i]) \/ text[i] = Garbage => i \in FilledAt(text)
<1>1. FilledAt(text) = {i \in DOMAIN text : text[i] \notin {Empty, Spaces}}
  BY DEF FilledAt, Filled, Places
<1> QED
  BY <1>1 DEF IsRow, Empty, Spaces, Garbage

\* The rows of a file are its filled lines, each at its rank.
LEMMA RowsAreFilledLines ==
  ASSUME NEW A, NEW text \in Seq(A)
  PROVE  /\ RowsOf(text) \in Seq(A) /\ DOMAIN RowsOf(text) = 1..Len(RowsOf(text))
         /\ Len(RowsOf(text)) \in Nat
         /\ \A i \in FilledAt(text) : /\ RankOf(text, i) \in DOMAIN RowsOf(text)
                                     /\ RowsOf(text)[RankOf(text, i)] = text[i]
<1>1. RowsOf(text) = Keep(text, Filled(text))
  BY DEF RowsOf, Filled
<1>2. Keep(text, Filled(text)) \in Seq(A)
  BY KeptSequence
<1>3. DOMAIN Keep(text, Filled(text)) = 1..Cardinality(Places(text, Filled(text)))
  BY KeptSequence
<1>4. \A i \in FilledAt(text) : /\ RankOf(text, i) \in 1..Cardinality(Places(text, Filled(text)))
                                /\ Keep(text, Filled(text))[RankOf(text, i)] = text[i]
  BY KeptAtRank DEF FilledAt, RankOf
<1>5. /\ RowsOf(text) \in Seq(A)
      /\ \A i \in FilledAt(text) : /\ RankOf(text, i) \in DOMAIN RowsOf(text)
                                   /\ RowsOf(text)[RankOf(text, i)] = text[i]
  BY <1>1, <1>2, <1>3, <1>4
<1> QED
  BY <1>5

\* A file that reads clean: every filled line is sound, its number is its rank, and it
\* is linked to the line before.
LEMMA CleanFile ==
  ASSUME NEW A, NEW text \in Seq(A), Linked(RowsOf(text)), NEW i \in FilledAt(text)
  PROVE  /\ Sound(text[i]) /\ text[i].seq = RankOf(text, i) - 1
         /\ i + 1 \in FilledAt(text) => text[i + 1].prior = text[i].hash
<1> DEFINE rows == RowsOf(text)
<1>1. /\ \A j \in FilledAt(text) : RankOf(text, j) \in DOMAIN rows /\ rows[RankOf(text, j)] = text[j]
      /\ DOMAIN rows = 1..Len(rows) /\ Len(rows) \in Nat
  BY RowsAreFilledLines
<1>2. /\ \A k \in DOMAIN rows : Sound(rows[k])
      /\ \A k \in DOMAIN rows : rows[k].seq = k - 1 /\ rows[k].prior = PriorIn(rows, k)
  BY DEF Linked
<1> HIDE DEF rows
<1>3. ASSUME i + 1 \in FilledAt(text)
      PROVE  text[i + 1].prior = text[i].hash
  <2>1. i \in Nat /\ RankOf(text, i) \in Nat \ {0}
    BY <1>1, FilledLines
  <2>2. RankOf(text, i + 1) = RankOf(text, i) + 1
    BY <1>3, <2>1, RankSteps DEF FilledAt, RankOf
  <2>3. RankOf(text, i + 1) # 1 /\ RankOf(text, i + 1) - 1 = RankOf(text, i)
    BY <2>1, <2>2
  <2>4. text[i + 1].prior = PriorIn(rows, RankOf(text, i + 1))
    BY <1>1, <1>2, <1>3
  <2> QED
    BY <1>1, <2>3, <2>4 DEF PriorIn
<1> QED
  BY <1>1, <1>2, <1>3

\* Ranks agree as far as files agree.
LEMMA AgreeingRanks ==
  ASSUME NEW A, NEW text \in Seq(A), NEW B, NEW other \in Seq(B), NEW i \in Nat,
         \A j \in 1..i : (j \in FilledAt(text) <=> j \in FilledAt(other))
  PROVE  RankOf(text, i) = RankOf(other, i)
<1>1. \A j : j <= i => (j \in FilledAt(text) <=> j \in FilledAt(other))
  BY FilledLines
<1> QED
  BY <1>1, SameRanks DEF FilledAt, RankOf

\* The next filled line is one more row.
LEMMA OneMoreRow ==
  ASSUME NEW A, NEW text \in Seq(A), NEW line \in A, line \notin {Empty, Spaces}
  PROVE  RowsOf(Append(text, line)) = Append(RowsOf(text), line)
<1> DEFINE more == Append(text, line)
           S == Filled(more)
<1>1. more \in Seq(A) /\ line \in S
  <2>1. Len(more) \in DOMAIN more /\ more[Len(more)] = line
    OBVIOUS
  <2> QED
    BY <2>1 DEF Filled
<1>2. Keep(more, S) = Append(Keep(text, S), line)
  <2> HIDE DEF S
  <2> QED
    BY <1>1, KeepAppended
<1>3. Places(text, S) = Places(text, Filled(text))
  <2>1. \A i \in DOMAIN text : i \in DOMAIN more /\ more[i] = text[i]
    OBVIOUS
  <2> QED
    BY <2>1 DEF Places, Filled
<1>4. Keep(text, S) = Keep(text, Filled(text))
  BY <1>3, KeepDepends
<1> QED
  BY <1>2, <1>4 DEF RowsOf, Filled

--------------------------------------------------------------------------------
\* What reads clean with one more row read clean without it, and the row fits.
LEMMA CleanBefore ==
  ASSUME NEW A, NEW rows \in Seq(A), NEW row \in A, Linked(Append(rows, row))
  PROVE  /\ Linked(rows)
         /\ Sound(row) /\ row.seq = Len(rows)
<1> DEFINE more == Append(rows, row)
<1>1. /\ Len(rows) \in Nat /\ DOMAIN rows = 1..Len(rows) /\ DOMAIN more = 1..(Len(rows) + 1)
      /\ \A i \in DOMAIN rows : more[i] = rows[i]
      /\ more[Len(rows) + 1] = row
  OBVIOUS
<1>2. \A i \in DOMAIN more : Sound(more[i]) /\ more[i].seq = i - 1 /\ more[i].prior = PriorIn(more, i)
  BY DEF Linked
<1> HIDE DEF more
<1>3. \A i \in DOMAIN rows : i \in DOMAIN more /\ PriorIn(more, i) = PriorIn(rows, i)
  BY <1>1 DEF PriorIn
<1>4. \A i \in DOMAIN rows : Sound(rows[i]) /\ rows[i].seq = i - 1 /\ rows[i].prior = PriorIn(rows, i)
  BY <1>1, <1>2, <1>3
<1>5. Len(rows) + 1 \in DOMAIN more
  BY <1>1
<1> QED
  BY <1>1, <1>2, <1>4, <1>5 DEF Linked

\* A clean row appended to clean rows leaves them clean.
LEMMA CleanAfter ==
  ASSUME NEW A, NEW rows \in Seq(A), NEW row \in A, Linked(rows),
         Sound(row), row.seq = Len(rows),
         row.prior = IF rows = <<>> THEN GENESIS ELSE Last(rows).hash
  PROVE  Linked(Append(rows, row))
<1> DEFINE more == Append(rows, row)
<1>1. /\ Len(rows) \in Nat /\ DOMAIN rows = 1..Len(rows) /\ DOMAIN more = 1..(Len(rows) + 1)
      /\ \A i \in DOMAIN rows : more[i] = rows[i]
      /\ more[Len(rows) + 1] = row
  OBVIOUS
<1>2. \A i \in DOMAIN rows : Sound(rows[i]) /\ rows[i].seq = i - 1 /\ rows[i].prior = PriorIn(rows, i)
  BY DEF Linked
<1>3. rows = <<>> <=> Len(rows) = 0
  BY EmptySeq
<1> HIDE DEF more
<1>4. PriorIn(more, Len(rows) + 1) = IF rows = <<>> THEN GENESIS ELSE Last(rows).hash
  BY <1>1, <1>3 DEF PriorIn, Last
<1>5. \A i \in DOMAIN rows : PriorIn(more, i) = PriorIn(rows, i)
  BY <1>1 DEF PriorIn
<1>6. \A i \in DOMAIN more : Sound(more[i]) /\ more[i].seq = i - 1 /\ more[i].prior = PriorIn(more, i)
  <2> SUFFICES ASSUME NEW i \in DOMAIN more
               PROVE  Sound(more[i]) /\ more[i].seq = i - 1 /\ more[i].prior = PriorIn(more, i)
    OBVIOUS
  <2>1. CASE i \in DOMAIN rows
    BY <1>1, <1>2, <1>5, <2>1
  <2>2. CASE i = Len(rows) + 1
    BY <1>1, <1>4, <2>2
  <2> QED
    BY <1>1, <2>1, <2>2
<1> QED
  BY <1>6 DEF Linked, more

LEMMA GarbageBreaks ==
  ASSUME NEW A, NEW text \in Seq(A), NEW i \in DOMAIN text, text[i] = Garbage
  PROVE  ~Linked(RowsOf(text))
<1>1. i \in FilledAt(text)
  BY FilledLines
<1>2. ~Sound(text[i])
  BY DEF Sound, IsRow, Garbage
<1> QED
  BY <1>1, <1>2, CleanFile

\* A write that leaves the ledger clean found it clean and ended, and has added what it
\* wrote, a sound row in its place.
LEMMA CleanWrite ==
  ASSUME TypeOK, NEW line, IsRow(line) \/ line = Garbage, lines' = Written(line), Verify'
  PROVE  /\ Verify /\ ended /\ lines' = Append(lines, line)
         /\ Rows' = Append(Rows, line)
         /\ Sound(line) /\ line.seq = Len(Rows)
<1> DEFINE A == {lines[i] : i \in DOMAIN lines} \cup {line, Garbage}
<1>1. lines \in Seq(A) /\ line \in A /\ Garbage \in A
  <2>1. lines \in Seq({lines[i] : i \in DOMAIN lines})
    BY DEF TypeOK
  <2> QED
    BY <2>1, SeqMonotonic
<1>2. line \notin {Empty, Spaces}
  BY DEF IsRow, Garbage, Empty, Spaces
<1>3. Rows' = RowsOf(lines') /\ Linked(RowsOf(lines')) /\ Rows = RowsOf(lines)
  BY DEF Verify, Rows, RowsOf, Linked, PriorIn
<1> HIDE DEF A
<1>4. ended
  <2> SUFFICES ASSUME ~ended PROVE FALSE
    OBVIOUS
  <2>0. lines # <<>>
    BY DEF TypeOK
  <2>1. lines # <<>> /\ lines' = [lines EXCEPT ![Len(lines)] = Garbage]
    BY <2>0 DEF Written, ReplaceAt
  <2>2. Len(lines) \in 1..Len(lines)
    BY <1>1, <2>1, EmptySeq
  <2>3. /\ [lines EXCEPT ![Len(lines)] = Garbage] \in Seq(A)
        /\ Len(lines) \in DOMAIN [lines EXCEPT ![Len(lines)] = Garbage]
        /\ [lines EXCEPT ![Len(lines)] = Garbage][Len(lines)] = Garbage
    BY <1>1, <2>2, ExceptSeq
  <2>4. lines' \in Seq(A) /\ Len(lines) \in DOMAIN lines' /\ lines'[Len(lines)] = Garbage
    BY <2>1, <2>3
  <2> QED
    BY <1>3, <2>4, GarbageBreaks
<1>5. lines' = Append(lines, line)
  BY <1>4 DEF Written
<1>6. RowsOf(lines') = Append(RowsOf(lines), line)
  BY <1>1, <1>2, <1>5, OneMoreRow
<1>7. RowsOf(lines) \in Seq(A)
  BY <1>1, RowsAreFilledLines
<1>8. Linked(RowsOf(lines)) /\ Sound(line) /\ line.seq = Len(RowsOf(lines))
  BY <1>1, <1>3, <1>6, <1>7, CleanBefore
<1> QED
  BY <1>3, <1>4, <1>5, <1>6, <1>8 DEF Verify

\* An append in progress is to write a row.
LEMMA PendingRow ==
  ASSUME TypeOK, NEW w \in Writers, Writing(w)
  PROVE  IsLine(pending[w].row) /\ IsRow(pending[w].row)
BY DEF TypeOK, Writing, Idle, Refused

\* A ledger that once read broken never reads clean again.
LEMMA StaysBroken ==
  ASSUME TypeOK, [Next]_vars, ~Verify
  PROVE  ~Verify'
<1>1. ASSUME lines' = lines
      PROVE  ~Verify'
  BY <1>1 DEF Verify, Rows
<1>2. ASSUME NEW w \in Writers, Writing(w)
      PROVE  IsRow(pending[w].row)
  BY <1>2, PendingRow
<1>3. ASSUME NEW w \in Writers, Write(w)
      PROVE  ~Verify'
  BY <1>2, <1>3, CleanWrite DEF Write
<1>4. ASSUME NEW w \in Writers, NEW left \in CrashLeaves, CutShort(w, left)
      PROVE  ~Verify'
  <2>1. CASE lines' = lines
    BY <1>1, <2>1
  <2>2. CASE lines' = Written(Garbage)
    BY <2>2, CleanWrite
  <2>3. CASE lines' = Written(pending[w].row)
    BY <1>2, <1>4, <2>3, CleanWrite DEF CutShort
  <2> QED
    BY <1>4, <2>1, <2>2, <2>3 DEF CutShort
<1>5. ASSUME NEW changed, Tamper(changed)
      PROVE  FALSE
  BY <1>5 DEF Tamper
<1>6. ASSUME NEW w \in Writers, NEW payload, ReadTail(w, payload)
      PROVE  ~Verify'
  BY <1>1, <1>6 DEF ReadTail
<1>7. CASE Next
  BY <1>3, <1>4, <1>5, <1>6, <1>7 DEF Next, EditPayload, Forge, Reorder, DeletePast, InsertCopy
<1>8. CASE UNCHANGED vars
  BY <1>1, <1>8 DEF vars
<1> QED
  BY <1>7, <1>8

--------------------------------------------------------------------------------
\* What was read back tells payloads apart.
LEMMA RereadTells ==
  ASSUME NEW p \in Payloads, NEW q \in Payloads
  PROVE  /\ Reread(p) = Reread(q) => p = q
         /\ p = Reread(q) => p = q
BY ReorderAssumption DEF Reread

\* A row stands where another belongs: the file is broken.
LEMMA Displaced ==
  ASSUME NEW A, NEW text \in Seq(A), NEW B, NEW other \in Seq(B), Linked(RowsOf(text)),
         NEW i \in FilledAt(text), i + 1 \in FilledAt(text),
         i \in DOMAIN other, other[i] = text[i + 1],
         \A j \in 1..(i - 1) : (j \in FilledAt(text) <=> j \in FilledAt(other))
  PROVE  ~Linked(RowsOf(other))
<1>1. i \in Nat /\ i - 1 \in Nat /\ (i - 1) + 1 = i
  BY FilledLines
<1>2. i \in FilledAt(other)
  BY FilledLines
<1>3. RankOf(text, i - 1) = RankOf(other, i - 1)
  BY <1>1, AgreeingRanks
<1>4. RankOf(text, i) = RankOf(text, i - 1) + 1 /\ RankOf(other, i) = RankOf(other, i - 1) + 1
  BY <1>1, <1>2, RankSteps DEF RankOf, FilledAt
<1>5. RankOf(text, i + 1) = RankOf(text, i) + 1 /\ RankOf(text, i) \in Nat
  BY <1>1, RankSteps, Ranks DEF RankOf, FilledAt
<1>6. text[i + 1].seq = RankOf(text, i + 1) - 1
  BY CleanFile
<1>7. Linked(RowsOf(other)) => other[i].seq = RankOf(other, i) - 1
  BY <1>2, CleanFile
<1> QED
  BY <1>3, <1>4, <1>5, <1>6, <1>7

\* What a tampered file is.
Broken(text) ==
  /\ text \in Seq({text[i] : i \in DOMAIN text}) /\ text # <<>>
  /\ \A i \in DOMAIN text : IsLine(text[i])
  /\ ~Linked(RowsOf(text))

LEMMA OwnLines ==
  ASSUME NEW A, NEW text \in Seq(A)
  PROVE  text \in Seq({text[i] : i \in DOMAIN text})
OBVIOUS

LEMMA EditBreaks ==
  ASSUME TypeOK, Verify, NEW i, RowAt(i), NEW payload \in Payloads, lines[i].payload # payload
  PROVE  Broken([lines EXCEPT ![i].payload = payload])
<1> DEFINE A    == {lines[k] : k \in DOMAIN lines}
           new  == [lines[i] EXCEPT !.payload = payload]
           text == [lines EXCEPT ![i].payload = payload]
<1>1. lines \in Seq(A) /\ i \in DOMAIN lines /\ lines \in Seq(A \cup {new})
  <2>1. lines \in Seq(A)
    BY DEF TypeOK
  <2> QED
    BY <2>1, SeqMonotonic DEF RowAt
<1>2. /\ lines[i].payload \in Payloads /\ lines[i].seq \in Nat
      /\ lines[i] = [kind |-> "row", seq |-> lines[i].seq, payload |-> lines[i].payload,
                     prior |-> lines[i].prior, hash |-> lines[i].hash]
  BY <1>1 DEF TypeOK, RowAt, IsRow, IsLine, Empty, Spaces, Garbage
<1>3. new = [kind |-> "row", seq |-> lines[i].seq, payload |-> payload,
             prior |-> lines[i].prior, hash |-> lines[i].hash]
  BY <1>2
<1>4. text = [lines EXCEPT ![i] = new]
  BY <1>1
<1> HIDE DEF new, text, A
<1>5. /\ text \in Seq(A \cup {new}) /\ DOMAIN text = DOMAIN lines /\ text[i] = new
      /\ \A k \in DOMAIN lines : k # i => text[k] = lines[k]
  BY <1>1, <1>4, ExceptSeq
<1>6. /\ new.kind = "row" /\ new.seq = lines[i].seq /\ new.payload = payload
      /\ new.prior = lines[i].prior /\ new.hash = lines[i].hash
  BY <1>3
<1>7. IsLine(new) /\ IsRow(new)
  <2>1. new = [kind |-> "row", seq |-> new.seq, payload |-> new.payload,
               prior |-> new.prior, hash |-> new.hash]
    BY <1>3, <1>6
  <2> QED
    BY <1>2, <1>6, <2>1 DEF IsLine, IsRow
<1>8. \A k \in DOMAIN text : IsLine(text[k])
  BY <1>5, <1>7 DEF TypeOK
<1>9. ASSUME Linked(RowsOf(text)) PROVE FALSE
  <2>1. i \in FilledAt(lines) /\ i \in FilledAt(text)
    <3>1. i \in FilledAt(lines)
      BY <1>1, FilledLines DEF RowAt
    <3>2. i \in FilledAt(text)
      BY <1>1, <1>5, <1>7, FilledLines
    <3> QED
      BY <3>1, <3>2
  <2>2. Sound(text[i])
    BY <1>5, <1>9, <2>1, CleanFile
  <2>3. Sound(lines[i])
    BY <1>1, <2>1, CleanFile DEF Verify, Rows
  <2>4. Reread(payload) = Reread(lines[i].payload)
    BY <1>5, <1>6, <2>2, <2>3 DEF Sound, Digest
  <2> QED
    BY <1>2, <2>4, RereadTells
<1>10. text # <<>> /\ text \in Seq({text[k] : k \in DOMAIN text})
  BY <1>1, <1>5, OwnLines
<1> QED
  BY <1>8, <1>9, <1>10 DEF Broken, text

LEMMA ForgeBreaks ==
  ASSUME TypeOK, Verify, NEW i, Past(i), NEW payload \in Payloads, lines[i].payload # payload
  PROVE  Broken([lines EXCEPT ![i] = Row(@.seq, payload, @.prior)])
<1> DEFINE A    == {lines[k] : k \in DOMAIN lines}
           new  == Row(lines[i].seq, payload, lines[i].prior)
           text == [lines EXCEPT ![i] = Row(@.seq, payload, @.prior)]
<1>1. /\ lines \in Seq(A) /\ i \in DOMAIN lines /\ i + 1 \in DOMAIN lines /\ i + 1 # i
      /\ lines \in Seq(A \cup {new})
  <2>1. lines \in Seq(A)
    BY DEF TypeOK
  <2>2. i \in DOMAIN lines /\ i + 1 \in DOMAIN lines
    BY DEF Past, RowAt
  <2>3. i + 1 # i
    BY <2>1, <2>2
  <2> QED
    BY <2>1, <2>2, <2>3, SeqMonotonic
<1>2. lines[i].payload \in Payloads /\ lines[i].seq \in Nat
  <2>1. IsLine(lines[i]) /\ IsRow(lines[i])
    BY <1>1 DEF TypeOK, Past, RowAt
  <2> QED
    BY <2>1 DEF IsRow, IsLine, Empty, Spaces, Garbage
<1>3. /\ new.kind = "row" /\ new.seq = lines[i].seq /\ new.payload = payload
      /\ new.prior = lines[i].prior /\ new.hash = <<lines[i].seq, payload, lines[i].prior>>
      /\ new = [kind |-> "row", seq |-> new.seq, payload |-> new.payload,
                prior |-> new.prior, hash |-> new.hash]
  BY DEF Row, Digest
<1>4. text = [lines EXCEPT ![i] = new]
  BY <1>1
<1> HIDE DEF new, text, A
<1>5. /\ text \in Seq(A \cup {new}) /\ DOMAIN text = DOMAIN lines /\ text[i] = new
      /\ \A k \in DOMAIN lines : k # i => text[k] = lines[k]
  BY <1>1, <1>4, ExceptSeq
<1>6. IsLine(new) /\ IsRow(new)
  BY <1>2, <1>3 DEF IsLine, IsRow
<1>7. \A k \in DOMAIN text : IsLine(text[k])
  BY <1>5, <1>6 DEF TypeOK
<1>8. ASSUME Linked(RowsOf(text)) PROVE FALSE
  <2>1. i \in FilledAt(lines) /\ i + 1 \in FilledAt(lines)
    BY <1>1, FilledLines DEF Past, RowAt
  <2>2. i \in FilledAt(text)
    BY <1>1, <1>5, <1>6, FilledLines
  <2>3. i + 1 \in FilledAt(text) /\ text[i + 1] = lines[i + 1]
    BY <1>1, <1>5, FilledLines DEF Past, RowAt
  <2>4. Sound(lines[i]) /\ lines[i + 1].prior = lines[i].hash
    BY <1>1, <2>1, CleanFile DEF Verify, Rows
  <2>5. text[i + 1].prior = text[i].hash
    BY <1>5, <1>8, <2>2, <2>3, CleanFile
  <2>6. payload = Reread(lines[i].payload)
    BY <1>3, <1>5, <2>3, <2>4, <2>5 DEF Sound, Digest
  <2> QED
    BY <1>2, <2>6, RereadTells
<1>9. text # <<>> /\ text \in Seq({text[k] : k \in DOMAIN text})
  BY <1>1, <1>5, OwnLines
<1> QED
  BY <1>7, <1>8, <1>9 DEF Broken, text

LEMMA ReorderBreaks ==
  ASSUME TypeOK, Verify, NEW i, Past(i)
  PROVE  Broken([lines EXCEPT ![i] = lines[i + 1], ![i + 1] = lines[i]])
<1> DEFINE A    == {lines[k] : k \in DOMAIN lines}
           text == [lines EXCEPT ![i] = lines[i + 1], ![i + 1] = lines[i]]
<1>1. lines \in Seq(A) /\ i \in DOMAIN lines /\ i + 1 \in DOMAIN lines /\ i + 1 # i
  <2>1. lines \in Seq(A)
    BY DEF TypeOK
  <2>2. i \in DOMAIN lines /\ i + 1 \in DOMAIN lines
    BY DEF Past, RowAt
  <2> QED
    BY <2>1, <2>2
<1>2. lines[i] \in A /\ lines[i + 1] \in A
  BY <1>1
<1> HIDE DEF A
<1>3. /\ text \in Seq(A) /\ DOMAIN text = DOMAIN lines
      /\ text[i] = lines[i + 1] /\ text[i + 1] = lines[i]
      /\ \A k \in DOMAIN lines : k # i /\ k # i + 1 => text[k] = lines[k]
  BY <1>1, <1>2
<1> HIDE DEF text
<1>4. \A k \in DOMAIN text : IsLine(text[k])
  BY <1>1, <1>3 DEF TypeOK
<1>5. i \in FilledAt(lines) /\ i + 1 \in FilledAt(lines)
  BY <1>1, FilledLines DEF Past, RowAt
<1>6. \A j \in 1..(i - 1) : (j \in FilledAt(lines) <=> j \in FilledAt(text))
  BY <1>1, <1>3, FilledLines
<1>7. Linked(RowsOf(lines))
  BY DEF Verify, Rows
<1>8. ~Linked(RowsOf(text))
  BY <1>1, <1>3, <1>5, <1>6, <1>7, Displaced
<1>9. text # <<>> /\ text \in Seq({text[k] : k \in DOMAIN text})
  BY <1>1, <1>3, OwnLines
<1> QED
  BY <1>4, <1>8, <1>9 DEF Broken, text

\* What taking an element out of a sequence and putting one in do to it.
LEMMA Removed ==
  ASSUME NEW A, NEW seq \in Seq(A), NEW i \in 1..Len(seq)
  PROVE  /\ RemoveAt(seq, i) \in Seq(A) /\ DOMAIN RemoveAt(seq, i) = 1..(Len(seq) - 1)
         /\ \A k \in 1..(i - 1) : RemoveAt(seq, i)[k] = seq[k]
         /\ \A k \in i..(Len(seq) - 1) : RemoveAt(seq, i)[k] = seq[k + 1]
<1> DEFINE before == SubSeq(seq, 1, i - 1)
           after  == SubSeq(seq, i + 1, Len(seq))
<1>1. Len(seq) \in Nat /\ i \in Nat \ {0} /\ i <= Len(seq)
  OBVIOUS
<1>2. before \in Seq(A) /\ Len(before) = i - 1 /\ \A k \in 1..(i - 1) : before[k] = seq[k]
  BY <1>1
<1>3. /\ after \in Seq(A) /\ Len(after) = Len(seq) - i
      /\ \A k \in 1..(Len(seq) - i) : after[k] = seq[k + i]
  BY <1>1
<1>4. RemoveAt(seq, i) = before \o after
  BY DEF RemoveAt
<1> HIDE DEF before, after
<1>5. /\ before \o after \in Seq(A) /\ Len(before \o after) = Len(seq) - 1
      /\ \A k \in 1..(i - 1) : (before \o after)[k] = before[k]
      /\ \A k \in i..(Len(seq) - 1) : (before \o after)[k] = after[k - (i - 1)]
  <2> DEFINE both == before \o after
  <2>1. /\ both \in Seq(A) /\ Len(both) = Len(before) + Len(after)
        /\ \A k \in 1..(Len(before) + Len(after)) :
             both[k] = IF k <= Len(before) THEN before[k] ELSE after[k - Len(before)]
    BY <1>2, <1>3, ConcatProperties
  <2> HIDE DEF both
  <2>2. /\ both \in Seq(A) /\ Len(both) = Len(seq) - 1
        /\ \A k \in 1..(i - 1) : both[k] = before[k]
        /\ \A k \in i..(Len(seq) - 1) : both[k] = after[k - (i - 1)]
    <3>1. Len(before) + Len(after) = Len(seq) - 1
      BY <1>1, <1>2, <1>3
    <3>2. \A k \in 1..(i - 1) : k \in 1..(Len(before) + Len(after)) /\ k <= Len(before)
      BY <1>1, <1>2, <3>1
    <3>3. \A k \in i..(Len(seq) - 1) :
            k \in 1..(Len(before) + Len(after)) /\ ~(k <= Len(before)) /\ Len(before) = i - 1
      BY <1>1, <1>2, <3>1
    <3> QED
      BY <2>1, <3>1, <3>2, <3>3
  <2> QED
    BY <2>2 DEF both
<1>6. \A k \in i..(Len(seq) - 1) : /\ k - (i - 1) \in 1..(Len(seq) - i)
                                  /\ (k - (i - 1)) + i = k + 1
  BY <1>1
<1>7. \A k \in i..(Len(seq) - 1) : (before \o after)[k] = seq[k + 1]
  BY <1>3, <1>5, <1>6
<1>8. DOMAIN (before \o after) = 1..(Len(seq) - 1)
  BY <1>5
<1> QED
  BY <1>2, <1>4, <1>5, <1>7, <1>8

LEMMA Inserted ==
  ASSUME NEW A, NEW seq \in Seq(A), NEW i \in 1..Len(seq), NEW new \in A
  PROVE  /\ InsertAt(seq, i, new) \in Seq(A) /\ DOMAIN InsertAt(seq, i, new) = 1..(Len(seq) + 1)
         /\ \A k \in 1..(i - 1) : InsertAt(seq, i, new)[k] = seq[k]
         /\ InsertAt(seq, i, new)[i] = new
         /\ \A k \in i..Len(seq) : InsertAt(seq, i, new)[k + 1] = seq[k]
<1> DEFINE before == SubSeq(seq, 1, i - 1)
           after  == SubSeq(seq, i, Len(seq))
           upto   == before \o <<new>>
<1>1. Len(seq) \in Nat /\ i \in Nat \ {0} /\ i <= Len(seq)
  OBVIOUS
<1>2. before \in Seq(A) /\ Len(before) = i - 1 /\ \A k \in 1..(i - 1) : before[k] = seq[k]
  BY <1>1
<1>3. /\ after \in Seq(A) /\ Len(after) = Len(seq) - (i - 1)
      /\ \A k \in 1..(Len(seq) - (i - 1)) : after[k] = seq[k + (i - 1)]
  BY <1>1
<1>4. InsertAt(seq, i, new) = upto \o after
  BY DEF InsertAt
<1> HIDE DEF before, after
<1>5. /\ upto \in Seq(A) /\ Len(upto) = i /\ upto[i] = new
      /\ \A k \in 1..(i - 1) : upto[k] = before[k]
  BY <1>1, <1>2
<1> HIDE DEF upto
<1>6. /\ upto \o after \in Seq(A) /\ Len(upto \o after) = Len(seq) + 1
      /\ \A k \in 1..i : (upto \o after)[k] = upto[k]
      /\ \A k \in (i + 1)..(Len(seq) + 1) : (upto \o after)[k] = after[k - i]
  <2> DEFINE both == upto \o after
  <2>1. /\ both \in Seq(A) /\ Len(both) = Len(upto) + Len(after)
        /\ \A k \in 1..(Len(upto) + Len(after)) :
             both[k] = IF k <= Len(upto) THEN upto[k] ELSE after[k - Len(upto)]
    BY <1>3, <1>5, ConcatProperties
  <2> HIDE DEF both
  <2>2. /\ both \in Seq(A) /\ Len(both) = Len(seq) + 1
        /\ \A k \in 1..i : both[k] = upto[k]
        /\ \A k \in (i + 1)..(Len(seq) + 1) : both[k] = after[k - i]
    BY <1>1, <1>3, <1>5, <2>1
  <2> QED
    BY <2>2 DEF both
<1>7. \A k \in i..Len(seq) : /\ k + 1 \in (i + 1)..(Len(seq) + 1)
                            /\ (k + 1) - i \in 1..(Len(seq) - (i - 1))
                            /\ ((k + 1) - i) + (i - 1) = k
  BY <1>1
<1>8. \A k \in i..Len(seq) : (upto \o after)[k + 1] = seq[k]
  BY <1>3, <1>6, <1>7
<1>9. (upto \o after)[i] = new /\ \A k \in 1..(i - 1) : (upto \o after)[k] = seq[k]
  <2>1. i \in 1..i /\ \A k \in 1..(i - 1) : k \in 1..i
    BY <1>1
  <2> QED
    BY <1>2, <1>5, <1>6, <2>1
<1>10. DOMAIN (upto \o after) = 1..(Len(seq) + 1)
  BY <1>6
<1> QED
  BY <1>4, <1>6, <1>8, <1>9, <1>10

LEMMA DeleteBreaks ==
  ASSUME TypeOK, Verify, NEW i, Past(i)
  PROVE  Broken(RemoveAt(lines, i))
<1> DEFINE A    == {lines[k] : k \in DOMAIN lines}
           text == RemoveAt(lines, i)
<1>1. lines \in Seq(A) /\ i \in DOMAIN lines /\ i + 1 \in DOMAIN lines
  BY DEF TypeOK, Past, RowAt
<1> HIDE DEF A
<1>3. /\ text \in Seq(A) /\ DOMAIN text = 1..(Len(lines) - 1)
      /\ Len(lines) \in Nat /\ DOMAIN lines = 1..Len(lines)
      /\ \A k \in 1..(i - 1) : text[k] = lines[k]
      /\ \A k \in i..(Len(lines) - 1) : text[k] = lines[k + 1]
  BY <1>1, Removed
<1> HIDE DEF text
<1>4. \A k \in DOMAIN text : IsLine(text[k])
  <2>1. \A k \in DOMAIN text : k \in 1..(i - 1) \/ (k \in i..(Len(lines) - 1) /\ k + 1 \in DOMAIN lines)
    BY <1>1, <1>3
  <2>2. \A k \in 1..(i - 1) : k \in DOMAIN lines
    BY <1>1, <1>3
  <2> QED
    BY <1>3, <2>1, <2>2 DEF TypeOK
<1>5. i \in FilledAt(lines) /\ i + 1 \in FilledAt(lines)
  BY <1>1, FilledLines DEF Past, RowAt
<1>6. i \in DOMAIN text /\ text[i] = lines[i + 1]
  BY <1>1, <1>3
<1>7. \A j \in 1..(i - 1) : (j \in FilledAt(lines) <=> j \in FilledAt(text))
  <2>1. \A j \in 1..(i - 1) : j \in DOMAIN lines /\ j \in DOMAIN text
    BY <1>1, <1>3
  <2> QED
    BY SMTT(30), <1>1, <1>3, <2>1, FilledLines
<1>8. Linked(RowsOf(lines))
  BY DEF Verify, Rows
<1>9. ~Linked(RowsOf(text))
  BY <1>1, <1>3, <1>5, <1>6, <1>7, <1>8, Displaced
<1>10. text # <<>> /\ text \in Seq({text[k] : k \in DOMAIN text})
  BY <1>3, <1>6, OwnLines
<1> QED
  BY <1>4, <1>9, <1>10 DEF Broken, text

LEMMA InsertBreaks ==
  ASSUME TypeOK, Verify, NEW i, RowAt(i), NEW j, RowAt(j)
  PROVE  Broken(InsertAt(lines, i, lines[j]))
<1> DEFINE A    == {lines[k] : k \in DOMAIN lines}
           text == InsertAt(lines, i, lines[j])
<1>1. /\ lines \in Seq(A) /\ i \in DOMAIN lines /\ j \in DOMAIN lines /\ lines[j] \in A
      /\ IsRow(lines[i]) /\ IsRow(lines[j])
  BY DEF TypeOK, RowAt
<1> HIDE DEF A
<1>3. /\ text \in Seq(A) /\ DOMAIN text = 1..(Len(lines) + 1)
      /\ Len(lines) \in Nat /\ DOMAIN lines = 1..Len(lines)
      /\ \A k \in 1..(i - 1) : text[k] = lines[k]
      /\ text[i] = lines[j]
      /\ \A k \in i..Len(lines) : text[k + 1] = lines[k]
  <2> DEFINE new == lines[j]
  <2>1. lines \in Seq(A) /\ i \in 1..Len(lines) /\ new \in A
    BY <1>1
  <2> HIDE DEF new, text
  <2>2. /\ InsertAt(lines, i, new) \in Seq(A) /\ DOMAIN InsertAt(lines, i, new) = 1..(Len(lines) + 1)
        /\ \A k \in 1..(i - 1) : InsertAt(lines, i, new)[k] = lines[k]
        /\ InsertAt(lines, i, new)[i] = new
        /\ \A k \in i..Len(lines) : InsertAt(lines, i, new)[k + 1] = lines[k]
    BY <2>1, Inserted
  <2>3. Len(lines) \in Nat /\ DOMAIN lines = 1..Len(lines)
    BY <1>1
  <2> QED
    BY <2>2, <2>3 DEF new, text
<1> HIDE DEF text
<1>4. \A k \in DOMAIN text : IsLine(text[k])
  <2> SUFFICES ASSUME NEW k \in DOMAIN text PROVE IsLine(text[k])
    OBVIOUS
  <2>1. CASE k < i
    <3>1. k \in 1..(i - 1) /\ k \in DOMAIN lines
      BY <1>1, <1>3, <2>1
    <3> QED
      BY <1>3, <3>1 DEF TypeOK
  <2>2. CASE k = i
    BY <1>1, <1>3, <2>2 DEF TypeOK
  <2>3. CASE k > i
    <3>1. k - 1 \in i..Len(lines) /\ k - 1 \in DOMAIN lines /\ (k - 1) + 1 = k
      BY <1>1, <1>3, <2>3
    <3> QED
      BY <1>3, <3>1 DEF TypeOK
  <2> QED
    BY <1>1, <1>3, <2>1, <2>2, <2>3
<1>5. /\ i \in DOMAIN text /\ i + 1 \in DOMAIN text
      /\ text[i] = lines[j] /\ text[i + 1] = lines[i]
  BY <1>1, <1>3
<1>6. i \in FilledAt(text) /\ i + 1 \in FilledAt(text)
  BY <1>1, <1>3, <1>5, FilledLines
<1>7. \A k \in 1..(i - 1) : (k \in FilledAt(text) <=> k \in FilledAt(lines))
  <2>1. \A k \in 1..(i - 1) : k \in DOMAIN lines /\ k \in DOMAIN text
    BY <1>1, <1>3
  <2> QED
    BY <1>1, <1>3, <2>1, FilledLines
<1>8. Linked(RowsOf(lines))
  BY DEF Verify, Rows
<1>9. ~Linked(RowsOf(text))
  BY <1>1, <1>3, <1>5, <1>6, <1>7, <1>8, Displaced
<1>10. text # <<>> /\ text \in Seq({text[k] : k \in DOMAIN text})
  BY <1>3, <1>5, OwnLines
<1> QED
  BY <1>4, <1>9, <1>10 DEF Broken, text

--------------------------------------------------------------------------------
LEMMA NextFile ==
  /\ Rows' = RowsOf(lines') /\ (Verify' <=> Linked(RowsOf(lines')))
  /\ lines' = lines => Rows' = Rows /\ (Verify' <=> Verify)
BY DEF Verify, Rows, RowsOf, Linked, PriorIn

\* A row has the fields it was made of.
LEMMA RowFields ==
  ASSUME NEW seq \in Nat, NEW payload \in Payloads, NEW prior
  PROVE  /\ Row(seq, payload, prior).seq = seq /\ Row(seq, payload, prior).payload = payload
         /\ Row(seq, payload, prior).prior = prior
         /\ Row(seq, payload, prior).hash = <<seq, payload, prior>>
         /\ IsRow(Row(seq, payload, prior)) /\ IsLine(Row(seq, payload, prior))
<1> DEFINE row == Row(seq, payload, prior)
<1>1. /\ row.kind = "row" /\ row.seq = seq /\ row.payload = payload /\ row.prior = prior
      /\ row.hash = <<seq, payload, prior>>
      /\ row = [kind |-> "row", seq |-> row.seq, payload |-> row.payload,
                prior |-> row.prior, hash |-> row.hash]
  BY DEF Row, Digest
<1> HIDE DEF row
<1>2. IsRow(row) /\ IsLine(row)
  BY <1>1 DEF IsRow, IsLine
<1> QED
  BY <1>1, <1>2 DEF row

LEMMA RowLine ==
  ASSUME NEW line, IsLine(line), IsRow(line)
  PROVE  line.seq \in Nat /\ line.payload \in Payloads
BY DEF IsLine, IsRow, Empty, Spaces, Garbage

\* The greatest of some numbers up to n is one of them.
LEMMA GreatestIsMax ==
  ASSUME NEW n \in Nat, NEW S \in SUBSET (1..n), S # {}
  PROVE  Max(S) \in S /\ \A k \in S : k <= Max(S)
<1>1. \E m \in S : \A k \in S : k <= m
  BY Greatest
<1>2. S \subseteq Int
  OBVIOUS
<1> QED
  BY <1>1, <1>2, Zenon DEF Max

\* The tail is no line or one of the lines, and is the last one if that is a row.
LEMMA TheTail ==
  ASSUME TypeOK
  PROVE  /\ LastLine = NoLine \/ \E i \in DOMAIN lines : LastLine = lines[i]
         /\ lines # <<>> /\ IsRow(Last(lines)) => LastLine = Last(lines)
<1> DEFINE full == {i \in DOMAIN lines : lines[i] # Empty}
           A == {lines[i] : i \in DOMAIN lines}
<1>1. lines \in Seq(A) /\ DOMAIN lines = 1..Len(lines) /\ Len(lines) \in Nat
  BY DEF TypeOK
<1> HIDE DEF A
<1>2. LastLine = IF full = {} \/ (full = {1} /\ lines[1] = Spaces) THEN NoLine ELSE lines[Max(full)]
  BY DEF LastLine
<1>3. full \in SUBSET (1..Len(lines))
  BY <1>1
<1> HIDE DEF full
<1>4. full # {} => Max(full) \in full /\ \A k \in full : k <= Max(full)
  BY <1>1, <1>3, GreatestIsMax
<1>5. ASSUME lines # <<>>, IsRow(Last(lines))
      PROVE  LastLine = Last(lines)
  <2>1. Len(lines) \in 1..Len(lines) /\ Last(lines) = lines[Len(lines)]
    BY <1>1, <1>5, EmptySeq DEF Last
  <2>2. Last(lines) # Empty /\ Last(lines) # Spaces
    BY <1>5 DEF IsRow, Empty, Spaces
  <2>3. Len(lines) \in full
    BY <1>1, <2>1, <2>2 DEF full
  <2>4. Max(full) = Len(lines)
    <3>1. Max(full) \in 1..Len(lines) /\ Len(lines) <= Max(full)
      BY <1>3, <1>4, <2>3
    <3> QED
      BY <1>1, <3>1
  <2>5. ~(full = {1} /\ lines[1] = Spaces)
    BY <2>1, <2>2, <2>3
  <2> QED
    BY <1>2, <2>1, <2>3, <2>4, <2>5
<1> QED
  BY <1>1, <1>2, <1>3, <1>4, <1>5

\* What is written leaves a file of lines.
LEMMA WrittenLines ==
  ASSUME TypeOK, NEW line, IsLine(line)
  PROVE  /\ Written(line) \in Seq({Written(line)[i] : i \in DOMAIN Written(line)})
         /\ Written(line) # <<>>
         /\ \A i \in DOMAIN Written(line) : IsLine(Written(line)[i])
<1> DEFINE A == {lines[i] : i \in DOMAIN lines} \cup {line, Garbage}
           text == Written(line)
<1>1. lines \in Seq(A) /\ line \in A /\ Garbage \in A
  <2>1. lines \in Seq({lines[i] : i \in DOMAIN lines})
    BY DEF TypeOK
  <2> QED
    BY <2>1, SeqMonotonic
<1>2. IsLine(Garbage) /\ \A i \in DOMAIN lines : IsLine(lines[i])
  BY DEF TypeOK, IsLine
<1> HIDE DEF A, text
<1>3. CASE ended
  <2>1. text = Append(lines, line)
    BY <1>3 DEF text, Written
  <2>2. /\ text \in Seq(A) /\ DOMAIN text = 1..(Len(lines) + 1) /\ Len(lines) \in Nat
        /\ text[Len(lines) + 1] = line /\ DOMAIN lines = 1..Len(lines)
        /\ \A i \in 1..Len(lines) : text[i] = lines[i]
    BY <1>1, <2>1
  <2>3. \A i \in DOMAIN text : i = Len(lines) + 1 \/ i \in 1..Len(lines)
    BY <2>2
  <2>4. \A i \in DOMAIN text : IsLine(text[i])
    BY <1>2, <2>2, <2>3
  <2>5. text # <<>>
    BY <2>2
  <2> QED
    BY <2>2, <2>4, <2>5, OwnLines DEF text
<1>4. CASE ~ended
  <2>0. lines # <<>>
    BY <1>4 DEF TypeOK
  <2>1. text = [lines EXCEPT ![Len(lines)] = Garbage]
    BY <1>4 DEF text, Written, ReplaceAt
  <2>2. Len(lines) \in 1..Len(lines)
    BY <1>1, <2>0, EmptySeq
  <2>3. /\ text \in Seq(A) /\ DOMAIN text = DOMAIN lines
        /\ \A i \in DOMAIN text : text[i] = IF i = Len(lines) THEN Garbage ELSE lines[i]
    BY <1>1, <2>1, <2>2
  <2>4. text # <<>>
    BY <1>1, <2>2, <2>3
  <2> QED
    BY <1>2, <2>3, <2>4, OwnLines DEF text
<1> QED
  BY <1>3, <1>4

--------------------------------------------------------------------------------
\* At first the file has blanks at most.
LEMMA NoRows ==
  ASSUME lines \in Blanks
  PROVE  /\ lines \in Seq({Empty, Spaces})
         /\ \A i \in DOMAIN lines : lines[i] \in {Empty, Spaces}
         /\ Rows = <<>> /\ Verify
<1>1. lines \in Seq({Empty, Spaces}) /\ \A i \in DOMAIN lines : lines[i] \in {Empty, Spaces}
  BY BlankAssumption
<1>2. Keep(lines, {lines[i] : i \in DOMAIN lines} \ {Empty, Spaces}) = <<>>
  <2> DEFINE S == {lines[i] : i \in DOMAIN lines} \ {Empty, Spaces}
  <2>1. \A i \in DOMAIN lines : lines[i] \notin S
    BY <1>1
  <2> HIDE DEF S
  <2>2. Keep(lines, S) = <<>>
    BY <1>1, <2>1, KeepOfNone
  <2> QED
    BY <2>2 DEF S
<1>3. Rows = <<>>
  BY <1>2 DEF Rows, RowsOf
<1>4. Verify
  BY <1>3 DEF Verify, Linked
<1> QED
  BY <1>1, <1>3, <1>4

LEMMA InitInv ==
  ASSUME Init
  PROVE  IInv
<1>1. lines \in Blanks /\ acked = <<>> /\ ended /\ ~tampered
  BY DEF Init
<1>2. /\ lines \in Seq({Empty, Spaces}) /\ Rows = <<>> /\ Verify
      /\ \A i \in DOMAIN lines : lines[i] \in {Empty, Spaces}
  BY <1>1, NoRows
<1>3. lines \in Seq({lines[i] : i \in DOMAIN lines}) /\ \A i \in DOMAIN lines : IsLine(lines[i])
  BY <1>2, OwnLines DEF IsLine
<1>4. \A w \in Writers : pending[w] = Idle /\ ~Writing(w)
  BY DEF Init, Writing, Idle
<1>5. TypeOK
  BY <1>1, <1>3, <1>4 DEF TypeOK, Init
<1>6. AppendInTurn
  BY <1>1, <1>4 DEF AppendInTurn
<1>7. CleanReadIsComplete /\ CleanWhileUndisturbed /\ TamperEvident
  BY <1>1, <1>2 DEF CleanReadIsComplete, CleanWhileUndisturbed, TamperEvident
<1> QED
  BY <1>5, <1>6, <1>7 DEF IInv

LEMMA TamperInv ==
  ASSUME IInv, NEW changed, Broken(changed), Tamper(changed)
  PROVE  IInv'
<1>1. lines' = changed /\ tampered' /\ UNCHANGED <<ended, pending, acked>>
  BY DEF Tamper
<1>2. TypeOK'
  BY <1>1 DEF IInv, TypeOK, Broken
<1>3. ~Verify' /\ ~Undisturbed'
  BY <1>1, NextFile DEF Broken, Undisturbed
<1> QED
  BY <1>1, <1>2, <1>3
  DEF IInv, AppendInTurn, TamperEvident, CleanReadIsComplete, CleanWhileUndisturbed

--------------------------------------------------------------------------------
\* The link made of the tail is a row, and the next one if nothing was disturbed.
LEMMA LinkOfTail ==
  ASSUME TypeOK, NEW payload \in Payloads, LastLine = NoLine \/ Sound(LastLine)
  PROVE  LET row == Chained(LastLine, payload)
         IN  /\ IsLine(row) /\ IsRow(row)
             /\ row = Row(row.seq, row.payload, row.prior)
<1>1. CASE LastLine = NoLine
  BY <1>1, RowFields DEF Chained
<1>2. CASE LastLine # NoLine
  <2>1. IsLine(LastLine) /\ IsRow(LastLine)
    BY <1>2, TheTail DEF TypeOK, Sound
  <2>2. LastLine.seq + 1 \in Nat
    BY <2>1, RowLine
  <2>3. Chained(LastLine, payload) = Row(LastLine.seq + 1, payload, LastLine.hash)
    BY <1>2 DEF Chained
  <2> QED
    BY <2>2, <2>3, RowFields
<1> QED
  BY <1>1, <1>2

LEMMA LinkFits ==
  ASSUME IInv, Undisturbed, Stable, NEW payload \in Payloads, LastLine = NoLine \/ Sound(LastLine)
  PROVE  LET row == Chained(LastLine, payload)
         IN  /\ row.seq = Len(Rows)
             /\ row.prior = IF Rows = <<>> THEN GENESIS ELSE Last(Rows).hash
<1> DEFINE A == {lines[i] : i \in DOMAIN lines}
<1>1. lines \in Seq(A) /\ Len(lines) \in Nat /\ DOMAIN lines = 1..Len(lines)
  BY DEF IInv, TypeOK
<1> HIDE DEF A
<1>2. TypeOK /\ AppendInTurn /\ Verify /\ Len(Rows) = Len(acked) /\ acked \in Seq(Nat \X Payloads)
  BY DEF IInv, CleanWhileUndisturbed, Stable, TypeOK
<1>3. CASE acked = <<>>
  <2>1. /\ Rows = <<>> /\ lines \in Seq({Empty, Spaces})
        /\ \A i \in DOMAIN lines : lines[i] \in {Empty, Spaces}
    BY <1>2, <1>3, NoRows DEF AppendInTurn
  <2>2. LastLine = NoLine
    <3>1. ~Sound(Empty) /\ ~Sound(Spaces)
      BY DEF Sound, IsRow, Empty, Spaces
    <3> QED
      BY <1>2, <2>1, <3>1, TheTail
  <2>3. Chained(LastLine, payload) = Row(0, payload, GENESIS)
    BY <2>2 DEF Chained
  <2>4. Len(Rows) = 0
    BY <2>1
  <2>5. Row(0, payload, GENESIS).seq = 0 /\ Row(0, payload, GENESIS).prior = GENESIS
    BY RowFields
  <2> QED
    BY <2>1, <2>3, <2>4, <2>5
<1>4. CASE acked # <<>>
  <2>1. IsRow(Last(lines)) /\ Len(Rows) # 0
    BY <1>2, <1>4, EmptySeq DEF AppendInTurn
  <2>2. Len(Rows) <= Len(lines) /\ Len(Rows) \in Nat
    BY <1>1, KeptSequence, RowsAreFilledLines DEF Rows, RowsOf
  <2>3. /\ lines # <<>> /\ Len(lines) \in DOMAIN lines /\ Last(lines) = lines[Len(lines)]
        /\ Rows # <<>>
    <3>1. Len(lines) # 0
      BY <1>1, <2>1, <2>2
    <3>2. Rows # <<>>
      BY <2>1
    <3> QED
      BY <1>1, <3>1, <3>2 DEF Last
  <2>4. LastLine = Last(lines)
    BY <1>2, <2>1, <2>3, TheTail
  <2>5. Len(lines) \in FilledAt(lines)
    BY <1>1, <2>1, <2>3, FilledLines
  <2>6. RankOf(lines, Len(lines)) = Len(Rows)
    <3>1. Rank(lines, Filled(lines), Len(lines)) = Cardinality(Places(lines, Filled(lines)))
      BY <1>1, RankAtEnd
    <3>2. Len(Keep(lines, Filled(lines))) = Cardinality(Places(lines, Filled(lines)))
      BY <1>1, KeptSequence
    <3>3. Rows = Keep(lines, Filled(lines))
      BY DEF Rows, RowsOf, Filled
    <3> QED
      BY <3>1, <3>2, <3>3 DEF RankOf
  <2>7. Rows[Len(Rows)] = Last(lines)
    BY <1>1, <2>3, <2>5, <2>6, RowsAreFilledLines DEF Rows
  <2>8. Last(lines).seq = Len(Rows) - 1
    BY <1>1, <1>2, <2>3, <2>5, <2>6, CleanFile DEF Verify, Rows
  <2>9. LastLine # NoLine
    BY <2>1, <2>4 DEF IsRow, NoLine
  <2>10. Chained(LastLine, payload) = Row(LastLine.seq + 1, payload, LastLine.hash)
    BY <2>9 DEF Chained
  <2>11. LastLine.seq + 1 = Len(Rows) /\ LastLine.seq + 1 \in Nat
    BY <2>2, <2>4, <2>8
  <2>12. LastLine.hash = Last(Rows).hash
    BY <2>4, <2>7 DEF Last
  <2> QED
    BY <2>3, <2>10, <2>11, <2>12, RowFields
<1> QED
  BY <1>3, <1>4

LEMMA ReadTailInv ==
  ASSUME IInv, NEW w \in Writers, NEW payload \in Payloads, ReadTail(w, payload)
  PROVE  IInv'
<1> DEFINE row == Chained(LastLine, payload)
           now == IF LastLine = NoLine \/ Sound(LastLine)
                  THEN [step |-> "writing", row |-> row] ELSE Refused
<1>1. /\ UNCHANGED <<lines, ended, acked, tampered, crashed>>
      /\ overlapped' = (overlapped \/ \E v \in Writers : Writing(v))
      /\ pending' = [pending EXCEPT ![w] = now]
  BY DEF ReadTail
<1>2. Rows' = Rows /\ (Verify' <=> Verify)
  BY <1>1, NextFile
<1>3. ASSUME LastLine = NoLine \/ Sound(LastLine)
      PROVE  /\ now = [step |-> "writing", row |-> row] /\ now.row = row
             /\ IsLine(row) /\ IsRow(row) /\ row = Row(row.seq, row.payload, row.prior)
  <2>1. now = [step |-> "writing", row |-> row] /\ now.row = row
    BY <1>3
  <2>2. TypeOK
    BY DEF IInv
  <2> QED
    BY <1>3, <2>1, <2>2, LinkOfTail
<1>4. now.step = "writing" => LastLine = NoLine \/ Sound(LastLine)
  BY DEF Refused
<1>5. LastLine = NoLine \/ Sound(LastLine) \/ now = Refused
  OBVIOUS
<1> HIDE DEF now, row
<1>6. /\ DOMAIN pending' = Writers /\ pending'[w] = now
      /\ \A v \in Writers : v # w => pending'[v] = pending[v]
  BY <1>1 DEF IInv, TypeOK
<1>7. TypeOK'
  <2>1. \A v \in Writers :
          \/ pending'[v] \in {Idle, Refused}
          \/ /\ pending'[v] = [step |-> "writing", row |-> pending'[v].row]
             /\ IsLine(pending'[v].row) /\ IsRow(pending'[v].row)
    <3>1. \/ pending'[w] \in {Idle, Refused}
          \/ /\ pending'[w] = [step |-> "writing", row |-> pending'[w].row]
             /\ IsLine(pending'[w].row) /\ IsRow(pending'[w].row)
      BY <1>3, <1>5, <1>6
    <3> QED
      BY <1>6, <3>1 DEF IInv, TypeOK
  <2> QED
    BY <1>1, <1>6, <2>1 DEF IInv, TypeOK
<1>8. AppendInTurn'
  <2> SUFFICES ASSUME Undisturbed' PROVE AppendInTurn'
    BY DEF AppendInTurn
  <2>1. Undisturbed /\ (\A v \in Writers : ~Writing(v))
    BY <1>1 DEF Undisturbed
  <2>2. \A v \in Writers : Writing(v)' => v = w
    BY <1>6, <2>1 DEF Writing
  <2>3. ASSUME Writing(w)'
        PROVE  /\ pending'[w].row = Row(pending'[w].row.seq, pending'[w].row.payload, pending'[w].row.prior)
               /\ Stable => /\ pending'[w].row.seq   = Len(Rows)
                            /\ pending'[w].row.prior = IF Rows = <<>> THEN GENESIS ELSE Last(Rows).hash
    <3>1. LastLine = NoLine \/ Sound(LastLine)
      BY <1>4, <1>6, <2>3 DEF Writing
    <3>2. pending'[w].row = row /\ row = Row(row.seq, row.payload, row.prior)
      BY <1>3, <1>6, <3>1
    <3>3. Stable => /\ row.seq = Len(Rows)
                    /\ row.prior = IF Rows = <<>> THEN GENESIS ELSE Last(Rows).hash
      BY <2>1, <3>1, LinkFits DEF row
    <3> QED
      BY <3>2, <3>3
  <2>4. Stable' <=> Stable
    BY <1>1 DEF Stable
  <2>5. ended' /\ IF acked' = <<>> THEN lines' \in Blanks ELSE IsRow(Last(lines'))
    BY <1>1, <2>1 DEF IInv, AppendInTurn
  <2> QED
    BY <1>2, <2>2, <2>3, <2>4, <2>5 DEF AppendInTurn
<1>9. TamperEvident' /\ CleanReadIsComplete'
  BY <1>1, <1>2 DEF IInv, TamperEvident, CleanReadIsComplete
<1>10. CleanWhileUndisturbed'
  BY <1>1, <1>2 DEF IInv, CleanWhileUndisturbed, Undisturbed
<1> QED
  BY <1>7, <1>8, <1>9, <1>10 DEF IInv

--------------------------------------------------------------------------------
\* A write keeps what was complete complete.
LEMMA StaysComplete ==
  ASSUME IInv, NEW line, IsRow(line) \/ line = Garbage, lines' = Written(line),
         Verify', ~tampered
  PROVE  /\ Rows' = Append(Rows, line) /\ line.seq = Len(Rows) /\ Len(Rows) \in Nat
         /\ Rows'[Len(Rows) + 1] = line /\ Len(Rows) + 1 \in DOMAIN Rows'
         /\ \A i \in DOMAIN acked :
              LET at == acked[i][1] + 1
              IN  at \in DOMAIN Rows' /\ Rows'[at].payload = acked[i][2]
<1>1. TypeOK
  BY DEF IInv
<1>2. Verify /\ Rows' = Append(Rows, line) /\ line.seq = Len(Rows)
  BY <1>1, CleanWrite
<1>3. \A i \in DOMAIN acked : /\ acked[i][1] + 1 \in DOMAIN Rows
                              /\ Rows[acked[i][1] + 1].payload = acked[i][2]
  BY <1>2 DEF IInv, CleanReadIsComplete
<1> DEFINE A == {lines[i] : i \in DOMAIN lines}
<1>4. /\ Rows \in Seq(A \cup {line}) /\ line \in A \cup {line}
      /\ DOMAIN Rows = 1..Len(Rows) /\ Len(Rows) \in Nat
  <2>1. lines \in Seq(A)
    BY <1>1 DEF TypeOK
  <2> HIDE DEF A
  <2>2. Rows \in Seq(A) /\ DOMAIN Rows = 1..Len(Rows) /\ Len(Rows) \in Nat
    BY <2>1, RowsAreFilledLines DEF Rows
  <2> QED
    BY <2>2, SeqMonotonic
<1> DEFINE rows == Rows
           more == Append(rows, line)
<1> HIDE DEF A, rows
<1>5. /\ \A k \in DOMAIN rows : k \in DOMAIN more /\ more[k] = rows[k]
      /\ Len(rows) + 1 \in DOMAIN more /\ more[Len(rows) + 1] = line
  BY <1>4 DEF rows
<1> HIDE DEF more
<1>6. Rows' = more /\ Rows = rows
  BY <1>2 DEF rows, more
<1> QED
  BY <1>2, <1>3, <1>4, <1>5, <1>6

LEMMA WriteInv ==
  ASSUME IInv, NEW w \in Writers, Write(w)
  PROVE  IInv'
<1> DEFINE row == pending[w].row
<1>1. /\ TypeOK /\ Writing(w) /\ lines' = Written(row) /\ ended'
      /\ acked' = Append(acked, <<row.seq, row.payload>>)
      /\ pending' = [pending EXCEPT ![w] = Idle]
      /\ UNCHANGED <<tampered, crashed, overlapped>>
  BY DEF Write, IInv
<1>2. IsRow(row) /\ IsLine(row) /\ row.seq \in Nat /\ row.payload \in Payloads
  <2>1. IsRow(row) /\ IsLine(row)
    BY <1>1, PendingRow
  <2> QED
    BY <2>1, RowLine
<1>3. AppendInTurn /\ TamperEvident /\ CleanWhileUndisturbed
  BY DEF IInv
<1>4. Writing(w) /\ AppendInTurn /\ Undisturbed =>
        /\ ended /\ (\A v \in Writers : Writing(v) => v = w)
        /\ row = Row(row.seq, row.payload, row.prior)
        /\ Stable => /\ row.seq   = Len(Rows)
                     /\ row.prior = IF Rows = <<>> THEN GENESIS ELSE Last(Rows).hash
  BY DEF AppendInTurn
<1> HIDE DEF row
<1>5. /\ DOMAIN pending' = Writers /\ pending'[w] = Idle
      /\ \A v \in Writers : v # w => pending'[v] = pending[v]
  BY <1>1 DEF TypeOK
<1> DEFINE one == <<row.seq, row.payload>>
<1>6. /\ acked \in Seq(Nat \X Payloads) /\ one \in Nat \X Payloads
      /\ one[1] = row.seq /\ one[2] = row.payload
  BY <1>1, <1>2 DEF TypeOK
<1> HIDE DEF one
<1>7. /\ acked' \in Seq(Nat \X Payloads) /\ acked' # <<>>
      /\ Len(acked') = Len(acked) + 1 /\ Len(acked) \in Nat
      /\ DOMAIN acked = 1..Len(acked) /\ DOMAIN acked' = 1..(Len(acked) + 1)
      /\ acked'[Len(acked) + 1] = one
      /\ \A i \in DOMAIN acked : acked'[i] = acked[i]
  <2>1. acked' = Append(acked, one)
    BY <1>1 DEF one
  <2> QED
    BY <1>6, <2>1
<1>8. TypeOK'
  <2>1. /\ lines' \in Seq({lines'[i] : i \in DOMAIN lines'})
        /\ lines' # <<>>
        /\ \A i \in DOMAIN lines' : IsLine(lines'[i])
    BY <1>1, <1>2, WrittenLines
  <2>2. \A v \in Writers :
          \/ pending'[v] \in {Idle, Refused}
          \/ /\ pending'[v] = [step |-> "writing", row |-> pending'[v].row]
             /\ IsLine(pending'[v].row) /\ IsRow(pending'[v].row)
    BY <1>1, <1>5 DEF TypeOK
  <2> QED
    BY <1>1, <1>5, <1>7, <2>1, <2>2 DEF TypeOK
<1>9. TamperEvident'
  <2>1. tampered => ~Verify
    BY <1>3 DEF TamperEvident
  <2>2. ~Verify => ~Verify'
    BY <1>1, <1>2, CleanWrite
  <2> QED
    BY <1>1, <2>1, <2>2 DEF TamperEvident
<1>10. CleanReadIsComplete'
  <2> SUFFICES ASSUME Verify', ~tampered', NEW i \in DOMAIN acked'
               PROVE  acked'[i][1] + 1 \in DOMAIN Rows' /\ Rows'[acked'[i][1] + 1].payload = acked'[i][2]
    BY DEF CleanReadIsComplete
  <2>1. /\ row.seq = Len(Rows) /\ Rows'[Len(Rows) + 1] = row /\ Len(Rows) + 1 \in DOMAIN Rows'
        /\ \A k \in DOMAIN acked : /\ acked[k][1] + 1 \in DOMAIN Rows'
                                   /\ Rows'[acked[k][1] + 1].payload = acked[k][2]
    BY <1>1, <1>2, StaysComplete
  <2>2. CASE i \in DOMAIN acked
    BY <1>7, <2>1, <2>2
  <2>3. CASE i = Len(acked) + 1
    BY <1>6, <1>7, <2>1, <2>3
  <2> QED
    BY <1>7, <2>2, <2>3
<1>11. CleanWhileUndisturbed'
  <2> SUFFICES ASSUME Undisturbed', \A i \in DOMAIN acked' : acked'[i][2] \notin Reordered
               PROVE  /\ Verify'
                      /\ Len(Rows') = Len(acked')
                      /\ \A i \in DOMAIN acked' : acked'[i] = <<i - 1, Rows'[i].payload>>
    BY DEF CleanWhileUndisturbed
  <2>1. Undisturbed
    BY <1>1 DEF Undisturbed
  <2>2. Stable /\ row.payload \notin Reordered
    <3>1. \A i \in DOMAIN acked : i \in DOMAIN acked' /\ acked'[i] = acked[i]
      BY <1>7
    <3>2. Len(acked) + 1 \in DOMAIN acked'
      BY <1>7
    <3> QED
      BY <1>6, <1>7, <3>1, <3>2 DEF Stable
  <2>3. /\ Verify /\ Len(Rows) = Len(acked)
        /\ \A i \in DOMAIN acked : acked[i] = <<i - 1, Rows[i].payload>>
    BY <1>3, <2>1, <2>2 DEF CleanWhileUndisturbed, Stable
  <2>4. /\ ended /\ row = Row(row.seq, row.payload, row.prior)
        /\ row.seq   = Len(Rows)
        /\ row.prior = IF Rows = <<>> THEN GENESIS ELSE Last(Rows).hash
    BY <1>1, <1>3, <1>4, <2>1, <2>2
  <2>5. Sound(row)
    <3>1. row.hash = <<row.seq, row.payload, row.prior>>
      BY <1>2, <2>4, RowFields
    <3>2. Reread(row.payload) = row.payload
      BY <2>2 DEF Reread
    <3> QED
      BY <1>2, <3>1, <3>2 DEF Sound, Digest
  <2> DEFINE A == {lines[i] : i \in DOMAIN lines} \cup {row}
  <2>6. lines \in Seq(A) /\ row \in A
    <3>1. lines \in Seq({lines[i] : i \in DOMAIN lines})
      BY <1>1 DEF TypeOK
    <3> QED
      BY <3>1, SeqMonotonic
  <2>7. row \notin {Empty, Spaces}
    BY <1>2 DEF IsRow, Empty, Spaces
  <2> HIDE DEF A
  <2>8. Rows \in Seq(A) /\ RowsOf(lines') = Append(Rows, row)
    <3>1. lines' = Append(lines, row)
      BY <1>1, <2>4 DEF Written
    <3> QED
      BY <2>6, <2>7, <3>1, OneMoreRow, RowsAreFilledLines DEF Rows
  <2> DEFINE rows == Rows
             more == Append(rows, row)
  <2> HIDE DEF rows
  <2>9. /\ rows \in Seq(A) /\ Linked(rows) /\ row.seq = Len(rows)
        /\ row.prior = IF rows = <<>> THEN GENESIS ELSE Last(rows).hash
    BY <2>3, <2>4, <2>8 DEF rows, Verify
  <2>10. Linked(more)
    BY <2>5, <2>6, <2>9, CleanAfter
  <2>11. /\ Len(more) = Len(rows) + 1 /\ more[Len(rows) + 1] = row /\ Len(rows) \in Nat
         /\ \A k \in 1..Len(rows) : more[k] = rows[k]
    BY <2>6, <2>9
  <2> HIDE DEF more
  <2>12. Rows' = more /\ Rows = rows /\ Verify'
    BY <2>8, <2>10, NextFile DEF more, rows
  <2>13. ASSUME NEW i \in DOMAIN acked'
         PROVE  acked'[i] = <<i - 1, more[i].payload>>
    <3>1. CASE i \in DOMAIN acked
      BY <1>7, <2>3, <2>11, <2>12, <3>1
    <3>2. CASE i = Len(acked) + 1
      <4>1. i - 1 = Len(rows) /\ acked'[i] = <<row.seq, row.payload>> /\ more[i] = row
        BY <1>7, <2>3, <2>11, <2>12, <3>2 DEF one
      <4> QED
        BY <2>9, <4>1
    <3> QED
      BY <1>7, <3>1, <3>2
  <2> QED
    BY <1>7, <2>3, <2>11, <2>12, <2>13
<1>12. AppendInTurn'
  <2> SUFFICES ASSUME Undisturbed' PROVE AppendInTurn'
    BY DEF AppendInTurn
  <2>1. Undisturbed
    BY <1>1 DEF Undisturbed
  <2>2. ended /\ \A v \in Writers : Writing(v) => v = w
    BY <1>1, <1>3, <1>4, <2>1
  <2>3. \A v \in Writers : ~Writing(v)'
    BY <1>5, <2>2 DEF Writing, Idle
  <2>4. Last(lines') = row
    <3>1. lines' = Append(lines, row)
      BY <1>1, <2>2 DEF Written
    <3>2. lines \in Seq({lines[i] : i \in DOMAIN lines})
      BY <1>1 DEF TypeOK
    <3> QED
      BY <3>1, <3>2 DEF Last
  <2> QED
    BY <1>1, <1>2, <1>7, <2>3, <2>4 DEF AppendInTurn
<1> QED
  BY <1>8, <1>9, <1>10, <1>11, <1>12 DEF IInv

LEMMA CutShortInv ==
  ASSUME IInv, NEW w \in Writers, NEW left \in CrashLeaves, CutShort(w, left)
  PROVE  IInv'
<1> DEFINE row == pending[w].row
<1>1. /\ TypeOK /\ Writing(w) /\ crashed' = TRUE
      /\ pending' = [pending EXCEPT ![w] = Idle]
      /\ UNCHANGED <<acked, tampered, overlapped>>
      /\ \/ lines' = lines /\ ended' = ended
         \/ ended' = FALSE /\ \E line \in {Garbage, row} : lines' = Written(line)
  BY DEF CutShort, IInv
<1>2. \A line \in {Garbage, row} : IsLine(line) /\ (IsRow(line) \/ line = Garbage)
  <2>1. IsRow(row) /\ IsLine(row)
    BY <1>1, PendingRow
  <2>2. IsLine(Garbage)
    BY DEF IsLine
  <2> QED
    BY <2>1, <2>2
<1> HIDE DEF row
<1>3. /\ DOMAIN pending' = Writers
      /\ \A v \in Writers :
          \/ pending'[v] \in {Idle, Refused}
          \/ /\ pending'[v] = [step |-> "writing", row |-> pending'[v].row]
             /\ IsLine(pending'[v].row) /\ IsRow(pending'[v].row)
  <2>1. /\ DOMAIN pending' = Writers /\ pending'[w] = Idle
        /\ \A v \in Writers : v # w => pending'[v] = pending[v]
    BY <1>1 DEF TypeOK
  <2> QED
    BY <1>1, <2>1 DEF TypeOK
<1>4. /\ lines' \in Seq({lines'[i] : i \in DOMAIN lines'})
      /\ \A i \in DOMAIN lines' : IsLine(lines'[i])
      /\ ended' \in BOOLEAN /\ (~ended' => lines' # <<>>)
  <2>1. CASE lines' = lines /\ ended' = ended
    BY <1>1, <2>1 DEF TypeOK
  <2>2. ASSUME ended' = FALSE, NEW line \in {Garbage, row}, lines' = Written(line)
        PROVE  <1>4!:
    BY <1>1, <1>2, <2>2, WrittenLines
  <2> QED
    BY <1>1, <2>1, <2>2
<1>5. TypeOK'
  BY <1>1, <1>3, <1>4 DEF TypeOK
<1>6. ~Undisturbed'
  BY <1>1 DEF Undisturbed
<1>7. ~Verify => ~Verify'
  <2>1. CASE lines' = lines
    BY <2>1, NextFile
  <2>2. ASSUME NEW line \in {Garbage, row}, lines' = Written(line)
        PROVE  ~Verify => ~Verify'
    BY <1>1, <1>2, <2>2, CleanWrite
  <2> QED
    BY <1>1, <2>1, <2>2
<1>8. CleanReadIsComplete'
  <2> SUFFICES ASSUME Verify', ~tampered, NEW i \in DOMAIN acked
               PROVE  acked[i][1] + 1 \in DOMAIN Rows' /\ Rows'[acked[i][1] + 1].payload = acked[i][2]
    BY <1>1 DEF CleanReadIsComplete
  <2>1. CASE lines' = lines
    BY <2>1, NextFile DEF IInv, CleanReadIsComplete
  <2>2. ASSUME NEW line \in {Garbage, row}, lines' = Written(line)
        PROVE  acked[i][1] + 1 \in DOMAIN Rows' /\ Rows'[acked[i][1] + 1].payload = acked[i][2]
    BY <1>2, <2>2, StaysComplete
  <2> QED
    BY <1>1, <2>1, <2>2
<1>9. TamperEvident' /\ AppendInTurn' /\ CleanWhileUndisturbed'
  BY <1>1, <1>6, <1>7 DEF IInv, TamperEvident, AppendInTurn, CleanWhileUndisturbed
<1> QED
  BY <1>5, <1>8, <1>9 DEF IInv

LEMMA StepInv ==
  ASSUME IInv, [Next]_vars
  PROVE  IInv'
<1>1. ASSUME NEW w \in Writers, NEW payload \in Payloads, ReadTail(w, payload)
      PROVE  IInv'
  BY <1>1, ReadTailInv
<1>2. ASSUME NEW w \in Writers, Write(w)
      PROVE  IInv'
  BY <1>2, WriteInv
<1>3. ASSUME NEW w \in Writers, NEW left \in CrashLeaves, CutShort(w, left)
      PROVE  IInv'
  BY <1>3, CutShortInv
<1>4. TypeOK
  BY DEF IInv
<1>5. ASSUME NEW i \in DOMAIN lines, NEW payload \in Payloads, EditPayload(i, payload)
      PROVE  IInv'
  <2>1. Verify
    BY <1>5 DEF EditPayload, Tamper
  <2> QED
    BY <1>4, <1>5, <2>1, EditBreaks, TamperInv DEF EditPayload
<1>6. ASSUME NEW i \in DOMAIN lines, NEW payload \in Payloads, Forge(i, payload)
      PROVE  IInv'
  <2>1. Verify
    BY <1>6 DEF Forge, Tamper
  <2> QED
    BY <1>4, <1>6, <2>1, ForgeBreaks, TamperInv DEF Forge
<1>7. ASSUME NEW i \in DOMAIN lines, Reorder(i)
      PROVE  IInv'
  <2>1. Verify
    BY <1>7 DEF Reorder, Tamper
  <2> QED
    BY <1>4, <1>7, <2>1, ReorderBreaks, TamperInv DEF Reorder
<1>8. ASSUME NEW i \in DOMAIN lines, DeletePast(i)
      PROVE  IInv'
  <2>1. Verify
    BY <1>8 DEF DeletePast, Tamper
  <2> QED
    BY <1>4, <1>8, <2>1, DeleteBreaks, TamperInv DEF DeletePast
<1>9. ASSUME NEW i \in DOMAIN lines, NEW j \in DOMAIN lines, InsertCopy(i, j)
      PROVE  IInv'
  <2>1. Verify
    BY <1>9 DEF InsertCopy, Tamper
  <2> QED
    BY <1>4, <1>9, <2>1, InsertBreaks, TamperInv DEF InsertCopy
<1>10. CASE UNCHANGED vars
  <2>1. Rows' = Rows /\ (Verify' <=> Verify)
    BY <1>10, NextFile DEF vars
  <2>2. TypeOK'
    BY <1>4, <1>10 DEF vars, TypeOK
  <2>3. AppendInTurn' /\ TamperEvident' /\ CleanReadIsComplete' /\ CleanWhileUndisturbed'
    BY <1>10, <2>1
    DEF IInv, vars, AppendInTurn, TamperEvident, CleanReadIsComplete, CleanWhileUndisturbed,
        Undisturbed, Writing, Stable
  <2> QED
    BY <2>2, <2>3 DEF IInv
<1> QED
  BY <1>1, <1>2, <1>3, <1>5, <1>6, <1>7, <1>8, <1>9, <1>10 DEF Next

--------------------------------------------------------------------------------
\* Every state of the ledger satisfies what its properties rest on: lines and appends in
\* progress of the right shape, and at most one append while nothing disturbs it, which
\* holds the next link.
LEMMA Inductive == Spec => []IInv
<1>1. Init => IInv
  BY InitInv
<1>2. IInv /\ [Next]_vars => IInv'
  BY StepInv
<1> QED
  BY <1>1, <1>2, PTL DEF Spec

\* read() raises on every ledger of which a past record was edited, forged, moved,
\* removed or copied, whatever is appended or breaks off afterwards.
THEOREM TamperingShows == Spec => []TamperEvident
<1>1. IInv => TamperEvident
  BY DEF IInv
<1> QED
  BY <1>1, Inductive, PTL

\* A ledger that read() accepts has every record append() ever returned, in its place,
\* unless it was tampered with: crashes and appends at once lose none unnoticed.
THEOREM CleanIsComplete == Spec => []CleanReadIsComplete
<1>1. IInv => CleanReadIsComplete
  BY DEF IInv
<1> QED
  BY <1>1, Inductive, PTL

\* One process at a time, no crash and stable JSON: read() returns what append() did.
THEOREM UndisturbedIsClean == Spec => []CleanWhileUndisturbed
<1>1. IInv => CleanWhileUndisturbed
  BY DEF IInv
<1> QED
  BY <1>1, Inductive, PTL

\* Once read() has raised it raises for ever: no append papers over a break.
THEOREM BreaksStay == Spec => NeverHeals
<1>1. IInv /\ [Next]_vars => [~Verify => ~Verify']_vars
  BY StaysBroken DEF IInv
<1> QED
  BY <1>1, Inductive, PTL DEF Spec, NeverHeals
================================================================================
