------------------------------- MODULE HashChain -------------------------------
(***************************************************************************)
(* codeforge_shelf/hashchain.py: a ledger file of one JSON record per line *)
(* and the processes that append to it. An append reads the last line and  *)
(* later writes one more; no lock spans the two, a crash may cut the write *)
(* short, and a past record may be tampered with at any moment.            *)
(*                                                                         *)
(* sha256 over the canonical JSON is taken to have no collisions: a digest *)
(* is the tuple of what went into it.                                      *)
(***************************************************************************)
EXTENDS Integers, Sequences, SequencesExt, FiniteSetsExt, Keeping

CONSTANTS Writers,     \* the processes that append
          Payloads,    \* the payloads they append
          Reordered,   \* those whose canonical JSON changes when they are read back
          Blanks,      \* the contents a store without records may start with
          CrashLeaves, \* what a write that is cut short may leave of its line
          MaxLines     \* bound on the lines of the file

ASSUME PayloadAssumption == Reordered \subseteq Payloads
ASSUME CrashAssumption   == CrashLeaves \subseteq {"nothing", "part", "all but newline"}
ASSUME BoundAssumption   == MaxLines \in Nat
\* Payloads that differ have contents that differ: none is another as it is read back.
ASSUME ReorderAssumption == \A p \in Payloads, q \in Reordered : p # <<"reordered", q>>

VARIABLES lines,    \* the file, split at its newlines
          ended,    \* whether its last line has its newline
          pending,  \* what each append in progress has read and is to write
          \* History, read by no guard of the code's own actions:
          acked,    \* the <<seq, payload>> of the links append() returned, in order
          tampered, \* a past record was tampered with
          crashed,  \* a write was cut short
          overlapped \* two appends were in progress together

vars == <<lines, ended, pending, acked, tampered, crashed, overlapped>>

GENESIS == <<>>

Empty   == [kind |-> "empty"]    \* a line of no characters
Spaces  == [kind |-> "spaces"]   \* a line of blanks
Garbage == [kind |-> "garbage"]  \* a line _parse_row refuses

Digest(seq, payload, prior) == <<seq, payload, prior>>

\* A dict with integer keys is sorted as integers when it is written, and as
\* strings when it has been read back: its digest is that of another text.
Reread(payload) == IF payload \in Reordered THEN <<"reordered", payload>> ELSE payload

Row(seq, payload, prior) ==
  [kind |-> "row", seq |-> seq, payload |-> payload, prior |-> prior,
   hash |-> Digest(seq, payload, prior)]

IsRow(line) == line.kind = "row"

\* A record that passes the check of its own content hash.
Sound(line) ==
  IsRow(line) /\ Digest(line.seq, Reread(line.payload), line.prior) = line.hash

ASSUME BlankAssumption == Blanks \subseteq Seq({Empty, Spaces})

--------------------------------------------------------------------------------
PriorIn(rows, i) == IF i = 1 THEN GENESIS ELSE rows[i - 1].hash

\* Mutants of Linked: no check of the prior hash; only the tail is checked.
LinkedBySeq(rows) == \A i \in DOMAIN rows : Sound(rows[i]) /\ rows[i].seq = i - 1

LinkedAtTail(rows) == rows # <<>> => Sound(Last(rows))

\* read(): every record is sound, in its place, and linked to the one before.
Linked(rows) ==
  /\ \A i \in DOMAIN rows : Sound(rows[i])
  /\ \A i \in DOMAIN rows : rows[i].seq = i - 1 /\ rows[i].prior = PriorIn(rows, i)

RowsOf(text) == Keep(text, {text[i] : i \in DOMAIN text} \ {Empty, Spaces})

Rows == RowsOf(lines)

Verify == Linked(Rows)

\* _last_line: what follows the last newline that is not at the end. Blanks are
\* stripped only when that is the whole file.
NoLine == [kind |-> "none"]
LastLine ==
  LET text == {i \in DOMAIN lines : lines[i] # Empty}
  IN  IF text = {} \/ (text = {1} /\ lines[1] = Spaces) THEN NoLine
      ELSE lines[Max(text)]

--------------------------------------------------------------------------------
Idle    == [step |-> "idle"]
Refused == [step |-> "refused"]

Init ==
  /\ lines      \in Blanks
  /\ ended      = TRUE
  /\ pending    = [w \in Writers |-> Idle]
  /\ acked      = <<>>
  /\ tampered   = FALSE
  /\ crashed    = FALSE
  /\ overlapped = FALSE

Writing(w) == pending[w].step = "writing"

\* Mutant of Chained: the sequence number stands still.
ChainedSameSeq(tail, payload) ==
  IF tail = NoLine THEN Row(0, payload, GENESIS) ELSE Row(tail.seq, payload, tail.hash)

\* The link that append() makes of the tail it read.
Chained(tail, payload) ==
  IF tail = NoLine THEN Row(0, payload, GENESIS) ELSE Row(tail.seq + 1, payload, tail.hash)

\* append() up to the open: a tail that is not sound raises HashChainError.
ReadTail(w, payload) ==
  /\ ~Writing(w)
  /\ Len(lines) < MaxLines
  /\ pending' = [pending EXCEPT ![w] =
                   IF LastLine = NoLine \/ Sound(LastLine)
                     THEN [step |-> "writing", row |-> Chained(LastLine, payload)]
                     ELSE Refused]
  /\ overlapped' = (overlapped \/ \E v \in Writers : Writing(v))
  /\ UNCHANGED <<lines, ended, acked, tampered, crashed>>

\* Mode "a": a new line, unless the last one still lacks its newline.
Written(line) == IF ended THEN Append(lines, line) ELSE ReplaceAt(lines, Len(lines), Garbage)

Write(w) ==
  /\ Writing(w)
  /\ Len(lines) < MaxLines
  /\ lines'   = Written(pending[w].row)
  /\ ended'   = TRUE
  /\ acked'   = Append(acked, <<pending[w].row.seq, pending[w].row.payload>>)
  /\ pending' = [pending EXCEPT ![w] = Idle]
  /\ UNCHANGED <<tampered, crashed, overlapped>>

\* Mutant of CutShort: the link is returned although the write failed.
CutShortAcks(w, left) ==
  /\ Writing(w)
  /\ left = "nothing"
  /\ acked'   = Append(acked, <<pending[w].row.seq, pending[w].row.payload>>)
  /\ crashed' = TRUE
  /\ pending' = [pending EXCEPT ![w] = Idle]
  /\ UNCHANGED <<lines, ended, tampered, overlapped>>

\* The process dies or the disk fills up during the write, and starts again.
CutShort(w, left) ==
  /\ Writing(w)
  /\ Len(lines) < MaxLines
  /\ \/ left = "nothing" /\ UNCHANGED <<lines, ended>>
     \/ left = "part"            /\ lines' = Written(Garbage)        /\ ended' = FALSE
     \/ left = "all but newline" /\ lines' = Written(pending[w].row) /\ ended' = FALSE
  /\ crashed' = TRUE
  /\ pending' = [pending EXCEPT ![w] = Idle]
  /\ UNCHANGED <<acked, tampered, overlapped>>

--------------------------------------------------------------------------------
\* Tampering, once, with a ledger that reads clean, in the ways the module names.
RowAt(i) == i \in DOMAIN lines /\ IsRow(lines[i])

Past(i) == RowAt(i) /\ RowAt(i + 1)

Tamper(changed) ==
  /\ ~tampered /\ Verify
  /\ lines'    = changed
  /\ tampered' = TRUE
  /\ UNCHANGED <<ended, pending, acked, crashed, overlapped>>

\* A payload is edited, and the hash left as it was.
EditPayload(i, payload) ==
  /\ RowAt(i) /\ lines[i].payload # payload
  /\ Tamper([lines EXCEPT ![i].payload = payload])

\* A past record is replaced by another with a hash of its own.
Forge(i, payload) ==
  /\ Past(i) /\ lines[i].payload # payload
  /\ Tamper([lines EXCEPT ![i] = Row(@.seq, payload, @.prior)])

Reorder(i) ==
  /\ Past(i)
  /\ Tamper([lines EXCEPT ![i] = lines[i + 1], ![i + 1] = lines[i]])

DeletePast(i) == Past(i) /\ Tamper(RemoveAt(lines, i))

InsertCopy(i, j) ==
  /\ RowAt(i) /\ RowAt(j) /\ Len(lines) < MaxLines
  /\ Tamper(InsertAt(lines, i, lines[j]))

Next ==
  \/ \E w \in Writers : \/ \E payload \in Payloads : ReadTail(w, payload)
                        \/ Write(w)
                        \/ \E left \in CrashLeaves : CutShort(w, left)
  \/ \E i \in DOMAIN lines : \/ \E payload \in Payloads : EditPayload(i, payload) \/ Forge(i, payload)
                             \/ Reorder(i)
                             \/ DeletePast(i)
                             \/ \E j \in DOMAIN lines : InsertCopy(i, j)

Spec == Init /\ [][Next]_vars

--------------------------------------------------------------------------------
Hashes == {GENESIS} \cup {lines[i].hash : i \in {j \in DOMAIN lines : IsRow(lines[j])}}

\* Tamper evidence: an edit, a reorder, an insertion or a removal of a past record
\* shows in every later read, whatever is appended onto the tampered ledger.
TamperEvident == tampered => ~Verify

\* A ledger that once read broken, by tampering, by a crash or by two appends at
\* once, never reads clean again: no append papers over a break.
NeverHeals == [][~Verify => ~Verify']_vars

\* A clean read is an honest history: if nobody tampered, every link append() ever
\* returned is in it, in its place, crashes and concurrent appends included.
CleanReadIsComplete ==
  Verify /\ ~tampered =>
    \A i \in DOMAIN acked : LET at == acked[i][1] + 1
                            IN  at \in DOMAIN Rows /\ Rows[at].payload = acked[i][2]

\* Records that one process at a time appends, that no crash cuts short and whose
\* JSON is stable read back in order, and nothing else does.
Undisturbed == ~tampered /\ ~crashed /\ ~overlapped
CleanWhileUndisturbed ==
  Undisturbed /\ (\A i \in DOMAIN acked : acked[i][2] \notin Reordered) =>
    /\ Verify
    /\ Len(Rows) = Len(acked)
    /\ \A i \in DOMAIN acked : acked[i] = <<i - 1, Rows[i].payload>>

--------------------------------------------------------------------------------
\* What the properties rest on: what a line and an append in progress may be,
IsLine(line) ==
  \/ line \in {Empty, Spaces, Garbage}
  \/ /\ line.payload \in Payloads /\ line.seq \in Nat
     /\ line = [kind |-> "row", seq |-> line.seq, payload |-> line.payload,
                prior |-> line.prior, hash |-> line.hash]

TypeOK ==
  /\ lines \in Seq({lines[i] : i \in DOMAIN lines}) /\ \A i \in DOMAIN lines : IsLine(lines[i])
  /\ DOMAIN pending = Writers
  /\ \A w \in Writers :
       \/ pending[w] \in {Idle, Refused}
       \/ /\ pending[w] = [step |-> "writing", row |-> pending[w].row]
          /\ IsLine(pending[w].row) /\ IsRow(pending[w].row)
  /\ acked \in Seq(Nat \X Payloads)
  /\ ended \in BOOLEAN /\ (~ended => lines # <<>>)

\* and where the one append stands that is in progress while nothing disturbs it.
Stable == \A i \in DOMAIN acked : acked[i][2] \notin Reordered
AppendInTurn ==
  Undisturbed =>
    /\ ended
    /\ IF acked = <<>> THEN lines \in Blanks ELSE IsRow(Last(lines))
    /\ \A v, w \in Writers : Writing(v) /\ Writing(w) => v = w
    /\ \A w \in Writers : Writing(w) =>
         /\ pending[w].row = Row(pending[w].row.seq, pending[w].row.payload, pending[w].row.prior)
         /\ Stable => /\ pending[w].row.seq   = Len(Rows)
                      /\ pending[w].row.prior = IF Rows = <<>> THEN GENESIS ELSE Last(Rows).hash

IInv == TypeOK /\ AppendInTurn /\ TamperEvident /\ CleanReadIsComplete /\ CleanWhileUndisturbed

--------------------------------------------------------------------------------
\* "Records append and read back in order; each link chains to its predecessor."
AppendsReadBack == Undisturbed => Verify
================================================================================
