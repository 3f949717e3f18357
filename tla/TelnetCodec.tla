------------------------------ MODULE TelnetCodec ------------------------------
(***************************************************************************)
(* codeforge_shelf/telnet_codec.py, against a peer that builds one read's  *)
(* bytes out of whole commands and text. Bytes are their names.            *)
(***************************************************************************)
EXTENDS Naturals, Sequences, SequencesExt, FiniteSetsExt

CONSTANTS Texts,    \* bytes of text: UTF-8 has the byte of SE, never that of a verb
          Options,  \* the option bytes of negotiations
          Bodies,   \* subnegotiation bodies, before they are escaped
          MaxItems  \* bound: the commands and text bytes of one read

IAC   == "IAC"
SB    == "SB"
SE    == "SE"
Verbs == {"WILL", "WONT", "DO", "DONT"}

VARIABLES wire,   \* the bytes of this read
          text,   \* history: those of them that are text
          agreed, \* history: the last answer given on each option
          items   \* how much the peer has sent

vars == <<wire, text, agreed, items>>

EscapeIac(payload) ==
  FlattenSeq([i \in DOMAIN payload |-> IF payload[i] = IAC THEN <<IAC, IAC>> ELSE <<payload[i]>>])

\* Mutant of AfterFrame: only the SB is skipped, not the body it opens.
AfterSB(data, j) == j

\* Past the IAC SE that ends a frame whose body begins at j, or past everything.
AfterFrame(data, j) ==
  LET ends == {k \in j..(Len(data) - 1) : data[k] = IAC /\ data[k + 1] = SE}
  IN  IF ends = {} THEN Len(data) + 1 ELSE Min(ends) + 2

StripIac(data) ==
  LET From[i \in 1..(Len(data) + 3)] ==
        IF i > Len(data) THEN <<>>
        ELSE IF data[i] # IAC \/ i = Len(data) THEN <<data[i]>> \o From[i + 1]
        ELSE IF data[i + 1] = IAC   THEN <<IAC>> \o From[i + 2]
        ELSE IF data[i + 1] = SB    THEN From[AfterFrame(data, i + 2)]
        ELSE IF data[i + 1] \in Verbs THEN From[i + 3]
        ELSE From[i + 2]
  IN  From[1]

\* Where a reply on an option stands in the bytes.
Replies(data, option) ==
  {i \in 1..(Len(data) - 2) : data[i] = IAC /\ data[i + 1] \in Verbs /\ data[i + 2] = option}

\* Mutant of ReadNegotiation: the first reply counts.
ReadFirst(data, option) ==
  IF Replies(data, option) = {} THEN "unchanged"
  ELSE IF data[Min(Replies(data, option)) + 1] \in {"DO", "WILL"} THEN "enabled" ELSE "refused"

ReadNegotiation(data, option) ==
  IF Replies(data, option) = {} THEN "unchanged"
  ELSE IF data[Max(Replies(data, option)) + 1] \in {"DO", "WILL"} THEN "enabled" ELSE "refused"

--------------------------------------------------------------------------------
Init == wire = <<>> /\ text = <<>> /\ agreed = [o \in Options |-> "unchanged"] /\ items = 0

Send(bytes) == items < MaxItems /\ items' = items + 1 /\ wire' = wire \o bytes

SendText(b) == Send(<<b>>) /\ text' = Append(text, b) /\ UNCHANGED agreed

SendLiteral == Send(EscapeIac(<<IAC>>)) /\ text' = Append(text, IAC) /\ UNCHANGED agreed

Negotiate(verb, option) ==
  /\ Send(<<IAC, verb, option>>)
  /\ agreed' = [agreed EXCEPT ![option] = IF verb \in {"DO", "WILL"} THEN "enabled" ELSE "refused"]
  /\ UNCHANGED text

Subnegotiate(body) ==
  /\ Send(<<IAC, SB>> \o EscapeIac(body) \o <<IAC, SE>>)
  /\ UNCHANGED <<text, agreed>>

Command == Send(<<IAC, "NOP">>) /\ UNCHANGED <<text, agreed>>

Next ==
  \/ \E b \in Texts : SendText(b)
  \/ \E verb \in Verbs, option \in Options : Negotiate(verb, option)
  \/ \E body \in Bodies : Subnegotiate(body)
  \/ SendLiteral \/ Command

Spec == Init /\ [][Next]_vars

--------------------------------------------------------------------------------
\* "Those must never end up inside a password": of commands and text in any order
\* and back to back, strip_iac leaves the text, all of it and nothing else, the
\* frames that escape_iac protects included.
OnlyTextIsLeft == StripIac(wire) = text

\* "The last matching verb in the chunk wins", for each option apart and with the
\* bytes of other commands before, after and between.
LastReplyWins == \A option \in Options : ReadNegotiation(wire, option) = agreed[option]
================================================================================
