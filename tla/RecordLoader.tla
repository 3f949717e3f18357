------------------------------ MODULE RecordLoader ------------------------------
(***************************************************************************)
(* codeforge_shelf/record_loader.py: load_dir lists a directory, and for a *)
(* recursive load the one below it, and then reads what it listed, file by *)
(* file, while others write in both.                                       *)
(***************************************************************************)
EXTENDS Naturals, Sequences, Functions, Keeping

CONSTANTS Paths,     \* the .json files a directory may hold, in the order of sorted()
          Nested,    \* those of them that lie in its subdirectory
          Records,   \* contents that parse accepts
          Rejected, Garbled, Undecodable, \* contents parse refuses, not JSON, not UTF-8
          MaxChanges \* bound: the changes others make

VARIABLES files,   \* what the files that are there hold
          there,   \* whether the directory is
          call,    \* where load_dir is
          held,    \* history: what each path has held since its directory was listed
          changes  \* history: how many changes were made

vars == <<files, there, call, held, changes>>

Contents == Records \cup {Rejected, Garbled, Undecodable}
Absent   == "absent"
Hold(fs, p) == IF p \in DOMAIN fs THEN fs[p] ELSE Absent

Init ==
  /\ there \in BOOLEAN
  /\ \E present \in IF there THEN SUBSET Range(Paths) ELSE {{}} : files \in [present -> Records]
  /\ \E recursive \in BOOLEAN :
       call = [step |-> "begun", recursive |-> recursive, listed |-> <<>>, records |-> <<>>]
  /\ held    = [p \in Range(Paths) |-> <<>>]
  /\ changes = 0

\* directory.is_dir(): one that is missing is empty.
IsDir ==
  /\ call.step = "begun"
  /\ call' = [call EXCEPT !.step = IF there THEN "glob" ELSE "returned"]
  /\ UNCHANGED <<files, there, held, changes>>

\* A directory is listed: those of its files that are there join the list, which
\* sorted() puts in order, and are held for what they hold from now on.
List(directory) ==
  /\ call' = [call EXCEPT !.step   = IF @ = "glob" /\ call.recursive THEN "glob below" ELSE "load",
                          !.listed = Keep(Paths, Range(@) \cup (DOMAIN files \cap directory))]
  /\ held' = [p \in DOMAIN held |-> IF p \in directory THEN <<Hold(files, p)>> ELSE held[p]]
  /\ UNCHANGED <<files, there, changes>>

\* "*.json", and the first directory of "**/*.json".
Glob == call.step = "glob" /\ List(Range(Paths) \ Nested)

\* The directory below, which "**" comes to later.
GlobBelow == call.step = "glob below" /\ List(Nested)

\* What the first of load_record's steps that fails on this content raises.
Raises(content) ==
  IF content \in {Absent, Garbled} THEN "error"
  ELSE IF content = Rejected THEN "parse" ELSE "UnicodeDecodeError"

\* Mutant of LoadRecord: a file that is gone by now is passed over.
LoadRecordIfThere(content) ==
  call' = IF content = Absent
            THEN [call EXCEPT !.listed = Keep(@, Range(@) \ {@[Len(call.records) + 1]})]
          ELSE IF content \in Records THEN [call EXCEPT !.records = Append(@, content)]
          ELSE [call EXCEPT !.step = Raises(content)]

LoadRecord(content) ==
  call' = IF content \in Records THEN [call EXCEPT !.records = Append(@, content)]
          ELSE [call EXCEPT !.step = Raises(content)]

\* One record after another, and the list once there is no other.
LoadNext ==
  /\ call.step = "load"
  /\ IF Len(call.records) = Len(call.listed) THEN call' = [call EXCEPT !.step = "returned"]
     ELSE LoadRecord(Hold(files, call.listed[Len(call.records) + 1]))
  /\ UNCHANGED <<files, there, held, changes>>

--------------------------------------------------------------------------------
\* Others, before the call and during it.
Change(now, isThere) ==
  /\ changes < MaxChanges /\ changes' = changes + 1
  /\ files' = now /\ there' = isThere
  /\ held'  = [p \in DOMAIN held |->
                 IF held[p] = <<>> THEN <<>> ELSE Append(held[p], Hold(now, p))]
  /\ UNCHANGED call

Write(p, content) ==
  Change([q \in DOMAIN files \cup {p} |-> IF q = p THEN content ELSE files[q]], TRUE)

Delete(p) == p \in DOMAIN files /\ Change([q \in DOMAIN files \ {p} |-> files[q]], TRUE)

DeleteAll == there /\ Change(<<>>, FALSE)

Next ==
  \/ IsDir \/ Glob \/ GlobBelow \/ LoadNext
  \/ \E p \in Range(Paths) : Delete(p) \/ \E content \in Contents : Write(p, content)
  \/ DeleteAll

Spec == Init /\ [][Next]_vars

--------------------------------------------------------------------------------
\* "Load every JSON record, sorted by path": what load_dir returns has one record for
\* every file that was there when its directory was listed, in order, each as the file
\* was at some time since. And a call that fails does so for a file on its list that
\* was gone or spoilt at some time since; it passes over none.
Asked == {p \in Range(Paths) : held[p] # <<>> /\ Head(held[p]) # Absent}

Listing == {"begun", "glob", "glob below"}

EveryRecordOrNone ==
  /\ call.step = "returned" =>
       LET asked == Keep(Paths, Asked)
       IN  /\ Len(call.records) = Len(asked)
           /\ \A i \in DOMAIN asked : call.records[i] \in Range(held[asked[i]])
  /\ call.step \notin Listing \cup {"load", "returned"} =>
       \E i \in DOMAIN call.listed : ~(Range(held[call.listed[i]]) \subseteq Records)

\* What the docstring of load_record says: "an unreadable file fails loud as `error`".
\* What leaves load_dir is then `error`, or what parse raised.
UnreadableFailsAsError ==
  call.step \notin Listing \cup {"load", "returned"} => call.step \in {"error", "parse"}

--------------------------------------------------------------------------------
\* What it rests on: the shape of a state,
Failures == {"error", "parse", "UnicodeDecodeError"}

TypeOK ==
  /\ DOMAIN files \subseteq Range(Paths) /\ files \in [DOMAIN files -> Contents]
  /\ held \in [Range(Paths) -> Seq(Contents \cup {Absent})]
  /\ call.step \in Listing \cup {"load", "returned"} \cup Failures
  /\ call = [step |-> call.step, recursive |-> call.recursive, listed |-> call.listed,
             records |-> call.records]
  /\ call.records \in Seq(Records)

\* that nothing is held before its directory was listed, and what a file holds is the
\* last of what it has held since; and the list is of those that were there then.
Unlisted(p) ==
  \/ call.step \in {"begun", "glob"}
  \/ p \in Nested /\ (call.step = "glob below" \/ ~call.recursive)

Recorded ==
  /\ call.step # "returned" => \A p \in DOMAIN held :
       IF Unlisted(p) THEN held[p] = <<>> ELSE Hold(files, p) \in Range(held[p])
  /\ call.listed = Keep(Paths, Asked)
  /\ call.step \in Listing => call.records = <<>>
  /\ call.step = "glob below" => call.recursive
  /\ Len(call.records) <= Len(call.listed)
  /\ \A i \in DOMAIN call.records : call.records[i] \in Range(held[call.listed[i]])

IInv == TypeOK /\ Recorded /\ EveryRecordOrNone
================================================================================
