------------------------------ MODULE LoaderCache ------------------------------
(***************************************************************************)
(* codeforge_shelf/loader_cache.py: load_cached reads a path's mtime, asks *)
(* the cache, parses, and stores, with nothing to hold the four together.  *)
(* The files are others', who may edit or delete them or move a symlink at *)
(* any time. One that is gone raises where it is looked for or read.       *)
(***************************************************************************)
EXTENDS Naturals, Sequences, FiniteSets

CONSTANTS Callers,     \* loads that may be in progress together
          Files, Link, \* regular files, and a symlink to one of them
          Contents,    \* what a file may hold
          Broken,      \* the member of Contents that parse raises on
          Missing,        \* what a path holds when its file is not there
          MaxTime,     \* bound: the mtimes are 0..MaxTime
          MaxParses    \* bound: the parses of each file that are kept count of

VARIABLES disk,   \* what each file holds and when it was modified, or had been
          target, \* the file that Link points to
          cache,  \* _CACHE
          loads,  \* where each call of load_cached is
          \* History, read by no guard of the code's own actions:
          seen,   \* what each load's path has held since the load began
          parses, \* while `alone`: of each file, the successful parses, each with the
                  \* mtime it was filed under and the mtime of what it parsed
          steady, \* no edit has kept an mtime, no link has moved under a load of it
          alone   \* no two loads overlapped, and nobody called clear()

vars == <<disk, target, cache, loads, seen, parses, steady, alone>>

Paths == Files \cup {Link}

Resolved(path) == IF path = Link THEN target ELSE path

\* Loads that have yet to take a value, and those that have yet to return one.
Reading(c)    == loads[c].step \in {"lookup", "parse"}
InProgress(c) == Reading(c) \/ loads[c].step = "store"

NoParses == [f \in Files |-> <<>>]

Init ==
  /\ disk   \in [Files -> [content : Contents, mtime : {0}]]
  /\ target \in Files
  /\ cache  = <<>>
  /\ loads  = [c \in Callers |-> [step |-> "none"]]
  /\ seen   = [c \in Callers |-> {}]
  /\ parses = NoParses
  /\ steady = TRUE
  /\ alone  = TRUE

Done(value) == [step |-> "done", value |-> value]

\* resolve() and stat(), which raises if the file is gone.
Begin(c, path) ==
  LET key == Resolved(path)
  IN  /\ ~InProgress(c)
      /\ loads'  = [loads EXCEPT ![c] =
                     IF disk[key].content = Missing THEN Done(Missing)
                     ELSE [step |-> "lookup", path |-> path, key |-> key, mtime |-> disk[key].mtime]]
      /\ seen'   = [seen EXCEPT ![c] = {disk[key].content}]
      /\ alone'  = (alone /\ \A d \in Callers : ~InProgress(d))
      /\ parses' = IF alone' THEN parses ELSE NoParses
      /\ UNCHANGED <<disk, target, cache, steady>>

Hit(load) == load.key \in DOMAIN cache /\ cache[load.key].mtime = load.mtime

Lookup(c) ==
  /\ loads[c].step = "lookup"
  /\ loads' = [loads EXCEPT ![c] = IF Hit(loads[c]) THEN Done(cache[loads[c].key].value)
                                   ELSE [loads[c] EXCEPT !.step = "parse"]]
  /\ UNCHANGED <<disk, target, cache, seen, parses, steady, alone>>

\* parse(path): of the path, not of the key, and at a later time. What raises is
\* not stored.
Parse(c) ==
  LET load == loads[c]
      file == disk[Resolved(load.path)]
      made == [stamp |-> load.mtime, version |-> file.mtime]
  IN  /\ load.step = "parse" /\ Len(parses[load.key]) < MaxParses
      /\ IF file.content \in {Broken, Missing}
           THEN /\ loads' = [loads EXCEPT ![c] = Done(file.content)]
                /\ UNCHANGED parses
           ELSE /\ loads' = [loads EXCEPT ![c] =
                     [step |-> "store", path |-> load.path, key |-> load.key,
                      mtime |-> load.mtime, value |-> file.content]]
                /\ parses' = IF alone THEN [parses EXCEPT ![load.key] = Append(@, made)] ELSE parses
      /\ UNCHANGED <<disk, target, cache, seen, steady, alone>>

\* Mutants of Entry: stamped with the mtime of now; filed under the path as given.
EntryLate(load)   == [key |-> load.key, mtime |-> disk[load.key].mtime, value |-> load.value]
EntryByPath(load) == [key |-> load.path, mtime |-> load.mtime, value |-> load.value]

Entry(load) == [key |-> load.key, mtime |-> load.mtime, value |-> load.value]

Store(c) ==
  LET entry == Entry(loads[c])
  IN  /\ loads[c].step = "store"
      /\ cache' = [k \in DOMAIN cache \cup {entry.key} |->
                     IF k = entry.key THEN [mtime |-> entry.mtime, value |-> entry.value]
                     ELSE cache[k]]
      /\ loads' = [loads EXCEPT ![c] = Done(loads[c].value)]
      /\ UNCHANGED <<disk, target, seen, parses, steady, alone>>

Clear ==
  /\ cache'  = <<>>
  /\ alone'  = FALSE
  /\ parses' = NoParses
  /\ UNCHANGED <<disk, target, loads, seen, steady>>

\* A load that has yet to take its value may take what its path has become.
Notice ==
  seen' = [c \in Callers |->
             IF ~Reading(c) THEN seen[c]
             ELSE seen[c] \cup {disk'[IF loads[c].path = Link THEN target' ELSE loads[c].path].content}]

\* An edit within a tick of the last one leaves the mtime as it was.
Edit(f, content, mtime) ==
  /\ content # disk[f].content
  /\ mtime \in {disk[f].mtime, disk[f].mtime + 1}
  /\ disk'   = [disk EXCEPT ![f] = [content |-> content, mtime |-> mtime]]
  /\ steady' = (steady /\ mtime > disk[f].mtime)
  /\ UNCHANGED target
  /\ Notice
  /\ UNCHANGED <<cache, loads, parses, alone>>

\* A file that is gone has no mtime; the next one there is given a later one.
Delete(f) ==
  /\ disk[f].content # Missing
  /\ disk' = [disk EXCEPT ![f].content = Missing]
  /\ UNCHANGED target
  /\ Notice
  /\ UNCHANGED <<cache, loads, parses, steady, alone>>

Retarget(f) ==
  /\ f # target
  /\ target' = f
  /\ steady' = (steady /\ \A c \in Callers : Reading(c) => loads[c].path # Link)
  /\ UNCHANGED disk
  /\ Notice
  /\ UNCHANGED <<cache, loads, parses, alone>>

Next ==
  \/ \E c \in Callers : (\E path \in Paths : Begin(c, path)) \/ Lookup(c) \/ Parse(c) \/ Store(c)
  \/ Clear
  \/ \E f \in Files : \/ Retarget(f) \/ Delete(f)
                     \/ \E v \in Contents, mtime \in 0..MaxTime : Edit(f, v, mtime)

Spec == Init /\ [][Next]_vars

--------------------------------------------------------------------------------
\* "The cached value until the file's mtime changes", and "a broken edit fails loud
\* on every call": however loads and edits overlap, a load answers with what its
\* path held at some moment of the load, broken included, as long as every edit
\* moves the mtime on and no link is retargeted while it is being loaded.
LoadsAreFresh ==
  steady => \A c \in Callers : loads[c].step = "done" => loads[c].value \in seen[c]

\* "Parses once": one load at a time parses a version of a file again, through
\* whatever paths it is asked for, only if the first time it came upon the version in
\* the middle of a load, and so filed it under the mtime of the one before; and the
\* second time it files it under its own, and that is the last.
ParsesAgainOnlyIfOvertaken ==
  steady /\ alone =>
    \A f \in Files : \A i, j \in DOMAIN parses[f] :
      i < j /\ parses[f][i].version = parses[f][j].version =>
        /\ parses[f][i].stamp < parses[f][i].version
        /\ parses[f][j].stamp = parses[f][j].version

--------------------------------------------------------------------------------
\* What the properties rest on: the shape of a state,
TypeOK ==
  /\ disk \in [Files -> [content : Contents \cup {Missing}, mtime : Nat]]
  /\ target \in Files
  /\ DOMAIN cache \subseteq Files /\ \A f \in DOMAIN cache : cache[f].mtime \in Nat
  /\ parses \in [Files -> Seq([stamp : Nat, version : Nat])]
  /\ DOMAIN seen = Callers
  /\ DOMAIN loads = Callers
  /\ \A c \in Callers :
       /\ loads[c].step \in {"none", "lookup", "parse", "store", "done"}
       /\ InProgress(c) => loads[c].path \in Paths /\ loads[c].key \in Files /\ loads[c].mtime \in Nat
       /\ Reading(c)    => loads[c] = [step |-> loads[c].step, path |-> loads[c].path,
                                      key |-> loads[c].key, mtime |-> loads[c].mtime]

\* that no mtime is of a time to come, and one of now comes with the content of now
\* unless the file is gone,
Timely ==
  /\ \A f \in DOMAIN cache : cache[f].mtime <= disk[f].mtime
  /\ \A c \in Callers : InProgress(c) => loads[c].mtime <= disk[loads[c].key].mtime
  /\ steady =>
       /\ \A f \in DOMAIN cache :
            cache[f].mtime = disk[f].mtime => disk[f].content \in {cache[f].value, Missing}
       /\ \A c \in Callers : loads[c].step = "store" =>
            (loads[c].mtime = disk[loads[c].key].mtime =>
               disk[loads[c].key].content \in {loads[c].value, Missing})

\* that a load may take what its path holds, what the cache holds for its mtime, and
\* what another load is about to put there,
Fresh(c) ==
  /\ Reading(c) =>
       /\ loads[c].key = Resolved(loads[c].path)
       /\ disk[loads[c].key].content \in seen[c]
       /\ Hit(loads[c]) => cache[loads[c].key].value \in seen[c]
       /\ \A d \in Callers :
            /\ loads[d].step = "store"
            /\ loads[d].key = loads[c].key /\ loads[d].mtime = loads[c].mtime
            => loads[d].value \in seen[c]
  /\ loads[c].step \in {"store", "done"} => loads[c].value \in seen[c]

\* and that one load at a time files what it parses under ever later mtimes, none of
\* them before that of a version it has come upon.
Filed(f, stamp) ==
  \A i \in DOMAIN parses[f] : parses[f][i].stamp <= stamp

InOrder(f) ==
  \A i, j \in DOMAIN parses[f] :
    i < j => /\ parses[f][i].stamp < parses[f][j].stamp
             /\ parses[f][i].version <= parses[f][j].stamp

FileTracked(f) ==
  /\ InOrder(f)
  /\ \A i \in DOMAIN parses[f] : /\ parses[f][i].stamp <= parses[f][i].version
                                 /\ parses[f][i].version <= disk[f].mtime
  /\ \/ f \in DOMAIN cache /\ Filed(f, cache[f].mtime)
     \/ parses[f] = <<>>
     \/ \E c \in Callers : loads[c].step = "store" /\ loads[c].key = f

LoadTracked(c) ==
  LET load == loads[c]
      made == parses[load.key]
  IN  /\ load.step = "store" => Filed(load.key, load.mtime)
      /\ Reading(c) => /\ \A i \in DOMAIN made : made[i].version <= load.mtime
                       /\ load.key \in DOMAIN cache => cache[load.key].mtime <= load.mtime
      /\ load.step = "parse" => \A i \in DOMAIN made : made[i].stamp # load.mtime

ParsesTracked ==
  /\ \A c, d \in Callers : InProgress(c) /\ InProgress(d) => c = d
  /\ \A f \in Files : FileTracked(f)
  /\ \A c \in Callers : LoadTracked(c)

IInv ==
  /\ TypeOK
  /\ Timely
  /\ steady => \A c \in Callers : Fresh(c)
  /\ steady /\ alone => ParsesTracked
================================================================================
