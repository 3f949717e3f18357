----------------------------- MODULE OverlapProofs -----------------------------
(***************************************************************************)
(* The properties of the shelf's cores whose calls overlap, with each      *)
(* other or with what others do to the files they read, for all constants  *)
(* of theirs: the loader cache, the record loader and the metrics; and of  *)
(* those whose input may be split anywhere or runs together: the telnet    *)
(* codec and the stream framer. The argument is that of ShelfProofs.       *)
(***************************************************************************)
EXTENDS Shelf, KeepingProofs

--------------------------------------------------------------------------------
\* The loader cache. What is kept of a parse are two mtimes.
LEMMA LoaderParses ==
  ASSUME NEW made \in Seq([stamp : Nat, version : Nat])
  PROVE  \A i \in DOMAIN made : made[i].stamp \in Nat /\ made[i].version \in Nat
<1> DEFINE R == [stamp : Nat, version : Nat]
<1>1. \A r \in R : r.stamp \in Nat /\ r.version \in Nat
  OBVIOUS
<1> HIDE DEF R
<1>2. \A i \in DOMAIN made : made[i] \in R
  <2>1. made \in Seq(R)
    BY DEF R
  <2> QED
    BY <2>1
<1> QED
  BY <1>1, <1>2

\* What a step makes of the one load it is of.
LEMMA LoaderInit ==
  ASSUME Loader!Init
  PROVE  Loader!IInv
<1>1. /\ disk \in [Files -> [content : Versions, mtime : {0}]]
      /\ target \in Files
      /\ cache  = <<>>
      /\ loads  = [c \in Callers |-> [step |-> "none"]]
      /\ seen   = [c \in Callers |-> {}]
      /\ parses = [f \in Files |-> <<>>]
  BY DEF Loader!Init, Loader!NoParses
<1>2. DOMAIN cache = {}
  BY <1>1
<1>3. /\ \A c \in Callers : loads[c].step = "none"
      /\ DOMAIN loads = Callers
  BY <1>1
<1>4. \A c \in Callers : ~Loader!InProgress(c) /\ ~Loader!Reading(c)
  BY <1>3 DEF Loader!InProgress, Loader!Reading
<1>5. Loader!TypeOK
  <2>1. disk \in [Files -> [content : Versions \cup {Missing}, mtime : Nat]]
    BY <1>1
  <2>2. parses \in [Files -> Seq([stamp : Nat, version : Nat])]
    BY <1>1
  <2> QED
    BY <1>1, <1>2, <1>3, <1>4, <2>1, <2>2 DEF Loader!TypeOK
<1>6. Loader!Timely
  BY <1>2, <1>3, <1>4 DEF Loader!Timely
<1>7. \A c \in Callers : Loader!Fresh(c)
  BY <1>3, <1>4 DEF Loader!Fresh
<1>8. Loader!ParsesTracked
  <2>1. \A f \in Files : parses[f] = <<>> /\ DOMAIN parses[f] = {}
    BY <1>1
  <2>2. \A f \in Files : Loader!FileTracked(f)
    BY <2>1 DEF Loader!FileTracked, Loader!InOrder
  <2>3. \A c \in Callers : Loader!LoadTracked(c)
    BY <1>3, <1>4 DEF Loader!LoadTracked
  <2> QED
    BY <1>4, <2>2, <2>3 DEF Loader!ParsesTracked
<1> QED
  BY <1>5, <1>6, <1>7, <1>8 DEF Loader!IInv

LEMMA LoaderBegin ==
  ASSUME Loader!IInv, NEW c \in Callers, NEW path \in Loader!Paths, Loader!Begin(c, path)
  PROVE  Loader!IInv'
<1> DEFINE key   == Loader!Resolved(path)
           fails == Loader!Done(Missing)
           looks == [step |-> "lookup", path |-> path, key |-> key, mtime |-> disk[key].mtime]
           new   == IF disk[key].content = Missing THEN fails ELSE looks
<1>1. /\ ~Loader!InProgress(c)
      /\ loads'  = [loads EXCEPT ![c] = new]
      /\ seen'   = [seen EXCEPT ![c] = {disk[key].content}]
      /\ alone'  = (alone /\ \A d \in Callers : ~Loader!InProgress(d))
      /\ parses' = IF alone' THEN parses ELSE [f \in Files |-> <<>>]
      /\ UNCHANGED <<disk, target, cache, steady>>
  BY DEF Loader!Begin, Loader!NoParses
<1>2. /\ Loader!TypeOK /\ Loader!Timely /\ (steady => \A d \in Callers : Loader!Fresh(d))
      /\ steady /\ alone => Loader!ParsesTracked
  BY DEF Loader!IInv
<1>3. key \in Files /\ disk[key].mtime \in Nat
  BY <1>2 DEF Loader!TypeOK, Loader!Resolved, Loader!Paths
<1>4. /\ looks.step = "lookup" /\ looks.path = path /\ looks.key = key /\ looks.mtime = disk[key].mtime
      /\ looks = [step |-> looks.step, path |-> looks.path, key |-> looks.key, mtime |-> looks.mtime]
      /\ fails.step = "done" /\ fails.value = Missing
  BY DEF Loader!Done
<1>n. (disk[key].content = Missing /\ new = fails) \/ (disk[key].content # Missing /\ new = looks)
  OBVIOUS
<1>r. Loader!Resolved(path)' = key
  BY <1>1 DEF Loader!Resolved
<1> HIDE DEF key, new, fails, looks
<1>5. /\ DOMAIN loads' = Callers /\ loads'[c] = new /\ DOMAIN seen' = Callers
      /\ seen'[c] = {disk[key].content}
      /\ \A d \in Callers : d # c => loads'[d] = loads[d] /\ seen'[d] = seen[d]
  BY <1>1, <1>2 DEF Loader!TypeOK
<1>6. loads[c].step # "store"
  BY <1>1 DEF Loader!InProgress
<1>p. parses' \in [Files -> Seq([stamp : Nat, version : Nat])]
  <2>1. CASE alone'
    BY <1>1, <1>2, <2>1 DEF Loader!TypeOK
  <2>2. CASE ~alone'
    BY <1>1, <2>2
  <2> QED
    BY <2>1, <2>2
<1>7. Loader!TypeOK'
  BY <1>1, <1>2, <1>3, <1>4, <1>n, <1>5, <1>p DEF Loader!TypeOK, Loader!InProgress, Loader!Reading
<1>8. Loader!Timely'
  BY <1>1, <1>2, <1>3, <1>4, <1>n, <1>5 DEF Loader!TypeOK, Loader!Timely, Loader!InProgress, Loader!Reading
<1>9. ASSUME steady', NEW d \in Callers
      PROVE  Loader!Fresh(d)'
  <2>1. CASE d = c
    BY <1>1, <1>2, <1>3, <1>4, <1>n, <1>5, <1>6, <1>9, <1>r, <2>1
    DEF Loader!Timely, Loader!Fresh, Loader!Hit, Loader!Reading
  <2>2. CASE d # c
    BY <1>1, <1>2, <1>4, <1>n, <1>5, <1>9, <2>2 DEF Loader!Fresh, Loader!Hit, Loader!Reading, Loader!Resolved
  <2> QED
    BY <2>1, <2>2
<1>10. ASSUME steady', alone'
       PROVE  Loader!ParsesTracked'
  <2>1. /\ Loader!ParsesTracked /\ parses' = parses
        /\ \A d \in Callers : ~Loader!InProgress(d) /\ loads[d].step # "store"
    BY <1>1, <1>2, <1>10 DEF Loader!InProgress
  <2>2. \A d \in Callers : d # c => ~Loader!InProgress(d)' /\ ~Loader!Reading(d)'
    BY <1>5, <2>1 DEF Loader!InProgress, Loader!Reading
  <2>3. \A f \in Files : Loader!FileTracked(f)'
    BY <1>1, <2>1 DEF Loader!ParsesTracked, Loader!FileTracked, Loader!InOrder, Loader!Filed
  <2>4. \A d \in Callers : d # c => Loader!LoadTracked(d)'
    BY <2>2 DEF Loader!LoadTracked, Loader!InProgress, Loader!Reading
  <2>5. Loader!LoadTracked(c)'
    <3>1. /\ \A i \in DOMAIN parses[key] : parses[key][i].version <= disk[key].mtime
          /\ key \in DOMAIN cache => cache[key].mtime <= disk[key].mtime
      BY <1>2, <1>3, <2>1 DEF Loader!ParsesTracked, Loader!FileTracked, Loader!Timely
    <3> QED
      BY <1>1, <1>4, <1>n, <1>5, <2>1, <3>1 DEF Loader!LoadTracked, Loader!Reading
  <2> QED
    BY <2>2, <2>3, <2>4, <2>5 DEF Loader!ParsesTracked
<1> QED
  BY <1>7, <1>8, <1>9, <1>10 DEF Loader!IInv

LEMMA LoaderLookup ==
  ASSUME Loader!IInv, NEW c \in Callers, Loader!Lookup(c)
  PROVE  Loader!IInv'
<1> DEFINE load == loads[c]
           hit  == Loader!Done(cache[load.key].value)
           miss == [load EXCEPT !.step = "parse"]
           new  == IF Loader!Hit(load) THEN hit ELSE miss
<1>1. /\ load.step = "lookup"
      /\ loads' = [loads EXCEPT ![c] = new]
      /\ UNCHANGED <<disk, target, cache, seen, parses, steady, alone>>
  BY DEF Loader!Lookup
<1>2. /\ Loader!TypeOK /\ Loader!Timely /\ (steady => \A d \in Callers : Loader!Fresh(d))
      /\ steady /\ alone => Loader!ParsesTracked
  BY DEF Loader!IInv
<1>3. /\ load = [step |-> load.step, path |-> load.path, key |-> load.key, mtime |-> load.mtime]
      /\ load.path \in Loader!Paths /\ load.key \in Files /\ load.mtime \in Nat
  BY <1>1, <1>2 DEF Loader!TypeOK, Loader!Reading, Loader!InProgress
<1>4. /\ hit.step = "done" /\ hit.value = cache[load.key].value
      /\ miss.step = "parse" /\ miss.path = load.path /\ miss.key = load.key /\ miss.mtime = load.mtime
      /\ miss = [step |-> miss.step, path |-> miss.path, key |-> miss.key, mtime |-> miss.mtime]
  BY <1>3 DEF Loader!Done
<1>5. (Loader!Hit(load) /\ new = hit) \/ (~Loader!Hit(load) /\ new = miss)
  OBVIOUS
<1> HIDE DEF hit, miss, new
<1>6. /\ DOMAIN loads' = Callers /\ loads'[c] = new
      /\ \A d \in Callers : d # c => loads'[d] = loads[d]
  BY <1>1, <1>2 DEF Loader!TypeOK
<1>7. Loader!TypeOK'
  BY <1>1, <1>2, <1>3, <1>4, <1>5, <1>6 DEF Loader!TypeOK, Loader!InProgress, Loader!Reading
<1>8. Loader!Timely'
  BY <1>1, <1>2, <1>3, <1>4, <1>5, <1>6
  DEF Loader!TypeOK, Loader!Timely, Loader!InProgress, Loader!Reading
<1>9. ASSUME steady', NEW d \in Callers
      PROVE  Loader!Fresh(d)'
  <2>1. CASE d = c
    BY <1>1, <1>2, <1>3, <1>4, <1>5, <1>6, <1>9, <2>1
    DEF Loader!Fresh, Loader!Hit, Loader!Reading, Loader!Resolved
  <2>2. CASE d # c
    BY <1>1, <1>2, <1>4, <1>5, <1>6, <1>9, <2>2 DEF Loader!Fresh, Loader!Hit, Loader!Reading, Loader!Resolved
  <2> QED
    BY <2>1, <2>2
<1>10. ASSUME steady', alone'
       PROVE  Loader!ParsesTracked'
  <2>0. Loader!ParsesTracked
    BY <1>1, <1>2, <1>10
  <2>1. /\ \A d \in Callers : Loader!InProgress(d)' => Loader!InProgress(d)
        /\ Loader!InProgress(c) /\ Loader!Reading(c)
    BY <1>1, <1>4, <1>5, <1>6 DEF Loader!InProgress, Loader!Reading
  <2>2. \A d \in Callers : d # c => ~Loader!InProgress(d) /\ loads[d].step # "store"
    BY <2>0, <2>1 DEF Loader!ParsesTracked, Loader!InProgress
  <2>3. ASSUME NEW f \in Files
        PROVE  Loader!FileTracked(f)'
    <3>1. (\E d \in Callers : loads[d].step = "store" /\ loads[d].key = f) => FALSE
      BY <1>1, <2>2
    <3>2. Loader!FileTracked(f)
      BY <2>0 DEF Loader!ParsesTracked
    <3> QED
      BY <1>1, <3>1, <3>2 DEF Loader!FileTracked, Loader!InOrder, Loader!Filed
  <2>4. \A d \in Callers : d # c => Loader!LoadTracked(d)'
    BY <1>6, <2>2 DEF Loader!LoadTracked, Loader!InProgress, Loader!Reading
  <2>5. Loader!LoadTracked(c)'
    <3> DEFINE made == parses[load.key]
    <3>1. /\ \A i \in DOMAIN made : made[i].version <= load.mtime
          /\ load.key \in DOMAIN cache => cache[load.key].mtime <= load.mtime
      BY <2>0, <2>1 DEF Loader!ParsesTracked, Loader!LoadTracked
    <3>2. CASE Loader!Hit(load)
      BY <1>1, <1>4, <1>5, <1>6, <3>2 DEF Loader!LoadTracked, Loader!Reading, Loader!Hit
    <3>3. CASE ~Loader!Hit(load)
      <4>1. /\ Loader!FileTracked(load.key)
            /\ ~(\E d \in Callers : loads[d].step = "store" /\ loads[d].key = load.key)
        BY <1>1, <1>3, <2>0, <2>2 DEF Loader!ParsesTracked
      <4>2. \/ load.key \in DOMAIN cache /\ Loader!Filed(load.key, cache[load.key].mtime)
            \/ made = <<>>
        BY <4>1 DEF Loader!FileTracked
      <4>3. ASSUME NEW i \in DOMAIN made
            PROVE  made[i].stamp # load.mtime
        <5>1. /\ load.key \in DOMAIN cache /\ made[i].stamp <= cache[load.key].mtime
          BY <4>2, <4>3 DEF Loader!Filed
        <5>2. cache[load.key].mtime <= load.mtime /\ cache[load.key].mtime # load.mtime
          BY <3>1, <3>3, <5>1 DEF Loader!Hit
        <5>3. cache[load.key].mtime \in Nat /\ made[i].stamp \in Nat
          BY <1>2, <1>3, <4>3, <5>1, LoaderParses DEF Loader!TypeOK
        <5>4. load.mtime \in Nat
          BY <1>3
        <5> QED
          BY ONLY <5>1, <5>2, <5>3, <5>4, SMTT(30)
      <4> QED
        BY <1>1, <1>4, <1>5, <1>6, <3>1, <3>3, <4>3 DEF Loader!LoadTracked, Loader!Reading
    <3> QED
      BY <3>2, <3>3
  <2> QED
    BY <2>0, <2>1, <2>3, <2>4, <2>5 DEF Loader!ParsesTracked
<1> QED
  BY <1>7, <1>8, <1>9, <1>10 DEF Loader!IInv

\* A file that has been parsed once more: under a later mtime than before, and no
\* earlier than any version that was come upon.
LEMMA LoaderMade ==
  ASSUME NEW old \in Seq([stamp : Nat, version : Nat]), NEW stamp \in Nat, NEW version \in Nat,
         stamp <= version,
         \A i, j \in DOMAIN old : i < j => /\ old[i].stamp < old[j].stamp
                                           /\ old[i].version <= old[j].stamp,
         \A i \in DOMAIN old : /\ old[i].stamp <= old[i].version /\ old[i].version <= stamp
                               /\ old[i].stamp # stamp
  PROVE  LET new == Append(old, [stamp |-> stamp, version |-> version])
         IN  /\ new \in Seq([stamp : Nat, version : Nat])
             /\ \A i, j \in DOMAIN new : i < j => /\ new[i].stamp < new[j].stamp
                                                  /\ new[i].version <= new[j].stamp
             /\ \A i \in DOMAIN new : /\ new[i].stamp <= new[i].version
                                      /\ new[i].version <= version \/ new[i].version <= stamp
                                      /\ new[i].stamp <= stamp
<1> DEFINE made == [stamp |-> stamp, version |-> version]
           new  == Append(old, made)
<1>1. made \in [stamp : Nat, version : Nat] /\ made.stamp = stamp /\ made.version = version
  OBVIOUS
<1> HIDE DEF made
<1>2. /\ new \in Seq([stamp : Nat, version : Nat]) /\ Len(new) = Len(old) + 1 /\ Len(old) \in Nat
      /\ new[Len(old) + 1] = made /\ \A i \in 1..Len(old) : new[i] = old[i]
      /\ DOMAIN old = 1..Len(old) /\ DOMAIN new = 1..(Len(old) + 1)
  BY <1>1, AppendProperties
<1>3. \A i \in DOMAIN old : old[i].stamp \in Nat /\ old[i].version \in Nat
  BY LoaderParses
<1>4. \A i \in DOMAIN new : (i \in DOMAIN old /\ new[i] = old[i]) \/ (i = Len(old) + 1 /\ new[i] = made)
  BY <1>2
<1> HIDE DEF new
<1>5. \A i \in DOMAIN old : old[i].stamp < stamp
  BY <1>3
<1>6. ASSUME NEW i \in DOMAIN new, NEW j \in DOMAIN new, i < j
      PROVE  new[i].stamp < new[j].stamp /\ new[i].version <= new[j].stamp
  <2>1. i \in DOMAIN old /\ new[i] = old[i]
    <3>1. i \in 1..(Len(old) + 1) /\ j \in 1..(Len(old) + 1) /\ Len(old) \in Nat
      BY <1>2, <1>6
    <3>2. i \in 1..Len(old)
      BY <1>6, <3>1
    <3> QED
      BY <1>2, <3>2 DEF new
  <2>2. CASE j \in DOMAIN old /\ new[j] = old[j]
    BY <1>6, <2>1, <2>2
  <2>3. CASE new[j] = made
    BY <1>1, <1>5, <2>1, <2>3
  <2> QED
    BY <1>4, <2>2, <2>3
<1>7. ASSUME NEW i \in DOMAIN new
      PROVE  /\ new[i].stamp <= new[i].version /\ new[i].stamp <= stamp
             /\ new[i].version <= version \/ new[i].version <= stamp
  BY <1>1, <1>3, <1>4, <1>5, <1>7
<1> QED
  BY <1>2, <1>6, <1>7 DEF new, made

LEMMA LoaderParse ==
  ASSUME Loader!IInv, NEW c \in Callers, Loader!Parse(c)
  PROVE  Loader!IInv'
<1> DEFINE load  == loads[c]
           file  == disk[Loader!Resolved(load.path)]
           made  == [stamp |-> load.mtime, version |-> file.mtime]
           more  == Append(parses[load.key], made)
           fails == Loader!Done(file.content)
           gives == [step |-> "store", path |-> load.path, key |-> load.key,
                     mtime |-> load.mtime, value |-> file.content]
           new   == IF file.content \in {Broken, Missing} THEN fails ELSE gives
<1>1. /\ load.step = "parse"
      /\ loads' = [loads EXCEPT ![c] = new]
      /\ UNCHANGED <<disk, target, cache, seen, steady, alone>>
      /\ IF file.content \notin {Broken, Missing} /\ alone THEN parses' = [parses EXCEPT ![load.key] = more]
         ELSE parses' = parses
  BY DEF Loader!Parse
<1>2. /\ Loader!TypeOK /\ Loader!Timely /\ (steady => \A d \in Callers : Loader!Fresh(d))
      /\ steady /\ alone => Loader!ParsesTracked
  BY DEF Loader!IInv
<1>3. load.path \in Loader!Paths /\ load.key \in Files /\ load.mtime \in Nat
  BY <1>1, <1>2 DEF Loader!TypeOK, Loader!Reading, Loader!InProgress
<1>m. Loader!Resolved(load.path) \in Files /\ file.mtime \in Nat
  BY <1>2, <1>3 DEF Loader!TypeOK, Loader!Resolved, Loader!Paths
<1>4. /\ fails.step = "done" /\ fails.value = file.content
      /\ gives.step = "store" /\ gives.path = load.path /\ gives.key = load.key
      /\ gives.mtime = load.mtime /\ gives.value = file.content
  BY DEF Loader!Done
<1>5. (file.content \in {Broken, Missing} /\ new = fails) \/ (file.content \notin {Broken, Missing} /\ new = gives)
  OBVIOUS
<1>v. steady => /\ file = disk[load.key]
                /\ file.content \in seen[c]
  BY <1>1, <1>2 DEF Loader!Fresh, Loader!Reading
<1>p. /\ parses \in [Files -> Seq([stamp : Nat, version : Nat])]
      /\ parses' \in [Files -> Seq([stamp : Nat, version : Nat])]
      /\ \A f \in Files : f # load.key => parses'[f] = parses[f]
      /\ parses'[load.key] = IF new = gives /\ alone THEN more ELSE parses[load.key]
  <2>1. parses \in [Files -> Seq([stamp : Nat, version : Nat])]
    BY <1>2 DEF Loader!TypeOK
  <2>2. new = gives <=> file.content \notin {Broken, Missing}
    BY <1>4, <1>5
  <2>3. more \in Seq([stamp : Nat, version : Nat])
    BY <1>3, <1>m, <2>1, AppendProperties
  <2> HIDE DEF more, new, gives
  <2> QED
    BY <1>1, <1>3, <2>1, <2>2, <2>3
<1> HIDE DEF fails, gives, new, file, more
<1>6. /\ DOMAIN loads' = Callers /\ loads'[c] = new
      /\ \A d \in Callers : d # c => loads'[d] = loads[d]
  BY <1>1, <1>2 DEF Loader!TypeOK
<1>7. Loader!TypeOK'
  BY <1>1, <1>2, <1>3, <1>4, <1>5, <1>6, <1>p DEF Loader!TypeOK, Loader!InProgress, Loader!Reading
<1>8. Loader!Timely'
  BY <1>1, <1>2, <1>3, <1>4, <1>5, <1>6, <1>v
  DEF Loader!TypeOK, Loader!Timely, Loader!InProgress, Loader!Reading
<1>9. ASSUME steady', NEW d \in Callers
      PROVE  Loader!Fresh(d)'
  <2>1. CASE d = c
    BY <1>1, <1>2, <1>3, <1>4, <1>5, <1>6, <1>9, <1>v, <2>1
    DEF Loader!Fresh, Loader!Reading
  <2>2. CASE d # c
    BY <1>1, <1>2, <1>4, <1>5, <1>6, <1>9, <1>v, <2>2
    DEF Loader!Fresh, Loader!Hit, Loader!Reading, Loader!Resolved
  <2> QED
    BY <2>1, <2>2
<1>10. ASSUME steady', alone'
       PROVE  Loader!ParsesTracked'
  <2>0. Loader!ParsesTracked /\ steady /\ alone
    BY <1>1, <1>2, <1>10
  <2>1. /\ \A d \in Callers : Loader!InProgress(d)' => Loader!InProgress(d)
        /\ Loader!InProgress(c) /\ Loader!Reading(c)
    BY <1>1, <1>4, <1>5, <1>6 DEF Loader!InProgress, Loader!Reading
  <2>2. \A d \in Callers : d # c => ~Loader!InProgress(d) /\ loads[d].step # "store"
    BY <2>0, <2>1 DEF Loader!ParsesTracked, Loader!InProgress
  <2>3. \A f \in Files : /\ Loader!FileTracked(f)
                         /\ ~(\E d \in Callers : loads[d].step = "store" /\ loads[d].key = f)
    BY <1>1, <2>0, <2>2 DEF Loader!ParsesTracked
  <2>4. ASSUME NEW f \in Files, f # load.key \/ new # gives
        PROVE  Loader!FileTracked(f)'
    <3>1. parses'[f] = parses[f]
      BY <1>p, <2>4
    <3> QED
      BY <1>1, <2>3, <3>1 DEF Loader!FileTracked, Loader!InOrder, Loader!Filed
  <2>5. \A d \in Callers : d # c => Loader!LoadTracked(d)'
    BY <1>6, <2>2 DEF Loader!LoadTracked, Loader!InProgress, Loader!Reading
  <2>6. CASE new # gives
    BY <1>4, <1>5, <1>6, <2>0, <2>1, <2>4, <2>5, <2>6 DEF Loader!ParsesTracked, Loader!LoadTracked, Loader!Reading
  <2>7. CASE new = gives
    <3> DEFINE old == parses[load.key]
    <3>1. /\ \A i, j \in DOMAIN old : i < j => /\ old[i].stamp < old[j].stamp
                                               /\ old[i].version <= old[j].stamp
          /\ \A i \in DOMAIN old : old[i].stamp <= old[i].version
      BY <1>3, <2>3 DEF Loader!FileTracked, Loader!InOrder
    <3>2. \A i \in DOMAIN old : old[i].version <= load.mtime /\ old[i].stamp # load.mtime
      BY <1>1, <2>0, <2>1 DEF Loader!ParsesTracked, Loader!LoadTracked
    <3>3. load.mtime <= file.mtime /\ file = disk[load.key]
      BY <1>2, <1>v, <2>0, <2>1 DEF Loader!Timely
    <3>4. old \in Seq([stamp : Nat, version : Nat])
      BY <1>3, <1>p
    <3>5. parses'[load.key] = more
      BY <1>p, <2>0, <2>7
    <3> HIDE DEF old, load
    <3>6. /\ \A i, j \in DOMAIN more : i < j => /\ more[i].stamp < more[j].stamp
                                                /\ more[i].version <= more[j].stamp
          /\ \A i \in DOMAIN more : /\ more[i].stamp <= more[i].version
                                    /\ more[i].version <= file.mtime \/ more[i].version <= load.mtime
                                    /\ more[i].stamp <= load.mtime
          /\ more \in Seq([stamp : Nat, version : Nat])
      BY <1>3, <1>m, <3>1, <3>2, <3>3, <3>4, LoaderMade DEF more, old
    <3>7. \A i \in DOMAIN more : more[i].version <= disk'[load.key].mtime
      <4>1. \A i \in DOMAIN more : more[i].version \in Nat
        BY <3>6, LoaderParses
      <4>2. disk'[load.key].mtime = file.mtime /\ load.mtime \in Nat
        BY <1>1, <1>3, <3>3
      <4> QED
        BY <1>m, <3>3, <3>6, <4>1, <4>2
    <3>8. loads'[c].step = "store" /\ loads'[c].key = load.key /\ loads'[c].mtime = load.mtime
      BY <1>4, <1>6, <2>7
    <3>9. ASSUME NEW f \in Files, f = load.key
          PROVE  Loader!FileTracked(f)'
      <4>1. Loader!InOrder(f)'
        BY <3>5, <3>6, <3>9 DEF Loader!InOrder
      <4>2. \E d \in Callers : loads'[d].step = "store" /\ loads'[d].key = f
        BY <3>8, <3>9
      <4> QED
        BY <3>5, <3>6, <3>7, <3>9, <4>1, <4>2 DEF Loader!FileTracked
    <3>10. Loader!LoadTracked(c)'
      BY <3>5, <3>6, <3>8 DEF Loader!LoadTracked, Loader!Filed, Loader!Reading
    <3> QED
      <4>1. \A f \in Files : Loader!FileTracked(f)'
        BY <2>4, <3>9
      <4>2. \A d \in Callers : Loader!LoadTracked(d)'
        BY <2>5, <3>10
      <4>3. \A d, e \in Callers : Loader!InProgress(d)' /\ Loader!InProgress(e)' => d = e
        BY <2>0, <2>1 DEF Loader!ParsesTracked
      <4> QED
        BY <4>1, <4>2, <4>3 DEF Loader!ParsesTracked
  <2> QED
    BY <2>6, <2>7
<1> QED
  BY <1>7, <1>8, <1>9, <1>10 DEF Loader!IInv

LEMMA LoaderStore ==
  ASSUME Loader!IInv, NEW c \in Callers, Loader!Store(c)
  PROVE  Loader!IInv'
<1> DEFINE load == loads[c]
           new  == Loader!Done(load.value)
<1>1. /\ load.step = "store"
      /\ loads' = [loads EXCEPT ![c] = new]
      /\ cache' = [k \in DOMAIN cache \cup {load.key} |->
                     IF k = load.key THEN [mtime |-> load.mtime, value |-> load.value] ELSE cache[k]]
      /\ UNCHANGED <<disk, target, seen, parses, steady, alone>>
  BY DEF Loader!Store, Loader!Entry
<1>2. /\ Loader!TypeOK /\ Loader!Timely /\ (steady => \A d \in Callers : Loader!Fresh(d))
      /\ steady /\ alone => Loader!ParsesTracked
  BY DEF Loader!IInv
<1>3. load.key \in Files /\ load.mtime \in Nat
  BY <1>1, <1>2 DEF Loader!TypeOK, Loader!Reading, Loader!InProgress
<1>4. new.step = "done" /\ new.value = load.value
  BY DEF Loader!Done
<1> HIDE DEF new
<1>5. /\ DOMAIN cache' = DOMAIN cache \cup {load.key}
      /\ cache'[load.key].mtime = load.mtime /\ cache'[load.key].value = load.value
      /\ \A k \in DOMAIN cache : k # load.key => cache'[k] = cache[k]
  BY <1>1
<1>6. /\ DOMAIN loads' = Callers /\ loads'[c] = new
      /\ \A d \in Callers : d # c => loads'[d] = loads[d]
  BY <1>1, <1>2 DEF Loader!TypeOK
<1>7. Loader!TypeOK'
  BY <1>1, <1>2, <1>3, <1>4, <1>5, <1>6 DEF Loader!TypeOK, Loader!InProgress, Loader!Reading
<1>8. Loader!Timely'
  BY <1>1, <1>2, <1>3, <1>4, <1>5, <1>6
  DEF Loader!TypeOK, Loader!Timely, Loader!InProgress, Loader!Reading
<1>9. ASSUME steady', NEW d \in Callers
      PROVE  Loader!Fresh(d)'
  <2>1. CASE d = c
    BY <1>1, <1>2, <1>4, <1>6, <1>9, <2>1 DEF Loader!Fresh, Loader!Reading
  <2>2. CASE d # c
    BY <1>1, <1>2, <1>4, <1>5, <1>6, <1>9, <2>2
    DEF Loader!Fresh, Loader!Hit, Loader!Reading, Loader!Resolved
  <2> QED
    BY <2>1, <2>2
<1>10. ASSUME steady', alone'
       PROVE  Loader!ParsesTracked'
  <2>0. Loader!ParsesTracked
    BY <1>1, <1>2, <1>10
  <2>1. Loader!InProgress(c) /\ ~Loader!InProgress(c)'
    BY <1>1, <1>4, <1>6 DEF Loader!InProgress, Loader!Reading
  <2>2. \A d \in Callers : d # c => ~Loader!InProgress(d) /\ loads[d].step # "store"
    BY <2>0, <2>1 DEF Loader!ParsesTracked, Loader!InProgress
  <2>3. \A d \in Callers : ~Loader!InProgress(d)' /\ ~Loader!Reading(d)' /\ loads'[d].step \notin {"store", "parse"}
    BY <1>6, <2>1, <2>2 DEF Loader!InProgress, Loader!Reading
  <2>4. ASSUME NEW f \in Files
        PROVE  Loader!FileTracked(f)'
    <3>1. Loader!FileTracked(f)
      BY <2>0 DEF Loader!ParsesTracked
    <3>2. CASE f = load.key
      <4>1. Loader!Filed(load.key, load.mtime)
        BY <1>1, <2>0 DEF Loader!ParsesTracked, Loader!LoadTracked
      <4>2. f \in DOMAIN cache' /\ Loader!Filed(f, cache[f].mtime)'
        BY <1>1, <1>5, <3>2, <4>1 DEF Loader!Filed
      <4> QED
        BY <1>1, <3>1, <4>2 DEF Loader!FileTracked, Loader!InOrder
    <3>3. CASE f # load.key
      <4>1. ~(\E d \in Callers : loads[d].step = "store" /\ loads[d].key = f)
        BY <2>2, <3>3
      <4> QED
        BY <1>1, <1>5, <3>1, <3>3, <4>1 DEF Loader!FileTracked, Loader!InOrder, Loader!Filed
    <3> QED
      BY <3>2, <3>3
  <2> QED
    BY <2>3, <2>4 DEF Loader!ParsesTracked, Loader!LoadTracked
<1> QED
  BY <1>7, <1>8, <1>9, <1>10 DEF Loader!IInv

LEMMA LoaderClear ==
  ASSUME Loader!IInv, Loader!Clear
  PROVE  Loader!IInv'
<1>1. /\ DOMAIN cache' = {} /\ alone' = FALSE /\ parses' = [f \in Files |-> <<>>]
      /\ UNCHANGED <<disk, target, loads, seen, steady>>
  BY DEF Loader!Clear, Loader!NoParses
<1>2. Loader!TypeOK'
  <2>1. parses' \in [Files -> Seq([stamp : Nat, version : Nat])]
    BY <1>1
  <2> QED
    BY <1>1, <2>1 DEF Loader!IInv, Loader!TypeOK, Loader!InProgress, Loader!Reading
<1>3. Loader!Timely'
  BY <1>1 DEF Loader!IInv, Loader!Timely, Loader!InProgress, Loader!Reading
<1>4. steady' => \A d \in Callers : Loader!Fresh(d)'
  BY <1>1 DEF Loader!IInv, Loader!Fresh, Loader!Hit, Loader!Reading, Loader!Resolved
<1> QED
  BY <1>1, <1>2, <1>3, <1>4 DEF Loader!IInv

\* An edit, a deletion and a moved link: a load that has yet to take its value notices.
LEMMA LoaderNotice ==
  ASSUME Loader!IInv, Loader!Notice, UNCHANGED loads
  PROVE  /\ DOMAIN seen' = Callers
         /\ \A c \in Callers : /\ seen[c] \subseteq seen'[c]
                               /\ Loader!Reading(c) => disk'[Loader!Resolved(loads[c].path)'].content \in seen'[c]
BY DEF Loader!IInv, Loader!TypeOK, Loader!Notice, Loader!Resolved

LEMMA LoaderEdit ==
  ASSUME Loader!IInv, NEW f \in Files, NEW content \in Versions, NEW mtime,
         Loader!Edit(f, content, mtime)
  PROVE  Loader!IInv'
<1>1. /\ mtime \in {disk[f].mtime, disk[f].mtime + 1}
      /\ disk' = [disk EXCEPT ![f] = [content |-> content, mtime |-> mtime]]
      /\ steady' = (steady /\ mtime > disk[f].mtime)
      /\ Loader!Notice
      /\ UNCHANGED <<target, cache, loads, parses, alone>>
  BY DEF Loader!Edit
<1>2. /\ Loader!TypeOK /\ Loader!Timely /\ (steady => \A d \in Callers : Loader!Fresh(d))
      /\ steady /\ alone => Loader!ParsesTracked
  BY DEF Loader!IInv
<1>3. /\ DOMAIN seen' = Callers
      /\ \A c \in Callers : /\ seen[c] \subseteq seen'[c]
                            /\ Loader!Reading(c) => disk'[Loader!Resolved(loads[c].path)].content \in seen'[c]
  BY <1>1, LoaderNotice DEF Loader!Resolved
<1>4. \A g \in Files : disk[g].mtime \in Nat
  BY <1>2 DEF Loader!TypeOK
<1>5. /\ disk' \in [Files -> [content : Versions \cup {Missing}, mtime : Nat]]
      /\ disk'[f].mtime = mtime /\ mtime \in Nat /\ disk[f].mtime <= mtime
      /\ \A g \in Files : g # f => disk'[g] = disk[g]
  BY <1>1, <1>2, <1>4 DEF Loader!TypeOK
<1>6. Loader!TypeOK'
  BY <1>1, <1>2, <1>3, <1>5 DEF Loader!TypeOK, Loader!InProgress, Loader!Reading
<1>7. Loader!Timely'
  <2>1. ASSUME NEW g \in Files
        PROVE  /\ disk[g].mtime <= disk'[g].mtime /\ disk'[g].mtime \in Nat
               /\ steady' /\ disk'[g] # disk[g] => disk[g].mtime < disk'[g].mtime
    <3>1. disk[g].mtime \in Nat /\ disk[f].mtime \in Nat
      BY <1>4
    <3>2. CASE g = f
      BY <1>1, <1>5, <3>1, <3>2
    <3>3. CASE g # f
      BY <1>5, <3>1, <3>3
    <3> QED
      BY <3>2, <3>3
  <2>2. \A g \in DOMAIN cache :
          /\ g \in Files /\ cache[g].mtime \in Nat /\ cache[g].mtime <= disk[g].mtime
          /\ steady /\ cache[g].mtime = disk[g].mtime => disk[g].content \in {cache[g].value, Missing}
    BY <1>2 DEF Loader!TypeOK, Loader!Timely
  <2>3. \A c \in Callers : Loader!InProgress(c) =>
          /\ loads[c].key \in Files /\ loads[c].mtime \in Nat /\ loads[c].mtime <= disk[loads[c].key].mtime
          /\ steady /\ loads[c].step = "store" /\ loads[c].mtime = disk[loads[c].key].mtime
               => disk[loads[c].key].content \in {loads[c].value, Missing}
    BY <1>2 DEF Loader!TypeOK, Loader!Timely
  <2>4. ASSUME NEW g \in Files, NEW m \in Nat, NEW v, m <= disk[g].mtime,
               steady /\ m = disk[g].mtime => disk[g].content \in {v, Missing}
        PROVE  m <= disk'[g].mtime /\ (steady' /\ m = disk'[g].mtime => disk'[g].content \in {v, Missing})
    <3>1. CASE disk'[g] = disk[g]
      BY <1>1, <2>4, <3>1
    <3>2. CASE disk'[g] # disk[g]
      <4>1. /\ disk[g].mtime \in Nat /\ disk'[g].mtime \in Nat /\ disk[g].mtime <= disk'[g].mtime
            /\ steady' => disk[g].mtime < disk'[g].mtime
        BY <1>4, <2>1, <3>2
      <4> QED
        BY <2>4, <4>1
    <3> QED
      BY <3>1, <3>2
  <2>5. /\ \A g \in DOMAIN cache :
             /\ cache[g].mtime <= disk'[g].mtime
             /\ steady' /\ cache[g].mtime = disk'[g].mtime => disk'[g].content \in {cache[g].value, Missing}
        /\ \A c \in Callers : Loader!InProgress(c) => loads[c].mtime <= disk'[loads[c].key].mtime
        /\ \A c \in Callers : Loader!InProgress(c) /\ loads[c].step = "store" =>
             (steady' /\ loads[c].mtime = disk'[loads[c].key].mtime => disk'[loads[c].key].content \in {loads[c].value, Missing})
    <3>1. \A g \in DOMAIN cache :
             /\ cache[g].mtime <= disk'[g].mtime
             /\ steady' /\ cache[g].mtime = disk'[g].mtime => disk'[g].content \in {cache[g].value, Missing}
      BY <2>2, <2>4
    <3>2. ASSUME NEW c \in Callers, Loader!InProgress(c)
          PROVE  loads[c].mtime <= disk'[loads[c].key].mtime
      <4>1. \A g \in Files, m \in Nat : m <= disk[g].mtime => m <= disk'[g].mtime
        BY <1>4, <2>1
      <4> QED
        BY <2>3, <3>2, <4>1
    <3>3. ASSUME NEW c \in Callers, Loader!InProgress(c), loads[c].step = "store"
          PROVE  steady' /\ loads[c].mtime = disk'[loads[c].key].mtime => disk'[loads[c].key].content \in {loads[c].value, Missing}
      BY SMTT(30), <2>3, <2>4, <3>3
    <3> QED
      BY <3>1, <3>2, <3>3
  <2>6. /\ \A c \in Callers : Loader!InProgress(c)' <=> Loader!InProgress(c)
        /\ \A c \in Callers : loads[c].step = "store" => Loader!InProgress(c)
    BY <1>1 DEF Loader!InProgress, Loader!Reading
  <2> QED
    BY <1>1, <2>5, <2>6 DEF Loader!Timely
<1>8. ASSUME steady', NEW d \in Callers
      PROVE  Loader!Fresh(d)'
  BY <1>1, <1>2, <1>3, <1>8 DEF Loader!Fresh, Loader!Hit, Loader!Reading, Loader!Resolved
<1>9. ASSUME steady', alone'
      PROVE  Loader!ParsesTracked'
  <2>1. Loader!ParsesTracked
    BY <1>1, <1>2, <1>9
  <2>2. ASSUME NEW g \in Files
        PROVE  disk[g].mtime <= disk'[g].mtime /\ disk[g].mtime \in Nat /\ disk'[g].mtime \in Nat
    BY <1>4, <1>5
  <2>3. ASSUME NEW g \in Files
        PROVE  Loader!FileTracked(g)'
    <3>1. Loader!FileTracked(g) /\ parses[g] \in Seq([stamp : Nat, version : Nat])
      BY <1>2, <2>1 DEF Loader!ParsesTracked, Loader!TypeOK
    <3>2. \A i \in DOMAIN parses[g] : parses[g][i].version <= disk'[g].mtime
      <4>1. \A i \in DOMAIN parses[g] : parses[g][i].version \in Nat /\ parses[g][i].version <= disk[g].mtime
        BY <3>1, LoaderParses DEF Loader!FileTracked
      <4> QED
        BY <2>2, <4>1
    <3> QED
      BY <1>1, <3>1, <3>2 DEF Loader!FileTracked, Loader!InOrder, Loader!Filed
  <2> QED
    BY <1>1, <2>1, <2>3
    DEF Loader!ParsesTracked, Loader!LoadTracked, Loader!Filed, Loader!InProgress, Loader!Reading
<1> QED
  BY <1>6, <1>7, <1>8, <1>9 DEF Loader!IInv

LEMMA LoaderDelete ==
  ASSUME Loader!IInv, NEW f \in Files, Loader!Delete(f)
  PROVE  Loader!IInv'
<1>1. /\ disk' = [disk EXCEPT ![f].content = Missing]
      /\ Loader!Notice
      /\ UNCHANGED <<target, cache, loads, parses, steady, alone>>
  BY DEF Loader!Delete
<1>2. /\ Loader!TypeOK /\ Loader!Timely /\ (steady => \A d \in Callers : Loader!Fresh(d))
      /\ steady /\ alone => Loader!ParsesTracked
  BY DEF Loader!IInv
<1>3. /\ DOMAIN seen' = Callers
      /\ \A c \in Callers : /\ seen[c] \subseteq seen'[c]
                            /\ Loader!Reading(c) => disk'[Loader!Resolved(loads[c].path)].content \in seen'[c]
  BY <1>1, LoaderNotice DEF Loader!Resolved
<1>4. /\ disk' \in [Files -> [content : Versions \cup {Missing}, mtime : Nat]]
      /\ disk'[f].content = Missing
      /\ \A g \in Files : disk'[g].mtime = disk[g].mtime /\ (g # f => disk'[g] = disk[g])
  <2>1. /\ disk \in [Files -> [content : Versions \cup {Missing}, mtime : Nat]]
        /\ disk[f] \in [content : Versions \cup {Missing}, mtime : Nat]
    BY <1>2 DEF Loader!TypeOK
  <2>2. [disk[f] EXCEPT !.content = Missing] = [content |-> Missing, mtime |-> disk[f].mtime]
    BY <2>1
  <2>3. disk' = [disk EXCEPT ![f] = [content |-> Missing, mtime |-> disk[f].mtime]]
    BY <1>1, <2>2
  <2> QED
    BY <2>1, <2>3
<1>5. Loader!TypeOK'
  BY <1>1, <1>2, <1>3, <1>4 DEF Loader!TypeOK, Loader!InProgress, Loader!Reading
<1>6. Loader!Timely'
  <2>1. /\ \A g \in DOMAIN cache : g \in Files
        /\ \A c \in Callers : Loader!InProgress(c) => loads[c].key \in Files
        /\ \A c \in Callers : loads[c].step = "store" => Loader!InProgress(c)
    BY <1>2 DEF Loader!TypeOK, Loader!InProgress
  <2>2. \A g \in Files : disk'[g].mtime = disk[g].mtime /\ disk'[g].content \in {disk[g].content, Missing}
    BY <1>4
  <2> QED
    BY <1>1, <1>2, <2>1, <2>2 DEF Loader!Timely, Loader!InProgress, Loader!Reading
<1>7. ASSUME steady', NEW d \in Callers
      PROVE  Loader!Fresh(d)'
  BY <1>1, <1>2, <1>3, <1>7 DEF Loader!Fresh, Loader!Hit, Loader!Reading, Loader!Resolved
<1>8. ASSUME steady', alone'
      PROVE  Loader!ParsesTracked'
  BY <1>1, <1>2, <1>4, <1>8
  DEF Loader!ParsesTracked, Loader!FileTracked, Loader!LoadTracked, Loader!InOrder, Loader!Filed,
      Loader!InProgress, Loader!Reading
<1> QED
  BY <1>5, <1>6, <1>7, <1>8 DEF Loader!IInv

LEMMA LoaderRetarget ==
  ASSUME Loader!IInv, NEW f \in Files, Loader!Retarget(f)
  PROVE  Loader!IInv'
<1>1. /\ target' = f
      /\ steady' = (steady /\ \A c \in Callers : Loader!Reading(c) => loads[c].path # Link)
      /\ Loader!Notice
      /\ UNCHANGED <<disk, cache, loads, parses, alone>>
  BY DEF Loader!Retarget
<1>2. /\ Loader!TypeOK /\ Loader!Timely /\ (steady => \A d \in Callers : Loader!Fresh(d))
      /\ steady /\ alone => Loader!ParsesTracked
  BY DEF Loader!IInv
<1>3. /\ DOMAIN seen' = Callers
      /\ \A c \in Callers : seen[c] \subseteq seen'[c]
  BY <1>1, LoaderNotice
<1>4. Loader!TypeOK'
  BY <1>1, <1>2, <1>3 DEF Loader!TypeOK, Loader!InProgress, Loader!Reading
<1>5. Loader!Timely'
  BY <1>1, <1>2 DEF Loader!Timely, Loader!InProgress, Loader!Reading
<1>6. ASSUME steady', NEW d \in Callers
      PROVE  Loader!Fresh(d)'
  BY <1>1, <1>2, <1>3, <1>6 DEF Loader!Fresh, Loader!Hit, Loader!Reading, Loader!Resolved
<1>7. ASSUME steady', alone'
      PROVE  Loader!ParsesTracked'
  BY <1>1, <1>2, <1>7
  DEF Loader!ParsesTracked, Loader!FileTracked, Loader!LoadTracked, Loader!InOrder, Loader!Filed,
      Loader!InProgress, Loader!Reading
<1> QED
  BY <1>4, <1>5, <1>6, <1>7 DEF Loader!IInv

LEMMA LoaderStays ==
  ASSUME Loader!IInv, UNCHANGED loader
  PROVE  Loader!IInv'
<1>1. UNCHANGED <<disk, target, cache, loads, seen, parses, steady, alone>>
  BY DEF loader
<1>2. Loader!TypeOK' /\ Loader!Timely'
  BY <1>1 DEF Loader!IInv, Loader!TypeOK, Loader!Timely, Loader!InProgress, Loader!Reading
<1>3. steady' => \A d \in Callers : Loader!Fresh(d)'
  BY <1>1 DEF Loader!IInv, Loader!Fresh, Loader!Hit, Loader!Reading, Loader!Resolved
<1>4. ASSUME steady', alone'
      PROVE  Loader!ParsesTracked'
  BY <1>1, <1>4
  DEF Loader!IInv, Loader!ParsesTracked, Loader!FileTracked, Loader!LoadTracked, Loader!InOrder,
      Loader!Filed, Loader!InProgress, Loader!Reading
<1> QED
  BY <1>2, <1>3, <1>4 DEF Loader!IInv

LEMMA LoaderInductive == ShelfSpec => []Loader!IInv
<1>1. ShelfInit => Loader!IInv
  BY LoaderInit DEF ShelfInit
<1>2. Loader!IInv /\ [Loader!Next]_loader => Loader!IInv'
  <2> SUFFICES ASSUME Loader!IInv, [Loader!Next]_loader
               PROVE  Loader!IInv'
    OBVIOUS
  <2>1. ASSUME NEW c \in Callers, NEW path \in Loader!Paths, Loader!Begin(c, path)
        PROVE  Loader!IInv'
    BY <2>1, LoaderBegin
  <2>2. ASSUME NEW c \in Callers, Loader!Lookup(c) \/ Loader!Parse(c) \/ Loader!Store(c)
        PROVE  Loader!IInv'
    BY <2>2, LoaderLookup, LoaderParse, LoaderStore
  <2>3. CASE Loader!Clear
    BY <2>3, LoaderClear
  <2>4. ASSUME NEW f \in Files, Loader!Retarget(f) \/ Loader!Delete(f)
        PROVE  Loader!IInv'
    BY <2>4, LoaderRetarget, LoaderDelete
  <2>5. ASSUME NEW f \in Files, NEW v \in Versions, NEW mtime \in 0..MaxTime, Loader!Edit(f, v, mtime)
        PROVE  Loader!IInv'
    BY <2>5, LoaderEdit
  <2>6. CASE UNCHANGED loader
    BY <2>6, LoaderStays
  <2> QED
    BY <2>1, <2>2, <2>3, <2>4, <2>5, <2>6 DEF Loader!Next
<1>3. [ShelfNext]_<<core, vars, loader, bus, framer, telnet, evidence, flow, metrics,
                    directory, health, typed, sheet, shelved>> => [Loader!Next]_loader
  BY DEF ShelfNext, Turn
<1> QED
  BY <1>1, <1>2, <1>3, PTL DEF ShelfSpec

\* However loads, edits, deletions and moved links overlap, a load answers with what
\* its path held at some moment of the load, as long as no edit kept the mtime and no
\* link was moved while a load was on its way through it.
THEOREM FreshLoads == ShelfSpec => []LoadsAreFresh
<1>1. Loader!IInv => LoadsAreFresh
  BY DEF Loader!IInv, Loader!Fresh, LoadsAreFresh, Loader!LoadsAreFresh
<1> QED
  BY <1>1, LoaderInductive, PTL

\* One load at a time parses a version of a file twice at most, and twice only if the
\* first time it filed the version under the mtime of an earlier one.
THEOREM SparingParses == ShelfSpec => []ParsesAgainOnlyIfOvertaken
<1>1. ASSUME Loader!IInv, steady, alone, NEW f \in Files,
             NEW i \in DOMAIN parses[f], NEW j \in DOMAIN parses[f],
             i < j, parses[f][i].version = parses[f][j].version
      PROVE  /\ parses[f][i].stamp < parses[f][i].version
             /\ parses[f][j].stamp = parses[f][j].version
  <2> DEFINE made == parses[f]
  <2>1. /\ \A k \in DOMAIN made : made[k].stamp <= made[k].version
        /\ made[i].stamp < made[j].stamp /\ made[i].version <= made[j].stamp
    BY <1>1 DEF Loader!IInv, Loader!ParsesTracked, Loader!FileTracked, Loader!InOrder
  <2>2. made \in Seq([stamp : Nat, version : Nat])
    BY <1>1 DEF Loader!IInv, Loader!TypeOK
  <2>3. \A k \in DOMAIN made : made[k].stamp \in Nat /\ made[k].version \in Nat
    BY <2>2, LoaderParses
  <2> QED
    BY <1>1, <2>1, <2>3
<1>2. Loader!IInv => ParsesAgainOnlyIfOvertaken
  BY <1>1 DEF ParsesAgainOnlyIfOvertaken, Loader!ParsesAgainOnlyIfOvertaken
<1> QED
  BY <1>2, LoaderInductive, PTL

--------------------------------------------------------------------------------
\* The record loader. The list is of files that may be there.
LEMMA DirectoryLists ==
  ASSUME NEW S
  PROVE  /\ Ordered \in Seq(Directory!Range(Ordered))
         /\ Directory!Keep(Ordered, S) \in Seq(Directory!Range(Ordered))
         /\ Directory!Keep(Ordered, S) \in Seq(S)
         /\ (\A i \in DOMAIN Ordered : Ordered[i] \notin S) => Directory!Keep(Ordered, S) = <<>>
         /\ Len(Directory!Keep(Ordered, S)) \in Nat
         /\ Directory!Range(Directory!Keep(Ordered, S)) = S \cap Directory!Range(Ordered)
<1>1. Ordered \in Seq(Directory!Range(Ordered))
  BY FilesAssumption DEF Directory!Range
<1>2. Directory!Keep(Ordered, S) = Keep(Ordered, S)
  BY DEF Directory!Keep, Keep
<1>3. Keep(Ordered, S) \in Seq(Directory!Range(Ordered)) /\ Keep(Ordered, S) \in Seq(S)
  BY <1>1, KeptSequence
<1>4. (\A i \in DOMAIN Ordered : Ordered[i] \notin S) => Keep(Ordered, S) = <<>>
  BY <1>1, KeepOfNone
<1>5. Len(Keep(Ordered, S)) \in Nat
  BY <1>3, LenProperties
<1>6. Directory!Range(Keep(Ordered, S)) = S \cap Directory!Range(Ordered)
  BY <1>1, KeptMembers DEF Directory!Range
<1> QED
  BY <1>1, <1>2, <1>3, <1>4, <1>5, <1>6

LEMMA DirectoryNone ==
  ASSUME NEW seq, seq = <<>>
  PROVE  /\ seq \in Seq(Records) /\ Len(seq) = 0 /\ DOMAIN seq = {}
         /\ \A n \in Nat : Len(seq) <= n
         /\ Directory!Keep(Ordered, {}) = seq
<1>1. Directory!Keep(Ordered, {}) = <<>>
  BY DirectoryLists
<1> QED
  BY <1>1

\* What a path has held from its listing on,
LEMMA DirectoryFirst ==
  ASSUME NEW C, NEW x \in C
  PROVE  /\ <<x>> \in Seq(C) /\ <<x>> # <<>> /\ Head(<<x>>) = x
         /\ x \in Directory!Range(<<x>>)
BY DEF Directory!Range

\* is added to.
LEMMA DirectoryHeld ==
  ASSUME NEW C, NEW old \in Seq(C), NEW x \in C
  PROVE  LET new == IF old = <<>> THEN <<>> ELSE Append(old, x)
         IN  /\ new \in Seq(C)
             /\ old = <<>> <=> new = <<>>
             /\ old # <<>> => Head(new) = Head(old) /\ x \in Directory!Range(new)
             /\ Directory!Range(old) \subseteq Directory!Range(new)
<1> DEFINE new == IF old = <<>> THEN <<>> ELSE Append(old, x)
<1>1. CASE old = <<>>
  BY <1>1 DEF Directory!Range
<1>2. CASE old # <<>>
  <2>1. new = Append(old, x)
    BY <1>2
  <2>2. new \in Seq(C) /\ new # <<>> /\ Head(new) = Head(old)
    BY <1>2, <2>1, AppendProperties, HeadTailAppend
  <2>3. /\ Len(new) = Len(old) + 1 /\ \A i \in 1..Len(old) : new[i] = old[i]
        /\ new[Len(old) + 1] = x
    BY <2>1, AppendProperties
  <2>4. Len(old) \in Nat /\ DOMAIN old = 1..Len(old) /\ DOMAIN new = 1..Len(new)
    BY <2>2, LenProperties
  <2>5. x \in Directory!Range(new) /\ Directory!Range(old) \subseteq Directory!Range(new)
    BY <2>3, <2>4 DEF Directory!Range
  <2> QED
    BY <1>2, <2>2, <2>5
<1> QED
  BY <1>1, <1>2

LEMMA DirectoryChange ==
  ASSUME Directory!IInv, NEW now, NEW isThere, Directory!Change(now, isThere),
         DOMAIN now \subseteq Directory!Range(Ordered), now \in [DOMAIN now -> Directory!Contents]
  PROVE  Directory!IInv'
<1> DEFINE C    == Directory!Contents \cup {Directory!Absent}
           P    == Directory!Range(Ordered)
           H(p) == Directory!Hold(now, p)
<1>1. /\ UNCHANGED call /\ files' = now
      /\ held' = [p \in DOMAIN held |-> IF held[p] = <<>> THEN <<>> ELSE Append(held[p], H(p))]
  BY DEF Directory!Change
<1>2. Directory!TypeOK /\ Directory!Recorded /\ Directory!EveryRecordOrNone
  BY DEF Directory!IInv
<1>3. held \in [P -> Seq(C)] /\ call.records \in Seq(Records)
  BY <1>2 DEF Directory!TypeOK
<1>4. \A p \in P : H(p) \in C
  BY DEF Directory!Hold
<1>5. ASSUME NEW p \in P
      PROVE  /\ held'[p] \in Seq(C)
             /\ held[p] = <<>> <=> held'[p] = <<>>
             /\ held[p] # <<>> => Head(held'[p]) = Head(held[p]) /\ H(p) \in Directory!Range(held'[p])
             /\ Directory!Range(held[p]) \subseteq Directory!Range(held'[p])
  <2>1. held'[p] = IF held[p] = <<>> THEN <<>> ELSE Append(held[p], H(p))
    BY <1>1, <1>3
  <2>2. held[p] \in Seq(C) /\ H(p) \in C
    BY <1>3, <1>4
  <2> HIDE DEF C, H, P
  <2> QED
    BY <2>1, <2>2, DirectoryHeld
<1>6. DOMAIN held' = P /\ held' = [p \in P |-> held'[p]]
  BY <1>1, <1>3
<1>7. Directory!Asked' = Directory!Asked
  BY <1>1, <1>5 DEF Directory!Asked
<1> DEFINE L == call.listed
<1>8. ASSUME NEW i \in DOMAIN L
      PROVE  L[i] \in P /\ held[L[i]] # <<>>
  <2>1. L = Directory!Keep(Ordered, Directory!Asked)
    BY <1>2 DEF Directory!Recorded
  <2>2. L \in Seq(Directory!Asked)
    BY <2>1, DirectoryLists
  <2>3. L[i] \in Directory!Asked
    BY <1>8, <2>2
  <2> QED
    BY <2>3 DEF Directory!Asked
<1> HIDE DEF P, C, L, H
<1>9. Directory!TypeOK'
  <2>1. held' \in [P -> Seq(C)]
    BY <1>5, <1>6
  <2> QED
    BY <1>1, <1>2, <2>1 DEF Directory!TypeOK, C, P
<1>10. ASSUME call.step # "returned", NEW p \in P
       PROVE  IF Directory!Unlisted(p) THEN held'[p] = <<>>
              ELSE Directory!Hold(files, p)' \in Directory!Range(held'[p])
  <2>1. IF Directory!Unlisted(p) THEN held[p] = <<>> ELSE Directory!Hold(files, p) \in Directory!Range(held[p])
    BY <1>2, <1>3, <1>10 DEF Directory!Recorded
  <2>2. Directory!Hold(files, p) \in Directory!Range(held[p]) => held[p] # <<>>
    BY DEF Directory!Range
  <2>3. Directory!Hold(files, p)' = H(p)
    BY <1>1 DEF Directory!Hold, H
  <2> QED
    BY <1>5, <2>1, <2>2, <2>3
<1>11. /\ L = Directory!Keep(Ordered, Directory!Asked') /\ Len(call.records) <= Len(L)
       /\ \A i \in DOMAIN call.records : call.records[i] \in Directory!Range(held'[L[i]])
  <2>1. /\ L = Directory!Keep(Ordered, Directory!Asked) /\ Len(call.records) <= Len(L)
        /\ \A i \in DOMAIN call.records : call.records[i] \in Directory!Range(held[L[i]])
    BY <1>2 DEF Directory!Recorded, L
  <2>2. L \in Seq(P)
    BY <2>1, DirectoryLists DEF P
  <2>3. \A i \in DOMAIN call.records : i \in DOMAIN L
    BY <1>3, <2>1, <2>2
  <2> QED
    BY <1>5, <1>7, <1>8, <2>1, <2>3
<1>12. Directory!Recorded'
  <2>1. \A p : Directory!Unlisted(p)' <=> Directory!Unlisted(p)
    BY <1>1 DEF Directory!Unlisted
  <2> QED
    BY <1>1, <1>2, <1>6, <1>10, <1>11, <2>1 DEF Directory!Recorded, L
<1>13. Directory!EveryRecordOrNone'
  <2>1. ASSUME call.step = "returned"
        PROVE  /\ Len(call.records) = Len(Directory!Keep(Ordered, Directory!Asked'))
               /\ \A i \in DOMAIN Directory!Keep(Ordered, Directory!Asked') :
                    call.records[i] \in Directory!Range(held'[Directory!Keep(Ordered, Directory!Asked')[i]])
    <3>1. Len(call.records) = Len(Directory!Keep(Ordered, Directory!Asked))
      BY <1>2, <2>1 DEF Directory!EveryRecordOrNone
    <3>2. DOMAIN Directory!Keep(Ordered, Directory!Asked') = DOMAIN call.records
      BY <1>3, <1>7, <3>1, DirectoryLists
    <3> QED
      BY <1>7, <1>11, <2>1, <3>1, <3>2
  <2>2. ASSUME call.step \notin Directory!Listing \cup {"load", "returned"}
        PROVE  \E i \in DOMAIN L : ~(Directory!Range(held'[L[i]]) \subseteq Records)
    <3>1. PICK i \in DOMAIN L : ~(Directory!Range(held[L[i]]) \subseteq Records)
      BY <1>2, <2>2 DEF Directory!EveryRecordOrNone, L
    <3>2. Directory!Range(held[L[i]]) \subseteq Directory!Range(held'[L[i]])
      BY <1>5, <1>8
    <3> QED
      BY <3>1, <3>2
  <2> QED
    BY <1>1, <2>1, <2>2 DEF Directory!EveryRecordOrNone, L
<1> QED
  BY <1>9, <1>12, <1>13 DEF Directory!IInv

\* A call that lists a directory that it has not listed before,
LEMMA DirectoryList ==
  ASSUME Directory!IInv, call.step \in {"glob", "glob below"}, NEW D, Directory!List(D),
         \A p \in Directory!Range(Ordered) :
           (p \in D => Directory!Unlisted(p))
           /\ (Directory!Unlisted(p)' <=> Directory!Unlisted(p) /\ p \notin D)
  PROVE  Directory!IInv'
<1> DEFINE C    == Directory!Contents \cup {Directory!Absent}
           P    == Directory!Range(Ordered)
           H(p) == Directory!Hold(files, p)
           step == IF call.step = "glob" /\ call.recursive THEN "glob below" ELSE "load"
           new  == Directory!Keep(Ordered, Directory!Range(call.listed) \cup (DOMAIN files \cap D))
<1>1. /\ UNCHANGED files
      /\ call' = [call EXCEPT !.step = step, !.listed = new]
      /\ held' = [p \in DOMAIN held |-> IF p \in D THEN <<H(p)>> ELSE held[p]]
  BY DEF Directory!List
<1>2. Directory!TypeOK /\ Directory!Recorded
  BY DEF Directory!IInv
<1>3. /\ held \in [P -> Seq(C)] /\ DOMAIN files \subseteq P
      /\ files \in [DOMAIN files -> Directory!Contents]
      /\ call = [step |-> call.step, recursive |-> call.recursive, listed |-> call.listed,
                 records |-> call.records]
      /\ call.records = <<>> /\ call.listed = Directory!Keep(Ordered, Directory!Asked)
  BY <1>2 DEF Directory!TypeOK, Directory!Recorded, Directory!Listing
<1>4. call' = [step |-> step, recursive |-> call.recursive, listed |-> new, records |-> call.records]
  BY <1>1, <1>3
<1>5. /\ call'.step = step /\ call'.listed = new
      /\ call'.records = <<>> /\ call'.recursive = call.recursive
      /\ call' = [step |-> call'.step, recursive |-> call'.recursive, listed |-> call'.listed,
                  records |-> call'.records]
  BY <1>3, <1>4
<1>s. step \in {"glob below", "load"} /\ (step = "glob below" => call.recursive)
  OBVIOUS
<1>6. /\ DOMAIN held' = P /\ \A p \in P : held'[p] = IF p \in D THEN <<H(p)>> ELSE held[p]
      /\ \A p \in P : H(p) \in C
  BY <1>1, <1>3 DEF Directory!Hold
<1>7. \A p \in P : H(p) # Directory!Absent <=> p \in DOMAIN files
  BY <1>3, FilesAssumption DEF Directory!Hold, Directory!Absent, Directory!Contents
<1>8. \A p \in P : p \in D => held[p] = <<>>
  BY <1>2, <1>3 DEF Directory!Recorded
<1> HIDE DEF H, C, step, new
<1>9. \A p \in P : p \in D => /\ held'[p] # <<>> /\ Head(held'[p]) = H(p)
                             /\ H(p) \in Directory!Range(held'[p])
  BY <1>6, DirectoryFirst
<1>10. Directory!Asked' = Directory!Asked \cup (DOMAIN files \cap D)
  BY <1>3, <1>6, <1>7, <1>8, <1>9 DEF Directory!Asked
<1>11. new = Directory!Keep(Ordered, Directory!Asked')
  <2>1. Directory!Range(call.listed) = Directory!Asked
    BY <1>3, DirectoryLists DEF Directory!Asked
  <2> QED
    BY <1>10, <2>1 DEF new
<1>12. Directory!TypeOK'
  <2>1. held' \in [P -> Seq(C)]
    <3>1. \A p \in P : held'[p] \in Seq(C)
      BY <1>3, <1>6, DirectoryFirst
    <3>2. held' = [p \in P |-> held'[p]]
      BY <1>1, <1>3
    <3> HIDE DEF P
    <3> QED
      BY <3>1, <3>2
  <2>2. <<>> \in Seq(Records)
    BY DirectoryNone
  <2> QED
    BY <1>1, <1>3, <1>5, <1>s, <2>1, <2>2 DEF Directory!TypeOK, Directory!Listing, C, P
<1>13. Directory!Recorded'
  <2>1. ASSUME NEW p \in P
        PROVE  IF Directory!Unlisted(p)' THEN held'[p] = <<>>
               ELSE Directory!Hold(files, p)' \in Directory!Range(held'[p])
    <3>1. Directory!Hold(files, p)' = H(p)
      BY <1>1 DEF Directory!Hold, H
    <3>2. IF Directory!Unlisted(p) THEN held[p] = <<>> ELSE H(p) \in Directory!Range(held[p])
      BY <1>2, <1>3 DEF Directory!Recorded, H
    <3> QED
      BY <1>6, <1>9, <3>1, <3>2
  <2>2. Len(call'.listed) \in Nat /\ Len(call'.records) = 0 /\ DOMAIN call'.records = {}
    BY <1>5, <1>11, DirectoryLists, DirectoryNone
  <2>3. Len(call'.records) <= Len(call'.listed)
    BY <1>5, <2>2, DirectoryNone, Zenon
  <2>4. /\ call'.records = <<>> /\ call'.listed = Directory!Keep(Ordered, Directory!Asked')
        /\ call'.step = "glob below" => call'.recursive
    BY <1>5, <1>s, <1>11
  <2> QED
    BY <1>6, <2>1, <2>2, <2>3, <2>4 DEF Directory!Recorded
<1>14. Directory!EveryRecordOrNone'
  BY <1>5, <1>s DEF Directory!EveryRecordOrNone, Directory!Listing
<1> QED
  BY <1>12, <1>13, <1>14 DEF Directory!IInv

\* the one and then the other,
LEMMA DirectoryGlob ==
  ASSUME Directory!IInv, Directory!Glob \/ Directory!GlobBelow
  PROVE  Directory!IInv'
<1>1. /\ Directory!TypeOK /\ Directory!Recorded
      /\ call = [step |-> call.step, recursive |-> call.recursive, listed |-> call.listed,
                 records |-> call.records]
  BY DEF Directory!IInv, Directory!TypeOK
<1>2. CASE Directory!Glob
  <2> DEFINE D == Directory!Range(Ordered) \ Nested
  <2>1. call.step = "glob" /\ Directory!List(D)
    BY <1>2 DEF Directory!Glob
  <2>2. /\ call'.step = IF call.recursive THEN "glob below" ELSE "load"
        /\ call'.recursive = call.recursive
    BY <1>1, <2>1 DEF Directory!List
  <2>3. \A p \in Directory!Range(Ordered) :
          Directory!Unlisted(p) /\ (Directory!Unlisted(p)' <=> p \notin D)
    BY <2>1, <2>2 DEF Directory!Unlisted
  <2> HIDE DEF D
  <2> QED
    BY <2>1, <2>3, DirectoryList
<1>3. CASE Directory!GlobBelow
  <2>1. call.step = "glob below" /\ Directory!List(Nested) /\ call.recursive
    BY <1>1, <1>3 DEF Directory!GlobBelow, Directory!Recorded
  <2>2. call'.step = "load" /\ call'.recursive = call.recursive
    BY <1>1, <2>1 DEF Directory!List
  <2>3. \A p \in Directory!Range(Ordered) :
          (p \in Nested <=> Directory!Unlisted(p)) /\ ~Directory!Unlisted(p)'
    BY <2>1, <2>2 DEF Directory!Unlisted
  <2> QED
    BY <2>1, <2>3, DirectoryList
<1> QED
  BY <1>2, <1>3

\* and takes one record after another.
LEMMA DirectoryLoad ==
  ASSUME Directory!IInv, Directory!LoadNext
  PROVE  Directory!IInv'
<1> DEFINE C == Directory!Contents \cup {Directory!Absent}
           P == Directory!Range(Ordered)
           R == call.records
           L == call.listed
           content == Directory!Hold(files, L[Len(R) + 1])
<1>1. call.step = "load" /\ UNCHANGED <<files, held>>
  BY DEF Directory!LoadNext
<1>2. Directory!TypeOK /\ Directory!Recorded
  BY DEF Directory!IInv
<1>3. /\ call = [step |-> call.step, recursive |-> call.recursive, listed |-> call.listed,
                 records |-> call.records]
      /\ R \in Seq(Records) /\ held \in [P -> Seq(C)]
  BY <1>2 DEF Directory!TypeOK
<1>4. /\ L = Directory!Keep(Ordered, Directory!Asked) /\ Len(R) <= Len(L)
      /\ \A i \in DOMAIN R : R[i] \in Directory!Range(held[L[i]])
      /\ \A p \in P : IF Directory!Unlisted(p) THEN held[p] = <<>>
                       ELSE Directory!Hold(files, p) \in Directory!Range(held[p])
  BY <1>1, <1>2, <1>3 DEF Directory!Recorded
<1>5. L \in Seq(P) /\ L \in Seq(Directory!Asked)
  BY <1>4, DirectoryLists
<1>6. /\ Len(L) \in Nat /\ Len(R) \in Nat /\ DOMAIN L = 1..Len(L) /\ DOMAIN R = 1..Len(R)
  BY <1>3, <1>5
<1>7. call'.recursive = call.recursive => Directory!Asked' = Directory!Asked
  BY <1>1 DEF Directory!Asked
<1>8. CASE Len(R) = Len(L)
  <2>1. call' = [call EXCEPT !.step = "returned"]
    BY <1>8 DEF Directory!LoadNext
  <2>2. call' = [step |-> "returned", recursive |-> call.recursive, listed |-> L, records |-> R]
    BY <1>3, <2>1
  <2>3. /\ call'.step = "returned" /\ call'.recursive = call.recursive /\ call'.listed = L
        /\ call'.records = R
        /\ call' = [step |-> call'.step, recursive |-> call'.recursive, listed |-> call'.listed,
                    records |-> call'.records]
    BY <2>2
  <2>4. Directory!Asked' = Directory!Asked
    BY <1>7, <2>3
  <2> HIDE DEF L, R, C, P
  <2>5. Directory!TypeOK'
    BY <1>1, <1>2, <1>3, <2>3 DEF Directory!TypeOK, Directory!Listing
  <2>6. Directory!Recorded'
    BY <1>1, <1>4, <2>3, <2>4 DEF Directory!Recorded, Directory!Listing
  <2>7. Directory!EveryRecordOrNone'
    BY <1>1, <1>4, <1>6, <1>8, <2>3, <2>4 DEF Directory!EveryRecordOrNone, Directory!Listing
  <2> QED
    BY <2>5, <2>6, <2>7 DEF Directory!IInv
<1>9. CASE Len(R) # Len(L)
  <2>1. /\ Len(R) + 1 \in DOMAIN L /\ L[Len(R) + 1] \in P
    BY <1>4, <1>5, <1>6, <1>9
  <2>2. content \in Directory!Range(held[L[Len(R) + 1]])
    <3>1. L[Len(R) + 1] \in Directory!Asked
      BY <1>5, <2>1
    <3>2. held[L[Len(R) + 1]] # <<>>
      BY <3>1 DEF Directory!Asked
    <3> QED
      BY <1>4, <2>1, <3>2
  <2>3. call' = IF content \in Records THEN [call EXCEPT !.records = Append(R, content)]
                ELSE [call EXCEPT !.step = Directory!Raises(content)]
    BY <1>9 DEF Directory!LoadNext, Directory!LoadRecord
  <2> HIDE DEF content
  <2>4. CASE content \in Records
    <3>1. call' = [step |-> "load", recursive |-> call.recursive, listed |-> L,
                   records |-> Append(R, content)]
      BY <1>1, <1>3, <2>3, <2>4
    <3> DEFINE new == Append(R, content)
    <3>2. /\ new \in Seq(Records) /\ Len(new) = Len(R) + 1 /\ new[Len(R) + 1] = content
          /\ \A i \in 1..Len(R) : new[i] = R[i]
      BY <1>3, <2>4, AppendProperties
    <3>3. /\ call'.step = "load" /\ call'.recursive = call.recursive /\ call'.listed = L
          /\ call'.records = new
          /\ call' = [step |-> call'.step, recursive |-> call'.recursive, listed |-> call'.listed,
                      records |-> call'.records]
      BY <3>1
    <3>4. Directory!Asked' = Directory!Asked
      BY <1>7, <3>3
    <3> HIDE DEF L, R, C, P, new
    <3>5. DOMAIN new = 1..(Len(R) + 1)
      BY <3>2, LenProperties
    <3>6. Len(new) <= Len(L) /\ \A i \in DOMAIN new : new[i] \in Directory!Range(held[L[i]])
      BY <1>4, <1>6, <2>1, <2>2, <3>2, <3>5
    <3>7. Directory!TypeOK'
      BY <1>1, <1>2, <1>3, <3>2, <3>3 DEF Directory!TypeOK
    <3>8. \A p \in P : /\ Directory!Hold(files, p)' = Directory!Hold(files, p)
                        /\ Directory!Unlisted(p)' <=> Directory!Unlisted(p)
      BY <1>1, <3>3 DEF Directory!Hold, Directory!Unlisted
    <3>9. Directory!Recorded'
      BY <1>1, <1>3, <1>4, <3>3, <3>4, <3>6, <3>8 DEF Directory!Recorded, Directory!Listing
    <3>10. Directory!EveryRecordOrNone'
      BY <3>3 DEF Directory!EveryRecordOrNone, Directory!Listing
    <3> QED
      BY <3>7, <3>9, <3>10 DEF Directory!IInv
  <2>5. CASE content \notin Records
    <3>1. call' = [step |-> Directory!Raises(content), recursive |-> call.recursive, listed |-> L,
                   records |-> R]
      BY <1>1, <1>3, <2>3, <2>5
    <3>2. Directory!Raises(content) \in Directory!Failures
      BY DEF Directory!Raises, Directory!Failures
    <3>3. /\ call'.step = Directory!Raises(content) /\ call'.recursive = call.recursive
          /\ call'.listed = L /\ call'.records = R
          /\ call' = [step |-> call'.step, recursive |-> call'.recursive, listed |-> call'.listed,
                      records |-> call'.records]
      BY <3>1
    <3>4. Directory!Asked' = Directory!Asked
      BY <1>7, <3>3
    <3>5. call'.step \notin Directory!Listing \cup {"load", "returned"}
      BY <3>2, <3>3 DEF Directory!Failures, Directory!Listing
    <3> HIDE DEF L, R, C, P
    <3>6. Directory!TypeOK'
      BY <1>1, <1>2, <1>3, <3>2, <3>3 DEF Directory!TypeOK
    <3>7. Directory!Recorded'
      <4>1. \A p \in P : /\ Directory!Hold(files, p)' = Directory!Hold(files, p)
                          /\ Directory!Unlisted(p)' <=> Directory!Unlisted(p)
        BY <1>1, <3>3, <3>5 DEF Directory!Hold, Directory!Unlisted, Directory!Listing
      <4> QED
        BY <1>1, <1>3, <1>4, <3>3, <3>4, <3>5, <4>1 DEF Directory!Recorded, Directory!Listing
    <3>8. \E i \in DOMAIN L : ~(Directory!Range(held[L[i]]) \subseteq Records)
      BY <2>1, <2>2, <2>5
    <3>9. Directory!EveryRecordOrNone'
      BY <1>1, <3>3, <3>5, <3>8 DEF Directory!EveryRecordOrNone
    <3> QED
      BY <3>6, <3>7, <3>9 DEF Directory!IInv
  <2> QED
    BY <2>4, <2>5
<1> QED
  BY <1>8, <1>9

\* What load_dir returns has one record for every file that was there when its directory
\* was listed, in order, each as its file was at some time since; and a call that fails
\* does so for a file on its list that was gone or spoilt at some time since.
THEOREM EveryFileOrNone == ShelfSpec => []EveryRecordOrNone
<1>1. ASSUME Directory!Init
      PROVE  Directory!IInv
  <2>1. /\ DOMAIN files \subseteq Directory!Range(Ordered) /\ files \in [DOMAIN files -> Records]
        /\ held = [p \in Directory!Range(Ordered) |-> <<>>]
        /\ call.step = "begun" /\ call.listed = <<>> /\ call.records = <<>>
        /\ call = [step |-> call.step, recursive |-> call.recursive, listed |-> call.listed,
                   records |-> call.records]
    BY <1>1 DEF Directory!Init
  <2>2. files \in [DOMAIN files -> Directory!Contents]
    BY <2>1 DEF Directory!Contents
  <2>3. held \in [Directory!Range(Ordered) -> Seq(Directory!Contents \cup {Directory!Absent})]
    BY <2>1
  <2>4. call.records \in Seq(Records)
    BY <2>1
  <2>5. Directory!TypeOK
    BY <2>1, <2>2, <2>3, <2>4 DEF Directory!TypeOK, Directory!Listing
  <2>6. Directory!Asked = {} /\ Directory!Keep(Ordered, Directory!Asked) = <<>>
    <3>1. Directory!Asked = {}
      BY <2>1 DEF Directory!Asked
    <3> QED
      BY <3>1, DirectoryLists
  <2>7. Directory!Recorded /\ Directory!EveryRecordOrNone
    BY <2>1, <2>6
    DEF Directory!Recorded, Directory!EveryRecordOrNone, Directory!Listing, Directory!Unlisted
  <2> QED
    BY <2>5, <2>7 DEF Directory!IInv
<1>2. Directory!IInv /\ [Directory!Next]_directory => Directory!IInv'
  <2> SUFFICES ASSUME Directory!IInv, [Directory!Next]_directory
               PROVE  Directory!IInv'
    OBVIOUS
  <2>1. /\ Directory!TypeOK /\ Directory!Recorded
        /\ DOMAIN files \subseteq Directory!Range(Ordered)
        /\ files \in [DOMAIN files -> Directory!Contents]
    BY DEF Directory!IInv, Directory!TypeOK
  <2>2. CASE Directory!IsDir
    <3> DEFINE step == IF there THEN "glob" ELSE "returned"
    <3>1. /\ call.step = "begun" /\ UNCHANGED <<files, held>>
          /\ call' = [call EXCEPT !.step = step]
      BY <2>2 DEF Directory!IsDir
    <3>2. /\ call' = [step |-> step, recursive |-> call.recursive, listed |-> call.listed,
                      records |-> call.records]
      BY <2>1, <3>1 DEF Directory!TypeOK
    <3>3. /\ call'.step = step /\ call'.recursive = call.recursive
          /\ call'.listed = call.listed /\ call'.records = call.records
          /\ call' = [step |-> call'.step, recursive |-> call'.recursive, listed |-> call'.listed,
                      records |-> call'.records]
      BY <3>2
    <3>4. /\ call.records = <<>> /\ \A p \in DOMAIN held : held[p] = <<>>
          /\ DOMAIN held = Directory!Range(Ordered)
      BY <2>1, <3>1 DEF Directory!Recorded, Directory!TypeOK, Directory!Listing, Directory!Unlisted
    <3>5. Directory!Asked = {} /\ Directory!Asked' = {}
      BY <3>1, <3>4 DEF Directory!Asked
    <3>6. call.listed = <<>> /\ Directory!Keep(Ordered, Directory!Asked') = <<>>
      BY <2>1, <3>5, DirectoryNone DEF Directory!Recorded
    <3> HIDE DEF step
    <3>7. step \in {"glob", "returned"}
      BY DEF step
    <3>8. Directory!TypeOK'
      BY <2>1, <3>1, <3>3, <3>7 DEF Directory!TypeOK, Directory!Listing
    <3>n. Len(call'.records) = 0 /\ Len(call'.listed) = 0 /\ DOMAIN call'.records = {}
      BY <3>3, <3>4, <3>6, DirectoryNone
    <3>9. Directory!Recorded'
      <4>1. call'.step = "returned" \/ \A p : Directory!Unlisted(p)'
        BY <3>3, <3>7 DEF Directory!Unlisted
      <4>2. call'.step # "glob below"
        BY <3>3, <3>7
      <4>3. Len(call'.records) <= Len(call'.listed)
        BY <3>n
      <4> QED
        BY <3>1, <3>3, <3>4, <3>6, <3>n, <4>1, <4>2, <4>3 DEF Directory!Recorded
    <3>10. Directory!EveryRecordOrNone'
      BY <3>3, <3>4, <3>6, <3>7, <3>n DEF Directory!EveryRecordOrNone, Directory!Listing
    <3> QED
      BY <3>8, <3>9, <3>10 DEF Directory!IInv
  <2>3. CASE Directory!Glob \/ Directory!GlobBelow
    BY <2>3, DirectoryGlob
  <2>4. CASE Directory!LoadNext
    BY <2>4, DirectoryLoad
  <2>5. ASSUME NEW p \in Directory!Range(Ordered), Directory!Delete(p)
        PROVE  Directory!IInv'
    <3> DEFINE now == [q \in DOMAIN files \ {p} |-> files[q]]
    <3>1. Directory!Change(now, TRUE)
      BY <2>5 DEF Directory!Delete
    <3>2. DOMAIN now \subseteq Directory!Range(Ordered) /\ now \in [DOMAIN now -> Directory!Contents]
      BY <2>1
    <3> HIDE DEF now
    <3> QED
      BY <3>1, <3>2, DirectoryChange
  <2>6. ASSUME NEW p \in Directory!Range(Ordered), NEW content \in Directory!Contents,
               Directory!Write(p, content)
        PROVE  Directory!IInv'
    <3> DEFINE now == [q \in DOMAIN files \cup {p} |-> IF q = p THEN content ELSE files[q]]
    <3>1. Directory!Change(now, TRUE)
      BY <2>6 DEF Directory!Write
    <3>2. DOMAIN now \subseteq Directory!Range(Ordered) /\ now \in [DOMAIN now -> Directory!Contents]
      BY <2>1
    <3> HIDE DEF now
    <3> QED
      BY <3>1, <3>2, DirectoryChange
  <2>7. CASE Directory!DeleteAll
    <3>1. Directory!Change(<<>>, FALSE)
      BY <2>7 DEF Directory!DeleteAll
    <3>2. DOMAIN <<>> \subseteq Directory!Range(Ordered) /\ <<>> \in [DOMAIN <<>> -> Directory!Contents]
      OBVIOUS
    <3> QED
      BY <3>1, <3>2, DirectoryChange
  <2>8. CASE UNCHANGED directory
    <3>1. UNCHANGED <<files, there, call, held, changes>>
      BY <2>8 DEF directory
    <3>2. /\ Directory!Asked' = Directory!Asked
          /\ \A p : /\ Directory!Hold(files, p)' = Directory!Hold(files, p)
                    /\ Directory!Unlisted(p)' <=> Directory!Unlisted(p)
      BY <3>1 DEF Directory!Asked, Directory!Hold, Directory!Unlisted
    <3>3. Directory!TypeOK'
      BY <2>1, <3>1 DEF Directory!TypeOK
    <3>4. Directory!Recorded'
      BY <2>1, <3>1, <3>2 DEF Directory!Recorded
    <3>5. Directory!EveryRecordOrNone'
      BY <3>1, <3>2 DEF Directory!EveryRecordOrNone, Directory!IInv
    <3> QED
      BY <3>3, <3>4, <3>5 DEF Directory!IInv
  <2> QED
    BY <2>2, <2>3, <2>4, <2>5, <2>6, <2>7, <2>8 DEF Directory!Next
<1>3. [ShelfNext]_<<core, vars, loader, bus, framer, telnet, evidence, flow, metrics,
                    directory, health, typed, sheet, shelved>> => [Directory!Next]_directory
  BY DEF ShelfNext, Turn
<1>4. ShelfInit => Directory!IInv
  BY <1>1 DEF ShelfInit
<1>5. Directory!IInv => EveryRecordOrNone
  BY DEF Directory!IInv, EveryRecordOrNone
<1> QED
  BY <1>2, <1>3, <1>4, <1>5, PTL DEF ShelfSpec

--------------------------------------------------------------------------------
\* The metrics. Sizes of sets that one request is added to: of the requests
\* themselves, and of their seconds.
LEMMA ScrapedSizes ==
  ASSUME NEW S
  PROVE  /\ Scraped!IsFiniteSet(S) <=> IsFiniteSet(S)
         /\ Scraped!Cardinality(S) = Cardinality(S)
BY DEF Scraped!IsFiniteSet, IsFiniteSet, Scraped!Cardinality, Cardinality

LEMMA OneMore ==
  ASSUME NEW Q \in SUBSET Requests, NEW r \in Requests \ Q
  PROVE  Scraped!Cardinality(Q \cup {r}) = Scraped!Cardinality(Q) + 1
<1>1. IsFiniteSet(Q)
  BY RequestsAssumption, FS_Subset
<1> QED
  BY <1>1, FS_AddElement, ScrapedSizes

LEMMA SecondsMore ==
  ASSUME NEW Q \in SUBSET Requests, NEW r \in Requests \ Q,
         Scraped!IsFiniteSet(Scraped!Ticks(Q))
  PROVE  /\ Scraped!IsFiniteSet(Scraped!Ticks(Q \cup {r}))
         /\ Scraped!SecondsOf(Q \cup {r}) = Scraped!SecondsOf(Q) + Seconds[r]
<1> DEFINE n   == Seconds[r]
           own == {r} \X (1..n)
           all == Scraped!Ticks(Q)
<1>1. n \in Nat
  BY RequestsAssumption
<1>2. Scraped!Ticks(Q \cup {r}) = all \cup own
  BY DEF Scraped!Ticks
<1>3. all \cap own = {}
  BY DEF Scraped!Ticks
<1>4. IsFiniteSet(own) /\ Cardinality(own) = n
  <2> DEFINE f == [k \in 1..n |-> <<r, k>>]
  <2>1. f \in Bijection(1..n, own)
    BY DEF Bijection, Injection, Surjection, IsInjective
  <2>2. ExistsBijection(1..n, own)
    BY <2>1 DEF ExistsBijection
  <2>3. IsFiniteSet(1..n) /\ Cardinality(1..n) = n
    BY <1>1, FS_Interval
  <2> HIDE DEF own, n
  <2> QED
    BY <2>2, <2>3, FS_Bijection
<1>5. IsFiniteSet(all)
  BY ScrapedSizes
<1> HIDE DEF all, own, n
<1>6. /\ IsFiniteSet(all \cup own)
      /\ Cardinality(all \cup own) = Cardinality(all) + n
  <2>1. /\ IsFiniteSet(all \cup own)
        /\ Cardinality(all \cup own) = Cardinality(all) + n - Cardinality(all \cap own)
    BY <1>4, <1>5, FS_Union
  <2>2. Cardinality(all \cap own) = 0 /\ Cardinality(all) \in Nat
    BY <1>3, <1>5, FS_EmptySet, FS_CardinalityType
  <2> QED
    BY <1>1, <2>1, <2>2
<1> QED
  BY <1>2, <1>6, ScrapedSizes DEF Scraped!SecondsOf, all, n

\* A copy that is complete stays what it was.
LEMMA ScrapedShown ==
  ASSUME Scraped!IInv, NEW q \in Requests, shown'[q] = shown[q], shown[q].step = "shown",
         \A p \in Requests : at[p].step = "done" => at'[p] = at[p]
  PROVE  /\ shown'[q].of \subseteq Requests /\ \A p \in shown'[q].of : at'[p].step = "done"
         /\ Scraped!Shows(shown[q].counts, shown[q].sums, shown[q].of)'
<1>1. /\ shown[q].of \subseteq Requests /\ \A p \in shown[q].of : at[p].step = "done"
      /\ Scraped!Shows(shown[q].counts, shown[q].sums, shown[q].of)
  BY DEF Scraped!IInv, Scraped!Copied
<1>2. \A p \in shown[q].of : at'[p] = at[p]
  BY <1>1
<1>3. \A s : Scraped!Of(shown[q].of, s)' = Scraped!Of(shown[q].of, s)
  BY <1>2 DEF Scraped!Of
<1> QED
  BY <1>1, <1>2, <1>3 DEF Scraped!Shows

\* What a step keeps that moves one request, which was not done.
LEMMA ScrapedMoves ==
  ASSUME Scraped!IInv, NEW r \in Requests, at[r].step # "done",
         NEW now, at' = [at EXCEPT ![r] = now]
  PROVE  /\ DOMAIN at' = Requests /\ at'[r] = now /\ r \notin observed
         /\ \A q \in Requests : q # r => at'[q] = at[q]
         /\ \A q \in Requests : at[q].step = "done" => at'[q] = at[q]
         /\ \A q \in observed : at'[q].step = "done"
         /\ \A s : Scraped!Of(observed, s)' = {q \in observed' : at'[q].series = s}
         /\ \A s : {q \in observed : at'[q].series = s} = Scraped!Of(observed, s)
<1>1. DOMAIN at = Requests /\ observed \subseteq Requests /\ \A q \in observed : at[q].step = "done"
  BY DEF Scraped!IInv, Scraped!TypeOK, Scraped!Tabulated
<1>2. DOMAIN at' = Requests /\ at'[r] = now /\ \A q \in Requests : q # r => at'[q] = at[q]
  BY <1>1
<1> QED
  BY <1>1, <1>2 DEF Scraped!Of

LEMMA ScrapedGoto ==
  ASSUME Scraped!IInv, NEW r \in Requests, NEW step, Scraped!Goto(r, step),
         at[r].step \in Scraped!Holding \cup {"observe", "render"}
  PROVE  /\ at' = [at EXCEPT ![r] = [step |-> step, series |-> at[r].series]]
         /\ at[r].series \in Scraped!Series
<1>1. /\ DOMAIN at = Requests
      /\ at[r] = [step |-> at[r].step, series |-> at[r].series] /\ at[r].series \in Scraped!Series
  <2>1. at[r].step # "handled" /\ at[r].step # "raised"
    BY DEF Scraped!Holding
  <2>2. /\ DOMAIN at = Requests
        /\ \/ at[r] = [step |-> "handled"] \/ at[r].step = "raised"
           \/ /\ at[r].series \in Scraped!Series
              /\ at[r] = [step |-> at[r].step, series |-> at[r].series]
    BY DEF Scraped!IInv, Scraped!TypeOK
  <2>3. at[r] # [step |-> "handled"]
    BY <2>1
  <2> QED
    BY <2>1, <2>2, <2>3
<1>2. at' = [at EXCEPT ![r] = [at[r] EXCEPT !.step = step]]
  BY DEF Scraped!Goto
<1>3. [at[r] EXCEPT !.step = step] = [step |-> step, series |-> at[r].series]
  BY <1>1
<1> QED
  BY <1>1, <1>2, <1>3

\* Nobody is shown less for a step that moves one request and shows it nothing.
LEMMA ScrapedUnshown ==
  ASSUME Scraped!IInv, NEW r \in Requests, at[r].step # "done",
         NEW now, at' = [at EXCEPT ![r] = now],
         now.step \notin {"copy", "copy sums"},
         UNCHANGED <<count, observed>> \/ lock = r, UNCHANGED shown
  PROVE  Scraped!Copied'
<1> SUFFICES ASSUME NEW q \in Requests
             PROVE  /\ at'[q].step \in {"copy", "copy sums"} => shown'[q].of = observed'
                    /\ at'[q].step = "copy sums" => shown'[q].counts = count'
                    /\ shown'[q].step = "shown" =>
                         /\ shown'[q].of \subseteq Requests
                         /\ \A p \in shown'[q].of : at'[p].step = "done"
                         /\ Scraped!Shows(shown[q].counts, shown[q].sums, shown[q].of)'
  BY DEF Scraped!Copied
<1>1. /\ at'[r] = now /\ \A p \in Requests : p # r => at'[p] = at[p]
      /\ \A p \in Requests : at[p].step = "done" => at'[p] = at[p]
  BY ScrapedMoves
<1>2. ASSUME at'[q].step \in {"copy", "copy sums"}
      PROVE  q # r /\ at[q].step = at'[q].step /\ UNCHANGED <<count, observed>>
  <2>1. q # r /\ at[q].step = at'[q].step
    BY <1>1, <1>2
  <2>2. lock = q
    BY <1>2, <2>1 DEF Scraped!IInv, Scraped!Exclusive, Scraped!Holding
  <2> QED
    BY <2>1, <2>2
<1>3. /\ at[q].step \in {"copy", "copy sums"} => shown[q].of = observed
      /\ at[q].step = "copy sums" => shown[q].counts = count
  BY DEF Scraped!IInv, Scraped!Copied
<1>4. shown'[q] = shown[q]
  OBVIOUS
<1> QED
  BY <1>1, <1>2, <1>3, <1>4, ScrapedShown

\* A request comes from its handler, or does not.
LEMMA ScrapedHandled ==
  ASSUME Scraped!IInv, NEW r \in Requests, at[r].step = "handled",
         NEW now, at' = [at EXCEPT ![r] = now],
         \/ now.step = "raised"
         \/ /\ now.step \in {"observe", "render"} /\ now.series \in Scraped!Series
            /\ now = [step |-> now.step, series |-> now.series],
         UNCHANGED <<count, dur_sum, lock, shown, observed>>
  PROVE  Scraped!IInv'
<1>1. /\ Scraped!TypeOK /\ Scraped!Exclusive /\ Scraped!Tabulated
  BY DEF Scraped!IInv
<1>2. /\ DOMAIN at' = Requests /\ at'[r] = now /\ r \notin observed
      /\ \A q \in Requests : q # r => at'[q] = at[q]
      /\ \A q \in observed : at'[q].step = "done"
  BY ScrapedMoves
<1>3. now.step \notin Scraped!Holding
  BY DEF Scraped!Holding
<1>4. Scraped!TypeOK'
  BY <1>1, <1>2 DEF Scraped!TypeOK
<1>5. Scraped!Exclusive'
  BY <1>1, <1>2, <1>3 DEF Scraped!Exclusive, Scraped!Holding
<1>6. Scraped!Counted' = Scraped!Counted /\ r \notin Scraped!Counted /\ Scraped!Counted \subseteq Requests
  BY ZenonT(40), <1>1, <1>2, <1>3 DEF Scraped!Counted, Scraped!Holding, Scraped!TypeOK
<1>7. \A s : /\ Scraped!Of(Scraped!Counted, s)' = Scraped!Of(Scraped!Counted, s)
             /\ Scraped!Of(observed, s)' = Scraped!Of(observed, s)
  BY <1>1, <1>2, <1>6 DEF Scraped!Of, Scraped!TypeOK
<1>8. Scraped!Tabulated'
  BY <1>1, <1>2, <1>7 DEF Scraped!Tabulated
<1>9. Scraped!Copied'
  BY <1>3, ScrapedUnshown DEF Scraped!Holding
<1> QED
  BY <1>4, <1>5, <1>8, <1>9 DEF Scraped!IInv

\* A request gets the lock, to be counted or to copy.
LEMMA ScrapedLock ==
  ASSUME Scraped!IInv, NEW r \in Requests, Scraped!Lock(r)
  PROVE  Scraped!IInv'
<1>1. /\ Scraped!TypeOK /\ Scraped!Exclusive /\ Scraped!Tabulated /\ Scraped!Copied
  BY DEF Scraped!IInv
<1>2. /\ lock = Nobody /\ lock' = r /\ UNCHANGED <<count, dur_sum, observed>>
      /\ at[r].step \in {"observe", "render"}
  BY DEF Scraped!Lock
<1>3. PICK step \in {"count", "copy"} :
        /\ Scraped!Goto(r, step)
        /\ step = "count" => UNCHANGED shown
        /\ step = "copy"  => shown' = [shown EXCEPT ![r] = [step |-> "begun", of |-> observed]]
  BY DEF Scraped!Lock
<1> DEFINE now == [step |-> step, series |-> at[r].series]
<1>4. at' = [at EXCEPT ![r] = now] /\ at[r].series \in Scraped!Series
  BY <1>2, <1>3, ScrapedGoto
<1>5. now.step = step /\ now.series = at[r].series /\ now = [step |-> now.step, series |-> now.series]
  OBVIOUS
<1> HIDE DEF now
<1>6. at[r].step # "done"
  BY <1>2
<1>7. /\ DOMAIN at' = Requests /\ at'[r] = now /\ r \notin observed
      /\ \A q \in Requests : q # r => at'[q] = at[q]
      /\ \A q \in Requests : at[q].step = "done" => at'[q] = at[q]
      /\ \A q \in observed : at'[q].step = "done"
  BY <1>4, <1>6, ScrapedMoves
<1>8. \A q \in Requests : at[q].step \notin Scraped!Holding
  BY <1>1, <1>2, RequestsAssumption DEF Scraped!Exclusive
<1>9. step \in Scraped!Holding /\ step # "add"
  BY <1>3 DEF Scraped!Holding
<1>10. DOMAIN shown' = Requests /\ \A q \in Requests : q # r => shown'[q] = shown[q]
  BY <1>1, <1>3 DEF Scraped!TypeOK
<1>11. Scraped!TypeOK'
  BY <1>1, <1>2, <1>4, <1>5, <1>7, <1>9, <1>10 DEF Scraped!TypeOK
<1>12. Scraped!Exclusive'
  BY <1>2, <1>5, <1>7, <1>8, <1>9 DEF Scraped!Exclusive
<1>13. Scraped!Counted = observed /\ Scraped!Counted' = observed
  BY ZenonT(40), <1>2, <1>5, <1>7, <1>8, <1>9 DEF Scraped!Counted, Scraped!Holding
<1>14. \A s : /\ Scraped!Of(Scraped!Counted, s)' = Scraped!Of(Scraped!Counted, s)
              /\ Scraped!Of(observed, s)' = Scraped!Of(observed, s)
  BY <1>1, <1>2, <1>7, <1>13 DEF Scraped!Of, Scraped!TypeOK
<1>15. Scraped!Tabulated'
  BY <1>1, <1>2, <1>7, <1>14 DEF Scraped!Tabulated
<1>16. Scraped!Copied'
  <2> SUFFICES ASSUME NEW q \in Requests
               PROVE  /\ at'[q].step \in {"copy", "copy sums"} => shown'[q].of = observed'
                      /\ at'[q].step = "copy sums" => shown'[q].counts = count'
                      /\ shown'[q].step = "shown" =>
                           /\ shown'[q].of \subseteq Requests
                           /\ \A p \in shown'[q].of : at'[p].step = "done"
                           /\ Scraped!Shows(shown[q].counts, shown[q].sums, shown[q].of)'
    BY DEF Scraped!Copied
  <2>1. CASE q # r \/ step = "count"
    <3>1. shown'[q] = shown[q]
      BY <1>3, <1>10, <2>1
    <3>2. at'[q].step \notin {"copy", "copy sums"}
      BY <1>3, <1>5, <1>7, <1>8, <2>1 DEF Scraped!Holding
    <3> QED
      BY <1>7, <3>1, <3>2, ScrapedShown
  <2>2. CASE q = r /\ step = "copy"
    <3>1. shown'[q] = [step |-> "begun", of |-> observed]
      BY <1>1, <1>3, <2>2 DEF Scraped!TypeOK
    <3>2. shown'[q].step = "begun" /\ shown'[q].of = observed
      BY <3>1
    <3>3. at'[q].step = "copy"
      BY <1>5, <1>7, <2>2
    <3> QED
      BY <1>2, <3>2, <3>3
  <2> QED
    BY <1>3, <2>1, <2>2
<1> QED
  BY <1>11, <1>12, <1>15, <1>16 DEF Scraped!IInv

\* It is counted,
LEMMA ScrapedCount ==
  ASSUME Scraped!IInv, NEW r \in Requests, Scraped!CountOne(r)
  PROVE  Scraped!IInv'
<1> DEFINE now == [step |-> "add", series |-> at[r].series]
<1>1. /\ Scraped!TypeOK /\ Scraped!Exclusive /\ Scraped!Tabulated
  BY DEF Scraped!IInv
<1>2. /\ at[r].step = "count" /\ Scraped!Goto(r, "add") /\ UNCHANGED <<dur_sum, lock, shown, observed>>
      /\ count' = [count EXCEPT ![at[r].series] = count[at[r].series] + 1]
  BY DEF Scraped!CountOne
<1>3. at' = [at EXCEPT ![r] = now] /\ at[r].series \in Scraped!Series
  BY <1>2, ScrapedGoto DEF Scraped!Holding
<1>4. now.step = "add" /\ now.series = at[r].series /\ now = [step |-> now.step, series |-> now.series]
  OBVIOUS
<1> HIDE DEF now
<1>5. /\ DOMAIN at' = Requests /\ at'[r] = now /\ r \notin observed
      /\ \A q \in Requests : q # r => at'[q] = at[q]
      /\ \A q \in observed : at'[q].step = "done"
  BY <1>2, <1>3, ScrapedMoves
<1>6. lock = r /\ \A q \in Requests : q # r => at[q].step \notin Scraped!Holding
  BY <1>1, <1>2 DEF Scraped!Exclusive, Scraped!Holding
<1>7. Scraped!TypeOK'
  <2>1. count' \in [Scraped!Series -> Nat]
    BY <1>1, <1>2, <1>3 DEF Scraped!TypeOK
  <2>2. "add" \in Scraped!Holding
    BY DEF Scraped!Holding
  <2> QED
    BY <1>1, <1>2, <1>3, <1>4, <1>5, <2>1, <2>2 DEF Scraped!TypeOK
<1>8. Scraped!Exclusive'
  BY <1>1, <1>2, <1>4, <1>5, <1>6 DEF Scraped!Exclusive, Scraped!Holding
<1>9. Scraped!Counted = observed /\ Scraped!Counted' = observed \cup {r} /\ observed \subseteq Requests
  BY ZenonT(40), <1>1, <1>2, <1>4, <1>5, <1>6 DEF Scraped!Counted, Scraped!Holding, Scraped!TypeOK
<1>10. \A s : /\ Scraped!Of(observed, s)' = Scraped!Of(observed, s)
              /\ Scraped!Of(Scraped!Counted, s)' = IF s = at[r].series THEN Scraped!Of(observed, s) \cup {r}
                                                   ELSE Scraped!Of(observed, s)
  BY <1>2, <1>4, <1>5, <1>9 DEF Scraped!Of
<1>11. ASSUME NEW s \in Scraped!Series
       PROVE  count'[s] = Scraped!Cardinality(Scraped!Of(Scraped!Counted, s)')
  <2>1. count[s] = Scraped!Cardinality(Scraped!Of(observed, s)) /\ count \in [Scraped!Series -> Nat]
    BY <1>1, <1>9 DEF Scraped!Tabulated, Scraped!TypeOK
  <2>2. CASE s = at[r].series
    <3>1. count'[s] = count[s] + 1
      BY <1>2, <2>1, <2>2
    <3>2. Scraped!Of(observed, s) \in SUBSET Requests /\ r \in Requests \ Scraped!Of(observed, s)
      BY <1>5, <1>9 DEF Scraped!Of
    <3>3. Scraped!Of(Scraped!Counted, s)' = Scraped!Of(observed, s) \cup {r}
      BY <1>10, <2>2
    <3> QED
      BY <2>1, <3>1, <3>2, <3>3, OneMore
  <2>3. CASE s # at[r].series
    BY <1>2, <1>10, <2>1, <2>3
  <2> QED
    BY <2>2, <2>3
<1>12. Scraped!Tabulated'
  BY <1>1, <1>2, <1>5, <1>10, <1>11 DEF Scraped!Tabulated
<1>13. Scraped!Copied'
  BY <1>2, <1>3, <1>4, <1>6, ScrapedUnshown
<1> QED
  BY <1>7, <1>8, <1>12, <1>13 DEF Scraped!IInv

\* and its seconds are added.
LEMMA ScrapedAdd ==
  ASSUME Scraped!IInv, NEW r \in Requests, Scraped!AddSeconds(r)
  PROVE  Scraped!IInv'
<1> DEFINE now == [step |-> "done", series |-> at[r].series]
<1>1. /\ Scraped!TypeOK /\ Scraped!Exclusive /\ Scraped!Tabulated
  BY DEF Scraped!IInv
<1>2. /\ at[r].step = "add" /\ Scraped!Goto(r, "done") /\ UNCHANGED <<count, shown>>
      /\ dur_sum' = [dur_sum EXCEPT ![at[r].series] = dur_sum[at[r].series] + Seconds[r]]
      /\ lock' = Nobody /\ observed' = observed \cup {r}
  BY DEF Scraped!AddSeconds
<1>3. at' = [at EXCEPT ![r] = now] /\ at[r].series \in Scraped!Series
  BY <1>2, ScrapedGoto DEF Scraped!Holding
<1>4. now.step = "done" /\ now.series = at[r].series /\ now = [step |-> now.step, series |-> now.series]
  OBVIOUS
<1> HIDE DEF now
<1>5. /\ DOMAIN at' = Requests /\ at'[r] = now /\ r \notin observed
      /\ \A q \in Requests : q # r => at'[q] = at[q]
      /\ \A q \in observed : at'[q].step = "done"
  BY <1>2, <1>3, ScrapedMoves
<1>6. lock = r /\ \A q \in Requests : q # r => at[q].step \notin Scraped!Holding
  BY <1>1, <1>2 DEF Scraped!Exclusive, Scraped!Holding
<1>7. Scraped!TypeOK'
  <2>1. Seconds[r] \in Nat
    BY RequestsAssumption
  <2>2. dur_sum' \in [Scraped!Series -> Nat]
    BY <1>1, <1>2, <1>3, <2>1 DEF Scraped!TypeOK
  <2> QED
    BY <1>1, <1>2, <1>3, <1>4, <1>5, <2>2 DEF Scraped!TypeOK
<1>8. Scraped!Exclusive'
  BY <1>1, <1>2, <1>4, <1>5, <1>6, RequestsAssumption DEF Scraped!Exclusive, Scraped!Holding
<1>9. /\ Scraped!Counted = observed \cup {r} /\ Scraped!Counted' = observed \cup {r}
      /\ observed \subseteq Requests
  BY ZenonT(40), <1>1, <1>2, <1>4, <1>5, <1>6 DEF Scraped!Counted, Scraped!Holding, Scraped!TypeOK
<1>10. \A s : /\ Scraped!Of(Scraped!Counted, s)' = Scraped!Of(Scraped!Counted, s)
              /\ Scraped!Of(observed, s)' = IF s = at[r].series THEN Scraped!Of(observed, s) \cup {r}
                                            ELSE Scraped!Of(observed, s)
  BY <1>2, <1>4, <1>5, <1>9 DEF Scraped!Of
<1>11. ASSUME NEW s \in Scraped!Series
       PROVE  /\ dur_sum'[s] = Scraped!SecondsOf(Scraped!Of(observed, s)')
              /\ Scraped!IsFiniteSet(Scraped!Ticks(Scraped!Of(observed, s)'))
  <2>1. /\ dur_sum[s] = Scraped!SecondsOf(Scraped!Of(observed, s)) /\ dur_sum \in [Scraped!Series -> Nat]
        /\ Scraped!IsFiniteSet(Scraped!Ticks(Scraped!Of(observed, s)))
    BY <1>1 DEF Scraped!Tabulated, Scraped!TypeOK
  <2>2. CASE s = at[r].series
    <3>1. dur_sum'[s] = dur_sum[s] + Seconds[r]
      BY <1>2, <2>1, <2>2
    <3>2. Scraped!Of(observed, s) \in SUBSET Requests /\ r \in Requests \ Scraped!Of(observed, s)
      BY <1>5, <1>9 DEF Scraped!Of
    <3>3. Scraped!Of(observed, s)' = Scraped!Of(observed, s) \cup {r}
      BY <1>10, <2>2
    <3> QED
      BY <2>1, <3>1, <3>2, <3>3, SecondsMore
  <2>3. CASE s # at[r].series
    BY <1>2, <1>10, <2>1, <2>3
  <2> QED
    BY <2>2, <2>3
<1>12. \A q \in observed' : at'[q].step = "done"
  BY <1>2, <1>4, <1>5
<1>13. Scraped!Tabulated'
  <2>1. \A s \in Scraped!Series :
          /\ dur_sum'[s] = Scraped!SecondsOf(Scraped!Of(observed, s))'
          /\ Scraped!IsFiniteSet(Scraped!Ticks(Scraped!Of(observed, s)))'
    BY <1>11 DEF Scraped!SecondsOf, Scraped!Ticks
  <2> QED
    BY <1>1, <1>2, <1>10, <1>12, <2>1 DEF Scraped!Tabulated
<1>14. Scraped!Copied'
  BY <1>2, <1>3, <1>4, <1>6, ScrapedUnshown
<1> QED
  BY <1>7, <1>8, <1>13, <1>14 DEF Scraped!IInv

\* A scrape copies the table, by two steps while it has the lock.
LEMMA ScrapedCopies ==
  ASSUME Scraped!IInv, NEW r \in Requests, Scraped!CopyCounts(r) \/ Scraped!CopySums(r)
  PROVE  Scraped!IInv'
<1> DEFINE first == Scraped!CopyCounts(r)
           step  == IF first THEN "copy sums" ELSE "observe"
           now   == [step |-> step, series |-> at[r].series]
<1>1. /\ Scraped!TypeOK /\ Scraped!Exclusive /\ Scraped!Tabulated /\ Scraped!Copied
  BY DEF Scraped!IInv
<1>2. /\ at[r].step \in {"copy", "copy sums"} /\ UNCHANGED <<count, dur_sum, observed>>
      /\ Scraped!Goto(r, step)
      /\ IF first THEN lock' = lock ELSE lock' = Nobody
      /\ first => /\ at[r].step = "copy"
                  /\ shown' = [shown EXCEPT ![r] = [step |-> "begun", of |-> shown[r].of, counts |-> count]]
      /\ ~first => /\ at[r].step = "copy sums"
                   /\ shown' = [shown EXCEPT ![r] = [step |-> "shown", of |-> shown[r].of,
                                                     counts |-> shown[r].counts, sums |-> dur_sum]]
  <2>1. CASE first
    BY <2>1 DEF Scraped!CopyCounts
  <2>2. CASE ~first
    <3>1. Scraped!CopySums(r)
      BY <2>2
    <3> HIDE DEF first
    <3> QED
      BY <2>2, <3>1 DEF Scraped!CopySums
  <2> QED
    BY <2>1, <2>2
<1> HIDE DEF first
<1>3. at' = [at EXCEPT ![r] = now] /\ at[r].series \in Scraped!Series
  <2>1. at[r].step \in Scraped!Holding \cup {"observe", "render"}
    BY <1>2 DEF Scraped!Holding
  <2> HIDE DEF step
  <2> QED
    BY <1>2, <2>1, ScrapedGoto
<1>4. now.step = step /\ now.series = at[r].series /\ now = [step |-> now.step, series |-> now.series]
  OBVIOUS
<1> HIDE DEF now
<1>5. at[r].step # "done"
  BY <1>2
<1>6. /\ DOMAIN at' = Requests /\ at'[r] = now /\ r \notin observed
      /\ \A q \in Requests : q # r => at'[q] = at[q]
      /\ \A q \in Requests : at[q].step = "done" => at'[q] = at[q]
      /\ \A q \in observed : at'[q].step = "done"
  BY <1>3, <1>5, ScrapedMoves
<1>7. lock = r /\ \A q \in Requests : q # r => at[q].step \notin Scraped!Holding
  BY <1>1, <1>2 DEF Scraped!Exclusive, Scraped!Holding
<1>8. /\ DOMAIN shown' = Requests /\ \A q \in Requests : q # r => shown'[q] = shown[q]
      /\ first => shown'[r] = [step |-> "begun", of |-> shown[r].of, counts |-> count]
      /\ ~first => shown'[r] = [step |-> "shown", of |-> shown[r].of,
                                counts |-> shown[r].counts, sums |-> dur_sum]
  BY <1>1, <1>2 DEF Scraped!TypeOK
<1>9. shown[r].of = observed /\ (~first => shown[r].counts = count)
  BY <1>1, <1>2 DEF Scraped!Copied
<1>10. step \in Scraped!Holding <=> first
  BY DEF Scraped!Holding
<1>11. step # "add" /\ step \in Scraped!Holding \cup {"observe"}
  BY DEF Scraped!Holding
<1> HIDE DEF step
<1>12. Scraped!TypeOK'
  BY <1>1, <1>2, <1>3, <1>4, <1>6, <1>8, <1>11 DEF Scraped!TypeOK
<1>13. Scraped!Exclusive'
  BY <1>1, <1>2, <1>4, <1>6, <1>7, <1>10, RequestsAssumption DEF Scraped!Exclusive
<1>14. Scraped!Counted = observed /\ Scraped!Counted' = observed
  BY ZenonT(40), <1>2, <1>4, <1>6, <1>7, <1>11 DEF Scraped!Counted, Scraped!Holding
<1>15. /\ \A s : /\ Scraped!Of(Scraped!Counted, s)' = Scraped!Of(Scraped!Counted, s)
                 /\ Scraped!Of(observed, s)' = Scraped!Of(observed, s)
       /\ \A q \in observed' : at'[q].step = "done"
  <2>1. observed' = observed /\ observed \subseteq Requests /\ \A q \in observed : at'[q] = at[q]
    BY <1>1, <1>2, <1>6 DEF Scraped!TypeOK
  <2>2. Scraped!Counted' = Scraped!Counted
    BY <1>14
  <2> QED
    BY <1>6, <1>14, <2>1, <2>2 DEF Scraped!Of
<1>16. Scraped!Tabulated'
  BY <1>1, <1>2, <1>15 DEF Scraped!Tabulated
<1>17. Scraped!Copied'
  <2> SUFFICES ASSUME NEW q \in Requests
               PROVE  /\ at'[q].step \in {"copy", "copy sums"} => shown'[q].of = observed'
                      /\ at'[q].step = "copy sums" => shown'[q].counts = count'
                      /\ shown'[q].step = "shown" =>
                           /\ shown'[q].of \subseteq Requests
                           /\ \A p \in shown'[q].of : at'[p].step = "done"
                           /\ Scraped!Shows(shown[q].counts, shown[q].sums, shown[q].of)'
    BY DEF Scraped!Copied
  <2>1. CASE q # r
    <3>1. shown'[q] = shown[q]
      BY <1>8, <2>1
    <3>2. at'[q].step \notin {"copy", "copy sums"}
      BY <1>6, <1>7, <2>1 DEF Scraped!Holding
    <3> QED
      BY <1>6, <3>1, <3>2, ScrapedShown
  <2>2. CASE q = r /\ first
    <3>1. shown'[q].step = "begun" /\ shown'[q].of = observed /\ shown'[q].counts = count
      BY <1>8, <1>9, <2>2
    <3> QED
      BY <1>2, <3>1
  <2>3. CASE q = r /\ ~first
    <3>1. shown'[q].of = observed /\ shown'[q].counts = count /\ shown'[q].sums = dur_sum
      BY <1>8, <1>9, <2>3
    <3>2. at'[q].step = "observe"
      BY <1>4, <1>6, <2>3 DEF step
    <3>3. \A s \in Scraped!Series : /\ count[s] = Scraped!Cardinality(Scraped!Of(observed, s)')
                                    /\ dur_sum[s] = Scraped!SecondsOf(Scraped!Of(observed, s)')
      BY <1>1, <1>14, <1>15 DEF Scraped!Tabulated
    <3>4. Scraped!Shows(shown[q].counts, shown[q].sums, shown[q].of)'
      BY <1>2, <3>1, <3>3 DEF Scraped!Shows, Scraped!Of, Scraped!SecondsOf, Scraped!Ticks
    <3>5. observed \subseteq Requests
      BY <1>1 DEF Scraped!TypeOK
    <3> QED
      BY <1>6, <3>1, <3>2, <3>4, <3>5
  <2> QED
    BY <2>1, <2>2, <2>3
<1> QED
  BY <1>12, <1>13, <1>16, <1>17 DEF Scraped!IInv

LEMMA ScrapedNone ==
  /\ Scraped!Cardinality({}) = 0 /\ Scraped!SecondsOf({}) = 0
  /\ Scraped!IsFiniteSet(Scraped!Ticks({}))
  /\ \A s : Scraped!Of({}, s) = {} /\ Scraped!Of({}, s)' = {}
<1>1. Scraped!Ticks({}) = {}
  BY DEF Scraped!Ticks
<1>2. Scraped!Cardinality({}) = 0 /\ Scraped!IsFiniteSet({})
  BY FS_EmptySet, ScrapedSizes
<1> QED
  BY <1>1, <1>2 DEF Scraped!SecondsOf, Scraped!Of

LEMMA ScrapedReset ==
  ASSUME Scraped!IInv, Scraped!Reset
  PROVE  Scraped!IInv'
<1>1. /\ Scraped!TypeOK /\ Scraped!Exclusive /\ Scraped!Tabulated /\ Scraped!Copied
  BY DEF Scraped!IInv
<1>2. /\ lock = Nobody /\ UNCHANGED <<lock, at, shown>>
      /\ count' = Scraped!Zero /\ dur_sum' = Scraped!Zero /\ observed' = {}
  BY DEF Scraped!Reset
<1>3. \A q \in Requests : at[q].step \notin Scraped!Holding
  BY <1>1, <1>2, RequestsAssumption DEF Scraped!Exclusive
<1>4. Scraped!TypeOK'
  BY <1>1, <1>2 DEF Scraped!TypeOK, Scraped!Zero
<1>5. Scraped!Exclusive'
  BY <1>1, <1>2 DEF Scraped!Exclusive
<1>6. Scraped!Counted' = {}
  BY <1>2, <1>3 DEF Scraped!Counted, Scraped!Holding
<1>7. \A s : Scraped!Of(Scraped!Counted, s)' = {} /\ Scraped!Of(observed, s)' = {}
  BY <1>2, <1>6 DEF Scraped!Of
<1>8. \A s \in Scraped!Series : count'[s] = 0 /\ dur_sum'[s] = 0
  BY <1>2 DEF Scraped!Zero
<1>9. Scraped!Tabulated'
  BY <1>2, <1>7, <1>8, ScrapedNone DEF Scraped!Tabulated, Scraped!SecondsOf, Scraped!Ticks
<1>10. Scraped!Copied'
  <2>1. \A s, Q : Scraped!Of(Q, s)' = Scraped!Of(Q, s)
    BY <1>2 DEF Scraped!Of
  <2> QED
    BY <1>1, <1>2, <1>3, <2>1 DEF Scraped!Copied, Scraped!Holding, Scraped!Shows
<1> QED
  BY <1>4, <1>5, <1>9, <1>10 DEF Scraped!IInv

\* However the steps of requests and scrapes interleave, what a scrape is shown is
\* every request observed when its turn came, whole, and no part of another.
THEOREM WholeScrapes == ShelfSpec => []ScrapesAreWhole
<1>1. ASSUME Scraped!Init
      PROVE  Scraped!IInv
  <2>1. /\ count = Scraped!Zero /\ dur_sum = Scraped!Zero /\ lock = Nobody /\ observed = {}
        /\ DOMAIN at = Requests /\ DOMAIN shown = Requests
        /\ \A r \in Requests : at[r] = [step |-> "handled"] /\ shown[r] = [step |-> "none"]
    BY <1>1 DEF Scraped!Init
  <2>2. \A r \in Requests : at[r].step = "handled" /\ shown[r].step = "none"
    BY <2>1
  <2>3. Scraped!TypeOK
    BY <2>1 DEF Scraped!TypeOK, Scraped!Zero
  <2>4. Scraped!Exclusive
    BY <2>1, <2>2, RequestsAssumption DEF Scraped!Exclusive, Scraped!Holding
  <2>5. Scraped!Counted = {}
    BY <2>1, <2>2 DEF Scraped!Counted
  <2>6. Scraped!Tabulated
    BY <2>1, <2>5, ScrapedNone DEF Scraped!Tabulated, Scraped!Zero
  <2>7. Scraped!Copied
    BY <2>2 DEF Scraped!Copied
  <2> QED
    BY <2>3, <2>4, <2>6, <2>7 DEF Scraped!IInv
<1>2. Scraped!IInv /\ [Scraped!Next]_metrics => Scraped!IInv'
  <2> SUFFICES ASSUME Scraped!IInv, [Scraped!Next]_metrics
               PROVE  Scraped!IInv'
    OBVIOUS
  <2>1. ASSUME NEW r \in Requests, NEW s \in Routes, Scraped!Answer(r, s)
        PROVE  Scraped!IInv'
    <3> DEFINE now == [step |-> "observe", series |-> s]
    <3>1. /\ now.step = "observe" /\ now.series \in Scraped!Series
          /\ now = [step |-> now.step, series |-> now.series]
      BY DEF Scraped!Series
    <3>2. /\ at[r].step = "handled" /\ at' = [at EXCEPT ![r] = now]
          /\ UNCHANGED <<count, dur_sum, lock, shown, observed>>
      BY <2>1 DEF Scraped!Answer
    <3> HIDE DEF now
    <3> QED
      BY <3>1, <3>2, ScrapedHandled
  <2>2. ASSUME NEW r \in Requests, Scraped!Ask(r)
        PROVE  Scraped!IInv'
    <3> DEFINE now == [step |-> "render", series |-> Scrapes]
    <3>1. /\ now.step = "render" /\ now.series \in Scraped!Series
          /\ now = [step |-> now.step, series |-> now.series]
      BY DEF Scraped!Series
    <3>2. /\ at[r].step = "handled" /\ at' = [at EXCEPT ![r] = now]
          /\ UNCHANGED <<count, dur_sum, lock, shown, observed>>
      BY <2>2 DEF Scraped!Ask
    <3> HIDE DEF now
    <3> QED
      BY <3>1, <3>2, ScrapedHandled
  <2>3. ASSUME NEW r \in Requests, Scraped!Raise(r)
        PROVE  Scraped!IInv'
    <3> DEFINE now == [step |-> "raised"]
    <3>1. /\ at[r].step = "handled" /\ Scraped!Goto(r, "raised")
          /\ UNCHANGED <<count, dur_sum, lock, shown, observed>>
      BY <2>3 DEF Scraped!Raise
    <3>2. /\ DOMAIN at = Requests
          /\ at[r] = [step |-> "handled"]
      <4>1. at[r].step \notin Scraped!Holding \cup {"observe", "render", "done", "raised"}
        BY <3>1 DEF Scraped!Holding
      <4> QED
        BY <4>1 DEF Scraped!IInv, Scraped!TypeOK
    <3>3. at' = [at EXCEPT ![r] = now] /\ now.step = "raised"
      <4>1. at' = [at EXCEPT ![r] = [at[r] EXCEPT !.step = "raised"]]
        BY <3>1 DEF Scraped!Goto
      <4>2. [at[r] EXCEPT !.step = "raised"] = now
        BY <3>2
      <4> QED
        BY <4>1, <4>2
    <3> HIDE DEF now
    <3> QED
      BY <3>1, <3>3, ScrapedHandled
  <2>4. ASSUME NEW r \in Requests, Scraped!Lock(r)
        PROVE  Scraped!IInv'
    BY <2>4, ScrapedLock
  <2>5. ASSUME NEW r \in Requests, Scraped!CountOne(r)
        PROVE  Scraped!IInv'
    BY <2>5, ScrapedCount
  <2>6. ASSUME NEW r \in Requests, Scraped!AddSeconds(r)
        PROVE  Scraped!IInv'
    BY <2>6, ScrapedAdd
  <2>7. ASSUME NEW r \in Requests, Scraped!CopyCounts(r) \/ Scraped!CopySums(r)
        PROVE  Scraped!IInv'
    BY <2>7, ScrapedCopies
  <2>8. CASE Scraped!Reset
    BY <2>8, ScrapedReset
  <2>9. CASE UNCHANGED metrics
    <3>1. UNCHANGED <<count, dur_sum, lock, at, shown, observed>>
      BY <2>9 DEF metrics
    <3>2. \A s, Q : Scraped!Of(Q, s)' = Scraped!Of(Q, s)
      BY <3>1 DEF Scraped!Of
    <3>3. Scraped!Counted' = Scraped!Counted
      BY <3>1 DEF Scraped!Counted
    <3>4. Scraped!TypeOK' /\ Scraped!Exclusive'
      BY <3>1 DEF Scraped!IInv, Scraped!TypeOK, Scraped!Exclusive
    <3>5. Scraped!Tabulated'
      BY <3>1, <3>2, <3>3 DEF Scraped!IInv, Scraped!Tabulated, Scraped!Of
    <3>6. Scraped!Copied'
      BY <3>1, <3>2 DEF Scraped!IInv, Scraped!Copied, Scraped!Shows
    <3> QED
      BY <3>4, <3>5, <3>6 DEF Scraped!IInv
  <2> QED
    BY <2>1, <2>2, <2>3, <2>4, <2>5, <2>6, <2>7, <2>8, <2>9 DEF Scraped!Next
<1>3. [ShelfNext]_<<core, vars, loader, bus, framer, telnet, evidence, flow, metrics,
                    directory, health, typed, sheet, shelved>> => [Scraped!Next]_metrics
  BY DEF ShelfNext, Turn
<1>4. ShelfInit => Scraped!IInv
  BY <1>1 DEF ShelfInit
<1>5. Scraped!IInv => ScrapesAreWhole
  <2> SUFFICES ASSUME Scraped!IInv
               PROVE  Scraped!ScrapesAreWhole
    BY DEF ScrapesAreWhole
  <2>1. ASSUME lock = Nobody
        PROVE  Scraped!Shows(count, dur_sum, observed)
    <3>1. Scraped!Counted = observed
      BY <2>1, RequestsAssumption DEF Scraped!IInv, Scraped!Exclusive, Scraped!Counted, Scraped!Holding
    <3> QED
      BY <3>1 DEF Scraped!IInv, Scraped!Tabulated, Scraped!Shows
  <2> QED
    BY <2>1 DEF Scraped!IInv, Scraped!Copied, Scraped!ScrapesAreWhole
<1> QED
  BY <1>2, <1>3, <1>4, <1>5, PTL DEF ShelfSpec

\* The telnet codec. The bytes there are,
TelnetBytes ==
  {"IAC", "SB", "SE", "NOP"} \cup Telnet!Verbs \cup Texts \cup Options
    \cup UNION {{body[i] : i \in DOMAIN body} : body \in Bodies}

\* what strip_iac makes of the bytes from i on, by what it makes of later ones,
TelnetRest(data, From, i) ==
  IF i > Len(data) THEN <<>>
  ELSE IF data[i] # Telnet!IAC \/ i = Len(data) THEN <<data[i]>> \o From[i + 1]
  ELSE IF data[i + 1] = Telnet!IAC   THEN <<Telnet!IAC>> \o From[i + 2]
  ELSE IF data[i + 1] = Telnet!SB    THEN From[Telnet!AfterFrame(data, i + 2)]
  ELSE IF data[i + 1] \in Telnet!Verbs THEN From[i + 3]
  ELSE From[i + 2]

\* and that this is all that is said of a function of the places.
TelnetScan(data, From) ==
  /\ From \in [1..(Len(data) + 3) -> Seq(TelnetBytes)]
  /\ \A i \in 1..(Len(data) + 3) : From[i] = TelnetRest(data, From, i)

LEMMA TelnetIsEnd ==
  ASSUME NEW data \in Seq(TelnetBytes), NEW j \in Nat \ {0}, NEW k \in Nat,
         j <= k, k < Len(data), data[k] = Telnet!IAC, data[k + 1] = Telnet!SE,
         \A m \in j..(k - 1) : ~(data[m] = Telnet!IAC /\ data[m + 1] = Telnet!SE)
  PROVE  Telnet!AfterFrame(data, j) = k + 2
<1> DEFINE ends == {m \in j..(Len(data) - 1) : data[m] = Telnet!IAC /\ data[m + 1] = Telnet!SE}
<1>1. Len(data) \in Nat /\ k \in ends
  OBVIOUS
<1>2. \A m \in ends : k <= m /\ m \in Nat
  BY <1>1
<1> HIDE DEF ends
<1>3. Telnet!Min(ends) = k
  <2>1. \A m \in ends : (\A n \in ends : m <= n) => m = k
    BY <1>1, <1>2
  <2> QED
    BY <1>1, <1>2, <2>1 DEF Telnet!Min
<1> QED
  BY <1>1, <1>3 DEF Telnet!AfterFrame, ends

\* After a frame is past its start, and no further than past everything.
LEMMA TelnetAfter ==
  ASSUME NEW data \in Seq(TelnetBytes), NEW j \in Nat \ {0}, j <= Len(data) + 1
  PROVE  \/ /\ Telnet!AfterFrame(data, j) = Len(data) + 1
            /\ \A m \in j..(Len(data) - 1) : ~(data[m] = Telnet!IAC /\ data[m + 1] = Telnet!SE)
         \/ \E k \in j..(Len(data) - 1) :
              /\ data[k] = Telnet!IAC /\ data[k + 1] = Telnet!SE
              /\ \A m \in j..(k - 1) : ~(data[m] = Telnet!IAC /\ data[m + 1] = Telnet!SE)
              /\ Telnet!AfterFrame(data, j) = k + 2
<1> DEFINE ends == {m \in j..(Len(data) - 1) : data[m] = Telnet!IAC /\ data[m + 1] = Telnet!SE}
<1>1. CASE ends = {}
  BY <1>1 DEF Telnet!AfterFrame
<1>2. CASE ends # {}
  <2>1. PICK k \in ends : \A m \in ends : k <= m
    <3>1. ends \in SUBSET Nat
      OBVIOUS
    <3> HIDE DEF ends
    <3> QED
      BY <1>2, <3>1, Least
  <2>2. k \in Nat /\ k \in j..(Len(data) - 1) /\ j <= k /\ k < Len(data)
    BY <2>1
  <2>3. ASSUME NEW m \in j..(k - 1) PROVE ~(data[m] = Telnet!IAC /\ data[m + 1] = Telnet!SE)
    BY <2>1, <2>2
  <2>4. Telnet!AfterFrame(data, j) = k + 2
    BY <2>1, <2>2, <2>3, TelnetIsEnd
  <2> QED
    BY <2>1, <2>2, <2>3, <2>4
<1> QED
  BY <1>1, <1>2

LEMMA TelnetScans ==
  ASSUME NEW data \in Seq(TelnetBytes)
  PROVE  \E From : TelnetScan(data, From) /\ Telnet!StripIac(data) = From[1]
<1> DEFINE top == Len(data) + 3
           D == 1..top
           V == Seq(TelnetBytes)
           E == [f \in [D -> V] |-> [i \in D |-> TelnetRest(data, f, i)]]
           Scan == CHOOSE f : f = [i \in D |-> TelnetRest(data, f, i)]
           measure == [i \in D |-> top - i]
           start == [i \in D |-> <<>>]
<1>1. Len(data) \in Nat /\ Len(data) + 3 \in Nat
  OBVIOUS
<1>2. ASSUME NEW f \in [D -> V], NEW i \in D
      PROVE  /\ TelnetRest(data, f, i) \in V
             /\ \A g :
                  (\A j \in D : measure[j] < measure[i] => f[j] = g[j])
                    => TelnetRest(data, f, i) = TelnetRest(data, g, i)
  <2>1. CASE i > Len(data)
    BY <2>1 DEF TelnetRest
  <2>2. CASE i <= Len(data)
    <3>1. /\ i \in Nat \ {0} /\ i + 1 \in D /\ i + 2 \in D /\ i + 3 \in D
          /\ i < i + 1 /\ i < i + 2 /\ i < i + 3 /\ ~(i > Len(data))
      BY <1>1, <2>2
    <3>2. data[i] \in TelnetBytes
      BY <3>1, <2>2
    <3>3. i < Len(data) => Telnet!AfterFrame(data, i + 2) \in D /\ i < Telnet!AfterFrame(data, i + 2)
      <4> SUFFICES ASSUME i < Len(data)
                   PROVE  Telnet!AfterFrame(data, i + 2) \in D /\ i < Telnet!AfterFrame(data, i + 2)
        OBVIOUS
      <4>1. i + 2 \in Nat \ {0} /\ i + 2 <= Len(data) + 1
        BY <1>1, <3>1
      <4>2. \/ Telnet!AfterFrame(data, i + 2) = Len(data) + 1
            \/ \E k \in (i + 2)..(Len(data) - 1) : Telnet!AfterFrame(data, i + 2) = k + 2
        BY <4>1, TelnetAfter
      <4> QED
        BY <1>1, <3>1, <4>2
    <3>4. \A j \in D : i < j => measure[j] < measure[i]
      BY <1>1
    <3>5. <<data[i]>> \in V /\ <<Telnet!IAC>> \in V
      BY <3>2 DEF TelnetBytes, Telnet!IAC
    <3> DEFINE after == Telnet!AfterFrame(data, i + 2)
    <3> HIDE DEF measure, D, after
    <3>6. \A g \in [D -> V] : /\ i < Len(data) => g[after] \in V
                              /\ g[i + 1] \in V /\ g[i + 2] \in V /\ g[i + 3] \in V
      BY <3>1, <3>3 DEF after
    <3>7. TelnetRest(data, f, i) \in V
      <4>1. i # Len(data) => i < Len(data)
        BY <1>1, <2>2, <3>1
      <4>2. <<data[i]>> \o f[i + 1] \in V /\ <<Telnet!IAC>> \o f[i + 2] \in V
        BY <3>5, <3>6
      <4> HIDE DEF V
      <4> QED
        BY <3>1, <3>6, <4>1, <4>2 DEF TelnetRest, after
    <3>8. ASSUME NEW g, \A j \in D : measure[j] < measure[i] => f[j] = g[j]
          PROVE  TelnetRest(data, f, i) = TelnetRest(data, g, i)
      <4>1. f[i + 1] = g[i + 1] /\ f[i + 2] = g[i + 2] /\ f[i + 3] = g[i + 3]
        BY <3>1, <3>4, <3>8
      <4>2. i # Len(data) => f[after] = g[after]
        <5>1. i # Len(data) => i < Len(data)
          BY <1>1, <2>2, <3>1
        <5> QED
          BY <3>3, <3>4, <3>8, <5>1 DEF after
      <4> QED
        BY <4>1, <4>2 DEF TelnetRest, after
    <3> QED
      BY <3>7, <3>8
  <2> QED
    BY <1>1, <2>1, <2>2
<1>3. E \in [[D -> V] -> [D -> V]]
  BY <1>2
<1>4. \A f, g \in [D -> V], i \in D :
        (\A j \in D : measure[j] < measure[i] => f[j] = g[j]) => E[f][i] = E[g][i]
  <2> SUFFICES ASSUME NEW f \in [D -> V], NEW g \in [D -> V], NEW i \in D,
                      \A j \in D : measure[j] < measure[i] => f[j] = g[j]
               PROVE  E[f][i] = E[g][i]
    OBVIOUS
  <2> HIDE DEF measure
  <2>1. TelnetRest(data, f, i) = TelnetRest(data, g, i)
    BY <1>2
  <2> HIDE DEF D, V
  <2> QED
    BY <2>1
<1>5. measure \in [D -> 0..top] /\ top \in Nat /\ start \in [D -> V]
  BY <1>1
<1>6. \E f \in [D -> V] : f = E[f]
  <2>1. Recursive(D, V, top, measure, E)
    <3> HIDE DEF top, D, V, E, measure, start, Scan
    <3> QED
      BY <1>3, <1>4, <1>5 DEF Recursive
  <2> HIDE DEF top, D, V, E, measure, start, Scan
  <2> QED
    BY <2>1, Recursion
<1>7. PICK f \in [D -> V] : f = [i \in D |-> TelnetRest(data, f, i)]
  <2> HIDE DEF D, V
  <2> QED
    BY <1>6
<1>8. Scan = [i \in D |-> TelnetRest(data, Scan, i)]
  <2> HIDE DEF D
  <2> QED
    BY <1>7
<1>9. ASSUME NEW i \in D, \A j \in D : measure[j] < measure[i] => f[j] = Scan[j]
      PROVE  f[i] = Scan[i]
  <2> HIDE DEF measure, Scan
  <2>1. TelnetRest(data, f, i) = TelnetRest(data, Scan, i)
    BY <1>2, <1>7, <1>9
  <2> HIDE DEF D
  <2> QED
    BY <1>7, <1>8, <2>1
<1>10. \A i \in D : f[i] = Scan[i]
  <2>1. measure \in [D -> Nat]
    BY <1>1
  <2> HIDE DEF top, D, V, E, start, measure, Scan
  <2>2. \A i \in D : (\A j \in D : measure[j] < measure[i] => f[j] = Scan[j]) => f[i] = Scan[i]
    BY <1>9
  <2>3. SameByMeasure(D, measure, f, Scan)
    BY <2>1, <2>2 DEF SameByMeasure
  <2> QED
    BY <2>3, SameThroughout
<1>11. Scan \in [D -> V] /\ \A i \in D : Scan[i] = TelnetRest(data, Scan, i)
  <2> HIDE DEF D, V, Scan
  <2> QED
    BY <1>7, <1>8, <1>10
<1>12. Telnet!StripIac(data) = Scan[1]
  BY DEF Telnet!StripIac, TelnetRest
<1> QED
  BY <1>11, <1>12 DEF TelnetScan

\* What is made of the bytes behind others is what is made of them alone.
LEMMA TelnetBehind ==
  ASSUME NEW p \in Seq(TelnetBytes), NEW r \in Seq(TelnetBytes), NEW F, NEW G,
         TelnetScan(p \o r, F), TelnetScan(r, G)
  PROVE  F[Len(p) + 1] = G[1]
<1> DEFINE data == p \o r
           n == Len(p)
           top == Len(r) + 3
           D == 1..top
           H == [i \in D |-> F[n + i]]
           measure == [i \in D |-> top - i]
<1>1. /\ data \in Seq(TelnetBytes) /\ n \in Nat /\ Len(r) \in Nat /\ Len(data) = n + Len(r)
      /\ \A i \in 1..Len(r) : data[n + i] = r[i]
  OBVIOUS
<1>2. /\ \A i \in 1..(Len(data) + 3) : F[i] = TelnetRest(data, F, i)
      /\ \A i \in D : G[i] = TelnetRest(r, G, i)
  BY DEF TelnetScan
<1> HIDE DEF data, n
<1>3. ASSUME NEW j \in Nat \ {0}, j <= Len(r) + 1
      PROVE  /\ Telnet!AfterFrame(data, n + j) = n + Telnet!AfterFrame(r, j)
             /\ Telnet!AfterFrame(r, j) \in j..(Len(r) + 1)
  <2>1. CASE /\ Telnet!AfterFrame(r, j) = Len(r) + 1
             /\ \A m \in j..(Len(r) - 1) : ~(r[m] = Telnet!IAC /\ r[m + 1] = Telnet!SE)
    <3>1. n + j \in Nat \ {0} /\ n + j <= Len(data) + 1
      BY <1>1, <1>3
    <3>2. ASSUME NEW k \in (n + j)..(Len(data) - 1), data[k] = Telnet!IAC, data[k + 1] = Telnet!SE
          PROVE  FALSE
      <4>1. PICK m \in j..(Len(r) - 1) : k = n + m
        <5>1. k - n \in j..(Len(r) - 1) /\ k = n + (k - n)
          BY <1>1, <1>3
        <5> QED
          BY <5>1
      <4>2. m \in 1..Len(r) /\ m + 1 \in 1..Len(r) /\ k + 1 = n + (m + 1)
        BY <1>1, <1>3, <4>1
      <4>3. r[m] = Telnet!IAC /\ r[m + 1] = Telnet!SE
        BY <1>1, <3>2, <4>1, <4>2
      <4> QED
        BY <2>1, <4>1, <4>3
    <3>3. Telnet!AfterFrame(data, n + j) = Len(data) + 1
      BY <1>1, <3>1, <3>2, TelnetAfter
    <3> QED
      BY <1>1, <1>3, <2>1, <3>3
  <2>2. CASE \E k \in j..(Len(r) - 1) :
               /\ r[k] = Telnet!IAC /\ r[k + 1] = Telnet!SE
               /\ \A m \in j..(k - 1) : ~(r[m] = Telnet!IAC /\ r[m + 1] = Telnet!SE)
               /\ Telnet!AfterFrame(r, j) = k + 2
    <3>1. PICK k \in j..(Len(r) - 1) :
            /\ r[k] = Telnet!IAC /\ r[k + 1] = Telnet!SE
            /\ \A m \in j..(k - 1) : ~(r[m] = Telnet!IAC /\ r[m + 1] = Telnet!SE)
            /\ Telnet!AfterFrame(r, j) = k + 2
      BY <2>2
    <3>2. /\ k \in 1..Len(r) /\ k + 1 \in 1..Len(r) /\ k \in Nat /\ n + k \in Nat
          /\ n + j \in Nat \ {0} /\ n + j <= n + k /\ n + k < Len(data)
          /\ (n + k) + 1 = n + (k + 1)
      BY <1>1, <1>3
    <3>3. data[n + k] = Telnet!IAC /\ data[(n + k) + 1] = Telnet!SE
      BY <1>1, <3>1, <3>2
    <3>4. ASSUME NEW m \in (n + j)..((n + k) - 1)
          PROVE  ~(data[m] = Telnet!IAC /\ data[m + 1] = Telnet!SE)
      <4>1. /\ m - n \in j..(k - 1) /\ m - n \in 1..Len(r) /\ (m - n) + 1 \in 1..Len(r)
            /\ m = n + (m - n) /\ m + 1 = n + ((m - n) + 1)
        BY <1>1, <1>3, <3>2
      <4>2. data[m] = r[m - n] /\ data[m + 1] = r[(m - n) + 1]
        BY <1>1, <4>1
      <4> QED
        BY <3>1, <4>1, <4>2
    <3>5. Telnet!AfterFrame(data, n + j) = (n + k) + 2
      BY <1>1, <3>2, <3>3, <3>4, TelnetIsEnd
    <3> QED
      BY <1>1, <1>3, <3>1, <3>2, <3>5
  <2> QED
    BY <1>3, <2>1, <2>2, TelnetAfter
<1>4. ASSUME NEW i \in D, \A j \in D : measure[j] < measure[i] => H[j] = G[j]
      PROVE  H[i] = G[i]
  <2>1. /\ i \in Nat \ {0} /\ n + i \in 1..(Len(data) + 3) /\ H[i] = F[n + i]
        /\ (n + i > Len(data) <=> i > Len(r)) /\ (n + i = Len(data) <=> i = Len(r))
    <3>1. i \in Nat \ {0} /\ i <= Len(r) + 3 /\ H[i] = F[n + i]
      BY <1>1
    <3> HIDE DEF H, D, measure, top
    <3>2. n \in Nat /\ Len(r) \in Nat /\ Len(data) = n + Len(r)
      BY <1>1
    <3>3. n + i \in 1..(Len(data) + 3)
      BY <3>1, <3>2
    <3>4. n + i > Len(data) <=> i > Len(r)
      BY <3>1, <3>2
    <3>5. n + i = Len(data) <=> i = Len(r)
      BY <3>1, <3>2
    <3> QED
      BY <3>1, <3>3, <3>4, <3>5
  <2>2. \A j \in D : i < j => F[n + j] = G[j]
    BY <1>1, <1>4
  <2>3. CASE i > Len(r)
    BY <1>2, <2>1, <2>3 DEF TelnetRest
  <2>4. CASE i <= Len(r)
    <3>1. /\ data[n + i] = r[i] /\ ~(i > Len(r)) /\ ~(n + i > Len(data))
          /\ i + 1 \in D /\ i + 2 \in D /\ i + 3 \in D /\ i < i + 1 /\ i < i + 2 /\ i < i + 3
          /\ (n + i) + 1 = n + (i + 1) /\ (n + i) + 2 = n + (i + 2) /\ (n + i) + 3 = n + (i + 3)
      BY <1>1, <2>1, <2>4
    <3>2. F[(n + i) + 1] = G[i + 1] /\ F[(n + i) + 2] = G[i + 2] /\ F[(n + i) + 3] = G[i + 3]
      BY SMTT(30), <2>2, <3>1
    <3>3. i # Len(r) => /\ data[(n + i) + 1] = r[i + 1]
                        /\ F[Telnet!AfterFrame(data, (n + i) + 2)] = G[Telnet!AfterFrame(r, i + 2)]
      <4> SUFFICES ASSUME i # Len(r)
                   PROVE  /\ data[(n + i) + 1] = r[i + 1]
                          /\ F[Telnet!AfterFrame(data, (n + i) + 2)] = G[Telnet!AfterFrame(r, i + 2)]
        OBVIOUS
      <4>1. i + 1 \in 1..Len(r) /\ i + 2 \in Nat \ {0} /\ i + 2 <= Len(r) + 1
        BY <1>1, <2>1, <2>4
      <4>2. /\ Telnet!AfterFrame(data, n + (i + 2)) = n + Telnet!AfterFrame(r, i + 2)
            /\ Telnet!AfterFrame(r, i + 2) \in (i + 2)..(Len(r) + 1)
        BY <1>3, <4>1
      <4>3. Telnet!AfterFrame(r, i + 2) \in D /\ i < Telnet!AfterFrame(r, i + 2)
        BY <1>1, <2>1, <4>2
      <4> QED
        BY SMTT(30), <1>1, <2>2, <3>1, <4>1, <4>2, <4>3
    <3>4. F[n + i] = TelnetRest(data, F, n + i) /\ G[i] = TelnetRest(r, G, i)
      BY <1>2, <2>1
    <3> HIDE DEF D, top, H, measure
    <3>5. TelnetRest(data, F, n + i) = TelnetRest(r, G, i)
      BY <2>1, <3>1, <3>2, <3>3 DEF TelnetRest
    <3> QED
      BY <2>1, <3>4, <3>5
  <2> QED
    BY <1>1, <2>1, <2>3, <2>4
<1>5. SameByMeasure(D, measure, H, G)
  <2>1. measure \in [D -> Nat]
    BY <1>1
  <2> HIDE DEF D, measure, H
  <2> QED
    BY <1>4, <2>1 DEF SameByMeasure
<1>6. H[1] = G[1] /\ 1 \in D
  <2>1. 1 \in D
    BY <1>1
  <2> HIDE DEF D, measure, H
  <2> QED
    BY <1>5, <2>1, SameThroughout
<1>7. H[1] = F[n + 1]
  BY <1>6
<1> QED
  BY <1>6, <1>7 DEF n

\* What escape_iac makes of the first n bytes of a body, and what it puts for one.
TelnetWindows(body, e, n) ==
  /\ e \in Seq(TelnetBytes)
  /\ n = 0 => Len(e) = 0
  /\ n # 0 => Len(e) # 0 /\ e[Len(e)] = body[n]
  /\ \A k \in 1..(Len(e) - 1) :
       e[k] = "IAC" /\ e[k + 1] # "IAC" =>
         \E m \in 1..(n - 1) :
           /\ body[m] = "IAC" /\ body[m + 1] = e[k + 1]
           /\ \/ k + 1 = Len(e) /\ m + 1 = n
              \/ k + 2 <= Len(e) /\ m + 2 <= n /\ e[k + 2] = body[m + 2]

LEMMA TelnetWindow ==
  ASSUME NEW body \in Seq(TelnetBytes), NEW n \in Nat, n + 1 <= Len(body), NEW e,
         TelnetWindows(body, e, n),
         NEW t, t = IF body[n + 1] = "IAC" THEN <<"IAC", "IAC">> ELSE <<body[n + 1]>>
  PROVE  TelnetWindows(body, e \o t, n + 1)
<1> DEFINE b == body[n + 1]
           new == e \o t
           L == Len(e)
<1>1. /\ e \in Seq(TelnetBytes) /\ L \in Nat
      /\ n = 0 => L = 0
      /\ n # 0 => L # 0 /\ e[L] = body[n]
  BY DEF TelnetWindows
<1>2. n + 1 \in 1..Len(body) /\ b \in TelnetBytes
  OBVIOUS
<1>3. /\ t \in Seq(TelnetBytes) /\ t[1] = b /\ Len(t) \in {1, 2}
      /\ Len(t) = 2 => t[2] = "IAC" /\ b = "IAC"
      /\ Len(t) = 1 => b # "IAC"
  BY <1>2
<1> HIDE DEF b
<1>4. /\ new \in Seq(TelnetBytes) /\ Len(new) = L + Len(t) /\ new[L + 1] = b
      /\ Len(t) = 2 => new[L + 2] = "IAC"
      /\ \A k \in 1..L : new[k] = e[k]
  BY <1>1, <1>3
<1>5. Len(new) # 0 /\ new[Len(new)] = b
  BY <1>1, <1>3, <1>4
<1>6. ASSUME NEW k \in 1..(Len(new) - 1), new[k] = "IAC", new[k + 1] # "IAC"
      PROVE  \E m \in 1..n :
               /\ body[m] = "IAC" /\ body[m + 1] = new[k + 1]
               /\ \/ k + 1 = Len(new) /\ m + 1 = n + 1
                  \/ k + 2 <= Len(new) /\ m + 2 <= n + 1 /\ new[k + 2] = body[m + 2]
  <2> HIDE DEF new, L
  <2>1. CASE k <= L - 1
    <3>1. k \in 1..(L - 1) /\ k \in 1..L /\ k + 1 \in 1..L /\ k \in Nat
      BY <1>1, <1>4, <2>1
    <3>2. e[k] = "IAC" /\ e[k + 1] = new[k + 1] /\ new[k + 1] # "IAC"
      BY <1>4, <1>6, <3>1
    <3>3. PICK m \in 1..(n - 1) :
            /\ body[m] = "IAC" /\ body[m + 1] = e[k + 1]
            /\ \/ k + 1 = L /\ m + 1 = n
               \/ k + 2 <= L /\ m + 2 <= n /\ e[k + 2] = body[m + 2]
      BY <3>1, <3>2 DEF TelnetWindows, L
    <3>4. CASE k + 1 = L /\ m + 1 = n
      <4>1. /\ m \in 1..n /\ k + 2 = L + 1 /\ m + 2 = n + 1
            /\ k + 2 <= Len(new) /\ m + 2 <= n + 1
        BY <1>1, <1>3, <1>4, <3>1, <3>4
      <4>2. new[k + 2] = body[m + 2]
        BY <1>4, <4>1 DEF b
      <4> QED
        BY <3>2, <3>3, <4>1, <4>2
    <3>5. CASE k + 2 <= L /\ m + 2 <= n /\ e[k + 2] = body[m + 2]
      <4>1. m \in 1..n /\ k + 2 \in 1..L /\ k + 2 <= Len(new) /\ m + 2 <= n + 1
        BY <1>1, <1>3, <1>4, <3>1, <3>5
      <4>2. new[k + 2] = body[m + 2]
        BY <1>4, <3>5, <4>1
      <4> QED
        BY <3>2, <3>3, <4>1, <4>2
    <3> QED
      BY <3>3, <3>4, <3>5
  <2>2. CASE k = L
    <3>1. L # 0 /\ n # 0 /\ k \in 1..L /\ n \in 1..n
      BY <1>1, <2>2
    <3>2. body[n] = "IAC" /\ new[k + 1] = b
      BY <1>1, <1>4, <1>6, <2>2, <3>1
    <3>3. Len(t) = 1
      BY <1>3, <1>6, <3>2
    <3>4. k + 1 = Len(new)
      BY <1>1, <1>4, <2>2, <3>3
    <3> QED
      BY <3>1, <3>2, <3>4 DEF b
  <2>3. CASE k = L + 1
    <3>1. Len(t) = 2 /\ k + 1 = L + 2
      BY <1>1, <1>3, <1>4, <2>3
    <3> QED
      BY <1>4, <1>6, <3>1
  <2> QED
    BY <1>1, <1>3, <1>4, <2>1, <2>2, <2>3
<1>7. n + 1 # 0 /\ (n + 1) - 1 = n
  OBVIOUS
<1> HIDE DEF new, L
<1>8. TelnetWindows(body, new, n + 1)
  BY <1>4, <1>5, <1>6, <1>7 DEF TelnetWindows, b
<1> QED
  BY <1>8 DEF new

LEMMA TelnetEscaped ==
  ASSUME NEW body \in Seq(TelnetBytes)
  PROVE  TelnetWindows(body, Telnet!EscapeIac(body), Len(body))
<1> DEFINE top == Len(body)
           seqs == [i \in DOMAIN body |-> IF body[i] = "IAC" THEN <<"IAC", "IAC">> ELSE <<body[i]>>]
<1>1. top \in Nat /\ \A i \in 1..top : body[i] \in TelnetBytes
  OBVIOUS
<1>2. seqs \in Seq(Seq(TelnetBytes)) /\ Len(seqs) = top
  <2>1. "IAC" \in TelnetBytes
    BY DEF TelnetBytes
  <2>2. \A i \in 1..top : seqs[i] \in Seq(TelnetBytes)
    BY <1>1, <2>1
  <2>3. DOMAIN seqs = 1..top /\ seqs = [i \in 1..top |-> seqs[i]]
    OBVIOUS
  <2> HIDE DEF seqs, top
  <2> QED
    BY <1>1, <2>2, <2>3
<1>3. \A i \in 1..top : seqs[i] = IF body[i] = "IAC" THEN <<"IAC", "IAC">> ELSE <<body[i]>>
  OBVIOUS
<1>4. Telnet!EscapeIac(body) = Flattened(seqs)
  BY DEF Telnet!EscapeIac, Telnet!FlattenSeq, Flattened, Telnet!IAC
<1> HIDE DEF seqs, top
<1>5. PICK flat \in [0..top -> Seq(TelnetBytes)] : Flattening(seqs, flat)
  BY <1>2, FlatOf
<1>6. /\ flat[0] = <<>> /\ flat[top] = Telnet!EscapeIac(body)
      /\ \A i \in 1..top : flat[i] = flat[i - 1] \o seqs[i]
  BY <1>2, <1>4, <1>5 DEF Flattening
<1> DEFINE S == {n \in Nat : n <= top => TelnetWindows(body, flat[n], n)}
<1>7. 0 \in S
  <2>1. <<>> \in Seq(TelnetBytes) /\ Len(<<>>) = 0 /\ 1..(0 - 1) = {}
    OBVIOUS
  <2> QED
    BY <1>6, <2>1 DEF TelnetWindows
<1>8. ASSUME NEW n \in S PROVE n + 1 \in S
  <2> SUFFICES ASSUME n + 1 <= top PROVE TelnetWindows(body, flat[n + 1], n + 1)
    OBVIOUS
  <2>1. n \in Nat /\ n <= top /\ n + 1 \in 1..top /\ (n + 1) - 1 = n
    BY <1>1
  <2>2. TelnetWindows(body, flat[n], n)
    BY <2>1
  <2>3. flat[n + 1] = flat[n] \o seqs[n + 1]
    BY <1>6, <2>1
  <2>4. seqs[n + 1] = IF body[n + 1] = "IAC" THEN <<"IAC", "IAC">> ELSE <<body[n + 1]>>
    BY <1>3, <2>1
  <2>5. TelnetWindows(body, flat[n] \o seqs[n + 1], n + 1)
    BY <2>1, <2>2, <2>4, TelnetWindow DEF top
  <2> QED
    BY <2>3, <2>5
<1>9. top \in S
  <2>1. S \in SUBSET Nat
    OBVIOUS
  <2> HIDE DEF S
  <2> QED
    BY <1>1, <1>7, <1>8, <2>1, Induction
<1> QED
  BY <1>6, <1>9 DEF top

\* What the peer sends at a time: no verb begins it, no command is open at its end,
\* and t is the text there is in it, whatever comes next.
TelnetPiece(piece, t) ==
  /\ piece \in Seq(TelnetBytes) /\ t \in Seq(TelnetBytes) /\ Len(piece) # 0
  /\ piece[1] \notin Telnet!Verbs
  /\ Len(piece) > 1 => piece[Len(piece) - 1] # "IAC" \/ piece[Len(piece)] \notin Telnet!Verbs
  /\ \A rest \in Seq(TelnetBytes) : Telnet!StripIac(piece \o rest) = t \o Telnet!StripIac(rest)

LEMMA TelnetBytesDiffer ==
  /\ Telnet!IAC = "IAC" /\ Telnet!SB = "SB" /\ Telnet!SE = "SE"
  /\ Telnet!Verbs = {"WILL", "WONT", "DO", "DONT"}
  /\ Telnet!Verbs \subseteq TelnetBytes /\ Texts \subseteq TelnetBytes /\ Options \subseteq TelnetBytes
  /\ "IAC" \in TelnetBytes /\ "SB" \in TelnetBytes /\ "SE" \in TelnetBytes /\ "NOP" \in TelnetBytes
  /\ \A b \in Texts : b # "IAC" /\ b \notin Telnet!Verbs
BY TelnetAssumption DEF TelnetBytes, Telnet!IAC, Telnet!SB, Telnet!SE, Telnet!Verbs

\* What is stripped of some bytes is what the scan makes of their beginning, and
\* then of the rest.
LEMMA TelnetStripped ==
  ASSUME NEW piece \in Seq(TelnetBytes), NEW rest \in Seq(TelnetBytes)
  PROVE  \E F : /\ TelnetScan(piece \o rest, F) /\ Telnet!StripIac(piece \o rest) = F[1]
                /\ F[Len(piece) + 1] = Telnet!StripIac(rest)
                /\ Telnet!StripIac(rest) \in Seq(TelnetBytes)
<1>1. piece \o rest \in Seq(TelnetBytes)
  OBVIOUS
<1>2. PICK F : TelnetScan(piece \o rest, F) /\ Telnet!StripIac(piece \o rest) = F[1]
  BY <1>1, TelnetScans
<1>3. PICK G : TelnetScan(rest, G) /\ Telnet!StripIac(rest) = G[1]
  BY TelnetScans
<1>4. F[Len(piece) + 1] = G[1]
  BY <1>2, <1>3, TelnetBehind
<1>5. G[1] \in Seq(TelnetBytes)
  <2>1. 1 \in 1..(Len(rest) + 3)
    OBVIOUS
  <2> QED
    BY <1>3, <2>1 DEF TelnetScan
<1> QED
  BY <1>2, <1>3, <1>4, <1>5

LEMMA TelnetTextPiece ==
  ASSUME NEW b \in Texts
  PROVE  TelnetPiece(<<b>>, <<b>>)
<1> DEFINE piece == <<b>>
<1>1. b \in TelnetBytes /\ b # "IAC" /\ b \notin Telnet!Verbs
  BY TelnetBytesDiffer
<1>2. piece \in Seq(TelnetBytes) /\ Len(piece) = 1 /\ piece[1] = b
  BY <1>1
<1>3. ASSUME NEW rest \in Seq(TelnetBytes)
      PROVE  Telnet!StripIac(piece \o rest) = <<b>> \o Telnet!StripIac(rest)
  <2> DEFINE data == piece \o rest
  <2>1. PICK F : /\ TelnetScan(data, F) /\ Telnet!StripIac(data) = F[1]
                 /\ F[2] = Telnet!StripIac(rest)
    <3> HIDE DEF piece
    <3>1. Len(piece) + 1 = 2
      BY <1>2
    <3> QED
      BY <1>2, <3>1, TelnetStripped
  <2>2. data \in Seq(TelnetBytes) /\ Len(data) = 1 + Len(rest) /\ data[1] = b /\ Len(rest) \in Nat
    BY <1>2
  <2> HIDE DEF data, piece
  <2>3. 1 \in 1..(Len(data) + 3) /\ ~(1 > Len(data)) /\ 1 + 1 = 2
    BY <2>2
  <2>4. F[1] = TelnetRest(data, F, 1)
    BY <2>1, <2>3 DEF TelnetScan
  <2>5. F[1] = <<b>> \o F[2]
    BY <1>1, <2>2, <2>3, <2>4, TelnetBytesDiffer DEF TelnetRest
  <2> QED
    BY <2>1, <2>5 DEF data
<1> HIDE DEF piece
<1>4. TelnetPiece(piece, <<b>>)
  BY <1>1, <1>2, <1>3 DEF TelnetPiece, piece
<1> QED
  BY <1>4 DEF piece

\* A command of two bytes or three: what it is stripped to, and what is left.
LEMMA TelnetShortPiece ==
  ASSUME NEW c, NEW piece, NEW t,
         \/ c = "IAC" /\ piece = <<"IAC", c>> /\ t = <<"IAC">>
         \/ c = "NOP" /\ piece = <<"IAC", c>> /\ t = <<>>
         \/ c \in Telnet!Verbs /\ (\E option \in Options : piece = <<"IAC", c, option>>) /\ t = <<>>
  PROVE  TelnetPiece(piece, t)
<1>1. /\ piece \in Seq(TelnetBytes) /\ t \in Seq(TelnetBytes)
      /\ Len(piece) = (IF c \in Telnet!Verbs THEN 3 ELSE 2) /\ piece[1] = "IAC" /\ piece[2] = c
      /\ c # "SB"
  <2>1. CASE c = "IAC" /\ piece = <<"IAC", c>> /\ t = <<"IAC">>
    BY <2>1, TelnetBytesDiffer
  <2>2. CASE c = "NOP" /\ piece = <<"IAC", c>> /\ t = <<>>
    BY <2>2, TelnetBytesDiffer
  <2>3. CASE c \in Telnet!Verbs /\ (\E option \in Options : piece = <<"IAC", c, option>>) /\ t = <<>>
    <3>1. PICK option \in Options : piece = <<"IAC", c, option>>
      BY <2>3
    <3>2. c \in TelnetBytes /\ option \in TelnetBytes /\ "IAC" \in TelnetBytes /\ c # "SB"
      BY <2>3, TelnetBytesDiffer
    <3> QED
      BY <2>3, <3>1, <3>2
  <2> QED
    BY <2>1, <2>2, <2>3
<1>2. ASSUME NEW rest \in Seq(TelnetBytes)
      PROVE  Telnet!StripIac(piece \o rest) = t \o Telnet!StripIac(rest)
  <2> DEFINE data == piece \o rest
  <2>1. PICK F : /\ TelnetScan(data, F) /\ Telnet!StripIac(data) = F[1]
                 /\ F[Len(piece) + 1] = Telnet!StripIac(rest)
                 /\ Telnet!StripIac(rest) \in Seq(TelnetBytes)
    BY <1>1, TelnetStripped
  <2>2. /\ Len(data) = Len(piece) + Len(rest) /\ Len(rest) \in Nat
        /\ data[1] = "IAC" /\ data[2] = c /\ Len(piece) \in {2, 3}
    <3>1. Len(piece) \in {2, 3}
      BY <1>1
    <3>2. Len(data) = Len(piece) + Len(rest) /\ Len(rest) \in Nat
      BY <1>1, Joined
    <3>3. data[1] = piece[1] /\ data[2] = piece[2]
      BY <1>1, <3>1
    <3> QED
      BY <1>1, <3>1, <3>2, <3>3
  <2> HIDE DEF data
  <2>3. 1 \in 1..(Len(data) + 3) /\ ~(1 > Len(data)) /\ 1 # Len(data)
    BY SMTT(30), <2>2
  <2>4. F[1] = TelnetRest(data, F, 1)
    BY <2>1, <2>3 DEF TelnetScan
  <2>5. F[1] = IF c = "IAC" THEN <<"IAC">> \o F[3] ELSE IF c \in Telnet!Verbs THEN F[4] ELSE F[3]
    BY <1>1, <2>2, <2>3, <2>4, TelnetBytesDiffer DEF TelnetRest
  <2>6. F[1] = t \o F[Len(piece) + 1]
    <3>1. F[Len(piece) + 1] = IF c \in Telnet!Verbs THEN F[4] ELSE F[3]
      BY <1>1
    <3>2. <<>> \o Telnet!StripIac(rest) = Telnet!StripIac(rest)
      BY <2>1
    <3> QED
      BY <1>1, <2>1, <2>5, <3>1, <3>2, TelnetBytesDiffer
  <2> QED
    BY <2>1, <2>6 DEF data
<1>3. /\ piece[1] \notin Telnet!Verbs
      /\ piece[Len(piece) - 1] # "IAC" \/ piece[Len(piece)] \notin Telnet!Verbs
  BY <1>1, TelnetBytesDiffer
<1> QED
  BY <1>1, <1>2, <1>3 DEF TelnetPiece

TelnetFrame(body) == <<"IAC", "SB">> \o Telnet!EscapeIac(body) \o <<"IAC", "SE">>

LEMMA TelnetBody ==
  ASSUME NEW body \in Bodies
  PROVE  /\ body \in Seq(TelnetBytes)
         /\ \A i \in 1..(Len(body) - 1) : body[i] = "IAC" => body[i + 1] # "SE"
         /\ \A option \in Options : Telnet!Replies(Append(body, "IAC"), option) = {}
<1>1. /\ body \in Seq({body[i] : i \in DOMAIN body})
      /\ \A i \in 1..(Len(body) - 1) : body[i] = "IAC" => body[i + 1] # "SE"
      /\ \A option \in Options : Telnet!Replies(Append(body, "IAC"), option) = {}
  BY TelnetAssumption DEF Telnet!IAC, Telnet!SE
<1>2. \A i \in 1..Len(body) : body[i] \in TelnetBytes
  BY <1>1 DEF TelnetBytes
<1>3. body \in Seq(TelnetBytes)
  BY <1>1, <1>2
<1> QED
  BY <1>1, <1>3

LEMMA TelnetFrameBytes ==
  ASSUME NEW body \in Bodies, NEW e, e = Telnet!EscapeIac(body)
  PROVE  /\ TelnetWindows(body, e, Len(body)) /\ e \in Seq(TelnetBytes) /\ Len(e) \in Nat
         /\ TelnetFrame(body) \in Seq(TelnetBytes) /\ Len(TelnetFrame(body)) = Len(e) + 4
         /\ TelnetFrame(body)[1] = "IAC" /\ TelnetFrame(body)[2] = "SB"
         /\ \A i \in 1..Len(e) : TelnetFrame(body)[2 + i] = e[i]
         /\ TelnetFrame(body)[Len(e) + 3] = "IAC" /\ TelnetFrame(body)[Len(e) + 4] = "SE"
<1>1. TelnetWindows(body, e, Len(body))
  BY TelnetBody, TelnetEscaped
<1>2. e \in Seq(TelnetBytes) /\ Len(e) \in Nat
  BY <1>1 DEF TelnetWindows
<1> DEFINE head == <<"IAC", "SB">>
           tail == <<"IAC", "SE">>
           front == head \o e
<1>3. /\ head \in Seq(TelnetBytes) /\ tail \in Seq(TelnetBytes) /\ Len(head) = 2 /\ Len(tail) = 2
      /\ head[1] = "IAC" /\ head[2] = "SB" /\ tail[1] = "IAC" /\ tail[2] = "SE"
  BY TelnetBytesDiffer
<1> HIDE DEF head, tail
<1>4. /\ front \in Seq(TelnetBytes) /\ Len(front) = 2 + Len(e)
      /\ front[1] = "IAC" /\ front[2] = "SB"
      /\ \A i \in 1..Len(e) : front[2 + i] = e[i]
  <2>1. /\ front \in Seq(TelnetBytes) /\ Len(front) = Len(head) + Len(e)
        /\ \A i \in 1..Len(head) : front[i] = head[i]
        /\ \A i \in 1..Len(e) : front[Len(head) + i] = e[i]
    <3>1. head \in Seq(TelnetBytes) /\ e \in Seq(TelnetBytes) /\ front = head \o e
      BY <1>2, <1>3
    <3> HIDE DEF front
    <3> QED
      BY <3>1
  <2>2. 1 \in 1..Len(head) /\ 2 \in 1..Len(head)
    BY <1>3
  <2> HIDE DEF front
  <2> QED
    BY <1>3, <2>1, <2>2
<1> HIDE DEF front
<1> DEFINE frame == front \o tail
<1>5. /\ frame \in Seq(TelnetBytes) /\ Len(frame) = Len(front) + 2
      /\ \A i \in 1..Len(front) : frame[i] = front[i]
      /\ frame[Len(front) + 1] = "IAC" /\ frame[Len(front) + 2] = "SE"
  <2>1. /\ frame \in Seq(TelnetBytes) /\ Len(frame) = Len(front) + Len(tail)
        /\ \A i \in 1..Len(front) : frame[i] = front[i]
        /\ \A i \in 1..Len(tail) : frame[Len(front) + i] = tail[i]
    <3>1. front \in Seq(TelnetBytes) /\ tail \in Seq(TelnetBytes) /\ frame = front \o tail
      BY <1>3, <1>4
    <3> HIDE DEF frame
    <3> QED
      BY <3>1
  <2>2. 1 \in 1..Len(tail) /\ 2 \in 1..Len(tail)
    BY <1>3
  <2> HIDE DEF frame
  <2> QED
    BY <1>3, <2>1, <2>2
<1>6. TelnetFrame(body) = frame
  BY DEF TelnetFrame, front, head, tail
<1> HIDE DEF frame
<1>7. /\ Len(frame) = Len(e) + 4 /\ frame[1] = "IAC" /\ frame[2] = "SB"
      /\ frame[Len(e) + 3] = "IAC" /\ frame[Len(e) + 4] = "SE"
  <2>1. 1 \in 1..Len(front) /\ 2 \in 1..Len(front) /\ Len(front) + 1 = Len(e) + 3 /\ Len(front) + 2 = Len(e) + 4
    BY <1>2, <1>4
  <2> QED
    BY <1>4, <1>5, <2>1
<1>8. \A i \in 1..Len(e) : frame[2 + i] = e[i]
  <2>1. \A i \in 1..Len(e) : 2 + i \in 1..Len(front)
    BY <1>2, <1>4
  <2> QED
    BY <1>4, <1>5, <2>1
<1> QED
  BY <1>1, <1>2, <1>5, <1>6, <1>7, <1>8

LEMMA TelnetFramePiece ==
  ASSUME NEW body \in Bodies
  PROVE  TelnetPiece(TelnetFrame(body), <<>>)
<1> DEFINE e == Telnet!EscapeIac(body)
           piece == TelnetFrame(body)
<1>1. /\ TelnetWindows(body, e, Len(body)) /\ e \in Seq(TelnetBytes) /\ Len(e) \in Nat
      /\ piece \in Seq(TelnetBytes) /\ Len(piece) = Len(e) + 4 /\ piece[1] = "IAC" /\ piece[2] = "SB"
      /\ \A i \in 1..Len(e) : piece[2 + i] = e[i]
      /\ piece[Len(e) + 3] = "IAC" /\ piece[Len(e) + 4] = "SE"
  BY TelnetFrameBytes
<1>2. \A k \in 1..(Len(e) - 1) : ~(e[k] = "IAC" /\ e[k + 1] = "SE")
  BY <1>1, TelnetBody DEF TelnetWindows
<1> HIDE DEF e, piece
<1>3. ASSUME NEW m \in 3..(Len(e) + 2), piece[m] = "IAC", piece[m + 1] = "SE"
      PROVE  FALSE
  <2>1. PICK k \in 1..Len(e) : m = 2 + k
    <3>1. m - 2 \in 1..Len(e) /\ m = 2 + (m - 2)
      BY <1>1
    <3> QED
      BY <3>1
  <2>2. e[k] = "IAC"
    BY <1>1, <1>3, <2>1
  <2>3. k # Len(e)
    <3>1. k = Len(e) => m + 1 = Len(e) + 3
      BY <1>1, <2>1
    <3> QED
      BY <1>1, <1>3, <3>1
  <2>4. k \in 1..(Len(e) - 1) /\ k + 1 \in 1..Len(e) /\ m + 1 = 2 + (k + 1)
    BY <1>1, <2>1, <2>3
  <2>5. e[k + 1] = "SE"
    BY <1>1, <1>3, <2>4
  <2> QED
    BY <1>2, <2>2, <2>4, <2>5
<1>4. ASSUME NEW rest \in Seq(TelnetBytes)
      PROVE  Telnet!StripIac(piece \o rest) = <<>> \o Telnet!StripIac(rest)
  <2> DEFINE data == piece \o rest
  <2>1. PICK F : /\ TelnetScan(data, F) /\ Telnet!StripIac(data) = F[1]
                 /\ F[Len(piece) + 1] = Telnet!StripIac(rest)
                 /\ Telnet!StripIac(rest) \in Seq(TelnetBytes)
    BY <1>1, TelnetStripped
  <2>2. /\ data \in Seq(TelnetBytes) /\ Len(data) = Len(piece) + Len(rest) /\ Len(rest) \in Nat
        /\ \A i \in 1..Len(piece) : data[i] = piece[i]
    <3>1. piece \in Seq(TelnetBytes)
      BY <1>1
    <3> QED
      BY <3>1, Joined, Zenon
  <2> HIDE DEF data
  <2>3. /\ Len(data) \in Nat /\ Len(e) + 4 <= Len(data)
        /\ data[1] = "IAC" /\ data[2] = "SB" /\ data[Len(e) + 3] = "IAC" /\ data[Len(e) + 4] = "SE"
        /\ \A m \in 3..(Len(e) + 2) : data[m] = piece[m] /\ data[m + 1] = piece[m + 1]
    BY <1>1, <2>2
  <2>4. Telnet!AfterFrame(data, 3) = Len(e) + 5
    <3> DEFINE k == Len(e) + 3
    <3>1. /\ k \in Nat /\ 3 \in Nat \ {0} /\ 3 <= k /\ k < Len(data)
          /\ data[k] = Telnet!IAC /\ data[k + 1] = Telnet!SE
          /\ k - 1 = Len(e) + 2 /\ k + 1 = Len(e) + 4 /\ k + 2 = Len(e) + 5
      BY <1>1, <2>3, TelnetBytesDiffer
    <3> HIDE DEF k
    <3>2. \A m \in 3..(k - 1) : ~(data[m] = Telnet!IAC /\ data[m + 1] = Telnet!SE)
      BY <1>3, <2>3, <3>1, TelnetBytesDiffer
    <3>3. Telnet!AfterFrame(data, 3) = k + 2
      BY <2>2, <3>1, <3>2, TelnetIsEnd
    <3> QED
      BY <3>1, <3>3
  <2>5. 1 \in 1..(Len(data) + 3) /\ ~(1 > Len(data)) /\ 1 # Len(data) /\ 1 + 1 = 2 /\ 1 + 2 = 3
    BY <1>1, <2>3
  <2>6. F[1] = TelnetRest(data, F, 1)
    BY <2>1, <2>5 DEF TelnetScan
  <2>7. F[1] = F[Telnet!AfterFrame(data, 3)]
    BY <2>3, <2>5, <2>6, TelnetBytesDiffer DEF TelnetRest
  <2>8. Len(e) + 5 = Len(piece) + 1
    BY <1>1
  <2> QED
    BY <2>1, <2>4, <2>7, <2>8 DEF data
<1>5. Len(piece) # 0 /\ piece[1] \notin Telnet!Verbs /\ piece[Len(piece)] \notin Telnet!Verbs
  BY <1>1, TelnetBytesDiffer
<1>6. TelnetPiece(piece, <<>>)
  BY <1>1, <1>4, <1>5 DEF TelnetPiece
<1> QED
  BY <1>6 DEF piece

\* A frame holds no reply,
LEMMA TelnetFrameReplies ==
  ASSUME NEW body \in Bodies, NEW option \in Options
  PROVE  Telnet!Replies(TelnetFrame(body), option) = {}
<1> DEFINE e == Telnet!EscapeIac(body)
           piece == TelnetFrame(body)
           more == Append(body, "IAC")
<1>1. /\ TelnetWindows(body, e, Len(body)) /\ e \in Seq(TelnetBytes) /\ Len(e) \in Nat
      /\ piece \in Seq(TelnetBytes) /\ Len(piece) = Len(e) + 4 /\ piece[1] = "IAC" /\ piece[2] = "SB"
      /\ \A i \in 1..Len(e) : piece[2 + i] = e[i]
      /\ piece[Len(e) + 3] = "IAC" /\ piece[Len(e) + 4] = "SE"
  BY TelnetFrameBytes
<1>2. /\ body \in Seq(TelnetBytes) /\ Len(body) \in Nat
      /\ Len(more) = Len(body) + 1 /\ more[Len(body) + 1] = "IAC"
      /\ \A i \in 1..Len(body) : more[i] = body[i]
      /\ Telnet!Replies(more, option) = {}
  BY TelnetBody
<1> HIDE DEF e, piece, more
<1>3. ASSUME NEW m \in 1..(Len(body) - 1), body[m] = "IAC", body[m + 1] \in Telnet!Verbs
      PROVE  more[m + 2] # option
  <2>1. /\ m \in 1..(Len(more) - 2) /\ m \in 1..Len(body) /\ m + 1 \in 1..Len(body)
    BY <1>2
  <2>2. more[m] = Telnet!IAC /\ more[m + 1] \in Telnet!Verbs
    BY <1>2, <1>3, <2>1, TelnetBytesDiffer
  <2> QED
    BY <1>2, <2>1, <2>2 DEF Telnet!Replies
<1>4. ASSUME NEW i \in 1..(Len(piece) - 2), piece[i] = "IAC", piece[i + 1] \in Telnet!Verbs,
             piece[i + 2] = option
      PROVE  FALSE
  <2>1. i # 1 /\ i # 2 /\ i \in Nat
    BY <1>1, <1>4, TelnetBytesDiffer
  <2>2. PICK k \in 1..Len(e) : i = 2 + k
    <3>1. i - 2 \in 1..Len(e) /\ i = 2 + (i - 2)
      BY <1>1, <2>1
    <3> QED
      BY <3>1
  <2>3. k # Len(e)
    <3>1. k = Len(e) => i + 1 = Len(e) + 3
      BY <1>1, <2>2
    <3> QED
      BY <1>1, <1>4, <3>1, TelnetBytesDiffer
  <2>4. k \in 1..(Len(e) - 1) /\ k + 1 \in 1..Len(e) /\ i + 1 = 2 + (k + 1) /\ i + 2 = 2 + (k + 2)
    BY <1>1, <2>2, <2>3
  <2>5. e[k] = "IAC" /\ e[k + 1] \in Telnet!Verbs /\ e[k + 1] # "IAC"
    BY <1>1, <1>4, <2>2, <2>4, TelnetBytesDiffer
  <2>6. PICK m \in 1..(Len(body) - 1) :
          /\ body[m] = "IAC" /\ body[m + 1] = e[k + 1]
          /\ \/ k + 1 = Len(e) /\ m + 1 = Len(body)
             \/ k + 2 <= Len(e) /\ m + 2 <= Len(body) /\ e[k + 2] = body[m + 2]
    BY <1>1, <2>4, <2>5 DEF TelnetWindows
  <2>7. more[m + 2] # option
    BY <1>3, <2>5, <2>6
  <2>8. CASE k + 1 = Len(e) /\ m + 1 = Len(body)
    <3>1. i + 2 = Len(e) + 3 /\ m + 2 = Len(body) + 1
      BY <1>1, <1>2, <2>4, <2>8
    <3> QED
      BY <1>1, <1>2, <1>4, <2>7, <3>1
  <2>9. CASE k + 2 <= Len(e) /\ m + 2 <= Len(body) /\ e[k + 2] = body[m + 2]
    <3>1. k + 2 \in 1..Len(e) /\ m + 2 \in 1..Len(body)
      BY <1>1, <1>2, <2>4, <2>9
    <3> QED
      BY <1>1, <1>2, <1>4, <2>4, <2>7, <2>9, <3>1
  <2> QED
    BY <2>6, <2>8, <2>9
<1>5. Telnet!Replies(piece, option) = {}
  BY <1>4, TelnetBytesDiffer DEF Telnet!Replies
<1> QED
  BY <1>5 DEF piece

\* The last bytes open no negotiation,
TelnetSealed(bytes) ==
  Len(bytes) > 1 => bytes[Len(bytes) - 1] # "IAC" \/ bytes[Len(bytes)] \notin Telnet!Verbs

\* so that behind them the replies are those there were and those of what comes, and
LEMMA TelnetReplies ==
  ASSUME NEW before \in Seq(TelnetBytes), TelnetSealed(before), NEW piece, NEW t,
         TelnetPiece(piece, t), NEW option
  PROVE  /\ TelnetSealed(before \o piece)
         /\ Telnet!Replies(before \o piece, option) =
              Telnet!Replies(before, option) \cup {Len(before) + i : i \in Telnet!Replies(piece, option)}
<1> DEFINE data == before \o piece
           n == Len(before)
           Is(s, i) == s[i] = "IAC" /\ s[i + 1] \in Telnet!Verbs /\ s[i + 2] = option
<1>1. /\ piece \in Seq(TelnetBytes) /\ Len(piece) \in Nat \ {0} /\ piece[1] \notin Telnet!Verbs
      /\ Len(piece) > 1 => piece[Len(piece) - 1] # "IAC" \/ piece[Len(piece)] \notin Telnet!Verbs
  <2>1. piece \in Seq(TelnetBytes) /\ Len(piece) # 0
    BY DEF TelnetPiece
  <2> QED
    BY <2>1 DEF TelnetPiece
<1>2. /\ Len(data) = n + Len(piece) /\ n \in Nat
      /\ \A i \in 1..n : data[i] = before[i]
      /\ \A i \in 1..Len(piece) : data[n + i] = piece[i]
  <2>1. data = before \o piece
    OBVIOUS
  <2> HIDE DEF data
  <2> QED
    BY <1>1, <2>1
<1>3. n > 1 => before[n - 1] # "IAC" \/ before[n] \notin Telnet!Verbs
  BY DEF TelnetSealed
<1>4. \A s : Telnet!Replies(s, option) = {i \in 1..(Len(s) - 2) : Is(s, i)}
  BY DEF Telnet!Replies, Telnet!IAC
<1> HIDE DEF data, n
<1>5. TelnetSealed(data)
  <2>1. CASE Len(piece) = 1
    <3>1. Len(data) = n + 1 /\ 1 \in 1..Len(piece)
      BY <1>2, <2>1
    <3> QED
      BY <1>1, <1>2, <3>1 DEF TelnetSealed
  <2>2. CASE Len(piece) > 1
    <3>1. /\ Len(piece) \in 1..Len(piece) /\ Len(piece) - 1 \in 1..Len(piece)
          /\ Len(data) - 1 = n + (Len(piece) - 1)
      BY <1>1, <1>2, <2>2
    <3>2. data[Len(data) - 1] = piece[Len(piece) - 1] /\ data[Len(data)] = piece[Len(piece)]
      BY <1>2, <3>1
    <3> QED
      BY <1>1, <2>2, <3>2 DEF TelnetSealed
  <2>3. Len(piece) = 1 \/ Len(piece) > 1
    <3>1. \A p \in Nat \ {0} : p = 1 \/ p > 1
      OBVIOUS
    <3> QED
      BY <1>1, <3>1
  <2> QED
    BY <2>1, <2>2, <2>3
<1>6. ASSUME NEW i \in 1..(Len(data) - 2), Is(data, i)
      PROVE  i \in Telnet!Replies(before, option) \cup {n + k : k \in Telnet!Replies(piece, option)}
  <2>1. CASE i <= n - 2
    <3>1. i \in 1..n /\ i + 1 \in 1..n /\ i + 2 \in 1..n /\ i \in 1..(n - 2)
      BY <1>2, <2>1
    <3>2. Is(before, i)
      BY <1>2, <1>6, <3>1
    <3> QED
      BY <1>4, <3>1, <3>2 DEF n
  <2>2. CASE i = n - 1
    <3>1. n > 1 /\ i \in 1..n /\ i + 1 \in 1..n /\ i + 1 = n
      BY <1>2, <2>2
    <3> QED
      BY <1>2, <1>3, <1>6, <2>2, <3>1
  <2>3. CASE i = n
    <3>1. i + 1 = n + 1 /\ 1 \in 1..Len(piece)
      BY <1>1, <2>3
    <3> QED
      BY <1>1, <1>2, <1>6, <3>1
  <2>4. CASE i > n
    <3>1. PICK k \in 1..(Len(piece) - 2) : i = n + k
      <4>1. i - n \in 1..(Len(piece) - 2) /\ i = n + (i - n)
        BY <1>1, <1>2, <2>4
      <4> QED
        BY <4>1
    <3>2. /\ k \in 1..Len(piece) /\ k + 1 \in 1..Len(piece) /\ k + 2 \in 1..Len(piece)
          /\ i + 1 = n + (k + 1) /\ i + 2 = n + (k + 2)
      BY <1>1, <1>2, <3>1
    <3>3. Is(piece, k)
      <4>1. data[n + k] = piece[k] /\ data[n + (k + 1)] = piece[k + 1] /\ data[n + (k + 2)] = piece[k + 2]
        BY <1>2, <3>2
      <4> QED
        BY <1>6, <3>1, <3>2, <4>1
    <3>4. k \in Telnet!Replies(piece, option)
      BY <1>4, <3>1, <3>3
    <3> QED
      BY <3>1, <3>4
  <2>5. i <= n - 2 \/ i = n - 1 \/ i = n \/ i > n
    <3>1. i \in Nat /\ n \in Nat
      BY <1>2
    <3> HIDE DEF n
    <3> QED
      BY <3>1
  <2> HIDE DEF n
  <2> QED
    BY <2>1, <2>2, <2>3, <2>4, <2>5, Zenon
<1>7. ASSUME NEW i \in Telnet!Replies(before, option)
      PROVE  i \in 1..(Len(data) - 2) /\ Is(data, i)
  <2>1. i \in 1..(n - 2) /\ Is(before, i)
    BY <1>4 DEF n
  <2>2. i \in 1..n /\ i + 1 \in 1..n /\ i + 2 \in 1..n /\ i \in 1..(Len(data) - 2)
    BY <1>1, <1>2, <2>1
  <2> QED
    BY <1>2, <2>1, <2>2
<1>8. ASSUME NEW k \in Telnet!Replies(piece, option)
      PROVE  n + k \in 1..(Len(data) - 2) /\ Is(data, n + k)
  <2>1. k \in 1..(Len(piece) - 2) /\ Is(piece, k)
    BY <1>4
  <2>2. /\ k \in 1..Len(piece) /\ k + 1 \in 1..Len(piece) /\ k + 2 \in 1..Len(piece)
        /\ n + k \in 1..(Len(data) - 2) /\ (n + k) + 1 = n + (k + 1) /\ (n + k) + 2 = n + (k + 2)
    BY <1>1, <1>2, <2>1
  <2>3. data[n + k] = piece[k] /\ data[n + (k + 1)] = piece[k + 1] /\ data[n + (k + 2)] = piece[k + 2]
    BY <1>2, <2>2
  <2> QED
    BY <2>1, <2>2, <2>3
<1>9. Telnet!Replies(data, option) =
        Telnet!Replies(before, option) \cup {n + k : k \in Telnet!Replies(piece, option)}
  <2>1. Telnet!Replies(data, option) = {i \in 1..(Len(data) - 2) : Is(data, i)}
    BY <1>4
  <2> HIDE DEF Is
  <2>2. \A i : i \in Telnet!Replies(data, option) <=> i \in 1..(Len(data) - 2) /\ Is(data, i)
    BY <2>1
  <2> QED
    BY <1>6, <1>7, <1>8, <2>2
<1> QED
  BY <1>5, <1>9 DEF data, n

\* the last of them is what is read: of what comes, when there is one in it, its reply,
LEMMA TelnetRead ==
  ASSUME NEW before \in Seq(TelnetBytes), TelnetSealed(before), NEW piece, NEW t,
         TelnetPiece(piece, t), NEW option,
         Telnet!Replies(piece, option) \in {{}, {1}}
  PROVE  Telnet!ReadNegotiation(before \o piece, option) =
           IF Telnet!Replies(piece, option) = {} THEN Telnet!ReadNegotiation(before, option)
           ELSE IF piece[2] \in {"DO", "WILL"} THEN "enabled" ELSE "refused"
<1> DEFINE data == before \o piece
           n == Len(before)
           old == Telnet!Replies(before, option)
           all == Telnet!Replies(data, option)
<1>1. all = old \cup {n + i : i \in Telnet!Replies(piece, option)}
  BY TelnetReplies
<1>2. /\ n \in Nat
      /\ \A i \in 1..n : data[i] = before[i]
      /\ \A i \in 1..Len(piece) : data[n + i] = piece[i]
  <2>1. data = before \o piece /\ piece \in Seq(TelnetBytes)
    BY DEF TelnetPiece
  <2> HIDE DEF data
  <2> QED
    BY <2>1
<1>3. old \subseteq 1..(n - 2)
  BY DEF Telnet!Replies
<1>4. \A k : Telnet!Replies(piece, option) = {k} => k \in 1..(Len(piece) - 2)
  BY DEF Telnet!Replies
<1>5. Telnet!ReadNegotiation(data, option) =
        IF all = {} THEN "unchanged"
        ELSE IF data[Telnet!Max(all) + 1] \in {"DO", "WILL"} THEN "enabled" ELSE "refused"
  BY DEF Telnet!ReadNegotiation
<1>6. Telnet!ReadNegotiation(before, option) =
        IF old = {} THEN "unchanged"
        ELSE IF before[Telnet!Max(old) + 1] \in {"DO", "WILL"} THEN "enabled" ELSE "refused"
  BY DEF Telnet!ReadNegotiation
<1> HIDE DEF data, n, old, all
<1>7. CASE Telnet!Replies(piece, option) = {}
  <2>1. all = old
    BY <1>1, <1>7
  <2>2. ASSUME old # {} PROVE data[Telnet!Max(old) + 1] = before[Telnet!Max(old) + 1]
    <3> DEFINE r == Telnet!Max(old)
    <3>1. r \in old
      <4>1. old \in SUBSET (1..n)
        BY <1>2, <1>3
      <4>2. PICK m \in old : \A k \in old : k <= m
        BY <1>2, <2>2, <4>1, Greatest
      <4>3. \A k \in old : m >= k
        BY <1>2, <4>1, <4>2
      <4> QED
        BY <4>3 DEF Telnet!Max
    <3> HIDE DEF r
    <3>2. r + 1 \in 1..n
      BY <1>2, <1>3, <3>1
    <3>3. data[r + 1] = before[r + 1]
      BY <1>2, <3>2
    <3> QED
      BY <3>3 DEF r
  <2> QED
    BY <1>5, <1>6, <1>7, <2>1, <2>2 DEF data
<1>8. CASE Telnet!Replies(piece, option) = {1}
  <2>1. all = old \cup {n + 1} /\ 1 \in 1..(Len(piece) - 2)
    BY <1>1, <1>4, <1>8
  <2>2. Telnet!Max(all) = n + 1
    <3>1. n + 1 \in all /\ \A k \in all : n + 1 >= k /\ k \in Nat
      BY <1>2, <1>3, <2>1
    <3>2. \A m \in all : (\A k \in all : m >= k) => m = n + 1
      BY <1>2, <3>1
    <3> QED
      BY <3>1, <3>2 DEF Telnet!Max
  <2>3. 2 \in 1..Len(piece) /\ (n + 1) + 1 = n + 2
    <3>1. Len(piece) \in Nat
      BY DEF TelnetPiece
    <3> QED
      BY <1>2, <2>1, <3>1
  <2>4. data[Telnet!Max(all) + 1] = piece[2]
    BY <1>2, <2>2, <2>3
  <2> QED
    BY <1>5, <1>8, <2>1, <2>4 DEF data
<1> QED
  BY <1>7, <1>8

\* What the peer can send at a time.
TelnetSends(piece, t) ==
  \/ \E b \in Texts : piece = <<b>> /\ t = <<b>>
  \/ piece = Telnet!EscapeIac(<<Telnet!IAC>>) /\ t = <<Telnet!IAC>>
  \/ \E verb \in Telnet!Verbs, option \in Options : piece = <<Telnet!IAC, verb, option>> /\ t = <<>>
  \/ \E body \in Bodies :
       piece = <<Telnet!IAC, Telnet!SB>> \o Telnet!EscapeIac(body) \o <<Telnet!IAC, Telnet!SE>> /\ t = <<>>
  \/ piece = <<Telnet!IAC, "NOP">> /\ t = <<>>

\* The byte of IAC is sent twice,
LEMMA TelnetLiteral ==
  Telnet!EscapeIac(<<Telnet!IAC>>) = <<"IAC", "IAC">>
<1> DEFINE seqs == <<<<"IAC", "IAC">>>>
           pair == <<"IAC", "IAC">>
<1>1. Telnet!EscapeIac(<<"IAC">>) = Telnet!FlattenSeq(seqs)
  <2>1. \A p : (DOMAIN p = {1} /\ p[1] = "IAC") =>
          [i \in DOMAIN p |-> IF p[i] = "IAC" THEN pair ELSE <<p[i]>>] = [i \in {1} |-> pair]
    OBVIOUS
  <2>2. DOMAIN <<"IAC">> = {1} /\ <<"IAC">>[1] = "IAC" /\ [i \in {1} |-> pair] = seqs
    OBVIOUS
  <2>3. [i \in DOMAIN <<"IAC">> |-> IF <<"IAC">>[i] = "IAC" THEN pair ELSE <<<<"IAC">>[i]>>] = seqs
    BY <2>1, <2>2
  <2> QED
    BY <2>3 DEF Telnet!EscapeIac, Telnet!IAC
<1>2. pair \in Seq(TelnetBytes) /\ <<>> \o pair = pair
  BY TelnetBytesDiffer
<1> HIDE DEF pair
<1>3. seqs \in Seq(Seq(TelnetBytes)) /\ Len(seqs) = 1 /\ seqs[1] = pair
  <2>1. seqs = <<pair>>
    BY DEF pair
  <2> QED
    BY <1>2, <2>1
<1> HIDE DEF seqs
<1>4. PICK flat \in [0..Len(seqs) -> Seq(TelnetBytes)] : Flattening(seqs, flat)
  BY <1>3, FlatOf
<1>5. flat[0] = <<>> /\ flat[1] = Flattened(seqs) /\ flat[1] = flat[0] \o seqs[1]
  <2>1. 1 \in 1..Len(seqs) /\ 1 - 1 = 0
    BY <1>3
  <2> QED
    BY <1>3, <1>4, <2>1 DEF Flattening
<1>6. Telnet!FlattenSeq(seqs) = Flattened(seqs)
  BY DEF Telnet!FlattenSeq, Flattened
<1> QED
  BY <1>1, <1>2, <1>3, <1>5, <1>6 DEF pair, Telnet!IAC

\* and all there is to say of what is sent at a time is this.
LEMMA TelnetSent ==
  ASSUME NEW piece, NEW t, TelnetSends(piece, t)
  PROVE  TelnetPiece(piece, t)
<1>1. CASE \E b \in Texts : piece = <<b>> /\ t = <<b>>
  BY <1>1, TelnetTextPiece
<1>2. CASE piece = Telnet!EscapeIac(<<Telnet!IAC>>) /\ t = <<Telnet!IAC>>
  <2>1. piece = <<"IAC", "IAC">> /\ t = <<"IAC">>
    BY <1>2, TelnetLiteral DEF Telnet!IAC
  <2> QED
    BY <2>1, TelnetShortPiece
<1>3. CASE \E verb \in Telnet!Verbs, option \in Options :
             piece = <<Telnet!IAC, verb, option>> /\ t = <<>>
  BY <1>3, TelnetShortPiece DEF Telnet!IAC
<1>4. CASE \E body \in Bodies :
             piece = <<Telnet!IAC, Telnet!SB>> \o Telnet!EscapeIac(body) \o <<Telnet!IAC, Telnet!SE>>
             /\ t = <<>>
  BY <1>4, TelnetFramePiece DEF TelnetFrame, Telnet!IAC, Telnet!SB, Telnet!SE
<1>5. CASE piece = <<Telnet!IAC, "NOP">> /\ t = <<>>
  BY <1>5, TelnetShortPiece DEF Telnet!IAC
<1> QED
  BY <1>1, <1>2, <1>3, <1>4, <1>5 DEF TelnetSends

LEMMA TelnetNoReply ==
  ASSUME NEW piece, NEW option,
         \/ \E b \in Texts : piece = <<b>>
         \/ piece = Telnet!EscapeIac(<<Telnet!IAC>>)
         \/ option \in Options /\ \E body \in Bodies :
              piece = <<Telnet!IAC, Telnet!SB>> \o Telnet!EscapeIac(body) \o <<Telnet!IAC, Telnet!SE>>
         \/ piece = <<Telnet!IAC, "NOP">>
  PROVE  Telnet!Replies(piece, option) = {}
<1>1. CASE \E b \in Texts : piece = <<b>>
  <2>1. Len(piece) = 1
    BY <1>1
  <2> QED
    BY <2>1 DEF Telnet!Replies
<1>2. CASE piece = Telnet!EscapeIac(<<Telnet!IAC>>) \/ piece = <<Telnet!IAC, "NOP">>
  <2>1. Len(piece) = 2
    BY <1>2, TelnetLiteral
  <2> QED
    BY <2>1 DEF Telnet!Replies
<1>3. CASE option \in Options /\ \E body \in Bodies :
             piece = <<Telnet!IAC, Telnet!SB>> \o Telnet!EscapeIac(body) \o <<Telnet!IAC, Telnet!SE>>
  BY <1>3, TelnetFrameReplies DEF TelnetFrame, Telnet!IAC, Telnet!SB, Telnet!SE
<1> QED
  BY <1>1, <1>2, <1>3

LEMMA TelnetReply ==
  ASSUME NEW verb \in Telnet!Verbs, NEW of, NEW option
  PROVE  Telnet!Replies(<<Telnet!IAC, verb, of>>, option) = IF option = of THEN {1} ELSE {}
<1> DEFINE piece == <<Telnet!IAC, verb, of>>
<1>1. Len(piece) = 3 /\ piece[1] = Telnet!IAC /\ piece[2] = verb /\ piece[3] = of
  OBVIOUS
<1> HIDE DEF piece
<1>2. \A i : i \in 1..(Len(piece) - 2) <=> i = 1
  BY <1>1
<1>3. \A i : i \in Telnet!Replies(piece, option) <=> i = 1 /\ of = option
  BY <1>1, <1>2 DEF Telnet!Replies
<1>4. Telnet!Replies(piece, option) = IF option = of THEN {1} ELSE {}
  BY <1>3
<1> QED
  BY <1>4 DEF piece

Answers == {"unchanged", "enabled", "refused"}

\* The codec's inductive invariant: the bytes so far open nothing, so that what is
\* made of them and of any bytes behind them is their text and what those are alone.
TelnetIInv ==
  /\ wire \in Seq(TelnetBytes) /\ text \in Seq(TelnetBytes)
  /\ agreed \in [Options -> Answers]
  /\ TelnetSealed(wire)
  /\ Telnet!LastReplyWins
  /\ \A rest \in Seq(TelnetBytes) : Telnet!StripIac(wire \o rest) = text \o Telnet!StripIac(rest)

LEMMA TelnetInit ==
  ASSUME Telnet!Init
  PROVE  TelnetIInv
<1>1. wire = <<>> /\ text = <<>> /\ agreed = [o \in Options |-> "unchanged"]
  BY DEF Telnet!Init
<1>2. wire \in Seq(TelnetBytes) /\ text \in Seq(TelnetBytes) /\ agreed \in [Options -> Answers]
  BY <1>1 DEF Answers
<1>3. Len(wire) = 0
  BY <1>1
<1>4. TelnetSealed(wire)
  BY <1>3 DEF TelnetSealed
<1>5. Telnet!LastReplyWins
  <2>1. \A option : Telnet!Replies(wire, option) = {}
    BY <1>3 DEF Telnet!Replies
  <2> QED
    BY <1>1, <2>1 DEF Telnet!LastReplyWins, Telnet!ReadNegotiation
<1>6. ASSUME NEW rest \in Seq(TelnetBytes)
      PROVE  Telnet!StripIac(wire \o rest) = text \o Telnet!StripIac(rest)
  <2>1. Telnet!StripIac(rest) \in Seq(TelnetBytes)
    <3>1. PICK F : TelnetScan(rest, F) /\ Telnet!StripIac(rest) = F[1]
      BY TelnetScans
    <3>2. 1 \in 1..(Len(rest) + 3)
      OBVIOUS
    <3> QED
      BY <3>1, <3>2 DEF TelnetScan
  <2>2. wire \o rest = rest /\ text \o Telnet!StripIac(rest) = Telnet!StripIac(rest)
    BY <1>1, <2>1
  <2> QED
    BY <2>2
<1> QED
  BY <1>2, <1>4, <1>5, <1>6 DEF TelnetIInv

\* Something sent leaves the bytes closed and their text complete,
LEMMA TelnetTextKept ==
  ASSUME TelnetIInv, NEW piece, NEW t, TelnetSends(piece, t),
         wire' = wire \o piece, text' = text \o t
  PROVE  /\ wire' \in Seq(TelnetBytes) /\ text' \in Seq(TelnetBytes) /\ TelnetSealed(wire')
         /\ \A rest \in Seq(TelnetBytes) : Telnet!StripIac(wire' \o rest) = text' \o Telnet!StripIac(rest)
<1>1. TelnetPiece(piece, t)
  BY TelnetSent
<1>2. /\ piece \in Seq(TelnetBytes) /\ t \in Seq(TelnetBytes)
      /\ wire \in Seq(TelnetBytes) /\ text \in Seq(TelnetBytes)
  BY <1>1 DEF TelnetPiece, TelnetIInv
<1>3. wire' \in Seq(TelnetBytes) /\ text' \in Seq(TelnetBytes)
  BY <1>2
<1>4. TelnetSealed(wire')
  BY <1>1, <1>2, TelnetReplies DEF TelnetIInv
<1>5. ASSUME NEW rest \in Seq(TelnetBytes)
      PROVE  Telnet!StripIac(wire' \o rest) = text' \o Telnet!StripIac(rest)
  <2>1. piece \o rest \in Seq(TelnetBytes) /\ wire' \o rest = wire \o (piece \o rest)
    BY SMTT(30), <1>2
  <2>2. Telnet!StripIac(wire \o (piece \o rest)) = text \o Telnet!StripIac(piece \o rest)
    BY <2>1 DEF TelnetIInv
  <2>3. Telnet!StripIac(piece \o rest) = t \o Telnet!StripIac(rest)
    BY <1>1 DEF TelnetPiece
  <2>4. Telnet!StripIac(rest) \in Seq(TelnetBytes)
    BY <1>2, TelnetStripped
  <2>5. text \o (t \o Telnet!StripIac(rest)) = (text \o t) \o Telnet!StripIac(rest)
    BY SMTT(30), <1>2, <2>4
  <2> QED
    BY <2>1, <2>2, <2>3, <2>5
<1> QED
  BY <1>3, <1>4, <1>5

\* what is agreed with no negotiation in it,
LEMMA TelnetAgreedKept ==
  ASSUME TelnetIInv, NEW piece, NEW t, TelnetSends(piece, t),
         \A option \in Options : Telnet!Replies(piece, option) = {},
         wire' = wire \o piece, agreed' = agreed
  PROVE  agreed' \in [Options -> Answers] /\ Telnet!LastReplyWins'
<1>1. TelnetPiece(piece, t) /\ wire \in Seq(TelnetBytes) /\ TelnetSealed(wire)
  BY TelnetSent DEF TelnetIInv
<1>2. ASSUME NEW option \in Options
      PROVE  Telnet!ReadNegotiation(wire \o piece, option) = agreed[option]
  <2>1. Telnet!Replies(piece, option) = {}
    OBVIOUS
  <2>2. Telnet!ReadNegotiation(wire \o piece, option) = Telnet!ReadNegotiation(wire, option)
    BY <1>1, <2>1, TelnetRead
  <2> QED
    BY <2>2 DEF TelnetIInv, Telnet!LastReplyWins
<1> QED
  BY ZenonT(40), <1>2 DEF TelnetIInv, Telnet!LastReplyWins, Telnet!ReadNegotiation, Telnet!Replies

\* and a negotiation agrees on its option alone.
LEMMA TelnetAgreed ==
  ASSUME TelnetIInv, NEW verb \in Telnet!Verbs, NEW option \in Options, Telnet!Negotiate(verb, option)
  PROVE  agreed' \in [Options -> Answers] /\ Telnet!LastReplyWins'
<1> DEFINE piece == <<Telnet!IAC, verb, option>>
           answer == IF verb \in {"DO", "WILL"} THEN "enabled" ELSE "refused"
<1>1. wire' = wire \o piece /\ agreed' = [agreed EXCEPT ![option] = answer]
  BY DEF Telnet!Negotiate, Telnet!Send
<1>2. TelnetPiece(piece, <<>>) /\ wire \in Seq(TelnetBytes) /\ TelnetSealed(wire)
  <2>1. TelnetSends(piece, <<>>)
    BY DEF TelnetSends
  <2> QED
    BY <2>1, TelnetSent DEF TelnetIInv
<1>3. \A o \in Options : Telnet!Replies(piece, o) = IF o = option THEN {1} ELSE {}
  BY TelnetReply
<1>4. piece[2] = verb /\ answer \in Answers
  BY DEF Answers
<1>5. agreed \in [Options -> Answers]
      /\ \A o \in Options : Telnet!ReadNegotiation(wire, o) = agreed[o]
  BY DEF TelnetIInv, Telnet!LastReplyWins
<1> HIDE DEF piece
<1>6. ASSUME NEW o \in Options
      PROVE  Telnet!ReadNegotiation(wire \o piece, o) = agreed'[o]
  <2>1. Telnet!ReadNegotiation(wire \o piece, o) =
          IF Telnet!Replies(piece, o) = {} THEN Telnet!ReadNegotiation(wire, o) ELSE answer
    BY <1>2, <1>3, <1>4, TelnetRead
  <2>2. agreed'[o] = IF o = option THEN answer ELSE agreed[o]
    BY <1>1, <1>5
  <2> HIDE DEF answer
  <2> QED
    BY <1>3, <1>5, <2>1, <2>2
<1>7. Telnet!LastReplyWins'
  BY <1>1, <1>6 DEF Telnet!LastReplyWins, Telnet!ReadNegotiation, Telnet!Replies
<1> QED
  BY <1>1, <1>4, <1>5, <1>7

LEMMA TelnetNext ==
  ASSUME TelnetIInv, [Telnet!Next]_telnet
  PROVE  TelnetIInv'
<1>1. ASSUME UNCHANGED telnet PROVE TelnetIInv'
  <2>1. wire' = wire /\ text' = text /\ agreed' = agreed
    BY <1>1 DEF telnet
  <2>2. \A option \in Options : Telnet!ReadNegotiation(wire', option) = agreed'[option]
    BY <2>1 DEF TelnetIInv, Telnet!LastReplyWins
  <2>3. \A rest \in Seq(TelnetBytes) : Telnet!StripIac(wire' \o rest) = text' \o Telnet!StripIac(rest)
    BY <2>1 DEF TelnetIInv
  <2>4. Telnet!LastReplyWins'
    BY <2>2 DEF Telnet!LastReplyWins, Telnet!ReadNegotiation, Telnet!Replies
  <2>5. /\ wire' \in Seq(TelnetBytes) /\ text' \in Seq(TelnetBytes) /\ TelnetSealed(wire')
        /\ agreed' \in [Options -> Answers]
    BY <2>1 DEF TelnetIInv
  <2> QED
    BY <2>3, <2>4, <2>5 DEF TelnetIInv, TelnetSealed, Telnet!StripIac, Telnet!AfterFrame
<1>2. ASSUME NEW piece, NEW t, TelnetSends(piece, t), wire' = wire \o piece, text' = text \o t,
             agreed' \in [Options -> Answers], Telnet!LastReplyWins'
      PROVE  TelnetIInv'
  <2>1. /\ wire' \in Seq(TelnetBytes) /\ text' \in Seq(TelnetBytes) /\ TelnetSealed(wire')
        /\ \A rest \in Seq(TelnetBytes) : Telnet!StripIac(wire' \o rest) = text' \o Telnet!StripIac(rest)
    BY <1>2, TelnetTextKept
  <2> QED
    BY <1>2, <2>1 DEF TelnetIInv, TelnetSealed, Telnet!StripIac, Telnet!AfterFrame
<1>3. ASSUME NEW piece, NEW t, TelnetSends(piece, t), wire' = wire \o piece, text' = text \o t,
             \A option \in Options : Telnet!Replies(piece, option) = {}, agreed' = agreed
      PROVE  TelnetIInv'
  BY <1>2, <1>3, TelnetAgreedKept
<1>4. text \in Seq(TelnetBytes) /\ text \o <<>> = text
  BY DEF TelnetIInv
<1>5. ASSUME NEW b \in Texts, Telnet!SendText(b) PROVE TelnetIInv'
  <2>1. wire' = wire \o <<b>> /\ text' = text \o <<b>> /\ agreed' = agreed
    BY <1>4, <1>5 DEF Telnet!SendText, Telnet!Send
  <2>2. TelnetSends(<<b>>, <<b>>) /\ \A option \in Options : Telnet!Replies(<<b>>, option) = {}
    BY TelnetNoReply DEF TelnetSends
  <2> QED
    BY <1>3, <2>1, <2>2
<1>6. ASSUME Telnet!SendLiteral PROVE TelnetIInv'
  <2> DEFINE piece == Telnet!EscapeIac(<<Telnet!IAC>>)
             t == <<Telnet!IAC>>
  <2>1. wire' = wire \o piece /\ agreed' = agreed /\ text' = Append(text, Telnet!IAC)
    BY <1>6 DEF Telnet!SendLiteral, Telnet!Send
  <2>3. text' = text \o t
    <3>1. Telnet!IAC \in TelnetBytes /\ text' = Append(text, Telnet!IAC)
      BY <2>1, TelnetBytesDiffer
    <3>2. \A b \in TelnetBytes : Append(text, b) = text \o <<b>>
      BY <1>4
    <3> QED
      BY <3>1, <3>2
  <2>2. TelnetSends(piece, t) /\ \A option \in Options : Telnet!Replies(piece, option) = {}
    BY TelnetNoReply DEF TelnetSends
  <2> HIDE DEF piece, t
  <2> QED
    BY <1>3, <2>1, <2>2, <2>3
<1>7. ASSUME NEW verb \in Telnet!Verbs, NEW option \in Options, Telnet!Negotiate(verb, option)
      PROVE  TelnetIInv'
  <2> DEFINE piece == <<Telnet!IAC, verb, option>>
  <2>1. wire' = wire \o piece /\ text' = text \o <<>>
    BY <1>4, <1>7 DEF Telnet!Negotiate, Telnet!Send
  <2>2. TelnetSends(piece, <<>>)
    BY DEF TelnetSends
  <2>3. agreed' \in [Options -> Answers] /\ Telnet!LastReplyWins'
    BY <1>7, TelnetAgreed
  <2> HIDE DEF piece
  <2> QED
    BY <1>2, <2>1, <2>2, <2>3
<1>8. ASSUME NEW body \in Bodies, Telnet!Subnegotiate(body) PROVE TelnetIInv'
  <2> DEFINE piece == <<Telnet!IAC, Telnet!SB>> \o Telnet!EscapeIac(body) \o <<Telnet!IAC, Telnet!SE>>
  <2>1. wire' = wire \o piece /\ text' = text \o <<>> /\ agreed' = agreed
    BY <1>4, <1>8 DEF Telnet!Subnegotiate, Telnet!Send
  <2>2. TelnetSends(piece, <<>>) /\ \A option \in Options : Telnet!Replies(piece, option) = {}
    BY TelnetNoReply DEF TelnetSends
  <2> HIDE DEF piece
  <2> QED
    BY <1>3, <2>1, <2>2
<1>9. ASSUME Telnet!Command PROVE TelnetIInv'
  <2> DEFINE piece == <<Telnet!IAC, "NOP">>
  <2>1. wire' = wire \o piece /\ text' = text \o <<>> /\ agreed' = agreed
    BY <1>4, <1>9 DEF Telnet!Command, Telnet!Send
  <2>2. TelnetSends(piece, <<>>) /\ \A option \in Options : Telnet!Replies(piece, option) = {}
    BY TelnetNoReply DEF TelnetSends
  <2> HIDE DEF piece
  <2> QED
    BY <1>3, <2>1, <2>2
<1> QED
  BY <1>1, <1>5, <1>6, <1>7, <1>8, <1>9 DEF Telnet!Next

LEMMA TelnetAll ==
  ASSUME TelnetIInv
  PROVE  Telnet!LastReplyWins /\ Telnet!OnlyTextIsLeft
<1>1. /\ wire \in Seq(TelnetBytes) /\ text \in Seq(TelnetBytes) /\ <<>> \in Seq(TelnetBytes)
      /\ wire \o <<>> = wire /\ text \o <<>> = text
  BY DEF TelnetIInv
<1>2. Telnet!StripIac(wire \o <<>>) = text \o Telnet!StripIac(<<>>)
  BY <1>1 DEF TelnetIInv
<1>3. Telnet!StripIac(<<>>) = <<>>
  <2>1. PICK F : TelnetScan(<<>>, F) /\ Telnet!StripIac(<<>>) = F[1]
    BY <1>1, TelnetScans
  <2>2. 1 \in 1..(Len(<<>>) + 3) /\ 1 > Len(<<>>)
    OBVIOUS
  <2> QED
    BY <2>1, <2>2 DEF TelnetScan, TelnetRest
<1> QED
  BY <1>1, <1>2, <1>3 DEF TelnetIInv, Telnet!OnlyTextIsLeft

\* A telnet client that is asked and answers again and again: the codec stays with
\* what the last reply to each option says, whatever else is on the wire.
THEOREM TelnetHeedsTheLastReply ==
  ShelfSpec => []LastReplyWins
<1>1. [ShelfNext]_<<core, vars, loader, bus, framer, telnet, evidence, flow, metrics,
                    directory, health, typed, sheet, shelved>> => [Telnet!Next]_telnet
  BY DEF ShelfNext, Turn
<1>2. ShelfInit => TelnetIInv
  BY TelnetInit DEF ShelfInit
<1>3. TelnetIInv /\ [Telnet!Next]_telnet => TelnetIInv'
  BY TelnetNext
<1>4. TelnetIInv => LastReplyWins
  BY TelnetAll DEF LastReplyWins
<1> QED
  BY <1>1, <1>2, <1>3, <1>4, PTL DEF ShelfSpec

\* Of what is on the wire, however text, commands, negotiations and subnegotiations
\* alternate, strip_iac leaves the text, every byte of it and no other, in order.
THEOREM TelnetLeavesTheText ==
  ShelfSpec => []OnlyTextIsLeft
<1>1. [ShelfNext]_<<core, vars, loader, bus, framer, telnet, evidence, flow, metrics,
                    directory, health, typed, sheet, shelved>> => [Telnet!Next]_telnet
  BY DEF ShelfNext, Turn
<1>2. ShelfInit => TelnetIInv
  BY TelnetInit DEF ShelfInit
<1>3. TelnetIInv /\ [Telnet!Next]_telnet => TelnetIInv'
  BY TelnetNext
<1>4. TelnetIInv => OnlyTextIsLeft
  BY TelnetAll DEF OnlyTextIsLeft
<1> QED
  BY <1>1, <1>2, <1>3, <1>4, PTL DEF ShelfSpec

--------------------------------------------------------------------------------
\* The stream framer. Where the delimiter stands in some bytes,
Stands(bytes) == {i \in Nat \ {0} : i + Len(Delimiter) <= Len(bytes) + 1
                    /\ \A k \in 1..Len(Delimiter) : bytes[i + k - 1] = Delimiter[k]}

LEMMA FramerFound ==
  ASSUME NEW bytes \in Seq(Bytes)
  PROVE  /\ Framer!Found(bytes) = Stands(bytes)
         /\ Len(Delimiter) \in Nat \ {0}
<1> DEFINE L == Len(Delimiter)
<1>1. Delimiter \in Seq(Bytes) /\ L \in Nat \ {0} /\ Len(bytes) \in Nat
  BY FramerAssumption
<1> HIDE DEF L
<1>2. ASSUME NEW i \in Nat \ {0}, i + L <= Len(bytes) + 1
      PROVE  SubSeq(bytes, i, i + L - 1) = Delimiter
               <=> \A k \in 1..L : bytes[i + k - 1] = Delimiter[k]
  <2> DEFINE u == SubSeq(bytes, i, i + L - 1)
  <2>1. i + L - 1 \in Nat /\ i <= i + L - 1 /\ i + L - 1 <= Len(bytes) /\ (i + L - 1) + 1 - i = L
    BY <1>1, <1>2
  <2>2. u \in Seq(Bytes) /\ Len(u) = L /\ \A k \in 1..L : u[k] = bytes[i + k - 1]
    BY <2>1, Part
  <2> HIDE DEF u
  <2>3. u = Delimiter <=> \A k \in 1..L : u[k] = Delimiter[k]
    <3>1. (\A k \in 1..L : u[k] = Delimiter[k]) => u = Delimiter
      BY <1>1, <2>2, SeqEqual DEF L
    <3> QED
      BY <3>1
  <2> QED
    BY <2>2, <2>3 DEF u
<1>3. \A i : i \in 1..(Len(bytes) + 1 - L) <=> i \in Nat \ {0} /\ i + L <= Len(bytes) + 1
  BY <1>1
<1>4. Framer!Found(bytes) = {i \in 1..(Len(bytes) + 1 - L) : SubSeq(bytes, i, i + L - 1) = Delimiter}
  BY DEF Framer!Found, L
<1>5. \A i : i \in Framer!Found(bytes) <=> i \in Stands(bytes)
  BY <1>2, <1>3, <1>4 DEF Stands, L
<1> QED
  BY <1>1, <1>5 DEF L

\* where the message behind the first k ends begins,
Begins(ends, k) == IF k = 0 THEN 1 ELSE ends[k] + 1

\* that some places are the ends of messages, as many as there are up to n: each the
\* end of the first delimiter that stands where a message is, and the next beyond n.
EndsUpTo(bytes, ends, n) ==
  /\ ends \in Seq(Nat)
  /\ \A k \in 1..Len(ends) :
       /\ ends[k] <= n
       /\ \E i \in Stands(bytes) :
            /\ i + Len(Delimiter) = ends[k] + 1 /\ Begins(ends, k - 1) <= i
            /\ \A j \in Stands(bytes) : Begins(ends, k - 1) <= j => i <= j
  /\ \A j \in Stands(bytes) : Begins(ends, Len(ends)) <= j => n + 1 < j + Len(Delimiter)

\* One place more: it is an end when a delimiter ends there that no message has,
LEMMA FramerNoEnd ==
  ASSUME NEW bytes \in Seq(Bytes), NEW n \in Nat, NEW ends, EndsUpTo(bytes, ends, n),
         \A i \in Stands(bytes) : Begins(ends, Len(ends)) <= i => i + Len(Delimiter) # n + 2
  PROVE  EndsUpTo(bytes, ends, n + 1)
<1>1. /\ Len(Delimiter) \in Nat \ {0} /\ ends \in Seq(Nat)
      /\ \A i \in Stands(bytes) : i \in Nat
  BY FramerFound DEF Stands, EndsUpTo
<1>2. \A k \in 1..Len(ends) : ends[k] <= n + 1
  BY <1>1 DEF EndsUpTo
<1>3. \A j \in Stands(bytes) : Begins(ends, Len(ends)) <= j => (n + 1) + 1 < j + Len(Delimiter)
  BY <1>1 DEF EndsUpTo
<1> QED
  BY <1>1, <1>2, <1>3 DEF EndsUpTo

LEMMA FramerEnd ==
  ASSUME NEW bytes \in Seq(Bytes), NEW n \in Nat, NEW ends, EndsUpTo(bytes, ends, n),
         NEW i \in Stands(bytes), Begins(ends, Len(ends)) <= i, i + Len(Delimiter) = n + 2
  PROVE  EndsUpTo(bytes, Append(ends, n + 1), n + 1)
<1> DEFINE new == Append(ends, n + 1)
           N == Len(ends)
           L == Len(Delimiter)
<1>1. /\ L \in Nat \ {0} /\ ends \in Seq(Nat) /\ N \in Nat
      /\ \A j \in Stands(bytes) : j \in Nat
  BY FramerFound DEF Stands, EndsUpTo
<1>2. /\ new \in Seq(Nat) /\ Len(new) = N + 1 /\ new[N + 1] = n + 1
      /\ \A k \in 1..N : new[k] = ends[k]
  BY <1>1
<1> HIDE DEF new, N, L
<1>3. \A k \in 0..N : Begins(new, k) = Begins(ends, k)
  BY <1>1, <1>2 DEF Begins
<1>4. ASSUME NEW k \in 1..N
      PROVE  /\ new[k] <= n + 1
             /\ \E j \in Stands(bytes) :
                  /\ j + L = new[k] + 1 /\ Begins(new, k - 1) <= j
                  /\ \A m \in Stands(bytes) : Begins(new, k - 1) <= m => j <= m
  <2>1. /\ ends[k] <= n /\ ends[k] \in Nat
        /\ \E j \in Stands(bytes) :
             /\ j + L = ends[k] + 1 /\ Begins(ends, k - 1) <= j
             /\ \A m \in Stands(bytes) : Begins(ends, k - 1) <= m => j <= m
    <3>1. k \in 1..Len(ends)
      BY DEF N
    <3>2. ends[k] \in Nat
      BY <1>1, <3>1
    <3> QED
      BY <3>1, <3>2 DEF EndsUpTo, L
  <2>2. new[k] = ends[k] /\ Begins(new, k - 1) = Begins(ends, k - 1)
    <3>1. k - 1 \in 0..N
      BY <1>1
    <3> QED
      BY <1>2, <1>3, <3>1
  <2>3. new[k] <= n + 1
    BY <2>1, <2>2
  <2> QED
    BY <2>1, <2>2, <2>3
<1>5. \A m \in Stands(bytes) : Begins(ends, N) <= m => i <= m
  <2>1. \A m \in Stands(bytes) : Begins(ends, N) <= m => n + 1 < m + L
    BY DEF EndsUpTo, N, L
  <2>2. i + L = n + 2
    BY DEF L
  <2> QED
    BY <1>1, <2>1, <2>2
<1>6. /\ new[N + 1] <= n + 1 /\ (N + 1) - 1 = N
      /\ i + L = new[N + 1] + 1 /\ Begins(new, N) <= i
      /\ \A m \in Stands(bytes) : Begins(new, N) <= m => i <= m
  <2>1. Begins(new, N) = Begins(ends, N)
    BY <1>1, <1>3
  <2>2. i + L = new[N + 1] + 1
    BY <1>1, <1>2 DEF L
  <2> QED
    BY <1>1, <1>2, <1>5, <2>1, <2>2 DEF N
<1>7. \A m \in Stands(bytes) : Begins(new, N + 1) <= m => (n + 1) + 1 < m + L
  <2>1. Begins(new, N + 1) = n + 2
    BY <1>1, <1>2 DEF Begins
  <2> QED
    BY <1>1, <2>1
<1>8. \A k \in 1..(N + 1) : k \in 1..N \/ k = N + 1
  BY <1>1
<1>9. \A k \in 1..(N + 1) :
        /\ new[k] <= n + 1
        /\ \E j \in Stands(bytes) :
             /\ j + L = new[k] + 1 /\ Begins(new, k - 1) <= j
             /\ \A m \in Stands(bytes) : Begins(new, k - 1) <= m => j <= m
  BY <1>4, <1>6, <1>8
<1>10. EndsUpTo(bytes, new, n + 1)
  BY <1>2, <1>7, <1>9 DEF EndsUpTo, L
<1> QED
  BY <1>10 DEF new

LEMMA FramerNone ==
  ASSUME NEW bytes \in Seq(Bytes)
  PROVE  EndsUpTo(bytes, <<>>, 0)
<1>1. /\ <<>> \in Seq(Nat) /\ Len(<<>>) = 0 /\ 1..0 = {}
  OBVIOUS
<1>2. \A j \in Stands(bytes) : Begins(<<>>, 0) <= j => 1 < j + Len(Delimiter)
  BY FramerFound DEF Stands
<1> QED
  BY <1>1, <1>2 DEF EndsUpTo

\* EndsAt is where the messages end.
FramerEndsStep(bytes, F, i) ==
  IF i = 0 THEN <<>>
  ELSE IF /\ i + 1 - Len(Delimiter) \in Framer!Found(bytes)
          /\ F[i - 1] = <<>> \/ F[i - 1][Len(F[i - 1])] <= i - Len(Delimiter)
         THEN Append(F[i - 1], i) ELSE F[i - 1]

LEMMA FramerScan ==
  ASSUME NEW bytes \in Seq(Bytes)
  PROVE  \E F : /\ F \in [0..Len(bytes) -> Seq(Nat)]
                /\ \A i \in 0..Len(bytes) : F[i] = FramerEndsStep(bytes, F, i)
                /\ Framer!EndsAt(bytes) = F[Len(bytes)]
<1> DEFINE top == Len(bytes)
           D == 0..top
           V == Seq(Nat)
           E == [f \in [D -> V] |-> [i \in D |-> FramerEndsStep(bytes, f, i)]]
           Scan == CHOOSE f : f = [i \in D |-> FramerEndsStep(bytes, f, i)]
           measure == [i \in D |-> i]
           start == [i \in D |-> <<>>]
<1>1. top \in Nat
  OBVIOUS
<1> HIDE DEF top, V
<1>2. \A i \in D : i \in Nat /\ (i # 0 => i - 1 \in D /\ i - 1 < i)
  BY <1>1
<1>3. ASSUME NEW f \in [D -> V], NEW i \in D
      PROVE  FramerEndsStep(bytes, f, i) \in V
  <2>1. CASE i = 0
    BY <2>1 DEF FramerEndsStep, V
  <2>2. CASE i # 0
    <3>1. f[i - 1] \in V /\ i \in Nat
      BY <1>2, <2>2
    <3>2. Append(f[i - 1], i) \in V
      BY <3>1 DEF V
    <3> QED
      BY <2>2, <3>1, <3>2 DEF FramerEndsStep
  <2> QED
    BY <2>1, <2>2
<1>4. ASSUME NEW f, NEW g, NEW i \in D, \A j \in D : measure[j] < measure[i] => f[j] = g[j]
      PROVE  FramerEndsStep(bytes, f, i) = FramerEndsStep(bytes, g, i)
  <2>1. i # 0 => f[i - 1] = g[i - 1]
    BY <1>2, <1>4
  <2> QED
    BY <2>1 DEF FramerEndsStep
<1>5. Recursive(D, V, top, measure, E)
  <2>1. measure \in [D -> 0..top] /\ start \in [D -> V]
    BY <1>1 DEF V
  <2>2. E \in [[D -> V] -> [D -> V]]
    BY <1>3
  <2> HIDE DEF D, measure, start
  <2>3. \A f, g \in [D -> V], i \in D :
          (\A j \in D : measure[j] < measure[i] => f[j] = g[j]) => E[f][i] = E[g][i]
    BY <1>4
  <2> HIDE DEF E
  <2> QED
    BY <1>1, <2>1, <2>2, <2>3 DEF Recursive
<1>6. PICK f \in [D -> V] : f = [i \in D |-> FramerEndsStep(bytes, f, i)]
  <2>1. \E f \in [D -> V] : f = E[f]
    <3> HIDE DEF D, measure, E
    <3> QED
      BY <1>5, Recursion
  <2> HIDE DEF D
  <2> QED
    BY <2>1
<1>7. Scan = [i \in D |-> FramerEndsStep(bytes, Scan, i)]
  <2> HIDE DEF D
  <2> QED
    BY <1>6
<1>8. Framer!EndsAt(bytes) = Scan[top]
  BY DEF Framer!EndsAt, FramerEndsStep, top
<1> HIDE DEF Scan
<1>9. \A i \in D : f[i] = Scan[i]
  <2>1. SameByMeasure(D, measure, f, Scan)
    <3>1. measure \in [D -> Nat]
      BY <1>1
    <3>2. \A i \in D : (\A j \in D : measure[j] < measure[i] => f[j] = Scan[j]) => f[i] = Scan[i]
      <4> HIDE DEF measure, D
      <4> QED
        BY <1>4, <1>6, <1>7
    <3> HIDE DEF measure, D
    <3> QED
      BY <3>1, <3>2 DEF SameByMeasure
  <2> HIDE DEF measure, D
  <2> QED
    BY <2>1, SameThroughout
<1>10. top \in D
  BY <1>1
<1>11. \A i \in D : f[i] = FramerEndsStep(bytes, f, i)
  <2> HIDE DEF D
  <2> QED
    BY <1>6
<1>12. Framer!EndsAt(bytes) = f[top]
  BY <1>8, <1>9, <1>10
<1> QED
  BY <1>11, <1>12 DEF top, V

LEMMA FramerEnds ==
  ASSUME NEW bytes \in Seq(Bytes)
  PROVE  EndsUpTo(bytes, Framer!EndsAt(bytes), Len(bytes))
<1>1. PICK F : /\ F \in [0..Len(bytes) -> Seq(Nat)]
               /\ \A i \in 0..Len(bytes) : F[i] = FramerEndsStep(bytes, F, i)
               /\ Framer!EndsAt(bytes) = F[Len(bytes)]
  BY FramerScan
<1> DEFINE top == Len(bytes)
           L == Len(Delimiter)
           S == {i \in Nat : i <= top => EndsUpTo(bytes, F[i], i)}
<1>2. top \in Nat /\ L \in Nat \ {0} /\ Framer!Found(bytes) = Stands(bytes)
  BY FramerFound
<1>3. 0 \in S
  <2>1. 0 \in 0..top
    BY <1>2
  <2>2. F[0] = <<>>
    BY <1>1, <2>1 DEF FramerEndsStep
  <2> QED
    BY <2>2, FramerNone
<1> HIDE DEF top, L
<1>4. ASSUME NEW n \in S PROVE n + 1 \in S
  <2> SUFFICES ASSUME n + 1 <= top PROVE EndsUpTo(bytes, F[n + 1], n + 1)
    OBVIOUS
  <2> DEFINE e == F[n]
  <2>1. n \in Nat /\ n \in 0..top /\ n + 1 \in 0..top /\ n + 1 # 0 /\ (n + 1) - 1 = n /\ n <= top
    BY <1>2
  <2>2. EndsUpTo(bytes, e, n)
    BY <2>1
  <2>3. e \in Seq(Nat) /\ \A k \in 1..Len(e) : e[k] \in Nat
    BY <1>1, <2>1 DEF top
  <2>4. F[n + 1] = IF /\ n + 1 + 1 - L \in Stands(bytes)
                      /\ e = <<>> \/ e[Len(e)] <= n + 1 - L
                     THEN Append(e, n + 1) ELSE e
    <3>1. F[n + 1] = FramerEndsStep(bytes, F, n + 1) 
      BY <1>1, <2>1 DEF top
    <3> QED
      BY <1>2, <2>1, <3>1 DEF FramerEndsStep, L
  <2> HIDE DEF e
  <2>5. (e = <<>> \/ e[Len(e)] <= n + 1 - L) <=> Begins(e, Len(e)) <= n + 1 + 1 - L \/ Len(e) = 0
    <3>1. CASE Len(e) = 0
      BY <2>3, <3>1
    <3>2. CASE Len(e) # 0
      <4>1. e # <<>> /\ Len(e) \in 1..Len(e) /\ e[Len(e)] \in Nat
        BY <2>3, <3>2
      <4> QED
        BY <1>2, <2>1, <3>2, <4>1 DEF Begins
    <3> QED
      BY <3>1, <3>2
  <2>6. CASE n + 1 + 1 - L \in Stands(bytes) /\ Begins(e, Len(e)) <= n + 1 + 1 - L
    <3>1. (n + 1 + 1 - L) + L = n + 2
      BY <1>2, <2>1
    <3>2. EndsUpTo(bytes, Append(e, n + 1), n + 1)
      BY <2>1, <2>2, <2>6, <3>1, FramerEnd DEF L
    <3> QED
      BY <2>4, <2>5, <2>6, <3>2
  <2>7. CASE ~(n + 1 + 1 - L \in Stands(bytes) /\ Begins(e, Len(e)) <= n + 1 + 1 - L)
    <3>1. ASSUME NEW i \in Stands(bytes), Begins(e, Len(e)) <= i PROVE i + L # n + 2
      <4>1. i + L = n + 2 => i = n + 1 + 1 - L
        BY <1>2, <2>1 DEF Stands
      <4> QED
        BY <2>7, <3>1, <4>1
    <3>2. EndsUpTo(bytes, e, n + 1)
      BY <2>1, <2>2, <3>1, FramerNoEnd DEF L
    <3>3. Len(e) = 0 => ~(n + 1 + 1 - L \in Stands(bytes))
      <4>1. \A i \in Stands(bytes) : 1 <= i
        BY DEF Stands
      <4> QED
        BY <2>7, <4>1 DEF Begins
    <3> QED
      BY <2>4, <2>5, <2>7, <3>2, <3>3
  <2> QED
    BY <2>6, <2>7
<1>5. top \in S
  <2>1. S \in SUBSET Nat
    OBVIOUS
  <2> HIDE DEF S
  <2> QED
    BY <1>2, <1>3, <1>4, <2>1, Induction
<1>6. top <= top
  BY <1>2
<1> QED
  BY <1>1, <1>5, <1>6 DEF top

\* Read further, the first ends stay,
LEMMA FramerFurther ==
  ASSUME NEW bytes \in Seq(Bytes), NEW m \in Nat, NEW n \in Nat, m <= n,
         NEW e, EndsUpTo(bytes, e, m), NEW f, EndsUpTo(bytes, f, n)
  PROVE  Len(e) <= Len(f) /\ \A k \in 1..Len(e) : f[k] = e[k]
<1> DEFINE L == Len(Delimiter)
           S == {k \in Nat : k <= Len(e) => k <= Len(f) /\ \A j \in 1..k : f[j] = e[j]}
<1>1. /\ L \in Nat \ {0} /\ e \in Seq(Nat) /\ f \in Seq(Nat) /\ Len(e) \in Nat /\ Len(f) \in Nat
      /\ \A i \in Stands(bytes) : i \in Nat
  BY FramerFound DEF Stands, EndsUpTo
<1>2. /\ \A k \in 1..Len(e) :
           /\ e[k] <= m
           /\ \E i \in Stands(bytes) :
                /\ i + L = e[k] + 1 /\ Begins(e, k - 1) <= i
                /\ \A j \in Stands(bytes) : Begins(e, k - 1) <= j => i <= j
      /\ \A k \in 1..Len(f) :
           \E i \in Stands(bytes) :
             /\ i + L = f[k] + 1 /\ Begins(f, k - 1) <= i
             /\ \A j \in Stands(bytes) : Begins(f, k - 1) <= j => i <= j
      /\ \A j \in Stands(bytes) : Begins(f, Len(f)) <= j => n + 1 < j + L
  BY DEF EndsUpTo
<1> HIDE DEF L
<1>3. 0 \in S
  BY <1>1
<1>4. ASSUME NEW k \in S PROVE k + 1 \in S
  <2> SUFFICES ASSUME k + 1 <= Len(e)
               PROVE  k + 1 <= Len(f) /\ \A j \in 1..(k + 1) : f[j] = e[j]
    OBVIOUS
  <2>1. /\ k \in Nat /\ k + 1 \in 1..Len(e) /\ (k + 1) - 1 = k
        /\ k <= Len(f) /\ \A j \in 1..k : f[j] = e[j]
    BY <1>1
  <2>2. Begins(f, k) = Begins(e, k)
    <3>1. k = 0 \/ k \in 1..k
      BY <2>1
    <3> QED
      BY <2>1, <3>1 DEF Begins
  <2>3. PICK i \in Stands(bytes) :
          /\ i + L = e[k + 1] + 1 /\ Begins(e, k) <= i
          /\ \A j \in Stands(bytes) : Begins(e, k) <= j => i <= j
    BY <1>2, <2>1
  <2>4. e[k + 1] <= m /\ e[k + 1] \in Nat
    BY SMTT(30), <1>1, <1>2, <2>1
  <2>5. k # Len(f)
    <3>1. ~(n + 1 < i + L)
      BY <1>1, <2>3, <2>4
    <3> QED
      BY <1>2, <2>2, <2>3, <3>1
  <2>6. k + 1 \in 1..Len(f)
    BY <1>1, <2>1, <2>5
  <2>7. PICK j \in Stands(bytes) :
          /\ j + L = f[k + 1] + 1 /\ Begins(f, k) <= j
          /\ \A h \in Stands(bytes) : Begins(f, k) <= h => j <= h
    BY <1>2, <2>1, <2>6
  <2>8. i = j
    BY <1>1, <2>2, <2>3, <2>7
  <2>9. f[k + 1] = e[k + 1]
    <3>1. f[k + 1] \in Nat
      BY SMTT(30), <1>1, <2>6
    <3>2. f[k + 1] + 1 = e[k + 1] + 1
      BY <2>3, <2>7, <2>8
    <3> QED
      BY SMTT(30), <2>4, <3>1, <3>2
  <2>10. \A h \in 1..(k + 1) : h \in 1..k \/ h = k + 1
    BY <2>1
  <2> QED
    BY SMTT(30), <1>1, <2>1, <2>6, <2>9, <2>10
<1>5. Len(e) \in S
  <2>1. S \in SUBSET Nat
    OBVIOUS
  <2> HIDE DEF S
  <2> QED
    BY <1>1, <1>3, <1>4, <2>1, Induction
<1> QED
  BY <1>1, <1>5

\* and what comes behind the bytes moves none of them.
LEMMA FramerLonger ==
  ASSUME NEW s \in Seq(Bytes), NEW c \in Seq(Bytes), NEW e, EndsUpTo(s, e, Len(s))
  PROVE  EndsUpTo(s \o c, e, Len(s))
<1> DEFINE t == s \o c
           n == Len(s)
           L == Len(Delimiter)
<1>1. /\ t \in Seq(Bytes) /\ n \in Nat /\ n <= Len(t) /\ Len(t) \in Nat
      /\ \A i \in 1..n : t[i] = s[i]
  OBVIOUS
<1>2. L \in Nat \ {0} /\ \A b : \A i \in Stands(b) : i \in Nat \ {0}
  BY FramerFound DEF Stands
<1> HIDE DEF t
<1>3. ASSUME NEW i \in Nat \ {0}, i + L <= n + 1
      PROVE  i \in Stands(s) <=> i \in Stands(t)
  <2>1. i + L <= Len(t) + 1
    BY <1>1, <1>2, <1>3
  <2>2. \A k \in 1..L : i + k - 1 \in 1..n
    BY <1>1, <1>2, <1>3
  <2>3. \A k \in 1..L : t[i + k - 1] = s[i + k - 1]
    BY <1>1, <2>2
  <2> HIDE DEF n, L
  <2> QED
    BY <1>3, <2>1, <2>3 DEF Stands, n, L
<1>4. \A j \in Stands(s) : j + L <= n + 1
  BY DEF Stands
<1>5. \A j \in Stands(t) : j \in Stands(s) \/ n + 1 < j + L
  BY <1>1, <1>2, <1>3
<1>6. /\ e \in Seq(Nat)
      /\ \A k \in 1..Len(e) :
           /\ e[k] <= n
           /\ \E i \in Stands(s) :
                /\ i + L = e[k] + 1 /\ Begins(e, k - 1) <= i
                /\ \A j \in Stands(s) : Begins(e, k - 1) <= j => i <= j
      /\ \A j \in Stands(s) : Begins(e, Len(e)) <= j => n + 1 < j + L
  BY DEF EndsUpTo
<1> HIDE DEF n, L
<1>7. ASSUME NEW k \in 1..Len(e)
      PROVE  \E i \in Stands(t) :
               /\ i + L = e[k] + 1 /\ Begins(e, k - 1) <= i
               /\ \A j \in Stands(t) : Begins(e, k - 1) <= j => i <= j
  <2>1. PICK i \in Stands(s) :
          /\ i + L = e[k] + 1 /\ Begins(e, k - 1) <= i
          /\ \A j \in Stands(s) : Begins(e, k - 1) <= j => i <= j
    BY <1>6
  <2>2. i \in Stands(t) /\ i \in Nat /\ i + L <= n + 1
    BY <1>2, <1>3, <1>4
  <2>3. \A j \in Stands(t) : Begins(e, k - 1) <= j => i <= j
    <3>1. ASSUME NEW j \in Stands(t), n + 1 < j + L PROVE i <= j
      BY <1>1, <1>2, <2>2, <3>1
    <3> QED
      BY <1>5, <2>1, <3>1
  <2> QED
    BY <2>1, <2>2, <2>3
<1>8. \A j \in Stands(t) : Begins(e, Len(e)) <= j => n + 1 < j + L
  BY <1>5, <1>6
<1> QED
  BY <1>6, <1>7, <1>8 DEF EndsUpTo, t, n, L

\* In the bytes from p on the delimiter stands where it stands in all of them.
LEMMA FramerRest ==
  ASSUME NEW t \in Seq(Bytes), NEW p \in Nat \ {0}, p <= Len(t) + 1
  PROVE  /\ SubSeq(t, p, Len(t)) \in Seq(Bytes)
         /\ Len(SubSeq(t, p, Len(t))) = Len(t) + 1 - p
         /\ \A i \in Nat \ {0} : i \in Stands(SubSeq(t, p, Len(t))) <=> i + p - 1 \in Stands(t)
<1> DEFINE all == SubSeq(t, p, Len(t))
           n == Len(t)
           L == Len(Delimiter)
<1>1. n \in Nat /\ p <= n + 1 /\ L \in Nat \ {0}
  BY FramerFound
<1>2. all \in Seq(Bytes) /\ Len(all) = (IF p <= n THEN n + 1 - p ELSE 0)
      /\ \A i \in 1..Len(all) : all[i] = t[p + i - 1]
  BY <1>1, Part
<1>3. Len(all) = n + 1 - p
  BY <1>1, <1>2
<1> HIDE DEF all, n, L
<1>4. ASSUME NEW i \in Nat \ {0} PROVE i \in Stands(all) <=> i + p - 1 \in Stands(t)
  <2>1. i + p - 1 \in Nat \ {0} /\ (i + L <= Len(all) + 1 <=> (i + p - 1) + L <= n + 1)
    BY <1>1, <1>3
  <2>2. ASSUME i + L <= Len(all) + 1, NEW k \in 1..L
        PROVE  all[i + k - 1] = t[(i + p - 1) + k - 1]
    <3>1. i + k - 1 \in 1..Len(all) /\ p + (i + k - 1) - 1 = (i + p - 1) + k - 1
      BY <1>1, <1>3, <2>2
    <3>2. all[i + k - 1] = t[p + (i + k - 1) - 1]
      BY <1>2, <3>1
    <3> QED
      BY <3>1, <3>2
  <2> QED
    BY <2>1, <2>2 DEF Stands, n, L
<1> QED
  BY <1>2, <1>3, <1>4 DEF all, n

\* The loop of feed(), from a place on, by what it does from a later one on.
FramerCutStep(bytes, From, pos) ==
  LET found == {i \in Framer!Found(bytes) : pos <= i}
      index == Framer!Min(found)
      rest  == From[index + Len(Delimiter)]
  IN  IF found = {} THEN [out |-> <<>>, left |-> SubSeq(bytes, pos, Len(bytes))]
      ELSE [out |-> <<Framer!Trimmed(SubSeq(bytes, pos, index - 1))>> \o rest.out, left |-> rest.left]

\* Messages there can be.
FramerMessages(bytes) == {Framer!Trimmed(SubSeq(bytes, i, j - 1)) : i \in Nat, j \in Nat}

\* The first place of some,
LEMMA FramerMin ==
  ASSUME NEW S \in SUBSET Nat, S # {}
  PROVE  Framer!Min(S) \in S /\ \A j \in S : Framer!Min(S) <= j
<1>1. PICK m \in S : \A j \in S : m <= j
  BY Least
<1>2. \E k \in S : \A j \in S : k <= j
  BY <1>1
<1> QED
  BY <1>2, Zenon DEF Framer!Min

LEMMA FramerNextCut ==
  ASSUME NEW bytes \in Seq(Bytes), NEW pos \in Nat,
         {i \in Framer!Found(bytes) : pos <= i} # {},
         NEW index, index = Framer!Min({i \in Framer!Found(bytes) : pos <= i})
  PROVE  /\ index \in Nat \ {0} /\ pos <= index /\ index \in Stands(bytes)
         /\ index + Len(Delimiter) \in 1..(Len(bytes) + 1) /\ pos < index + Len(Delimiter)
         /\ \A j \in Stands(bytes) : pos <= j => index <= j
<1> DEFINE found == {i \in Framer!Found(bytes) : pos <= i}
<1>1. /\ Framer!Found(bytes) = Stands(bytes) /\ Len(Delimiter) \in Nat \ {0}
      /\ \A i \in Stands(bytes) : i \in Nat \ {0} /\ i + Len(Delimiter) <= Len(bytes) + 1
  BY FramerFound DEF Stands
<1>2. found \in SUBSET Nat /\ found # {} /\ index = Framer!Min(found)
  BY <1>1
<1>3. index \in found /\ \A j \in found : index <= j
  <2>1. Framer!Min(found) \in found /\ \A j \in found : Framer!Min(found) <= j
    <3> HIDE DEF found
    <3> QED
      BY <1>2, FramerMin
  <2> QED
    BY <1>2, <2>1, Zenon
<1> QED
  BY <1>1, <1>3

LEMMA FramerCuts ==
  ASSUME NEW bytes \in Seq(Bytes)
  PROVE  \E From : /\ \A pos \in 1..(Len(bytes) + 1) :
                        /\ From[pos] = FramerCutStep(bytes, From, pos)
                        /\ From[pos].out \in Seq(FramerMessages(bytes))
                   /\ Framer!Cut(bytes) = From[1]
<1> DEFINE top == Len(bytes) + 1
           D == 1..top
           T == FramerMessages(bytes)
           V == [out : Seq(T), left : Seq(Bytes)]
           E == [f \in [D -> V] |-> [i \in D |-> FramerCutStep(bytes, f, i)]]
           Scan == CHOOSE f : f = [i \in D |-> FramerCutStep(bytes, f, i)]
           measure == [i \in D |-> top - i]
           start == [i \in D |-> [out |-> <<>>, left |-> <<>>]]
           found(i) == {j \in Framer!Found(bytes) : i <= j}
           index(i) == Framer!Min(found(i))
           next(i) == index(i) + Len(Delimiter)
<1>1. top \in Nat
  OBVIOUS
<1>2. ASSUME NEW i \in D, found(i) # {}
      PROVE  /\ next(i) \in D /\ measure[next(i)] < measure[i] /\ index(i) \in Nat
             /\ Framer!Trimmed(SubSeq(bytes, i, index(i) - 1)) \in T
  <2>1. /\ index(i) \in Nat \ {0} /\ next(i) \in D /\ i < next(i)
    BY <1>2, FramerNextCut
  <2> HIDE DEF index, next
  <2>2. Framer!Trimmed(SubSeq(bytes, i, index(i) - 1)) \in T
    BY <2>1 DEF FramerMessages
  <2>3. measure[next(i)] < measure[i]
    BY <1>1, <2>1
  <2> QED
    BY <2>1, <2>2, <2>3
<1> HIDE DEF top, T
<1>3. ASSUME NEW f \in [D -> V], NEW i \in D
      PROVE  FramerCutStep(bytes, f, i) \in V
  <2>1. CASE found(i) = {}
    <3>1. FramerCutStep(bytes, f, i) = [out |-> <<>>, left |-> SubSeq(bytes, i, Len(bytes))]
      BY <2>1 DEF FramerCutStep
    <3>2. SubSeq(bytes, i, Len(bytes)) \in Seq(Bytes)
      BY Part, <1>1
    <3> QED
      BY <3>1, <3>2
  <2>2. CASE found(i) # {}
    <3> DEFINE m == Framer!Trimmed(SubSeq(bytes, i, index(i) - 1))
               rest == f[next(i)]
    <3>1. FramerCutStep(bytes, f, i) = [out |-> <<m>> \o rest.out, left |-> rest.left]
      BY <2>2 DEF FramerCutStep
    <3>2. m \in T /\ next(i) \in D
      BY <1>2, <2>2
    <3>3. rest \in V
      BY <3>2
    <3> HIDE DEF m, rest
    <3>4. rest.out \in Seq(T) /\ rest.left \in Seq(Bytes)
      BY <3>3
    <3>5. <<m>> \o rest.out \in Seq(T)
      BY <3>2, <3>4
    <3> QED
      BY <3>1, <3>4, <3>5
  <2> QED
    BY <2>1, <2>2
<1>4. ASSUME NEW f, NEW g, NEW i \in D, \A j \in D : measure[j] < measure[i] => f[j] = g[j]
      PROVE  FramerCutStep(bytes, f, i) = FramerCutStep(bytes, g, i)
  <2>1. found(i) # {} => f[next(i)] = g[next(i)]
    BY <1>2, <1>4
  <2> HIDE DEF measure
  <2> QED
    BY <2>1 DEF FramerCutStep
<1> HIDE DEF found, index, next
<1>5. Recursive(D, V, top, measure, E)
  <2>1. measure \in [D -> 0..top]
    BY <1>1
  <2>2. start \in [D -> V]
    OBVIOUS
  <2> HIDE DEF V
  <2>3. E \in [[D -> V] -> [D -> V]]
    BY <1>3
  <2> HIDE DEF D, measure, start
  <2>4. \A f, g \in [D -> V], i \in D :
          (\A j \in D : measure[j] < measure[i] => f[j] = g[j]) => E[f][i] = E[g][i]
    BY <1>4
  <2> HIDE DEF E
  <2> QED
    BY <1>1, <2>1, <2>2, <2>3, <2>4 DEF Recursive
<1>6. PICK f \in [D -> V] : f = [i \in D |-> FramerCutStep(bytes, f, i)]
  <2>1. \E f \in [D -> V] : f = E[f]
    <3> HIDE DEF D, V, measure, E
    <3> QED
      BY <1>5, Recursion
  <2> HIDE DEF D, V
  <2> QED
    BY <2>1
<1>7. Scan = [i \in D |-> FramerCutStep(bytes, Scan, i)]
  <2> HIDE DEF D, V
  <2> QED
    BY <1>6
<1>8. Framer!Cut(bytes) = Scan[1]
  BY DEF Framer!Cut, FramerCutStep, top
<1> HIDE DEF Scan
<1>9. \A i \in D : f[i] = Scan[i]
  <2>1. SameByMeasure(D, measure, f, Scan)
    <3>1. measure \in [D -> Nat]
      BY <1>1
    <3>2. \A i \in D : (\A j \in D : measure[j] < measure[i] => f[j] = Scan[j]) => f[i] = Scan[i]
      <4> HIDE DEF measure, D, V
      <4> QED
        BY <1>4, <1>6, <1>7
    <3> HIDE DEF measure, D
    <3> QED
      BY <3>1, <3>2 DEF SameByMeasure
  <2> HIDE DEF measure, D
  <2> QED
    BY <2>1, SameThroughout
<1>10. 1 \in D
  BY DEF top
<1>11. \A i \in D : f[i] = FramerCutStep(bytes, f, i)
  <2> HIDE DEF D, V
  <2> QED
    BY <1>6
<1>12. \A i \in D : f[i].out \in Seq(T)
  <2> HIDE DEF D
  <2> QED
    BY <1>6
<1>13. Framer!Cut(bytes) = f[1]
  BY <1>8, <1>9, <1>10
<1> QED
  BY <1>11, <1>12, <1>13 DEF top, T

\* A part of the bytes from p on is a part of them all,
LEMMA FramerPart ==
  ASSUME NEW t \in Seq(Bytes), NEW p \in Nat \ {0}, p <= Len(t) + 1,
         NEW a \in Nat \ {0}, NEW b \in Nat, p + b <= Len(t) + 1
  PROVE  SubSeq(SubSeq(t, p, Len(t)), a, b) = SubSeq(t, p + a - 1, p + b - 1)
<1> DEFINE all == SubSeq(t, p, Len(t))
           u == SubSeq(all, a, b)
           v == SubSeq(t, p + a - 1, p + b - 1)
           n == Len(t)
<1>1. n \in Nat /\ p + a - 1 \in Nat \ {0} /\ p + b - 1 \in Nat /\ p + b - 1 <= n
  OBVIOUS
<1>2. all \in Seq(Bytes) /\ Len(all) = n + 1 - p
      /\ \A i \in 1..Len(all) : all[i] = t[p + i - 1]
  <2>1. all \in Seq(Bytes) /\ Len(all) = n + 1 - p
    BY FramerRest
  <2>2. \A i \in 1..Len(all) : all[i] = t[p + i - 1]
    BY <1>1, Part
  <2> QED
    BY <2>1, <2>2
<1> HIDE DEF all, n
<1>3. b <= Len(all)
  BY <1>1, <1>2 DEF n
<1>4. /\ u \in Seq(Bytes) /\ Len(u) = IF a <= b THEN b + 1 - a ELSE 0
      /\ \A i \in 1..Len(u) : u[i] = all[a + i - 1]
  BY <1>2, <1>3, Part
<1>5. /\ v \in Seq(Bytes) /\ Len(v) = IF p + a - 1 <= p + b - 1 THEN (p + b - 1) + 1 - (p + a - 1) ELSE 0
      /\ \A i \in 1..Len(v) : v[i] = t[(p + a - 1) + i - 1]
  BY <1>1, Part DEF n
<1> HIDE DEF u, v
<1>6. Len(u) = Len(v)
  BY <1>4, <1>5
<1>7. ASSUME NEW i \in 1..Len(u) PROVE u[i] = v[i]
  <2>1. a + i - 1 \in 1..Len(all) /\ p + (a + i - 1) - 1 = (p + a - 1) + i - 1
    <3>1. a <= b /\ i \in Nat \ {0} /\ i <= b + 1 - a
      BY <1>4
    <3>2. a + i - 1 \in Nat \ {0} /\ a + i - 1 <= b
      BY <3>1
    <3>3. Len(all) \in Nat
      BY <1>2
    <3>4. a + i - 1 <= Len(all)
      BY <1>3, <3>2, <3>3
    <3>5. p + (a + i - 1) - 1 = (p + a - 1) + i - 1
      BY <3>1
    <3> QED
      BY <3>2, <3>3, <3>4, <3>5
  <2>2. all[a + i - 1] = t[p + (a + i - 1) - 1]
    BY <1>2, <2>1
  <2> QED
    BY <1>4, <1>5, <1>6, <2>1, <2>2
<1>8. u = v
  BY <1>4, <1>5, <1>6, <1>7, SeqEqual
<1> QED
  BY <1>8 DEF u, v, all

\* and a message begins behind the one before.
LEMMA FramerBegins ==
  ASSUME NEW t \in Seq(Bytes), NEW e, EndsUpTo(t, e, Len(t)), NEW K \in 0..Len(e)
  PROVE  \A k \in K..Len(e) : /\ Begins(e, k) \in Nat \ {0}
                              /\ Begins(e, K) <= Begins(e, k) /\ Begins(e, k) <= Len(t) + 1
<1> DEFINE N == Len(e)
           L == Len(Delimiter)
           S == {d \in Nat : K + d <= N => Begins(e, K) <= Begins(e, K + d)}
<1>1. /\ L \in Nat \ {0} /\ e \in Seq(Nat) /\ N \in Nat /\ K \in Nat /\ K <= N /\ Len(t) \in Nat
      /\ \A i \in Stands(t) : i \in Nat
  BY FramerFound DEF Stands, EndsUpTo
<1>2. \A k \in 1..N : e[k] \in Nat /\ e[k] <= Len(t)
  BY <1>1 DEF EndsUpTo
<1>3. ASSUME NEW k \in 0..N
      PROVE  Begins(e, k) \in Nat \ {0} /\ Begins(e, k) <= Len(t) + 1
  <2>1. k = 0 \/ k \in 1..N
    BY <1>1
  <2> QED
    BY <1>1, <1>2, <2>1 DEF Begins
<1>4. ASSUME NEW k \in 1..N
      PROVE  Begins(e, k - 1) <= Begins(e, k)
  <2>1. PICK i \in Stands(t) : i + L = e[k] + 1 /\ Begins(e, k - 1) <= i
    BY DEF EndsUpTo
  <2>2. Begins(e, k) = e[k] + 1
    BY <1>1 DEF Begins
  <2>3. k - 1 \in 0..N
    BY <1>1
  <2>4. Begins(e, k - 1) \in Nat
    BY <1>3, <2>3
  <2> HIDE DEF L
  <2> QED
    BY <1>1, <2>1, <2>2, <2>4
<1> HIDE DEF N, L
<1>5. 0 \in S
  <2>1. Begins(e, K) \in Nat
    BY <1>1, <1>3
  <2> QED
    BY <1>1, <2>1
<1>6. ASSUME NEW d \in S PROVE d + 1 \in S
  <2> SUFFICES ASSUME K + (d + 1) <= N PROVE Begins(e, K) <= Begins(e, K + (d + 1))
    OBVIOUS
  <2>1. /\ K + (d + 1) \in 1..N /\ (K + (d + 1)) - 1 = K + d /\ K + d <= N
        /\ K + d \in 0..N /\ K + (d + 1) \in 0..N /\ K \in 0..N
    BY <1>1
  <2>2. Begins(e, K) <= Begins(e, K + d) /\ Begins(e, K + d) <= Begins(e, K + (d + 1))
    BY <1>4, <2>1
  <2>3. Begins(e, K) \in Nat /\ Begins(e, K + d) \in Nat /\ Begins(e, K + (d + 1)) \in Nat
    BY <1>3, <2>1
  <2> QED
    BY <2>2, <2>3
<1>7. ASSUME NEW k \in K..N
      PROVE  /\ Begins(e, k) \in Nat \ {0}
             /\ Begins(e, K) <= Begins(e, k) /\ Begins(e, k) <= Len(t) + 1
  <2>1. k \in 0..N /\ k - K \in Nat /\ K + (k - K) = k /\ k <= N
    BY <1>1
  <2>2. k - K \in S
    <3>1. S \in SUBSET Nat
      OBVIOUS
    <3> HIDE DEF S
    <3> QED
      BY <1>5, <1>6, <2>1, <3>1, Induction
  <2> QED
    BY <1>3, <2>1, <2>2
<1> QED
  BY <1>7 DEF N

\* The message before the k-th end.
MessageAt(t, ends, k) == Framer!Trimmed(SubSeq(t, Begins(ends, k - 1), ends[k] - Len(Delimiter)))

\* In the bytes from p on, the message behind the k-th end begins at a place.
BeginsAt(ends, p, k, pos) ==
  /\ p \in Nat \ {0} /\ pos \in Nat \ {0} /\ Begins(ends, k) \in Nat
  /\ p + pos = Begins(ends, k) + 1

\* What the loop does from the place a message begins at is to cut that message out,
LEMMA FramerNextMessage ==
  ASSUME NEW t \in Seq(Bytes), NEW p, p <= Len(t) + 1,
         NEW e, EndsUpTo(t, e, Len(t)), NEW k \in Nat, NEW more, more = k + 1, more <= Len(e),
         NEW From, NEW pos, BeginsAt(e, p, k, pos), NEW next, BeginsAt(e, p, more, next)
  PROVE  FramerCutStep(SubSeq(t, p, Len(t)), From, pos) =
           [out |-> <<MessageAt(t, e, more)>> \o From[next].out, left |-> From[next].left]
<1>0. /\ p \in Nat \ {0} /\ pos \in Nat \ {0} /\ next \in Nat /\ Begins(e, k) \in Nat
      /\ p + pos = Begins(e, k) + 1 /\ p + next = Begins(e, k + 1) + 1 /\ p <= Begins(e, k)
      /\ k + 1 <= Len(e)
  <2>1. \A b, x, y \in Nat : y # 0 /\ x + y = b + 1 => x <= b
    OBVIOUS
  <2> QED
    BY <2>1 DEF BeginsAt
<1> DEFINE all == SubSeq(t, p, Len(t))
           L == Len(Delimiter)
           found == {i \in Framer!Found(all) : pos <= i}
           index == Framer!Min(found)
<1>1. /\ L \in Nat \ {0} /\ e \in Seq(Nat) /\ Len(e) \in Nat /\ Len(t) \in Nat
      /\ \A b : \A i \in Stands(b) : i \in Nat \ {0} /\ i + L <= Len(b) + 1
  BY FramerFound DEF Stands, EndsUpTo
<1>2. /\ all \in Seq(Bytes) /\ Len(all) = Len(t) + 1 - p
      /\ \A i \in Nat \ {0} : i \in Stands(all) <=> i + p - 1 \in Stands(t)
  BY <1>0, FramerRest
<1>3. Framer!Found(all) = Stands(all)
  BY <1>2, FramerFound
<1>4. k + 1 \in 1..Len(e) /\ (k + 1) - 1 = k /\ e[k + 1] \in Nat
  BY <1>1
<1>5. PICK i \in Stands(t) :
        /\ i + L = e[k + 1] + 1 /\ Begins(e, k) <= i
        /\ \A j \in Stands(t) : Begins(e, k) <= j => i <= j
  BY <1>4 DEF EndsUpTo
<1> HIDE DEF L
<1>6. i - p + 1 \in Nat \ {0} /\ (i - p + 1) + p - 1 = i /\ pos <= i - p + 1 /\ i \in Nat
  <2>1. i \in Nat /\ Begins(e, k) <= i
    BY <1>1, <1>5
  <2> QED
    BY <1>0, <2>1
<1>7. i - p + 1 \in found
  BY <1>2, <1>3, <1>5, <1>6
<1>8. /\ index \in Nat \ {0} /\ pos <= index /\ index \in Stands(all)
      /\ \A j \in Stands(all) : pos <= j => index <= j
  <2>1. all \in Seq(Bytes) /\ pos \in Nat /\ found # {}
    BY <1>0, <1>1, <1>2, <1>7
  <2> HIDE DEF all
  <2> QED
    BY <2>1, FramerNextCut
<1> HIDE DEF all, index
<1>9. index = i - p + 1
  <2>1. index <= i - p + 1
    BY <1>3, <1>7, <1>8
  <2>2. index + p - 1 \in Stands(t)
    BY <1>2, <1>8
  <2>3. Begins(e, k) <= index + p - 1
    BY SMTT(30), <1>0, <1>1, <1>8
  <2>4. i <= index + p - 1
    BY <1>5, <2>2, <2>3
  <2> QED
    BY <1>0, <1>6, <1>8, <2>1, <2>4
<1>10. Framer!Trimmed(SubSeq(all, pos, index - 1)) = MessageAt(t, e, k + 1)
  <2>1. index - 1 \in Nat /\ p + (index - 1) <= Len(t) + 1
    BY <1>0, <1>1, <1>2, <1>8
  <2>2. SubSeq(all, pos, index - 1) = SubSeq(t, p + pos - 1, p + (index - 1) - 1)
    <3> DEFINE b == index - 1
    <3>1. p \in Nat \ {0} /\ pos \in Nat \ {0} /\ b \in Nat /\ p + b <= Len(t) + 1
      BY <1>0, <2>1
    <3> HIDE DEF b
    <3>2. SubSeq(all, pos, b) = SubSeq(t, p + pos - 1, p + b - 1)
      BY <3>1, FramerPart DEF all
    <3> QED
      BY <3>2 DEF b
  <2>3. p + pos - 1 = Begins(e, k) /\ p + (index - 1) - 1 = e[k + 1] - L
    <3>1. p + pos - 1 = Begins(e, k)
      <4>1. \A b \in Nat : p + pos = b + 1 => p + pos - 1 = b
        BY <1>0
      <4> QED
        BY <1>0, <4>1
    <3>2. p + (index - 1) - 1 = i - 1
      BY <1>0, <1>6, <1>9
    <3>3. i - 1 = e[k + 1] - L
      <4>1. L \in Nat /\ e[k + 1] \in Nat /\ i \in Nat /\ i + L = e[k + 1] + 1
        BY <1>1, <1>4, <1>5, <1>6
      <4> QED
        BY <4>1
    <3> QED
      BY <3>1, <3>2, <3>3
  <2> QED
    BY <1>4, <2>2, <2>3 DEF MessageAt, L
<1>11. index + L = next
  <2>1. Begins(e, k + 1) = e[k + 1] + 1
    BY DEF Begins
  <2> QED
    BY <1>0, <1>1, <1>4, <1>5, <1>6, <1>9, <2>1
<1>12. found # {}
  BY <1>7
<1>13. FramerCutStep(all, From, pos) =
         [out |-> <<Framer!Trimmed(SubSeq(all, pos, index - 1))>> \o From[index + L].out,
          left |-> From[index + L].left]
  BY <1>12 DEF FramerCutStep, index, L
<1> QED
  BY <1>10, <1>11, <1>13 DEF all

\* and from the place behind the last message to keep what is left.
LEMMA FramerNoMessage ==
  ASSUME NEW t \in Seq(Bytes), NEW p, p <= Len(t) + 1,
         NEW e, EndsUpTo(t, e, Len(t)), NEW From, NEW pos, BeginsAt(e, p, Len(e), pos)
  PROVE  FramerCutStep(SubSeq(t, p, Len(t)), From, pos) =
           [out |-> <<>>, left |-> SubSeq(t, Begins(e, Len(e)), Len(t))]
<1>0. /\ p \in Nat \ {0} /\ pos \in Nat \ {0} /\ Begins(e, Len(e)) \in Nat
      /\ p + pos = Begins(e, Len(e)) + 1
  BY DEF BeginsAt
<1> DEFINE all == SubSeq(t, p, Len(t))
           L == Len(Delimiter)
           found == {i \in Framer!Found(all) : pos <= i}
<1>1. /\ L \in Nat \ {0} /\ Len(t) \in Nat
      /\ \A b : \A i \in Stands(b) : i \in Nat \ {0} /\ i + L <= Len(b) + 1
  BY FramerFound DEF Stands
<1>2. /\ all \in Seq(Bytes) /\ Len(all) = Len(t) + 1 - p
      /\ \A i \in Nat \ {0} : i \in Stands(all) <=> i + p - 1 \in Stands(t)
  BY <1>0, FramerRest
<1>3. Framer!Found(all) = Stands(all)
  BY <1>2, FramerFound
<1>4. \A j \in Stands(t) : Begins(e, Len(e)) <= j => Len(t) + 1 < j + L
  BY DEF EndsUpTo
<1> HIDE DEF all, L
<1>5. ASSUME NEW i \in Stands(all), pos <= i PROVE FALSE
  <2>1. i + p - 1 \in Stands(t) /\ i \in Nat \ {0} /\ i + L <= Len(all) + 1
    BY <1>1, <1>2
  <2>2. Begins(e, Len(e)) <= i + p - 1
    BY <1>0, <1>1, <1>5, <2>1
  <2>3. Len(t) + 1 < (i + p - 1) + L
    BY <1>4, <2>1, <2>2
  <2> QED
    BY <1>0, <1>1, <1>2, <2>1, <2>3
<1>6. found = {}
  BY <1>3, <1>5
<1>7. FramerCutStep(all, From, pos) = [out |-> <<>>, left |-> SubSeq(all, pos, Len(all))]
  BY <1>6 DEF FramerCutStep
<1>8. SubSeq(all, pos, Len(all)) = SubSeq(t, Begins(e, Len(e)), Len(t))
  <2>1. Len(all) \in Nat /\ p + Len(all) <= Len(t) + 1
    BY <1>0, <1>1, <1>2
  <2>2. SubSeq(all, pos, Len(all)) = SubSeq(t, p + pos - 1, p + Len(all) - 1)
    BY <1>0, <1>1, <2>1, FramerPart DEF all
  <2>3. p + pos - 1 = Begins(e, Len(e)) /\ p + Len(all) - 1 = Len(t)
    <3>1. \A b \in Nat : p + pos = b + 1 => p + pos - 1 = b
      BY <1>0
    <3>2. \A n, b \in Nat : b = n + 1 - p => p + b - 1 = n
      BY <1>0
    <3> QED
      BY <1>0, <1>1, <1>2, <2>1, <3>1, <3>2
  <2> QED
    BY <2>2, <2>3
<1> QED
  BY <1>7, <1>8 DEF all

LEMMA FramerOneMore ==
  ASSUME NEW T, NEW m, NEW s \in Seq(T)
  PROVE  /\ Len(<<m>> \o s) = Len(s) + 1 /\ (<<m>> \o s)[1] = m
         /\ \A i \in 1..Len(s) : (<<m>> \o s)[i + 1] = s[i]
<1> DEFINE A == T \cup {m}
           one == <<m>>
           u == one \o s
<1>1. one \in Seq(A) /\ s \in Seq(A) /\ Len(one) = 1 /\ one[1] = m
  OBVIOUS
<1>2. u = one \o s
  OBVIOUS
<1> HIDE DEF A, one, u
<1>3. /\ Len(u) = Len(one) + Len(s)
      /\ \A i \in 1..Len(one) : u[i] = one[i]
      /\ \A i \in 1..Len(s) : u[Len(one) + i] = s[i]
  <2>1. one \in Seq(A) /\ s \in Seq(A)
    BY <1>1
  <2> QED
    BY <1>2, <2>1
<1>4. Len(s) \in Nat /\ 1 \in 1..Len(one)
  BY <1>1
<1>5. Len(u) = Len(s) + 1 /\ u[1] = m
  BY <1>1, <1>3, <1>4
<1>6. \A i \in 1..Len(s) : u[i + 1] = s[i]
  <2>1. \A i \in 1..Len(s) : Len(one) + i = i + 1
    BY <1>1, <1>4
  <2> QED
    BY <1>3, <2>1
<1> QED
  BY <1>5, <1>6 DEF u, one

\* The bytes behind the K-th end.
BehindEnd(t, ends, K, all) == K \in 0..Len(ends) /\ all = SubSeq(t, Begins(ends, K), Len(t))

\* From where the message behind the K-th end begins, feed() cuts out the messages
\* of the ends behind that one, and leaves what is behind the last.
LEMMA FramerCut ==
  ASSUME NEW t \in Seq(Bytes), NEW e, EndsUpTo(t, e, Len(t)), NEW K, NEW all, BehindEnd(t, e, K, all)
  PROVE  /\ Framer!Cut(all).left = SubSeq(t, Begins(e, Len(e)), Len(t))
         /\ Framer!Cut(all).out \in Seq(FramerMessages(all))
         /\ Len(Framer!Cut(all).out) = Len(e) - K
         /\ \A i \in 1..(Len(e) - K) : Framer!Cut(all).out[i] = MessageAt(t, e, K + i)
<1> DEFINE N == Len(e)
           p == Begins(e, K)
           place(k) == Begins(e, k) - p + 1
           T == FramerMessages(all)
<1>0. K \in 0..Len(e) /\ all = SubSeq(t, Begins(e, K), Len(t))
  BY DEF BehindEnd
<1>1. N \in Nat /\ K \in Nat /\ K <= N /\ Len(t) \in Nat
  BY <1>0 DEF EndsUpTo
<1>2. \A k \in K..N : Begins(e, k) \in Nat \ {0} /\ p <= Begins(e, k) /\ Begins(e, k) <= Len(t) + 1
  BY <1>0, FramerBegins
<1>3. p \in Nat \ {0} /\ p <= Len(t) + 1
  <2>1. K \in K..N
    BY <1>1
  <2> QED
    BY <1>2, <2>1
<1>4. all \in Seq(Bytes) /\ Len(all) = Len(t) + 1 - p
  <2> HIDE DEF p
  <2>1. all = SubSeq(t, p, Len(t))
    BY <1>0 DEF p
  <2> QED
    BY <1>3, <2>1, FramerRest
<1>5. PICK From :
        /\ \A pos \in 1..(Len(all) + 1) :
             From[pos] = FramerCutStep(all, From, pos) /\ From[pos].out \in Seq(T)
        /\ Framer!Cut(all) = From[1]
  BY <1>4, FramerCuts
<1> DEFINE Claim(k) ==
             LET r == From[place(k)]
             IN  /\ r.left = SubSeq(t, Begins(e, N), Len(t)) /\ Len(r.out) = N - k
                 /\ \A i \in 1..(N - k) : r.out[i] = MessageAt(t, e, k + i)
           S == {d \in Nat : d <= N - K => Claim(N - d)}
<1> HIDE DEF p, T
<1>6. ASSUME NEW k \in K..N
      PROVE  place(k) \in 1..(Len(all) + 1) /\ BeginsAt(e, p, k, place(k))
  <2>1. \A b \in Nat : p <= b => b - p + 1 \in Nat \ {0} /\ p + (b - p + 1) = b + 1
    BY <1>3
  <2>2. \A b \in Nat : p <= b /\ b <= Len(t) + 1 => b - p + 1 <= Len(all) + 1 /\ Len(all) \in Nat
    BY <1>1, <1>3, <1>4
  <2>3. Begins(e, k) \in Nat /\ p <= Begins(e, k) /\ Begins(e, k) <= Len(t) + 1
    BY <1>2
  <2>4. place(k) \in Nat \ {0} /\ p + place(k) = Begins(e, k) + 1
    BY <2>1, <2>3
  <2>5. place(k) <= Len(all) + 1 /\ Len(all) \in Nat
    BY <2>2, <2>3
  <2> HIDE DEF place
  <2>6. BeginsAt(e, p, k, place(k))
    BY <1>3, <2>3, <2>4 DEF BeginsAt
  <2>7. \A x \in Nat \ {0}, n \in Nat : x <= n + 1 => x \in 1..(n + 1)
    OBVIOUS
  <2> QED
    BY <2>4, <2>5, <2>6, <2>7
<1>7. 0 \in S
  <2>1. N \in K..N /\ N - 0 = N /\ N - N = 0 /\ 1..0 = {}
    BY <1>1
  <2>2. From[place(N)] = FramerCutStep(all, From, place(N))
    BY <1>5, <1>6, <2>1
  <2>3. FramerCutStep(all, From, place(N)) = [out |-> <<>>, left |-> SubSeq(t, Begins(e, N), Len(t))]
    <3>1. BeginsAt(e, p, Len(e), place(N))
      BY <1>6, <2>1
    <3>2. all = SubSeq(t, p, Len(t))
      BY <1>0 DEF p
    <3> HIDE DEF place
    <3>4. FramerCutStep(SubSeq(t, p, Len(t)), From, place(N)) =
            [out |-> <<>>, left |-> SubSeq(t, Begins(e, Len(e)), Len(t))]
      BY <1>3, <3>1, FramerNoMessage
    <3> QED
      BY <3>2, <3>4
  <2>4. Claim(N)
    <3> HIDE DEF place, N
    <3> DEFINE r == From[place(N)]
    <3>0. r = [out |-> <<>>, left |-> SubSeq(t, Begins(e, N), Len(t))]
      BY <2>2, <2>3
    <3> HIDE DEF r
    <3>1. r.left = SubSeq(t, Begins(e, N), Len(t)) /\ r.out = <<>> /\ Len(<<>>) = 0
      BY <3>0
    <3>2. Len(r.out) = N - N /\ \A i \in 1..(N - N) : r.out[i] = MessageAt(t, e, N + i)
      BY <2>1, <3>1
    <3> QED
      BY <3>1, <3>2 DEF r
  <2> HIDE DEF Claim
  <2> QED
    BY <2>1, <2>4
<1>8. ASSUME NEW d \in S PROVE d + 1 \in S
  <2> SUFFICES ASSUME d + 1 <= N - K PROVE Claim(N - (d + 1))
    BY DEF S
  <2> DEFINE k == N - (d + 1)
             m == MessageAt(t, e, k + 1)
  <2>1. /\ k \in Nat /\ k \in K..N /\ k + 1 \in K..N /\ k + 1 = N - d /\ k + 1 <= N /\ d <= N - K
        /\ N - k = N - (k + 1) + 1 /\ N - (k + 1) \in Nat
    BY <1>1
  <2>2. Claim(k + 1)
    <3> HIDE DEF Claim
    <3> QED
      BY <2>1
  <2> HIDE DEF k
  <2> DEFINE rest == From[place(k + 1)]
  <2>3. From[place(k)] = FramerCutStep(all, From, place(k)) /\ rest.out \in Seq(T)
    BY <1>5, <1>6, <2>1
  <2>4. FramerCutStep(all, From, place(k)) = [out |-> <<m>> \o rest.out, left |-> rest.left]
    <3>1. BeginsAt(e, p, k, place(k)) /\ BeginsAt(e, p, k + 1, place(k + 1))
      BY <1>6, <2>1
    <3>2. all = SubSeq(t, p, Len(t))
      BY <1>0 DEF p
    <3> DEFINE more == k + 1
    <3>3. k \in Nat /\ more = k + 1 /\ more <= Len(e) /\ BeginsAt(e, p, more, place(more))
      BY <2>1, <3>1
    <3> HIDE DEF place, more
    <3>4. FramerCutStep(SubSeq(t, p, Len(t)), From, place(k)) =
            [out |-> <<MessageAt(t, e, more)>> \o From[place(more)].out, left |-> From[place(more)].left]
      BY <1>3, <3>1, <3>3, FramerNextMessage
    <3>5. FramerCutStep(SubSeq(t, p, Len(t)), From, place(k)) =
            [out |-> <<m>> \o rest.out, left |-> rest.left]
      BY <3>4 DEF more
    <3> QED
      BY <3>2, <3>5
  <2> DEFINE out == <<m>> \o rest.out
  <2>5. From[place(k)].out = out /\ From[place(k)].left = rest.left
    BY <2>3, <2>4
  <2>6. /\ rest.left = SubSeq(t, Begins(e, N), Len(t)) /\ Len(rest.out) = N - (k + 1)
        /\ \A i \in 1..(N - (k + 1)) : rest.out[i] = MessageAt(t, e, k + 1 + i)
    BY <2>2
  <2> HIDE DEF m, rest, place
  <2>7. /\ Len(out) = Len(rest.out) + 1 /\ out[1] = m
        /\ \A i \in 1..Len(rest.out) : out[i + 1] = rest.out[i]
    BY <2>3, FramerOneMore
  <2> HIDE DEF out
  <2>8. Len(out) = N - k
    BY <2>1, <2>6, <2>7
  <2>9. ASSUME NEW i \in 1..(N - k) PROVE out[i] = MessageAt(t, e, k + i)
    <3>1. CASE i = 1
      BY <2>7, <3>1 DEF m
    <3>2. CASE i # 1
      <4>1. i - 1 \in 1..(N - (k + 1)) /\ (i - 1) + 1 = i /\ k + 1 + (i - 1) = k + i
        BY <1>1, <2>1, <3>2
      <4>2. out[(i - 1) + 1] = rest.out[i - 1]
        BY <2>6, <2>7, <4>1
      <4>3. rest.out[i - 1] = MessageAt(t, e, k + 1 + (i - 1))
        BY <2>6, <4>1
      <4> QED
        BY <4>1, <4>2, <4>3
    <3> QED
      BY <3>1, <3>2
  <2>10. Claim(k)
    BY <2>5, <2>6, <2>8, <2>9
  <2> HIDE DEF Claim
  <2> QED
    BY <2>10 DEF k
<1>9. Claim(K)
  <2>1. S \in SUBSET Nat
    OBVIOUS
  <2> HIDE DEF S
  <2>2. Nat \subseteq S
    BY <1>7, <1>8, <2>1, Induction
  <2>3. N - K \in Nat /\ N - K <= N - K /\ N - (N - K) = K
    BY <1>1
  <2>4. N - K \in S
    BY <2>2, <2>3
  <2> HIDE DEF Claim
  <2> QED
    BY <2>3, <2>4 DEF S
<1>10. place(K) = 1
  BY <1>3 DEF p
<1>11. 1 \in 1..(Len(all) + 1)
  BY <1>3, <1>4
<1> QED
  BY <1>5, <1>9, <1>10, <1>11 DEF T

\* ChunksDoNotMatter of a buffer b and messages m that a stream s was made into.
FramerSound(b, m, s) ==
  /\ m = [k \in 1..Len(Framer!EndsAt(s)) |-> MessageAt(s, Framer!EndsAt(s), k)]
  /\ b = SubSeq(s, Begins(Framer!EndsAt(s), Len(Framer!EndsAt(s))), Len(s))

LEMMA FramerSays ==
  ASSUME NEW b, NEW m, NEW s \in Seq(Bytes)
  PROVE  FramerSound(b, m, s) <=>
           LET ends     == Framer!EndsAt(s)
               Begin(i) == IF i = 1 THEN 1 ELSE ends[i - 1] + 1
           IN  /\ m = [i \in DOMAIN ends |->
                         Framer!Trimmed(SubSeq(s, Begin(i), ends[i] - Len(Delimiter)))]
               /\ b = SubSeq(s, Begin(Len(ends) + 1), Len(s))
<1> DEFINE ends == Framer!EndsAt(s)
           Begin(i) == IF i = 1 THEN 1 ELSE ends[i - 1] + 1
<1>1. ends \in Seq(Nat) /\ Len(ends) \in Nat /\ DOMAIN ends = 1..Len(ends)
  <2>1. ends \in Seq(Nat)
    BY FramerEnds DEF EndsUpTo
  <2> HIDE DEF ends
  <2> QED
    BY <2>1
<1> HIDE DEF ends
<1>2. \A i \in 1..Len(ends) : Begin(i) = Begins(ends, i - 1)
  BY <1>1 DEF Begins
<1>3. Begin(Len(ends) + 1) = Begins(ends, Len(ends))
  BY <1>1 DEF Begins
<1> HIDE DEF Begin
<1>4. [i \in DOMAIN ends |-> Framer!Trimmed(SubSeq(s, Begin(i), ends[i] - Len(Delimiter)))]
        = [k \in 1..Len(ends) |-> MessageAt(s, ends, k)]
  BY <1>1, <1>2 DEF MessageAt
<1> QED
  BY <1>3, <1>4 DEF FramerSound, ends, Begin

\* A message of the bytes so far is one of them and what comes behind.
LEMMA FramerSameMessage ==
  ASSUME NEW s \in Seq(Bytes), NEW c \in Seq(Bytes), NEW a \in Nat \ {0}, NEW b \in Nat, b <= Len(s)
  PROVE  SubSeq(s \o c, a, b) = SubSeq(s, a, b)
<1> DEFINE t == s \o c
           u == SubSeq(t, a, b)
           v == SubSeq(s, a, b)
<1>1. t \in Seq(Bytes) /\ b <= Len(t) /\ \A i \in 1..Len(s) : t[i] = s[i]
  OBVIOUS
<1> HIDE DEF t
<1>2. /\ u \in Seq(Bytes) /\ Len(u) = IF a <= b THEN b + 1 - a ELSE 0
      /\ \A i \in 1..Len(u) : u[i] = t[a + i - 1]
  BY <1>1, Part
<1>3. /\ v \in Seq(Bytes) /\ Len(v) = IF a <= b THEN b + 1 - a ELSE 0
      /\ \A i \in 1..Len(v) : v[i] = s[a + i - 1]
  BY Part
<1> HIDE DEF u, v
<1>4. \A i \in 1..Len(u) : a + i - 1 \in 1..Len(s)
  BY <1>2
<1>5. Len(u) = Len(v) /\ \A i \in 1..Len(u) : u[i] = v[i]
  BY <1>1, <1>2, <1>3, <1>4
<1>6. u = v
  BY <1>2, <1>3, <1>5, SeqEqual
<1> QED
  BY <1>6 DEF t, u, v

\* What is kept with what comes behind it is the end of all.
LEMMA FramerBehind ==
  ASSUME NEW s \in Seq(Bytes), NEW c \in Seq(Bytes), NEW p \in Nat \ {0}, p <= Len(s) + 1
  PROVE  SubSeq(s, p, Len(s)) \o c = SubSeq(s \o c, p, Len(s \o c))
<1> DEFINE t == s \o c
           kept == SubSeq(s, p, Len(s))
           u == kept \o c
           v == SubSeq(t, p, Len(t))
<1>1. /\ t \in Seq(Bytes) /\ Len(t) = Len(s) + Len(c) /\ Len(s) \in Nat /\ Len(c) \in Nat
      /\ \A i \in 1..Len(s) : t[i] = s[i]
      /\ \A i \in 1..Len(c) : t[Len(s) + i] = c[i]
  <2>1. t = s \o c
    OBVIOUS
  <2> HIDE DEF t
  <2> QED
    BY <2>1
<1> HIDE DEF t
<1>2. /\ kept \in Seq(Bytes) /\ Len(kept) = Len(s) + 1 - p
      /\ \A i \in 1..Len(kept) : kept[i] = s[p + i - 1]
  <2>1. kept \in Seq(Bytes) /\ Len(kept) = Len(s) + 1 - p
    BY FramerRest
  <2>2. \A i \in 1..Len(kept) : kept[i] = s[p + i - 1]
    BY <1>1, Part
  <2> QED
    BY <2>1, <2>2
<1>3. /\ v \in Seq(Bytes) /\ Len(v) = Len(t) + 1 - p
      /\ \A i \in 1..Len(v) : v[i] = t[p + i - 1]
  <2>1. p <= Len(t) + 1
    BY <1>1
  <2>2. v \in Seq(Bytes) /\ Len(v) = Len(t) + 1 - p
    BY <1>1, <2>1, FramerRest
  <2>3. \A i \in 1..Len(v) : v[i] = t[p + i - 1]
    BY <1>1, Part
  <2> QED
    BY <2>2, <2>3
<1> HIDE DEF kept
<1>4. /\ u \in Seq(Bytes) /\ Len(u) = Len(kept) + Len(c)
      /\ \A i \in 1..Len(kept) : u[i] = kept[i]
      /\ \A i \in 1..Len(c) : u[Len(kept) + i] = c[i]
  <2>1. u = kept \o c /\ kept \in Seq(Bytes)
    BY <1>2
  <2> HIDE DEF u
  <2> QED
    BY <2>1
<1> HIDE DEF u, v
<1>5. Len(u) = Len(v)
  BY <1>1, <1>2, <1>3, <1>4
<1>6. ASSUME NEW i \in 1..Len(u) PROVE u[i] = v[i]
  <2>1. CASE i <= Len(kept)
    <3>1. i \in 1..Len(kept) /\ p + i - 1 \in 1..Len(s) /\ i \in 1..Len(v)
      BY <1>1, <1>2, <1>5, <2>1
    <3> QED
      BY <1>1, <1>2, <1>3, <1>4, <3>1
  <2>2. CASE i > Len(kept)
    <3>1. PICK k \in 1..Len(c) : i = Len(kept) + k
      <4>1. i - Len(kept) \in 1..Len(c) /\ i = Len(kept) + (i - Len(kept))
        BY <1>1, <1>2, <1>4, <2>2
      <4> QED
        BY <4>1
    <3>2. p + i - 1 = Len(s) + k /\ i \in 1..Len(v)
      BY <1>1, <1>2, <1>5, <3>1
    <3>3. v[i] = t[Len(s) + k]
      BY <1>3, <3>2
    <3> QED
      BY <1>1, <1>4, <3>1, <3>3
  <2>3. i <= Len(kept) \/ i > Len(kept)
    <3>1. i \in Nat /\ Len(kept) \in Nat
      BY <1>2
    <3> QED
      BY <3>1
  <2> QED
    BY <2>1, <2>2, <2>3
<1>7. u = v
  BY <1>3, <1>4, <1>5, <1>6, SeqEqual
<1> QED
  BY <1>7 DEF t, kept, u, v

\* Bytes fed to a sound buffer leave it and the messages sound.
LEMMA FramerFed ==
  ASSUME NEW s \in Seq(Bytes), NEW c \in Seq(Bytes), NEW b, NEW m, FramerSound(b, m, s),
         NEW cut, cut = Framer!Cut(b \o c)
  PROVE  FramerSound(cut.left, m \o cut.out, s \o c)
<1> DEFINE t == s \o c
           E == Framer!EndsAt(s)
           F == Framer!EndsAt(t)
           K == Len(E)
           N == Len(F)
           p == Begins(E, K)
           L == Len(Delimiter)
<1>1. /\ t \in Seq(Bytes) /\ Len(s) \in Nat /\ Len(t) \in Nat /\ Len(s) <= Len(t)
      /\ L \in Nat \ {0} /\ \A x : \A i \in Stands(x) : i \in Nat \ {0}
  <2>1. L \in Nat \ {0} /\ \A x : \A i \in Stands(x) : i \in Nat \ {0}
    BY FramerFound DEF Stands
  <2> HIDE DEF L
  <2> QED
    BY <2>1
<1>2. EndsUpTo(s, E, Len(s)) /\ EndsUpTo(t, E, Len(s)) /\ EndsUpTo(t, F, Len(t))
  <2>1. EndsUpTo(s, E, Len(s)) /\ EndsUpTo(t, F, Len(t))
    BY <1>1, FramerEnds
  <2> HIDE DEF E, F
  <2> QED
    BY <2>1, FramerLonger
<1> HIDE DEF t, E, F
<1>3. K <= N /\ (\A k \in 1..K : F[k] = E[k]) /\ K \in Nat /\ N \in Nat
  <2>1. K <= N /\ \A k \in 1..K : F[k] = E[k]
    BY <1>1, <1>2, FramerFurther
  <2>2. E \in Seq(Nat) /\ F \in Seq(Nat)
    BY <1>2 DEF EndsUpTo
  <2> QED
    BY <2>1, <2>2
<1> HIDE DEF K, N
<1>4. \A k \in 0..K : Begins(F, k) = Begins(E, k)
  BY <1>3 DEF Begins
<1>5. \A k \in 0..K : Begins(E, k) \in Nat \ {0} /\ Begins(E, k) <= Len(s) + 1
  <2>1. 0 \in 0..Len(E)
    BY <1>3 DEF K
  <2> QED
    BY <1>2, <2>1, FramerBegins DEF K
<1>6. p \in Nat \ {0} /\ p <= Len(s) + 1 /\ p = Begins(F, K)
  <2>1. K \in 0..K
    BY <1>3
  <2> QED
    BY <1>4, <1>5, <2>1
<1>7. b \o c = SubSeq(t, Begins(F, K), Len(t))
  <2>1. b = SubSeq(s, p, Len(s))
    BY DEF FramerSound, E, K
  <2> HIDE DEF p
  <2> QED
    BY <1>6, <2>1, FramerBehind DEF t
<1> DEFINE T == FramerMessages(b \o c)
<1>8. /\ cut.left = SubSeq(t, Begins(F, N), Len(t)) /\ cut.out \in Seq(T)
      /\ Len(cut.out) = N - K
      /\ \A i \in 1..(N - K) : cut.out[i] = MessageAt(t, F, K + i)
  <2>1. K \in 0..Len(F)
    BY <1>3 DEF N
  <2> DEFINE all == b \o c
  <2> HIDE DEF all
  <2>2. BehindEnd(t, F, K, all)
    BY <1>7, <2>1 DEF all, BehindEnd
  <2>3. /\ Framer!Cut(all).left = SubSeq(t, Begins(F, N), Len(t))
        /\ Framer!Cut(all).out \in Seq(FramerMessages(all))
        /\ Len(Framer!Cut(all).out) = N - K
        /\ \A i \in 1..(N - K) : Framer!Cut(all).out[i] = MessageAt(t, F, K + i)
    BY <1>1, <1>2, <2>2, FramerCut DEF N
  <2> QED
    BY <2>3 DEF all
<1>9. ASSUME NEW k \in 1..K PROVE MessageAt(s, E, k) = MessageAt(t, F, k)
  <2>1. k - 1 \in 0..K /\ F[k] = E[k]
    BY <1>3
  <2>2. PICK i \in Stands(s) : i + L = E[k] + 1
    BY <1>2 DEF EndsUpTo, K
  <2>3. E[k] \in Nat /\ E[k] <= Len(s) /\ i \in Nat \ {0}
    <3>1. k \in 1..Len(E) /\ E \in Seq(Nat)
      BY <1>2 DEF EndsUpTo, K
    <3>2. E[k] <= Len(s)
      BY <1>2, <3>1 DEF EndsUpTo
    <3> QED
      BY <1>1, <3>1, <3>2
  <2> HIDE DEF L
  <2>4. E[k] - L \in Nat /\ E[k] - L <= Len(s)
    <3>1. \A x, y \in Nat, z \in Nat \ {0} : z + y = x + 1 => x - y \in Nat /\ x - y <= x
      OBVIOUS
    <3>2. E[k] - L \in Nat /\ E[k] - L <= E[k]
      BY <1>1, <2>2, <2>3, <3>1
    <3> QED
      BY <1>1, <2>3, <3>2
  <2> DEFINE x == Begins(E, k - 1)
             y == E[k] - L
  <2>5. x \in Nat \ {0} /\ y \in Nat /\ y <= Len(s)
    BY <1>5, <2>1, <2>4
  <2> HIDE DEF x, y
  <2>6. SubSeq(t, x, y) = SubSeq(s, x, y)
    BY <2>5, FramerSameMessage DEF t
  <2> QED
    BY <1>4, <2>1, <2>6 DEF MessageAt, x, y, L
<1> DEFINE U == T \cup {MessageAt(t, F, k) : k \in 1..K}
           new == m \o cut.out
<1>10. m = [k \in 1..K |-> MessageAt(t, F, k)]
  <2>1. m = [k \in 1..K |-> MessageAt(s, E, k)]
    BY DEF FramerSound, E, K
  <2> QED
    BY <1>9, <2>1
<1>11. m \in Seq(U) /\ cut.out \in Seq(U) /\ Len(m) = K
  <2>1. \A k \in 1..K : MessageAt(t, F, k) \in U
    OBVIOUS
  <2>2. T \subseteq U
    OBVIOUS
  <2> HIDE DEF U, T
  <2>3. m \in [1..K -> U]
    BY <1>10, <2>1
  <2>4. K \in Nat
    BY <1>3
  <2>5. m \in Seq(U) /\ Len(m) = K
    BY <2>3, <2>4
  <2>6. cut.out \in Seq(T)
    BY <1>8
  <2>7. cut.out \in Seq(U)
    BY <2>2, <2>6
  <2> QED
    BY <2>5, <2>7
<1> HIDE DEF U
<1>12. /\ new \in Seq(U) /\ Len(new) = Len(m) + Len(cut.out)
       /\ \A k \in 1..Len(m) : new[k] = m[k]
       /\ \A k \in 1..Len(cut.out) : new[Len(m) + k] = cut.out[k]
  <2> DEFINE more == cut.out
  <2>1. new = m \o more /\ m \in Seq(U) /\ more \in Seq(U)
    BY <1>11
  <2> HIDE DEF new, more
  <2>2. /\ new \in Seq(U) /\ Len(new) = Len(m) + Len(more)
        /\ \A k \in 1..Len(m) : new[k] = m[k]
        /\ \A k \in 1..Len(more) : new[Len(m) + k] = more[k]
    BY <2>1
  <2> QED
    BY <2>2 DEF more
<1> HIDE DEF new
<1>13. Len(new) = N
  BY <1>3, <1>8, <1>11, <1>12
<1>14. ASSUME NEW k \in 1..N PROVE new[k] = MessageAt(t, F, k)
  <2>1. CASE k \in 1..K
    BY <1>10, <1>11, <1>12, <2>1
  <2>2. CASE k \notin 1..K
    <3>1. k - K \in 1..(N - K) /\ K + (k - K) = k
      BY <1>3, <2>2
    <3>2. new[K + (k - K)] = cut.out[k - K]
      BY <1>8, <1>11, <1>12, <3>1
    <3>3. cut.out[k - K] = MessageAt(t, F, K + (k - K))
      BY <1>8, <3>1
    <3> QED
      BY <3>1, <3>2, <3>3
  <2> QED
    BY <2>1, <2>2
<1>15. new = [k \in 1..N |-> MessageAt(t, F, k)]
  <2>1. new = [k \in 1..N |-> new[k]]
    BY <1>12, <1>13
  <2> QED
    BY <1>14, <2>1
<1> QED
  BY <1>8, <1>15 DEF FramerSound, t, F, N, new

\* The framer's inductive invariant.
FramerIInv == stream \in Seq(Bytes) /\ FramerSound(buffer, messages, stream)

LEMMA FramerEmpty ==
  FramerSound(<<>>, <<>>, <<>>)
<1> DEFINE s == <<>>
           ends == Framer!EndsAt(s)
<1>1. s \in Seq(Bytes) /\ Len(s) = 0
  OBVIOUS
<1>2. EndsUpTo(s, ends, Len(s))
  BY <1>1, FramerEnds
<1>3. ends \in Seq(Nat)
  BY <1>2 DEF EndsUpTo
<1> HIDE DEF s, ends
<1>4. Len(ends) = 0
  <2>1. Stands(s) = {}
    <3>1. \A i \in Nat \ {0} : ~(i + Len(Delimiter) <= Len(s) + 1)
      <4>1. Len(Delimiter) \in Nat \ {0}
        BY <1>1, FramerFound
      <4> QED
        BY <1>1, <4>1
    <3> QED
      BY <3>1 DEF Stands
  <2>2. 1..Len(ends) = {}
    BY <1>2, <2>1 DEF EndsUpTo
  <2>3. Len(ends) \in Nat
    BY <1>3
  <2> QED
    BY <2>2, <2>3
<1>5. [k \in 1..Len(ends) |-> MessageAt(s, ends, k)] = <<>>
  <2>1. 1..Len(ends) = {}
    BY <1>4
  <2>2. <<>> = [k \in {} |-> MessageAt(s, ends, k)]
    OBVIOUS
  <2> QED
    BY <2>1, <2>2
<1>6. SubSeq(s, Begins(ends, Len(ends)), Len(s)) = <<>>
  <2>1. Begins(ends, Len(ends)) = 1
    BY <1>4 DEF Begins
  <2> QED
    BY <1>1, <2>1, SubSeqEmpty
<1> QED
  BY <1>5, <1>6 DEF FramerSound, s, ends

LEMMA FramerInit ==
  ASSUME Framer!Init
  PROVE  FramerIInv
BY FramerEmpty DEF Framer!Init, FramerIInv

LEMMA FramerNext ==
  ASSUME FramerIInv, [Framer!Next]_framer
  PROVE  FramerIInv'
<1>1. ASSUME NEW chunk \in Framer!Chunks, Framer!Feed(chunk)
      PROVE  FramerIInv'
  <2>1. chunk \in Seq(Bytes)
    <3>1. MaxChunk \in Nat
      BY FramerAssumption
    <3>2. PICK n \in 1..MaxChunk : chunk \in [1..n -> Bytes]
      BY DEF Framer!Chunks
    <3>3. n \in Nat
      BY <3>1
    <3> QED
      BY <3>2, <3>3
  <2> DEFINE cut == Framer!Cut(buffer \o chunk)
  <2>2. buffer' = cut.left /\ messages' = messages \o cut.out /\ stream' = stream \o chunk
    BY <1>1 DEF Framer!Feed
  <2>3. stream \in Seq(Bytes) /\ FramerSound(buffer, messages, stream)
    BY DEF FramerIInv
  <2>4. FramerSound(cut.left, messages \o cut.out, stream \o chunk)
    <3>1. cut = Framer!Cut(buffer \o chunk)
      OBVIOUS
    <3> HIDE DEF cut
    <3> QED
      BY <2>1, <2>3, <3>1, FramerFed
  <2> HIDE DEF cut
  <2>5. FramerSound(buffer', messages', stream')
    BY <2>2, <2>4
  <2>6. stream' \in Seq(Bytes)
    BY <2>1, <2>2, <2>3
  <2> QED
    BY <2>5, <2>6 DEF FramerIInv, FramerSound, Framer!EndsAt, Framer!Found, MessageAt, Framer!Trimmed, Begins
<1>2. ASSUME Framer!Flush PROVE FramerIInv'
  <2>1. buffer' = <<>> /\ messages' = <<>> /\ stream' = <<>>
    BY <1>2 DEF Framer!Flush
  <2>2. FramerSound(buffer', messages', stream') /\ stream' \in Seq(Bytes)
    BY <2>1, FramerEmpty
  <2> QED
    BY <2>2 DEF FramerIInv, FramerSound, Framer!EndsAt, Framer!Found, MessageAt, Framer!Trimmed, Begins
<1>3. ASSUME UNCHANGED framer PROVE FramerIInv'
  <2>1. FramerSound(buffer', messages', stream') /\ stream' \in Seq(Bytes)
    BY <1>3 DEF FramerIInv, framer
  <2> QED
    BY <2>1 DEF FramerIInv, FramerSound, Framer!EndsAt, Framer!Found, MessageAt, Framer!Trimmed, Begins
<1> QED
  BY <1>1, <1>2, <1>3 DEF Framer!Next

LEMMA FramerAll ==
  ASSUME FramerIInv
  PROVE  Framer!ChunksDoNotMatter
<1>1. stream \in Seq(Bytes) /\ FramerSound(buffer, messages, stream)
  BY DEF FramerIInv
<1>2. LET ends     == Framer!EndsAt(stream)
          Begin(i) == IF i = 1 THEN 1 ELSE ends[i - 1] + 1
      IN  /\ messages = [i \in DOMAIN ends |->
                           Framer!Trimmed(SubSeq(stream, Begin(i), ends[i] - Len(Delimiter)))]
          /\ buffer = SubSeq(stream, Begin(Len(ends) + 1), Len(stream))
  BY <1>1, FramerSays
<1> QED
  BY <1>2 DEF Framer!ChunksDoNotMatter

\* However a stream is cut into the chunks that feed() is called with, the messages it
\* returns and what it keeps are those of the stream: a delimiter that two chunks
\* share is found, and none is found twice.
THEOREM FramerCutsTheStream ==
  ShelfSpec => []ChunksDoNotMatter
<1>1. [ShelfNext]_<<core, vars, loader, bus, framer, telnet, evidence, flow, metrics,
                    directory, health, typed, sheet, shelved>> => [Framer!Next]_framer
  BY DEF ShelfNext, Turn
<1>2. ShelfInit => FramerIInv
  BY FramerInit DEF ShelfInit
<1>3. FramerIInv /\ [Framer!Next]_framer => FramerIInv'
  BY FramerNext
<1>4. FramerIInv => ChunksDoNotMatter
  BY FramerAll DEF ChunksDoNotMatter
<1> QED
  BY <1>1, <1>2, <1>3, <1>4, PTL DEF ShelfSpec
================================================================================
