------------------------------- MODULE Registries -------------------------------
(***************************************************************************)
(* The registries of feature_flags.py, plugin_registry.py and              *)
(* repository.py: a dict of what was added, and beside it what was said of *)
(* some names since. A behaviour is of one of them and of its users' calls,*)
(* a call that is refused with an error included.                          *)
(***************************************************************************)
EXTENDS Naturals, Sequences, FiniteSetsExt, Keeping

CONSTANTS Names,     \* of flags and plugins, and keys of entities
          Plugins, Incapable, \* plugins, and those that lack what the registry requires
          Entities,
          MaxCalls   \* bound: how many calls are explored

VARIABLES registry, \* which of the three
          items,    \* self._flags, self._plugins or self._items, in dict order
          marks,    \* self._overrides, or "off" of every name in self._disabled
          calls     \* history: the calls made, in order

vars == <<registry, items, marks, calls>>

Init ==
  /\ registry \in {"flags", "plugins", "repository"}
  /\ items = <<>> /\ marks = <<>> /\ calls = <<>>

\* A dict: what it holds of a name, an assignment to a name it lacks or has, a pop.
Has(n)  == \E i \in DOMAIN items : items[i].name = n
Held(n) == (CHOOSE item \in Range(items) : item.name = n).value

Added(n, value) == IF Has(n) THEN items ELSE Append(items, [name |-> n, value |-> value])
Pop(n)          == Keep(items, {item \in Range(items) : item.name # n})

Marked(n, on) == [m \in DOMAIN marks \cup {n} |-> IF m = n THEN on ELSE marks[m]]
Unmarked(n)   == [m \in DOMAIN marks \ {n} |-> marks[m]]

Call(where, op, n, value) ==
  /\ registry = where /\ Len(calls) < MaxCalls
  /\ calls' = Append(calls, [op |-> op, name |-> n, value |-> value])
  /\ UNCHANGED registry

--------------------------------------------------------------------------------
\* FlagRegistry. A name that is taken is refused, and so is everything else that is
\* asked of a name that is not there.
RegisterFlag(n, default) ==
  /\ Call("flags", "add", n, default)
  /\ items' = Added(n, default)
  /\ UNCHANGED marks

Override(n, on) ==
  /\ Call("flags", "say", n, on)
  /\ marks' = IF Has(n) THEN Marked(n, on) ELSE marks
  /\ UNCHANGED items

ResetFlag(n) ==
  /\ Call("flags", "reset", n, "default")
  /\ marks' = IF Has(n) THEN Unmarked(n) ELSE marks
  /\ UNCHANGED items

\* Mutant of Retire: the override is kept.
RetireFlagOnly(n) ==
  /\ Call("flags", "remove", n, "nothing")
  /\ items' = Pop(n)
  /\ UNCHANGED marks

Retire(n) ==
  /\ Call("flags", "remove", n, "nothing")
  /\ items' = Pop(n)
  /\ marks' = IF Has(n) THEN Unmarked(n) ELSE marks

IsOn(n) == IF n \in DOMAIN marks THEN marks[n] ELSE Held(n)

\* PluginRegistry. There is no way out of it.
RegisterPlugin(n, plugin) ==
  /\ Call("plugins", "add", n, plugin)
  /\ items' = IF plugin \in Incapable THEN items ELSE Added(n, plugin)
  /\ UNCHANGED marks

DisablePlugin(n) ==
  /\ Call("plugins", "say", n, "off")
  /\ marks' = IF Has(n) THEN Marked(n, "off") ELSE marks
  /\ UNCHANGED items

EnablePlugin(n) ==
  /\ Call("plugins", "say", n, "on")
  /\ marks' = IF Has(n) THEN Unmarked(n) ELSE marks
  /\ UNCHANGED items

Active == Keep(items, {item \in Range(items) : item.name \notin DOMAIN marks})

\* InMemoryRepository. An update takes its predecessor's place.
AddEntity(n, entity) ==
  /\ Call("repository", "add", n, entity)
  /\ items' = Added(n, entity)
  /\ UNCHANGED marks

UpdateEntity(n, entity) ==
  /\ Call("repository", "update", n, entity)
  /\ items' = [i \in DOMAIN items |->
                 IF items[i].name = n THEN [items[i] EXCEPT !.value = entity] ELSE items[i]]
  /\ UNCHANGED marks

RemoveEntity(n) ==
  /\ Call("repository", "remove", n, "nothing")
  /\ items' = Pop(n)
  /\ UNCHANGED marks

Next ==
  \E n \in Names :
    \/ \E on \in {"on", "off"} : RegisterFlag(n, on) \/ Override(n, on)
    \/ ResetFlag(n) \/ Retire(n)
    \/ \E plugin \in Plugins : RegisterPlugin(n, plugin)
    \/ DisablePlugin(n) \/ EnablePlugin(n)
    \/ \E entity \in Entities : AddEntity(n, entity) \/ UpdateEntity(n, entity)
    \/ RemoveEntity(n)

Spec == Init /\ [][Next]_vars

--------------------------------------------------------------------------------
\* What the registry lists, in order, each with what it answers of it.
Listed ==
  CASE registry = "flags"   -> [i \in DOMAIN items |-> <<items[i].name, IsOn(items[i].name)>>]
    [] registry = "plugins" -> [i \in DOMAIN Active |-> <<Active[i].name, Active[i].value>>]
    [] OTHER                -> [i \in DOMAIN items |-> <<items[i].name, items[i].value>>]

\* What the users can say of a name from the calls they made: when it was last added,
\* and what was last said of it since.
Adding     == {"add"}
Removing   == {"remove"}
Saying     == {"say", "reset", "update"}
On(n, ops) == {i \in DOMAIN calls : calls[i].name = n /\ calls[i].op \in ops}
Gone(n)    == Max({0} \cup On(n, Removing))
Adds(n)    == {i \in On(n, Adding) : i > Gone(n) /\ calls[i].value \notin Incapable}
Born(n)    == Min(Adds(n))
Recent(n)  == Max({Born(n)} \cup {i \in On(n, Saying) : i > Born(n)})
Latest(n)  == calls[Recent(n)]
Due(n)     == IF registry # "plugins" /\ Latest(n).op \in {"say", "update"} THEN Latest(n).value
              ELSE calls[Born(n)].value
Shown(n)   == Adds(n) # {} /\ (registry = "plugins" => Latest(n).value # "off")

\* What a registry lists is what the calls since a name was last added make of it: no
\* override outlives the flag it was of, no refused call leaves a trace, a disabled
\* plugin is not handed out, and the order is that of the additions, whatever was
\* updated, disabled, or came and went between.
AnswersFollowTheCalls ==
  /\ {Listed[i][1] : i \in DOMAIN Listed} = {n \in Names : Shown(n)}
  /\ \A i \in DOMAIN Listed : Listed[i][2] = Due(Listed[i][1])
  /\ \A i, j \in DOMAIN Listed : i < j => Born(Listed[i][1]) < Born(Listed[j][1])

--------------------------------------------------------------------------------
\* What it rests on: the shape of a state,
Values == Plugins \cup Entities \cup {"on", "off", "default", "nothing"}
Items  == [name : Names, value : Values]
Calls  == [op : Adding \cup Removing \cup Saying, name : Names, value : Values]

TypeOK ==
  /\ registry \in {"flags", "plugins", "repository"}
  /\ items \in Seq(Items) /\ calls \in Seq(Calls)
  /\ DOMAIN marks \subseteq Names

\* that each registry has calls of its own,
Spoken ==
  \A i \in DOMAIN calls :
    /\ registry # "repository" => calls[i].op # "update"
    /\ registry = "repository" => calls[i].op # "say"
    /\ registry = "plugins" /\ calls[i].op = "add" => calls[i].value # "off"
    /\ registry = "plugins" => calls[i].op \in {"add", "say"}

\* what has become of each name, in order,
Standing ==
  /\ \A n \in Names : Has(n) <=> Adds(n) # {}
  /\ \A i, j \in DOMAIN items : i < j => Born(items[i].name) < Born(items[j].name)
  /\ \A i \in DOMAIN items :
       LET n == items[i].name
       IN  items[i].value = IF Latest(n).op = "update" THEN Latest(n).value ELSE calls[Born(n)].value

\* and what was said of it last.
Switched(n) == Adds(n) # {} /\ Latest(n).op = "say" /\ (registry = "plugins" => Latest(n).value = "off")
Said ==
  registry # "repository" =>
    \A n \in Names : /\ n \in DOMAIN marks <=> Switched(n)
                     /\ n \in DOMAIN marks => marks[n] = Latest(n).value

IInv == TypeOK /\ Spoken /\ Standing /\ Said
================================================================================
