------------------------------- MODULE Memory -------------------------------
(***************************************************************************)
(* What a project's memory promises: a map from keys to values that changes *)
(* one call at a time.  A call saves or merges the items it names, forgets  *)
(* the key it names, or records the project's root; it forgets other keys   *)
(* only to stay within the capacity.  A save that breaks off loses nothing, *)
(* or the map as a whole.                                                   *)
(***************************************************************************)
EXTENDS Integers, Sequences, FiniteSets, SequencesExt

CONSTANTS RootKey, MaxEntries

VARIABLE known   \* the value of every key that is recalled, a list of parts

With(m, key, value) == [k \in DOMAIN m \cup {key} |-> IF k = key THEN value ELSE m[k]]
Without(m, gone) == [k \in DOMAIN m \ gone |-> m[k]]

\* The maps that one saved item may leave: a key that is merged takes another part, one
\* that is saved a new value, at the cost of others when there is no room.
Saved(m, item) ==
    IF item.merge /\ item.key \in DOMAIN m
    THEN LET parts == m[item.key]
         IN  {IF Contains(parts, item.value) THEN m
              ELSE With(m, item.key, Append(parts, item.value))}
    ELSE LET new == With(m, item.key, <<item.value>>)
             excess == Cardinality(DOMAIN new) - MaxEntries
         IN  {Without(new, gone) :
                 gone \in {g \in SUBSET (DOMAIN new \ {item.key}) :
                              Cardinality(g) = IF excess > 0 THEN excess ELSE 0}}

Remember(items) ==
    LET maps[n \in 0..Len(items)] ==
            IF n = 0 THEN {known} ELSE UNION {Saved(m, items[n]) : m \in maps[n - 1]}
    IN  known' \in maps[Len(items)]
Forget(key) == known' = Without(known, {key})
RecordRoot == known' = With(known, RootKey, <<RootKey>>)
Lose == known' = <<>>
=============================================================================
