---------------------------- MODULE SealableMap ----------------------------
(***************************************************************************)
(* What the sealable trie promises: a map from keys to value hashes of     *)
(* which no key is a prefix of another, whose values can be sealed for     *)
(* good.  The answers are those of the methods of Trie in                  *)
(* sealable-trie/src/trie.rs; nothing is said of nodes, memory or hashes.  *)
(*                                                                         *)
(* An absent key may be answered Sealed instead of absent only where it    *)
(* is shadowed: below some prefix of the key there are keys and all of     *)
(* them are sealed.                                                        *)
(***************************************************************************)
EXTENDS Sequences, SequencesExt, FiniteSets

CONSTANTS Keys,     \* keys of the callers, sequences of bits
          Values,   \* hashes of values
          Absent    \* no value

VARIABLES map,      \* the value of every key, or Absent
          sealed,   \* the keys whose value is sealed
          answer    \* the answer to the last call: [op, key, res, value]

vars == <<map, sealed, answer>>

Present == {k \in Keys : map[k] # Absent}

Below(p) == {k \in Present : IsPrefix(p, k)}

Shadowed(k) ==
    \E n \in 0 .. Len(k) :
        LET below == Below(SubSeq(k, 1, n)) IN below # {} /\ below \subseteq sealed

\* Present keys that are in the way of a new key.
Conflicts(k) == {j \in Present \ {k} : IsPrefix(j, k) \/ IsPrefix(k, j)}

Answer(op, k, res, value) == answer' = [op |-> op, key |-> k, res |-> res, value |-> value]

Keep == UNCHANGED <<map, sealed>>

Init ==
    /\ map = [k \in Keys |-> Absent]
    /\ sealed = {}
    /\ answer = [op |-> "new", key |-> <<>>, res |-> "Ok", value |-> Absent]

-----------------------------------------------------------------------------
CanSet(k) == /\ k # <<>> /\ k \notin sealed /\ Conflicts(k) = {}

\* When set may fail with an error, and then change nothing.  It may always
\* fail for lack of memory.
MayFail(k, error) ==
    CASE error = "Sealed"       -> k \in sealed \/ Shadowed(k)
      [] error = "BadKeyPrefix" -> Conflicts(k) # {}
      [] error = "EmptyKey"     -> k = <<>> /\ Present = {}
      [] error = "OutOfMemory"  -> TRUE

Errors == {"Sealed", "BadKeyPrefix", "EmptyKey", "OutOfMemory"}

Set(k, v) ==
    \/ /\ Answer("set", k, "Ok", v)
       /\ CanSet(k)
       /\ map' = [map EXCEPT ![k] = v] /\ UNCHANGED sealed
    \/ \E error \in Errors : Answer("set", k, error, v) /\ MayFail(k, error) /\ Keep

\* Either both or neither happens.
SetAndSeal(k, v) ==
    \/ /\ Answer("set_and_seal", k, "Ok", v)
       /\ CanSet(k)
       /\ map' = [map EXCEPT ![k] = v] /\ sealed' = sealed \cup {k}
    \/ \E error \in Errors : Answer("set_and_seal", k, error, v) /\ MayFail(k, error) /\ Keep

Seal(k) ==
    \/ /\ Answer("seal", k, "Ok", Absent)
       /\ k \in Present \ sealed
       /\ sealed' = sealed \cup {k} /\ UNCHANGED map
    \/ Answer("seal", k, "Sealed", Absent) /\ (k \in sealed \/ Shadowed(k)) /\ Keep
    \/ Answer("seal", k, "NotFound", Absent) /\ k \notin Present /\ Keep

\* Removing a key needs no memory: it always succeeds when the key is there.
Del(k) ==
    \/ /\ Answer("del", k, "Ok", Absent)
       /\ k \in Present \ sealed
       /\ map' = [map EXCEPT ![k] = Absent] /\ UNCHANGED sealed
    \/ Answer("del", k, "Sealed", Absent) /\ (k \in sealed \/ Shadowed(k)) /\ Keep
    \/ Answer("del", k, "NotFound", Absent) /\ k \notin Present /\ Keep

\* What get may answer, as a pair of result and value.
Readings(k) ==
    (IF k \notin sealed THEN {<<"Ok", map[k]>>} ELSE {})
        \cup (IF k \in sealed \/ (k \notin Present /\ Shadowed(k)) THEN {<<"Sealed", Absent>>}
              ELSE {})

Next ==
    \E k \in Keys :
        \/ \E v \in Values : Set(k, v) \/ SetAndSeal(k, v)
        \/ Seal(k)
        \/ Del(k)

Spec == Init /\ [][Next]_vars
=============================================================================
