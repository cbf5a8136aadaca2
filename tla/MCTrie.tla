------------------------------- MODULE MCTrie -------------------------------
(* Instances of Trie with bytes of two bits. *)
EXTENDS Trie

\* No byte, every byte, and two keys of three bytes, more than one Extension
\* can hold.
SomeKeys == {<<>>, <<0, 0>>, <<0, 1>>, <<1, 0>>, <<1, 1>>, <<0, 0, 1, 0, 1, 1>>,
             <<0, 0, 1, 0, 1, 0>>}

\* The answer does not influence what happens next: states that differ in it
\* alone are explored once.  Steps are still checked with their answers.
Account == <<pool, root_ptr, root_hash>>

\* Nothing tells one value from another.
AnyValue == Permutations(Values)
=============================================================================
