----------------------------- MODULE MCUploads ------------------------------
(* Values for the run of Uploads: two validators, two messages of which    *)
(* one starts with the other, instructions of two lengths.                 *)
EXTENDS Uploads

TwoMessages == <<<<7>>, <<7, 8>>>>
TwoCalls == {<<1, 1>>, <<2, 2, 1>>}

\* With a message before and after the one that starts with it.
SomeBatches == {<<<<1, 1>>>>, <<<<1, 2>>, <<2, 1>>>>, <<<<2, 1>>, <<2, 2>>>>}

\* Hashes in an order unrelated to that of keys and messages.
Rank(key, signature, message) == 1 + ((5 * key + 3 * Len(message) + 2 * signature) % 11)
=============================================================================
