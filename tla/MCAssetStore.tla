---------------------------- MODULE MCAssetStore ----------------------------
\* Two clients: a Put or a Delete beside any other operation, two Puts at once,
\* and whatever either does next to what they left.
EXTENDS AssetStore

CONSTANTS c1, c2

MCName == <<"logo", "stamp">>

\* Under the first name a long file and a short one that leaves its tail, if
\* anything does; under the other an empty file.
MCContent == [n \in ToSet(MCName) |-> IF n = "logo" THEN {<<1, 2>>, <<3>>} ELSE {<<>>}]

Clients == {c1, c2}

ClientSymmetry == Permutations(Clients)
=============================================================================
