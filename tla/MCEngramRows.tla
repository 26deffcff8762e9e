---------------------------- MODULE MCEngramRows ----------------------------
(* Three rows and a cache of two: a request can exceed the cache.           *)
EXTENDS EngramRows

CONSTANTS r1, r2, r3

Item(row, owned) == [row |-> row, owned |-> owned]
MCRows == {r1, r2, r3}
MCRequests == {<<Item(r1, TRUE)>>,
               <<Item(r1, TRUE), Item(r2, TRUE), Item(r3, TRUE)>>,
               <<Item(r2, TRUE), Item(r1, FALSE), Item(r2, TRUE)>>,
               <<Item(r2, FALSE), Item(r1, TRUE)>>}
=============================================================================
