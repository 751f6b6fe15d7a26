--------------------------- MODULE MCConfiguration ---------------------------
(* Configuration on an instance for TLC: two files, two entities, and the     *)
(* documents that take each way through the parser and the load.              *)
EXTENDS Configuration, TLC

CONSTANTS a, b, p1, p2, g1

Good(n, i) == [name |-> n, interval |-> i, flaw |-> "none"]
Doc(g, items) == [form |-> "object", global |-> g, items |-> items]
NoDoc(form) == [form |-> form, global |-> Defaults, items |-> <<>>]

MCIntervals == {-1, 0, 1, 2}

MCDocuments ==
    {NoDoc("absent"), NoDoc("garbled"),
     Doc(Defaults, <<Good(a, 1)>>),
     Doc(g1, <<Good(a, 2), Good(b, -1), Good(a, 1)>>),
     Doc(g1, <<Good(b, 1), Good(a, 0)>>),
     Doc(g1, <<Good(b, 1), Good(NoName, 1)>>),
     Doc(Defaults, <<[Good(b, 1) EXCEPT !.flaw = "unknown monitor type"]>>)}

MCAdded == {[name |-> a, interval |-> 1]}

Symmetries == Permutations(Paths)

=============================================================================
