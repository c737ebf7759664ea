--------------------------- MODULE MCPgTransactions ---------------------------
EXTENDS PgTransactions, TLC

Rows(a, b) == [slot \in Slots |-> CASE slot = <<"old", "x">> -> a
                                    [] slot = <<"old", "y">> -> b
                                    [] OTHER -> NoRow]

Live == [revision |-> 1, dead |-> FALSE, stamp |-> 0]
Expired == [revision |-> 2, dead |-> TRUE, stamp |-> 1]

MCStarts == {Rows(Live, NoRow), Rows(Live, Expired)}

X == <<"old", "x">>
Y == <<"old", "y">>

Batch(items) == Call("write", items, "old", "old", 0)

MCCalls ==
  { Put(Y, {}, FALSE, 1), Put(Y, {2}, FALSE, 1), Put(X, {1}, TRUE, 1),
    Batch(<<Item(X, {1}, FALSE, 1), Item(Y, {}, FALSE, 1)>>),
    Batch(<<Item(Y, {2}, FALSE, 1), Item(X, {1}, FALSE, 1)>>),
    Batch(<<Item(X, {1}, FALSE, 1), Item(X, {2}, TRUE, 1)>>),
    Batch(<<>>), Tombstone(X, 1), Tombstone(Y, 1),
    Call("rekey", <<Item(<<"new", "x">>, {}, FALSE, 1)>>, "old", "new", 0),
    Call("rekey", <<Item(<<"new", "x">>, {}, FALSE, 1), Item(<<"new", "y">>, {}, TRUE, 1)>>,
         "old", "new", 0),
    Call("rekey", <<>>, "old", "old", 0), Call("rekey", <<>>, "old", "new", 0),
    Call("purge", <<>>, "old", "old", 1), Call("sweep", <<>>, "old", "old", Now),
    Call("import", <<Item(Y, {}, TRUE, 3), Item(<<"new", "x">>, {}, FALSE, 2)>>,
         "old", "old", 0) }
=============================================================================
