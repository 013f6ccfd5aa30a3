--------------------------- MODULE MCSelectiveRead ---------------------------
(* Three small files: "a" has two sorted row groups with holes between its   *)
(* columns, "b" a row group without statistics and one without rows of one   *)
(* symbol, "c" one row group whose columns lie apart.                        *)
EXTENDS SelectiveRead, TLC

Of4(t, s, c, p) == ("time" :> t) @@ ("symbol" :> s) @@ ("clock" :> c) @@ ("price" :> p)

Row(t, s, c) == Of4(t, s, c, 0)

Group(chunks, rows, stats) == [chunks |-> chunks, rows |-> rows, stats |-> stats]

A == [bytes |-> 18, footer |-> 2, groups |->
       <<Group(Of4(<<1, 1>>, <<2, 1>>, <<4, 1>>, <<5, 2>>),
               <<Row(1, 1, 1), Row(2, 3, 2)>>, {"time", "symbol"}),
         Group(Of4(<<8, 1>>, <<9, 1>>, <<11, 1>>, <<13, 2>>),
               <<Row(2, 3, 1), Row(3, 3, 1)>>, {"time", "symbol"})>>]

B == [bytes |-> 15, footer |-> 1, groups |->
       <<Group(Of4(<<4, 1>>, <<1, 2>>, <<5, 1>>, <<6, 1>>),
               <<Row(3, 2, 1), Row(1, 1, 2)>>, {}),
         Group(Of4(<<9, 1>>, <<7, 1>>, <<13, 1>>, <<11, 1>>),
               <<Row(2, 1, 1), Row(1, 1, 1)>>, {"time"})>>]

C == [bytes |-> 14, footer |-> 3, groups |->
       <<Group(Of4(<<1, 1>>, <<4, 1>>, <<7, 1>>, <<10, 1>>),
               <<Row(3, 2, 2)>>, {"time", "symbol"})>>]

ThreeFiles == ("a" :> A) @@ ("b" :> B) @@ ("c" :> C)

TwoListings == {<<"a", "b", "c">>, <<"c", "a">>}

SomeRequests == [daily : BOOLEAN, start : {1, 2}, end : {3, 4}, symbols : {{}, {2}, {1, 3}},
                 clock : {{}, {1}}, columns : {{}, {"price"}},
                 strategy : {"auto", "ranges", "sequential"}]

TwoOptions == {[gap |-> 0, seek |-> 1, threshold |-> 85, bundle |-> 6],
               [gap |-> 1, seek |-> 2, threshold |-> 100, bundle |-> 9]}
=============================================================================
