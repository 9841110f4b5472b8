----------------------------- MODULE MCAcquire ------------------------------
(***************************************************************************)
(* Two archives: levels rise past the view and fall back into it, in a     *)
(* burst and after a silence; and a venue that snapshots again.  Four      *)
(* tapes of trades: each day within its midnights; one with a trade at the *)
(* midnight that ends it; one that runs into the next day; a day without.  *)
(***************************************************************************)
EXTENDS Acquire

MCLevel == ({"bids"} \X {1, 2}) \cup ({"asks"} \X {4, 5, 6})

Write(side, price, qty) == [l \in {<<side, price>>} |-> qty]
Says(ts, snapshot, writes) == [ts |-> ts, snapshot |-> snapshot, writes |-> writes]

MCArchives == {
    << Says(1, TRUE, Write("bids", 1, 1) @@ Write("asks", 5, 1)),
       Says(2, FALSE, Write("bids", 2, 1)), Says(3, FALSE, Write("bids", 1, 2)),
       Says(4, FALSE, Write("bids", 2, 0)), Says(9, FALSE, Write("asks", 4, 1)) >>,
    << Says(1, TRUE, Write("bids", 1, 1) @@ Write("bids", 2, 1)),
       Says(3, FALSE, Write("asks", 6, 2)),
       Says(8, TRUE, Write("bids", 1, 1) @@ Write("asks", 6, 2)),
       Says(9, FALSE, Write("asks", 6, 1)) >>}

MCTapes == {
    << {10, 13}, {20, 28}, {30} >>, << {12, 20}, {22, 27}, {31, 39} >>,
    << {14, 23}, {21, 29}, {30} >>, << {11}, {}, {33} >>}
=============================================================================
