------------------------------ MODULE MCBooks -------------------------------
(* Instance of Books: three slots; bids and asks over three words of two   *)
(* levels, so that a word holds two levels and one between them is empty.  *)
EXTENDS Books
CONSTANTS o1, o2, o3
InOrder == <<o1, o2, o3>>
BidsAndAsks ==
    [side : {"Buy"}, price : {2}, remaining : {2}]
    \cup [side : {"Buy", "Sell"}, price : {1, 5}, remaining : {1}]
=============================================================================
