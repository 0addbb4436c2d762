------------------------------ MODULE Requests ------------------------------
(***************************************************************************)
(* SortRequestsByPrice as it runs: the prices are sorted, and for each of  *)
(* them the requests are searched for one of that price.  GameSession has  *)
(* the outcome of this loop.                                               *)
(***************************************************************************)
EXTENDS Utility

Prices(reqs, k) ==
    heap_sort([i \in 0..(Len(reqs) - 1) |-> reqs[i + 1].price], Len(reqs), k = "source")

\* The loop with i where it is: the j-th price is looked for from there on.  The
\* next search begins at 1, and one beyond the requests reads what is not there.
RECURSIVE Search(_, _, _, _, _)
Search(reqs, prices, max_players, i, s) ==
    LET found == reqs[i + 1].price = prices[s.j] /\ i \notin s.checked
    IN  IF s.j = Len(reqs) \/ i >= max_players THEN [is |-> "sorted", reqs |-> s.sorted]
        ELSE IF i >= Len(reqs) THEN [is |-> "undefined", reqs |-> s.sorted]
        ELSE IF found
             THEN Search(reqs, prices, max_players, 1,
                         [j |-> s.j + 1, checked |-> s.checked \cup {i},
                          sorted |-> Append(s.sorted, reqs[i + 1])])
        ELSE Search(reqs, prices, max_players, i + 1, s)

\* As many requests as there are players ready.
SortRequestsByPrice(reqs, k, max_players) ==
    Search(reqs, Prices(reqs, k), max_players, 0, [j |-> 0, checked |-> {}, sorted |-> <<>>])

=============================================================================
