-------------------------- MODULE ListsProperties ---------------------------
(***************************************************************************)
(* What the linked lists are to be to the code that uses them: sequences.  *)
(***************************************************************************)
EXTENDS Lists

Along(h) ==
    LET from[a \in {NULL} \cup DOMAIN h.node] ==
            IF a = NULL THEN <<>> ELSE <<a>> \o from[h.node[a].next]
    IN  from[h.first]

Data(h) == [k \in 1..Len(Along(h)) |-> h.node[Along(h)[k]].data]

\* The nodes in memory are those of the list, each once, in the order of s.
Holds(h, s) ==
    /\ Data(h) = s
    /\ DOMAIN h.node = ToSet(Along(h))

\* And each node knows the one before it.
HoldsBothWays(h, s) ==
    /\ Holds(h, s)
    /\ \A k \in 1..Len(s) :
          h.node[Along(h)[k]].prev = IF k = 1 THEN NULL ELSE Along(h)[k - 1]

HoldsToTheLast(h, s) ==
    /\ HoldsBothWays(h, s)
    /\ h.last = IF s = <<>> THEN NULL ELSE Along(h)[Len(s)]

Built(Insert(_, _), s) == FoldLeft(Insert, NoList, s)

\* A list built from s is s; without any one of its elements, and with that one
\* added again, it is the sequence without it, and with it at the end.
IsASequence(s, Insert(_, _), Delete(_, _), Clear(_), Length(_), Is(_, _)) ==
    LET whole == Built(Insert, s)
    IN  /\ Is(whole, s) /\ Length(whole) = Len(s)
        /\ Clear(whole) = NoList
        /\ \A k \in 1..Len(s) :
              LET without == Delete(whole, s[k])
                  rest    == RemoveAt(s, k)
                  again   == Insert(without, s[k])
              IN  /\ Is(without, rest) /\ Length(without) = Len(rest)
                  /\ Is(again, Append(rest, s[k]))
                  /\ Clear(again) = NoList

\* The first element of that name is found, and nothing when there is none.
FindsTheFirst(s, Insert(_, _), Find(_, _)) ==
    LET whole == Built(Insert, s)
    IN  \A name \in {s[k].name : k \in 1..Len(s)} \cup {"$none"} :
            LET named == SelectSeq(s, LAMBDA d : d.name = name)
            IN  IF named = <<>> THEN Find(whole, name) = NULL
                ELSE whole.node[Find(whole, name)].data = Head(named)

\* Numbers name elements: however the list came about, no two have the same.
NumbersDiffer(h) ==
    \A i, j \in 1..Len(Along(h)) :
        i < j => h.node[Along(h)[i]].elem_number < h.node[Along(h)[j]].elem_number

ElementsHold(s) ==
    /\ IsASequence(s, pi_insert, pi_delete, pi_clear, pi_size, HoldsBothWays)
    /\ LET whole == Built(pi_insert, s)
       IN  \A k \in 1..Len(s) :
             /\ whole.node[pi_find(whole, s[k])].elem_number = k
             /\ NumbersDiffer(pi_insert(pi_delete(whole, s[k]), s[k]))

LexemsHold(s) ==
    /\ IsASequence(s, ll_insert, ll_delete, ll_clear, ll_get_size, HoldsBothWays)
    /\ FindsTheFirst(s, ll_insert, ll_find_lexem)

LabelsHold(s) ==
    /\ IsASequence(s, label_insert, label_delete, label_clear, label_get_size, HoldsBothWays)
    /\ FindsTheFirst(s, label_insert, label_find)

\* What is pushed comes off in the opposite order, and nothing is left.
StackHolds(s) ==
    LET whole == Built(op_push, s)
    IN  /\ Holds(whole, Reverse(s)) /\ op_size(whole) = Len(s)
        /\ op_clear(whole) = NoList /\ op_pop(NoList).data = NULL
        /\ s # <<>> => /\ op_pop(whole).data = Last(s)
                       /\ Holds(op_pop(whole).stack, Reverse(Front(s)))

\* And so with the operands, which are linked both ways.
OperandsHold(s) ==
    LET whole == Built(Push, s)
    IN  /\ HoldsBothWays(whole, Reverse(s)) /\ StackSize(whole) = Len(s)
        /\ StackClear(whole) = NoList /\ Pop(NoList).data = NULL
        /\ s # <<>> => /\ Pop(whole).data = Last(s)
                       /\ HoldsBothWays(Pop(whole).stack, Reverse(Front(s)))

\* The address a variable is given leads to it, with any other one gone before.
AddressesHold(s) ==
    LET whole == Built(LAMBDA h, name : PolizVar(h, name).vars_list, s)
    IN  \A k \in 1..Len(s) :
            LET without == DeletePolizVar(whole, s[k])
                again   == PolizVar(without, s[k])
            IN  /\ Holds(without, RemoveAt(s, k)) /\ NumbersDiffer(again.vars_list)
                /\ \E a \in DOMAIN again.vars_list.node :
                      /\ again.vars_list.node[a].elem_number = again.var_addr
                      /\ again.vars_list.node[a].data = s[k]

\* A site gets the number behind the greatest: never one that is in the list.
NewSite(h) == BuildsInsert(h, [key |-> GetMaxNum(h) + 1])

Keys(n) == [k \in 1..n |-> [key |-> k]]

SitesHold(n) ==
    LET Delete(h, data) == BuildsDelete(h, data.key)
        whole == Built(LAMBDA h, k : NewSite(h), Keys(n))
    IN  /\ HoldsToTheLast(whole, Keys(n))
        /\ IsASequence(Keys(n), BuildsInsert, Delete, BuildsClear, BuildsGetSize, HoldsToTheLast)
        /\ \A k \in 1..n :
              BuildsGetSize(NewSite(BuildsDelete(whole, k))) = n

\* A player's second request of a month changes nothing.
RequestsHold(n) ==
    LET Delete(h, data) == MarketDelete(h, data.key)
        whole == Built(MarketInsert, Keys(n))
    IN  /\ IsASequence(Keys(n), MarketInsert, Delete, MarketClear, MarketGetSize, HoldsToTheLast)
        /\ \A k \in 1..n : MarketInsert(whole, [key |-> k, again |-> TRUE]) = whole

=============================================================================
