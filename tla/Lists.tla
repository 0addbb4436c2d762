------------------------------- MODULE Lists --------------------------------
(***************************************************************************)
(* The linked lists and the stack the program keeps everything in: the     *)
(* elements of a compiled script and its variables (pi_), its lexems (ll_),*)
(* its labels (label_), the operations that wait for their operands (op_), *)
(* a player's building sites and the requests of a month (keyed lists).    *)
(*                                                                         *)
(* A list is what is in memory: where it begins and ends, and the node at  *)
(* every address in use.  An address that was freed is used again, so that *)
(* a pointer nobody reset leads to the wrong node, or to none.             *)
(***************************************************************************)
EXTENDS Integers, FiniteSets, Sequences, SequencesExt, FiniteSetsExt, TLC

NULL   == 0
NoList == [first |-> NULL, last |-> NULL, node |-> <<>>]

Allocated(h) == Min((1..(Cardinality(DOMAIN h.node) + 1)) \ DOMAIN h.node)

Freed(h, a) == [h EXCEPT !.node = [b \in DOMAIN h.node \ {a} |-> h.node[b]]]

\* The first node that Is(_), following next from the beginning.
Search(h, Is(_)) ==
    LET from[a \in {NULL} \cup DOMAIN h.node] ==
            IF a = NULL THEN NULL
            ELSE IF Is(h.node[a]) THEN a ELSE from[h.node[a].next]
    IN  from[h.first]

Size(h) ==
    LET from[a \in {NULL} \cup DOMAIN h.node] ==
            IF a = NULL THEN 0 ELSE 1 + from[h.node[a].next]
    IN  from[h.first]

Final(h) == Search(h, LAMBDA n : n.next = NULL)

\* As many times as the list is long, its first element is deleted.
Emptied(h, DeleteFirst(_)) == FoldLeft(LAMBDA l, i : DeleteFirst(l), h, [i \in 1..Size(h) |-> i])

Linked(h, prev, node) ==
    LET new  == Allocated(h)
        with == [h EXCEPT !.node = (new :> node) @@ @]
    IN  IF prev = NULL THEN [with EXCEPT !.first = new] ELSE [with EXCEPT !.node[prev].next = new]

Appended(h, data) == Linked(h, Final(h), [data |-> data, next |-> NULL, prev |-> Final(h)])

\* Mutant: the new first node keeps its pointer back.
Unlinked_PrevKept(h, a) ==
    LET next == h.node[a].next
        prev == h.node[a].prev
    IN  IF prev = NULL THEN Freed([h EXCEPT !.first = next], a)
        ELSE Freed(IF next = NULL THEN [h EXCEPT !.node[prev].next = NULL]
                   ELSE [h EXCEPT !.node[prev].next = next, !.node[next].prev = prev], a)

Unlinked(h, a) ==
    LET next   == h.node[a].next
        prev   == h.node[a].prev
        ahead  == IF prev = NULL THEN [h EXCEPT !.first = next] ELSE [h EXCEPT !.node[prev].next = next]
        behind == IF next = NULL THEN ahead ELSE [ahead EXCEPT !.node[next].prev = prev]
    IN  Freed(behind, a)

DeletedWhere(h, Is(_)) ==
    LET a == Search(h, Is) IN IF a = NULL THEN h ELSE Unlinked(h, a)

-----------------------------------------------------------------------------
(* The elements of a compiled script: each gets the number behind the last. *)
pi_insert(h, elem) ==
    LET prev   == Final(h)
        number == IF prev = NULL THEN 1 ELSE h.node[prev].elem_number + 1
    IN  Linked(h, prev, [data |-> elem, next |-> NULL, prev |-> prev, elem_number |-> number])

pi_delete(h, elem) == DeletedWhere(h, LAMBDA n : n.data = elem)

pi_find(h, elem) == Search(h, LAMBDA n : n.data = elem)

pi_size(h) == Size(h)

pi_clear(h) == Emptied(h, LAMBDA l : pi_delete(l, l.node[l.first].data))

(* A variable enters the list of the variables and takes its number there as *)
(* its address; it takes itself out again.                                   *)
PolizVar(vars, name) ==
    LET with == pi_insert(vars, name)
    IN  [vars_list |-> with, var_addr |-> with.node[pi_find(with, name)].elem_number]

DeletePolizVar(vars, name) == pi_delete(vars, name)

(* The operands of the machine: the newest is the first. *)
Push(stack, elem) ==
    LET new   == Allocated(stack)
        node  == [data |-> elem, next |-> stack.first, prev |-> NULL]
        below == IF stack.first = NULL THEN stack
                 ELSE [stack EXCEPT !.node[stack.first].prev = new]
    IN  [below EXCEPT !.node = (new :> node) @@ @, !.first = new]

Pop(stack) ==
    IF stack.first = NULL THEN [data |-> NULL, stack |-> stack]
    ELSE LET next == stack.node[stack.first].next
             rest == [stack EXCEPT !.first = next]
         IN  [data  |-> stack.node[stack.first].data,
              stack |-> Freed(IF next = NULL THEN rest ELSE [rest EXCEPT !.node[next].prev = NULL],
                              stack.first)]

StackSize(stack) == Size(stack)

StackClear(stack) == Emptied(stack, LAMBDA s : Pop(s).stack)

-----------------------------------------------------------------------------
(* The lexems of a script; a lexem is found by how it is spelled. *)
ll_insert(h, lex) == Appended(h, lex)

ll_delete(h, lex) == DeletedWhere(h, LAMBDA n : n.data = lex)

ll_find_lexem(h, str_lex) == Search(h, LAMBDA n : n.data.name = str_lex)

ll_get_size(h) == Size(h)

ll_clear(h) == Emptied(h, LAMBDA l : ll_delete(l, l.node[l.first].data))

-----------------------------------------------------------------------------
(* The labels of a script; a label is found by its name. *)
label_insert(h, ld) == Appended(h, ld)

label_delete(h, ld) == DeletedWhere(h, LAMBDA n : n.data = ld)

label_find(h, name) == Search(h, LAMBDA n : n.data.name = name)

label_get_size(h) == Size(h)

label_clear(h) == Emptied(h, LAMBDA l : label_delete(l, l.node[l.first].data))

-----------------------------------------------------------------------------
(* The operations of an expression that wait: a stack, linked one way. *)
op_push(s, data) ==
    LET new == Allocated(s)
    IN  [s EXCEPT !.node = (new :> [data |-> data, next |-> s.first]) @@ @, !.first = new]

op_pop(s) ==
    IF s.first = NULL THEN [data |-> NULL, stack |-> s]
    ELSE [data  |-> s.node[s.first].data,
          stack |-> Freed([s EXCEPT !.first = s.node[s.first].next], s.first)]

op_size(s) == Size(s)

op_clear(s) == Emptied(s, LAMBDA l : op_pop(l).stack)

-----------------------------------------------------------------------------
(* The keyed lists know their end too, and take a number only once. *)
InsertedOnce(h, key, data) ==
    IF Search(h, LAMBDA n : n.data.key = key) # NULL THEN h
    ELSE [Appended(h, data) EXCEPT !.last = Allocated(h)]

UnlinkedKeyed(h, a) ==
    LET before == h.node[a].prev
    IN  IF h.node[a].next = NULL THEN [Unlinked(h, a) EXCEPT !.last = before] ELSE Unlinked(h, a)

DeletedKey(h, key) ==
    LET a == Search(h, LAMBDA n : n.data.key = key) IN IF a = NULL THEN h ELSE UnlinkedKeyed(h, a)

(* A player's building sites, by their numbers. *)
BuildsInsert(h, data) == InsertedOnce(h, data.key, data)

BuildsDelete(h, build_num) == DeletedKey(h, build_num)

BuildsGetSize(h) == Size(h)

BuildsClear(h) == Emptied(h, LAMBDA l : BuildsDelete(l, l.node[l.first].data.key))

\* Mutant: the number of the last site instead of the greatest.
GetMaxNum_Size(h) == Size(h)

GetMaxNum(h) ==
    LET from[a \in {NULL} \cup DOMAIN h.node] ==
            IF a = NULL THEN 0 ELSE Max({h.node[a].data.key, from[h.node[a].next]})
    IN  from[h.first]

(* The requests of a month, by their players. *)
MarketInsert(h, data) == InsertedOnce(h, data.key, data)

MarketDelete(h, player_id) == DeletedKey(h, player_id)

MarketGetSize(h) == Size(h)

MarketClear(h) == Emptied(h, LAMBDA l : MarketDelete(l, l.node[l.first].data.key))

=============================================================================
