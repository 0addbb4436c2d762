------------------------------- MODULE Poliz -------------------------------
(***************************************************************************)
(* The reverse Polish notation between the bot's compiler (SyntaxAnalyzer) *)
(* and its stack machine (Bot): the elements, and what the arithmetic ones *)
(* compute.  An element is a class and a number: the value of a PolizInt,  *)
(* the address of a variable, the operator a label leads to, the text of a *)
(* string.  A stack is a sequence whose head is its top.  The numbers of a *)
(* game are far from the width of an int, so none overflows here.          *)
(***************************************************************************)
EXTENDS Integers, Sequences

Elem(op, n) == [op |-> op, n |-> n]
IntElem(n)      == Elem("int", n)
StrElem(n)      == Elem("str", n)
AddrElem(n)     == Elem("addr", n)
LabelElem(n)    == Elem("label", n)

SimpleGF == {"?my_id", "?turn", "?players", "?active_players",
             "?supply", "?raw_price", "?demand", "?production_price"}
PlayerGF == {"?money", "?raw", "?production", "?factories", "?manufactured",
             "?result_raw_sold", "?result_raw_price",
             "?result_prod_bought", "?result_prod_price"}
GameFunctions == SimpleGF \cup PlayerGF

\* Mutant: the list of PolizOpIfThen names PolizSell twice, not PolizPrint.
Terminators_NoPrint == {"goto", "assign", "buy", "sell", "prod", "build", "endturn"}

\* The classes a false condition does not skip beyond.
Terminators == {"goto", "assign", "print", "buy", "sell", "prod", "build", "endturn"}

\* Where a false condition at p leads: behind the next terminator.
SkipFrom(code, p) ==
    LET ends == {k \in p..Len(code) : code[k].op \in Terminators}
    IN  IF ends = {} THEN Len(code) + 1
        ELSE 1 + CHOOSE k \in ends : \A j \in ends : k <= j

-----------------------------------------------------------------------------
Truth(b) == IF b THEN 1 ELSE 0

\* Division and remainder of C++: towards zero, and the sign of the dividend.
Magnitude(n) == IF n < 0 THEN -n ELSE n
Towards0(a, b) ==
    LET q == Magnitude(a) \div Magnitude(b)
    IN  IF (a < 0) = (b < 0) THEN q ELSE -q

\* op1 is what was on the top, the right operand of the script.
Less(op1, op2)     == Truth(op1 < op2)
Greater(op1, op2)  == Truth(op1 > op2)
Equal(op1, op2)    == Truth(op1 = op2)
NotEqual(op1, op2) == Truth(op1 # op2)
Or(op1, op2)       == Truth(op1 # 0 \/ op2 # 0)
And(op1, op2)      == Truth(op1 # 0 /\ op2 # 0)
Not(op1)           == Truth(op1 = 0)
UnMinus(op1)       == -1 * op1
Plus(op1, op2)     == op1 + op2
Minus(op1, op2)    == op1 - op2
Mul(op1, op2)      == op1 * op2
Div(op1, op2)      == Towards0(op1, op2)
Rem(op1, op2)      == op1 - op2 * Towards0(op1, op2)

Unary    == {"!", "-U"}
Dividing == {"/", "%"}
Binary   == {"<", ">", "=", "!=", "|", "&", "+", "-", "*"} \cup Dividing

\* The classes of elements.
Ops == {"int", "str", "addr", "label", "goto", "ifthen", "assign", "print",
        "buy", "sell", "prod", "build", "endturn"} \cup GameFunctions \cup Unary \cup Binary

\* What the machine can be given: every address has a variable, and every label
\* is a place.
Executable(g) ==
    /\ g.code \in Seq([op : Ops, n : Int]) /\ Len(g.names) \in Nat
    /\ \A k \in DOMAIN g.code :
           /\ g.code[k].op = "addr" => g.code[k].n \in 1..Len(g.names)
           /\ g.code[k].op = "label" => g.code[k].n \in Nat \ {0}

Result(op, op1, op2) ==
    CASE op = "<" -> Less(op1, op2)    [] op = ">"  -> Greater(op1, op2)
      [] op = "=" -> Equal(op1, op2)   [] op = "!=" -> NotEqual(op1, op2)
      [] op = "|" -> Or(op1, op2)      [] op = "&"  -> And(op1, op2)
      [] op = "+" -> Plus(op1, op2)    [] op = "-"  -> Minus(op1, op2)
      [] op = "*" -> Mul(op1, op2)     [] op = "/"  -> Div(op1, op2)
      [] op = "%" -> Rem(op1, op2)

-----------------------------------------------------------------------------
\* The k-th element from the top is a number or a variable.
HasNumber(stack, k) == Len(stack) >= k /\ stack[k].op \in {"int", "addr"}

\* Its value; values[a] is that of the variable with the address a.
NumberOf(elem, values) == IF elem.op = "addr" THEN values[elem.n] ELSE elem.n

\* EvaluateFun of the classes PolizFun... throws.
Throws(op, stack, values) ==
    \/ ~HasNumber(stack, 1)
    \/ op \in Binary /\ ~HasNumber(stack, 2)
    \/ op \in Dividing /\ NumberOf(stack[2], values) = 0

\* What it leaves on the stack when it does not.
Calculated(op, stack, values) ==
    LET op1 == NumberOf(stack[1], values)
    IN  CASE op = "!"  -> <<IntElem(Not(op1))>> \o Tail(stack)
          [] op = "-U" -> <<IntElem(UnMinus(op1))>> \o Tail(stack)
          [] op \in Binary ->
                <<IntElem(Result(op, op1, NumberOf(stack[2], values)))>> \o Tail(Tail(stack))
=============================================================================
