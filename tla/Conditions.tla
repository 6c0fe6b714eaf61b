------------------------------- MODULE Conditions -------------------------------
(* The conditions of breakpoints (expr_parser.cpp, breakpoint.cpp): what is    *)
(* typed is cut into elements, the elements become a tree once, and the tree   *)
(* is calculated whenever the point is reached.  What is typed is a sequence   *)
(* of words and signs; a word of four bytes has CondBits bits, one of two half *)
(* of them and a byte a quarter; floating point numbers are counted in halves. *)
EXTENDS Integers, Sequences, SequencesExt, TLC

CONSTANTS
  CondBits,      \* bits of a word
  Variables,     \* what the debugger knows by name: type, size, address, count, members, embedded
  Stored,        \* the memory they lie in
  Typed,         \* conditions typed first, as the trees that are meant
  Retyped        \* conditions typed instead

ASSUME ConditionsAssumption ==
  /\ CondBits % 4 = 0 /\ CondBits \in 4..16
  /\ \A a \in DOMAIN Stored : Stored[a] \in 0..2^CondBits - 1

VARIABLE cond   \* the condition of a point, the tree made of it, and the last verdict

-------------------------------------------------------------------------------
(* Elements.                                                                   *)

Operator(str, prio, single) == [str |-> str, prio |-> prio, single |-> single]
g_operator ==
  {Operator("<<", 10, FALSE), Operator(">>", 10, FALSE), Operator("<=", 11, FALSE), Operator(">=", 11, FALSE), Operator("==", 12, FALSE),
   Operator("!=", 12, FALSE), Operator("&&", 16, FALSE), Operator("||", 17, FALSE), Operator(".", 3, FALSE), Operator("+", 4, TRUE),
   Operator("-", 4, TRUE), Operator("~", 5, TRUE), Operator("!", 5, TRUE), Operator("*", 6, TRUE), Operator("&", 7, TRUE),
   Operator("*", 8, FALSE), Operator("/", 8, FALSE), Operator("%", 8, FALSE), Operator("+", 9, FALSE), Operator("-", 9, FALSE),
   Operator("<", 11, FALSE), Operator(">", 11, FALSE), Operator("&", 13, FALSE), Operator("^", 14, FALSE), Operator("|", 15, FALSE)}
Prio(str, single) == (CHOOSE o \in g_operator : o.str = str /\ o.single = single).prio

\* a word typed: <<"dec", n>>, <<"hex", n>>, <<"flt", halves>>, <<"var", name>> or <<"sign", str>>
Elem(typed, operand) ==
  LET is(kinds) == typed[1] = "sign" /\ typed[2] \in kinds
      single == {o.str : o \in {o \in g_operator : o.single}}
      double == {o.str : o \in {o \in g_operator : ~o.single}}
  IN CASE ~operand /\ typed[1] = "hex" /\ typed[2] < 16 -> <<"var", "x...">>   \* its 0 is passed over
       [] ~operand /\ typed[1] # "sign"     -> typed
       [] ~operand /\ is(single)            -> <<"op1", typed[2]>>
       [] operand  /\ is(double)            -> <<"op2", typed[2]>>
       [] ~operand /\ is({"(", "["})        -> <<"(", typed[2]>>
       [] operand  /\ is({")", "]"})        -> <<")", typed[2]>>
       [] OTHER                             -> <<"none">>

\* What may come next depends on the last element; what may not come is passed over.
lex(words) ==
  LET Next1(elems, typed) ==
        LET operand == elems # << >> /\ elems[Len(elems)][1] \in {"dec", "hex", "flt", "var", ")"}
            elem == IF elems # << >> /\ elems[Len(elems)][1] = "var" /\ typed \in {<<"sign", "[">>, <<"sign", "(">>}
                    THEN <<"(", typed[2]>> ELSE Elem(typed, operand)
        IN IF elem = <<"none">> THEN elems ELSE Append(elems, elem)
  IN FoldLeft(Next1, << >>, words)

NoTree           == [elem |-> <<"none">>]
Operand(elem)    == [elem |-> elem, l |-> NoTree, r |-> NoTree]
Tree(elem, l, r) == [elem |-> elem, l |-> l, r |-> r]
Wild          == Operand(<<"wild">>)   \* an element past the last

PrioOf(elem) == IF elem[1] \in {"op1", "op2"} THEN Prio(elem[2], elem[1] = "op1") ELSE 0
Depth(elems, k) == Len(SelectSeq(SubSeq(elems, 1, k), LAMBDA e : e[1] = "(")) - Len(SelectSeq(SubSeq(elems, 1, k), LAMBDA e : e[1] = ")"))

\* Mutant: the last of those that bind least splits
SplitsAtLast(elems, k) ==
  LET outside == {j \in DOMAIN elems : PrioOf(elems[j]) > 0 /\ Depth(elems, j) <= 0}
  IN k \in outside /\ \A j \in outside : PrioOf(elems[j]) < PrioOf(elems[k]) \/ (PrioOf(elems[j]) = PrioOf(elems[k]) /\ j <= k)
\* the first operator outside brackets that binds least
Splits(elems, k) ==
  LET outside == {j \in DOMAIN elems : PrioOf(elems[j]) > 0 /\ Depth(elems, j) <= 0}
  IN k \in outside /\ \A j \in outside : PrioOf(elems[j]) < PrioOf(elems[k]) \/ (PrioOf(elems[j]) = PrioOf(elems[k]) /\ j >= k)

RECURSIVE make_tree(_)
make_tree(elems) ==
  LET n == Len(elems)
      at == {k \in DOMAIN elems : Splits(elems, k)}
  IN CASE at # {} -> LET k == CHOOSE k \in at : TRUE
                     IN Tree(elems[k], IF elems[k][1] = "op2" THEN make_tree(SubSeq(elems, 1, k - 1)) ELSE NoTree,
                             make_tree(SubSeq(elems, k + 1, n)))
       [] n >= 3 /\ at = {} /\ elems[1] = <<"(", "(">> /\ elems[n] = <<")", ")">> -> make_tree(SubSeq(elems, 2, n - 1))
       [] n >= 4 /\ at = {} /\ elems[1][1] = "var" /\ elems[2] = <<"(", "[">> /\ elems[n] = <<")", "]">>
            -> Tree(elems[2], Operand(elems[1]), make_tree(SubSeq(elems, 3, n - 1)))
       [] n = 0 -> Wild
       [] OTHER -> Operand(elems[1])

-------------------------------------------------------------------------------
(* Values.  An integer that is taken for a float is next to nothing.           *)

kUint  == 0
kInt   == 1
kFloat == 2
kError == 3
kCrash == 4   \* a division by zero, or an element that is none

CondWidth(size) == (size * CondBits) \div 4
Nowhere == [addr |-> 0, members |-> << >>, embedded |-> FALSE, named |-> FALSE]
Expr_Val(type, size, value, of) ==
  [type |-> type, size |-> size, raw |-> FALSE, of |-> of,
   value |-> CASE type = kFloat -> value [] type < kFloat -> value % 2^CondWidth(size) [] OTHER -> 0]
Failed == Expr_Val(kError, 0, 0, Nowhere)
Fault == Expr_Val(kCrash, 0, 0, Nowhere)

Greater(a, b) == IF a > b THEN a ELSE b
Magnitude(n) == IF n < 0 THEN -n ELSE n
Towards0(n, d) == IF n = 0 THEN 0 ELSE IF (n > 0) = (d > 0) THEN Magnitude(n) \div Magnitude(d) ELSE -(Magnitude(n) \div Magnitude(d))
AsSigned(n, bits) == IF n >= 2^(bits - 1) THEN n - 2^bits ELSE n
Masked(v) == v.value % 2^CondWidth(v.size)
toi(v) ==
  CASE v.type = kFloat -> IF v.raw THEN 0 ELSE Towards0(v.value, 2)
    [] v.type = kInt \/ (v.type = kUint /\ v.size = 4) -> AsSigned(Masked(v), CondWidth(v.size))
    [] v.type = kUint /\ v.size < 4 -> Masked(v)
    [] OTHER -> 0
tou(v) == IF v.type < kFloat THEN Masked(v) ELSE toi(v) % 2^CondBits
tof(v) == CASE v.type = kFloat -> IF v.raw THEN 0 ELSE v.value
            [] v.type = kInt /\ v.size = 4 -> 2 * toi(v)
            [] OTHER -> 2 * Masked(v)

Truth(b) == IF b THEN 1 ELSE 0
RECURSIVE BitOf(_, _, _, _)
BitOf(op, a, b, n) ==
  IF n = 0 THEN 0
  ELSE LET x == a % 2  y == b % 2
           bit == CASE op = "&" -> x * y [] op = "|" -> Greater(x, y) [] op = "^" -> (x + y) % 2
       IN bit + 2 * BitOf(op, a \div 2, b \div 2, n - 1)

\* on 32 bits, signed or not as they come; a shift takes the low bits of its count
IntOp(op, a, b) ==
  CASE op = "+" -> a + b [] op = "-" -> a - b [] op = "*" -> a * b
    [] op = "/" -> Towards0(a, b) [] op = "%" -> a - b * Towards0(a, b)
    [] op = "<<" -> a * 2^(b % CondBits) [] op = ">>" -> a \div 2^(b % CondBits)
    [] op = "<" -> Truth(a < b) [] op = ">" -> Truth(a > b) [] op = "<=" -> Truth(a <= b) [] op = ">=" -> Truth(a >= b)
    [] op = "==" -> Truth(a = b) [] op = "!=" -> Truth(a # b)
    [] op = "&&" -> Truth(a # 0 /\ b # 0) [] op = "||" -> Truth(a # 0 \/ b # 0)
    [] op \in {"&", "|", "^"} -> BitOf(op, a % 2^CondBits, b % 2^CondBits, CondBits)
FloatOp(op, a, b) ==
  CASE op = "+" -> a + b [] op = "-" -> a - b [] op = "*" -> Towards0(a * b, 2) [] op = "/" -> IF b = 0 THEN 0 ELSE Towards0(2 * a, b)
    [] op \in {"<", ">", "<=", ">=", "==", "!="} -> 2 * IntOp(op, a, b)
ForIntOnly == {"<<", ">>", "&&", "||", "%", "&", "^", "|"}

\* The left side decides how it is calculated, the greater type and size what it is.
Faults(op, a, b) ==
  /\ a.type < kFloat /\ op \in {"/", "%"}
  /\ \/ (IF a.type = kInt THEN toi(b) ELSE tou(b)) = 0
     \/ a.type = kInt /\ toi(a) = -2^(CondBits - 1) /\ toi(b) = -1
DOUBLE_EXPR(op, a, b) ==
  LET type == IF a.type = kFloat /\ op \in ForIntOnly THEN Greater(kError, b.type) ELSE Greater(a.type, b.type)
      n == CASE a.type = kInt  -> IntOp(op, toi(a), toi(b)) % 2^CondBits
             [] a.type = kUint -> IntOp(op, tou(a), tou(b)) % 2^CondBits
             [] a.type = kFloat /\ type = kFloat -> FloatOp(op, tof(a), tof(b))
             [] OTHER -> 0
  IN IF type = kCrash \/ Faults(op, a, b) THEN Fault
     ELSE [type |-> type, size |-> Greater(a.size, b.size), raw |-> type = kFloat /\ a.type # kFloat, of |-> Nowhere, value |-> n]

SINGLE_EXPR(op, a) ==
  LET made(n) == [a EXCEPT !.value = n % 2^CondBits, !.of = Nowhere]
      b == IF a.type = kInt THEN toi(a) ELSE tou(a)
  IN CASE a.type = kCrash -> Fault
       [] op = "+" -> a
       [] op = "*" -> IF a.value \in DOMAIN Stored THEN Expr_Val(kUint, 4, Stored[a.value], Nowhere) ELSE Fault
       [] op = "&" -> IF ~a.of.named \/ a.of.embedded THEN Failed ELSE Expr_Val(kUint, 4, a.of.addr, Nowhere)
       [] a.type = kError -> Failed
       [] op = "-" /\ a.type = kFloat -> [a EXCEPT !.value = -tof(a), !.of = Nowhere]
       [] op # "-" /\ a.type = kFloat -> Failed
       [] op = "-" -> made(-b) [] op = "~" -> made(-b - 1) [] op = "!" -> made(Truth(b = 0))

\* what it is called is what it is called in the condition
Object(known, addr, members) ==
  Expr_Val(known.type, known.size, Stored[addr],
           [addr |-> addr, members |-> members, embedded |-> known.embedded, named |-> TRUE])
var2val(name) == IF name \in DOMAIN Variables THEN Object(Variables[name], Variables[name].addr, Variables[name].members) ELSE Failed
ary2val(name, index) ==
  IF name \notin DOMAIN Variables THEN Failed
  ELSE LET v == Variables[name]
       IN IF index \in 0..v.count - 1 THEN Object(v, v.addr + v.size * index, v.members) ELSE Failed
mbr2val(object, member) ==
  IF member \notin DOMAIN object.of.members \/ object.of.members[member].type = kError THEN Failed
  ELSE LET m == object.of.members[member]
       IN Object([type |-> m.type, size |-> m.size, embedded |-> object.of.embedded], object.of.addr + m.offset, << >>)

RECURSIVE _calculate(_)
_calculate(tree) ==
  LET kind == tree.elem[1]  what == tree.elem[2]
  IN CASE tree = Wild -> Fault
       [] kind = "dec" -> Expr_Val(kInt, 4, what, Nowhere)
       [] kind = "hex" -> Expr_Val(kUint, 4, what, Nowhere)
       [] kind = "flt" -> Expr_Val(kFloat, 4, what, Nowhere)
       [] kind = "var" -> var2val(what)
       [] kind = "(" /\ tree.r # NoTree -> LET index == _calculate(tree.r)
                                       IN IF index.type = kCrash THEN Fault ELSE ary2val(tree.l.elem[2], toi(index))
       [] kind = "op1" -> SINGLE_EXPR(what, _calculate(tree.r))
       [] kind = "op2" /\ what = "." -> IF tree.r = Wild THEN Fault ELSE mbr2val(_calculate(tree.l), tree.r.elem[2])
       [] kind = "op2" /\ what # "." -> DOUBLE_EXPR(what, _calculate(tree.l), _calculate(tree.r))
       [] kind = "(" /\ tree.r = NoTree -> Fault
       [] OTHER -> Failed

-------------------------------------------------------------------------------
(* The point: a new condition drops the tree of the old one.  What cannot be    *)
(* calculated stops.                                                           *)

\* a tree as it is typed, with the fewest brackets by the rules of C
CPrio(tree) ==
  CASE tree.elem[1] = "op2" -> Prio(tree.elem[2], FALSE) [] tree.elem[1] = "op1" -> Prio("&", TRUE) [] OTHER -> 0
RECURSIVE Spelled(_)
Spelled(tree) ==
  LET sign(str) == <<"sign", str>>
      within(t, prio) == IF CPrio(t) <= prio THEN Spelled(t) ELSE <<sign("(")>> \o Spelled(t) \o <<sign(")")>>
  IN CASE tree.elem[1] = "op1" -> <<sign(tree.elem[2])>> \o within(tree.r, CPrio(tree))
       [] tree.elem[1] = "op2" -> within(tree.l, CPrio(tree)) \o <<sign(tree.elem[2])>> \o within(tree.r, CPrio(tree) - 1)
       [] tree.elem[1] = "("   -> <<tree.l.elem, sign("[")>> \o Spelled(tree.r) \o <<sign("]")>>
       [] OTHER -> <<tree.elem>>

Nothing == Operand(<<"nothing">>)
Unread == [type |-> kError]
NewCondition(tree) == [expr |-> tree, root |-> Nothing, result |-> Unread, stops |-> "not judged"]
ConditionFrom(trees) == \E tree \in trees : cond = NewCondition(tree)
ConditionInit == ConditionFrom(Typed \cup {Nothing})

set_expr == \E tree \in Retyped : cond' = NewCondition(tree)

evaluateExpression ==
  /\ cond.stops = "not judged"
  /\ IF cond.expr = Nothing THEN cond' = [cond EXCEPT !.stops = "yes"]
     ELSE LET root == IF cond.root = Nothing THEN make_tree(lex(Spelled(cond.expr))) ELSE cond.root
              result == _calculate(root)
              number == CASE result.type = kInt -> toi(result) [] result.type = kUint -> tou(result)
                          [] result.type = kFloat -> tof(result) [] OTHER -> 1
          IN cond' = [cond EXCEPT !.root = root, !.result = result, !.stops = IF number # 0 THEN "yes" ELSE "no"]

ConditionNext == set_expr \/ evaluateExpression

-------------------------------------------------------------------------------
(* What C makes of a condition.                                                *)

Meaning(k, s, n) == [k |-> k, s |-> s, n |-> n]
Wrap(k, n) ==
  CASE k = "float" -> n [] k = "uint" -> n % 2^CondBits [] k = "int" -> ((n + 2^(CondBits - 1)) % 2^CondBits) - 2^(CondBits - 1)
BitsOf(n) == {i \in 0..CondBits - 1 : (n \div 2^i) % 2 = 1}
FromBits(set) == FoldSet(LAMBDA i, n : n + 2^i, 0, set)
\* the number at an address, of a type and size
Found(type, size, addr) ==
  LET n == Stored[addr] % 2^CondWidth(size)
  IN CASE type = kError -> Meaning("error", 4, 0)
       [] type = kFloat -> Meaning("float", 4, n)
       [] type = kUint  -> Meaning("uint", size, n)
       [] type = kInt   -> Meaning("int", size, IF 2 * n >= 2^CondWidth(size) THEN n - 2^CondWidth(size) ELSE n)
CApply(k, op, a, b) ==
  LET truth(is) == Meaning(k, 4, IF is THEN (IF k = "float" THEN 2 ELSE 1) ELSE 0)
      quotient == LET q == CHOOSE q \in 0..2^CondBits : \E r \in 0..2^CondBits - 1 :
                                 q * Magnitude(b) + r = Magnitude(a) /\ r < Magnitude(b)
                  IN IF (a < 0) # (b < 0) THEN -q ELSE q
      whole(n) == Meaning(k, 4, Wrap(k, n))
  IN CASE op = "+" -> whole(a + b) [] op = "-" -> whole(a - b)
       [] op = "<" -> truth(a < b) [] op = ">" -> truth(b < a) [] op = "<=" -> truth(~(b < a)) [] op = ">=" -> truth(~(a < b))
       [] op = "==" -> truth(a = b) [] op = "!=" -> truth(a # b)
       [] k = "float" /\ op \in {"*", "/"} -> IF op = "/" /\ b = 0 THEN Meaning("fault", 4, 0) ELSE whole(FloatOp(op, a, b))
       [] k = "float" -> Meaning("error", 4, 0)
       [] op \in {"/", "%"} /\ (b = 0 \/ (k = "int" /\ b = -1 /\ a = -2^(CondBits - 1))) -> Meaning("fault", 4, 0)
       [] op = "*" -> whole(a * b) [] op = "/" -> whole(quotient) [] op = "%" -> whole(a - quotient * b)
       [] op = "&&" -> truth(a # 0 /\ b # 0) [] op = "||" -> truth(~(a = 0 /\ b = 0))
       [] op = "<<" -> whole(a * 2^(b % CondBits)) [] op = ">>" -> whole(a \div 2^(b % CondBits))
       [] op = "&" -> whole(FromBits(BitsOf(a) \cap BitsOf(b))) [] op = "|" -> whole(FromBits(BitsOf(a) \cup BitsOf(b)))
       [] op = "^" -> whole(FromBits((BitsOf(a) \cup BitsOf(b)) \ (BitsOf(a) \cap BitsOf(b))))

\* the variable an object belongs to, and the object's address, or -1
NameOf(tree) == IF tree.elem[1] = "(" THEN tree.l.elem[2] ELSE tree.elem[2]
RECURSIVE Meant(_), Where(_)
Where(tree) ==
  LET v == Variables[NameOf(tree)]
      index == Meant(tree.r).n
      members == Variables[NameOf(tree.l)].members
  IN CASE tree.elem = <<"op2", ".">> -> IF Where(tree.l) >= 0 /\ tree.r.elem[2] \in DOMAIN members THEN Where(tree.l) + members[tree.r.elem[2]].offset ELSE -1
       [] tree.elem[1] \notin {"var", "("} \/ NameOf(tree) \notin DOMAIN Variables \/ v.embedded -> -1
       [] tree.elem[1] = "var" -> v.addr
       [] tree.elem[1] = "("   -> IF index \in 0..v.count - 1 THEN v.addr + v.size * index ELSE -1
Meant(tree) ==
  LET kind == tree.elem[1]  what == tree.elem[2]
      l == Meant(tree.l)  r == Meant(tree.r)
      failed == Meaning("error", 4, 0)
      index == Meant(tree.r)
      address == Where(tree.r)
  IN CASE kind = "dec" -> Meaning("int", 4, what) [] kind = "hex" -> Meaning("uint", 4, what) [] kind = "flt" -> Meaning("float", 4, what)
       [] kind = "var" -> IF what \in DOMAIN Variables THEN Found(Variables[what].type, Variables[what].size, Variables[what].addr) ELSE failed
       [] kind = "("   -> LET v == Variables[tree.l.elem[2]]
                          IN IF tree.l.elem[2] \in DOMAIN Variables /\ index.n \in 0..v.count - 1
                             THEN Found(v.type, v.size, v.addr + v.size * index.n) ELSE failed
       [] kind = "op2" /\ what = "." ->
            LET members == Variables[NameOf(tree.l)].members
            IN IF Where(tree) >= 0
               THEN Found(members[tree.r.elem[2]].type, members[tree.r.elem[2]].size, Where(tree)) ELSE failed
       [] kind = "op1" /\ what = "&" -> IF address >= 0 THEN Meaning("uint", 4, address) ELSE failed
       [] kind = "op1" /\ what = "*" -> IF r.n \in DOMAIN Stored THEN Found(kUint, 4, r.n) ELSE Meaning("fault", 4, 0)
       [] kind = "op1" /\ (r.k \in {"error", "fault"} \/ what = "+") -> r
       [] kind = "op1" /\ what = "-" -> Meaning(r.k, 4, Wrap(r.k, -r.n))
       [] kind = "op1" /\ r.k = "float" -> failed
       [] kind = "op1" /\ what = "~" -> Meaning(r.k, 4, Wrap(r.k, -r.n - 1))
       [] kind = "op1" /\ what = "!" -> Meaning(r.k, 4, IF r.n = 0 THEN 1 ELSE 0)
       [] "fault" \in {l.k, r.k} -> Meaning("fault", 4, 0)
       [] "error" \in {l.k, r.k} -> failed
       [] OTHER -> CApply(l.k, what, l.n, r.n)

\* What is read otherwise than in C: a chain of operators of one priority from the
\* right (which shows unless it may be regrouped), a sign in front of one that the
\* table has further down not at all, and numbers 0x0 to 0xf as names.
RECURSIVE ReadAsInC(_)
ReadAsInC(tree) ==
  CASE tree.elem[1] = "op2" ->
         /\ ReadAsInC(tree.l) /\ ReadAsInC(tree.r)
         /\ CPrio(tree.l) = CPrio(tree) => /\ tree.l.elem = tree.elem /\ tree.elem[2] \in {"+", "*", "&&", "||", "&", "|", "^"}
                                         /\ Meant(tree).k # "float"
    [] tree.elem[1] = "op1" ->
         ReadAsInC(tree.r) /\ (tree.r.elem[1] = "op1" => Prio(tree.r.elem[2], TRUE) <= Prio(tree.elem[2], TRUE))
    [] tree.elem[1] = "(" -> ReadAsInC(tree.r)
    [] OTHER -> tree.elem[1] = "hex" => tree.elem[2] >= 16

\* What is calculated otherwise: sides of two types, unless both are small numbers
\* that are compared, anything narrower than a word, and what is looked up with or
\* divided by something that has no value; and & of +x or *x.
Whole(m) == m.s = 4 \/ m.k \in {"error", "fault"}
RECURSIVE CalculatedAsInC(_)
CalculatedAsInC(tree) ==
  LET l == Meant(tree.l)  r == Meant(tree.r)
      comparing == tree.elem[2] \in {"<", ">", "<=", ">=", "==", "!=", "&&", "||"}
      small(m) == m.k \in {"int", "uint"} /\ 2 * m.n \in 0..2^CondWidth(m.s) - 1
  IN CASE tree.elem = <<"op2", ".">> -> CalculatedAsInC(tree.l)
       [] tree.elem[1] = "op2" ->
            /\ CalculatedAsInC(tree.l) /\ CalculatedAsInC(tree.r)
            /\ tree.elem[2] \in {"/", "%"} => r.k # "error"
            /\ \/ l.k \in {"error", "fault"} \/ r.k \in {"error", "fault"}
               \/ l.k = r.k /\ Whole(l) /\ Whole(r)
               \/ comparing /\ ((l.k = r.k /\ l.s = r.s) \/ (small(l) /\ small(r)))
       [] tree.elem[1] = "op1" ->
            /\ CalculatedAsInC(tree.r)
            /\ tree.elem[2] \notin {"&", "+"} => Whole(r)
            /\ tree.elem[2] = "&" => tree.r.elem[1] # "op1"
            /\ tree.elem[2] = "*" => r.k \notin {"error", "float"}
       [] tree.elem[1] = "(" -> CalculatedAsInC(tree.r) /\ r.k \notin {"error", "float"}
       [] OTHER -> TRUE

\* A condition means what it means in C, or stops when that is nothing, whatever the
\* point's condition was before (breakpoint.cpp evaluateExpression).
ConditionsAgree ==
  LET result == cond.result  m == Meant(cond.expr)
      number == CASE result.type = kInt -> toi(result) [] result.type = kUint -> tou(result) [] result.type = kFloat -> tof(result)
  IN cond.stops # "not judged" /\ cond.expr # Nothing /\ ReadAsInC(cond.expr) /\ CalculatedAsInC(cond.expr) =>
       CASE m.k = "error" -> result.type = kError /\ cond.stops = "yes"
         [] m.k = "fault" -> TRUE
         [] OTHER -> result.type < kError /\ number = m.n /\ (cond.stops = "yes" <=> m.n # 0)
================================================================================
