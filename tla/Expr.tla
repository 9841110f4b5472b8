-------------------------------- MODULE Expr --------------------------------
(***************************************************************************)
(* The symbolic algebra of trading_data_expr/src/lib.rs: a body is a tree, *)
(* read four ways - its value, its gradient, its lowered Ast with the      *)
(* symbolic derivative, and whether it may decline (MAYBE).                *)
(*                                                                         *)
(* An f64 is a rational <<n, d>> in lowest terms, over zero for infinities *)
(* and NaN.  Rounding, the sign of a zero, sqrt and exp are left out.      *)
(***************************************************************************)
EXTENDS Integers, Sequences, FiniteSets, SequencesExt

CONSTANTS Readings,   \* what a dep slot may hold
          Literals,   \* the constants a body writes
          MaxOps      \* operators in a body

ASSUME ExprConstants == Readings \subseteq Int /\ Literals \subseteq Int /\ MaxOps \in Nat

VARIABLES body, ops

vars == <<body, ops>>

-----------------------------------------------------------------------------
(* Numbers.                                                                *)

RECURSIVE Gcd(_, _)
Gcd(a, b) == IF b = 0 THEN a ELSE Gcd(b, a % b)
Magnitude(n) == IF n < 0 THEN -n ELSE n
Signum(n) == IF n = 0 THEN 0 ELSE IF n < 0 THEN -1 ELSE 1

Ratio(n, d) == IF d = 0 THEN <<Signum(n), 0>>
               ELSE LET by == Gcd(Magnitude(n), Magnitude(d)) * Signum(d)
                    IN  <<n \div by, d \div by>>
Int64(n) == <<n, 1>>
Zero == Int64(0)
One == Int64(1)
Nan == <<0, 0>>
IsNumber(p) == p # Nan

Plus(p, q) == IF p = q /\ p[2] = 0 THEN p ELSE Ratio(p[1] * q[2] + q[1] * p[2], p[2] * q[2])
Minus(p) == Ratio(-p[1], p[2])
Times(p, q) == Ratio(p[1] * q[1], p[2] * q[2])
Over(p, q) == IF q[1] < 0 THEN Ratio(-(p[1] * q[2]), -(p[2] * q[1]))
              ELSE Ratio(p[1] * q[2], p[2] * q[1])
Less(p, q) == IF p[2] = 0 /\ q[2] = 0 THEN p[1] < 0 /\ q[1] > 0
              ELSE IsNumber(p) /\ IsNumber(q) /\ p[1] * q[2] < q[1] * p[2]
Bit(b) == IF b THEN One ELSE Zero

\* powi: repeated multiplication, inverted for a negative exponent.
Power(p, n) ==
    LET acc == FoldLeft(LAMBDA a, i : Times(a, p), One, [i \in 1..Magnitude(n) |-> i])
    IN  IF n < 0 THEN Over(One, acc) ELSE acc

-----------------------------------------------------------------------------
(* Trees.  val is a Const's number, a Var's slot or a Powi's exponent.     *)

Node(op, kids) == [op |-> op, kids |-> kids, val |-> Zero]
Const(p) == [op |-> "Const", kids |-> <<>>, val |-> p]
Var(i) == [op |-> "Var", kids |-> <<>>, val |-> Int64(i)]
Absent == Node("Absent", <<>>)
Powi(e, n) == [op |-> "Powi", kids |-> <<e>>, val |-> Int64(n)]
Select(c, a, b) == Node("Select", <<c, a, b>>)
Present(x) == Node("Sub", <<Const(One), Node("IsNan", <<x>>)>>)

\* Bug: a Select is absent only where both branches are.
LatticeOfBoth(op, maybe) ==
    IF op = "Select" THEN maybe[2] /\ maybe[3]
    ELSE IF op \in {"Min", "Max"} THEN \A k \in DOMAIN maybe : maybe[k]
    ELSE op \notin {"Cmp", "IsNan"} /\ \E k \in DOMAIN maybe : maybe[k]

\* lattice!: what an operator makes of its operands' absence.
Lattice(op, maybe) ==
    CASE op \in {"Min", "Max"} -> \A k \in DOMAIN maybe : maybe[k]
      [] op \in {"Cmp", "IsNan"} -> FALSE
      [] op = "Or" -> maybe[2]
      [] op = "Select" -> maybe[2] \/ maybe[3]
      [] OTHER -> \E k \in DOMAIN maybe : maybe[k]

\* MAYBE: whether this tree may evaluate to no number.
RECURSIVE Maybe(_)
Maybe(t) == t.op = "Absent" \/ Lattice(t.op, [k \in DOMAIN t.kids |-> Maybe(t.kids[k])])

\* The value of an operator over its operands' values: one law for both planes.
Law(op, v) ==
    CASE op = "Add" -> Plus(v[1], v[2])
      [] op = "Sub" -> Plus(v[1], Minus(v[2]))
      [] op = "Mul" -> Times(v[1], v[2])
      [] op = "Div" -> Over(v[1], v[2])
      [] op \in {"Min", "Max"} ->
             IF ~IsNumber(v[2]) THEN v[1] ELSE IF ~IsNumber(v[1]) THEN v[2]
             ELSE IF (op = "Min") = Less(v[1], v[2]) THEN v[1] ELSE v[2]
      [] op = "Cmp" -> Bit(Less(v[1], v[2]))
      [] op = "IsNan" -> Bit(~IsNumber(v[1]))
      [] op = "Neg" -> Minus(v[1])
      [] op = "Square" -> Times(v[1], v[1])
      [] op = "Abs" -> IF Less(v[1], Zero) THEN Minus(v[1]) ELSE v[1]
      [] op = "Sum" -> FoldLeft(Plus, Zero, v)

RECURSIVE Eval(_, _)
Eval(t, env) ==
    LET v(k) == Eval(t.kids[k], env)
    IN  CASE t.op = "Const" -> t.val
          [] t.op = "Absent" -> Nan
          [] t.op = "Var" -> env[t.val[1]]
          [] t.op = "Powi" -> Power(v(1), t.val[1])
          [] t.op = "Select" -> IF v(1) # Zero THEN v(2) ELSE v(3)
          [] t.op = "Or" -> IF IsNumber(v(1)) THEN v(1) ELSE v(2)
          [] OTHER -> Law(t.op, [k \in DOMAIN t.kids |-> v(k)])

-----------------------------------------------------------------------------
(* The gradient.                                                           *)

\* Bug: an absent right operand takes the seed.
TakesLeftStrictly(strictly, right) == strictly

TakesLeft(strictly, right) == strictly \/ ~IsNumber(right)

Only(k, seed) == [j \in {k} |-> seed]
NoSeeds == [j \in {} |-> Zero]

\* grad_fn!: the operands a seed reaches, and what reaches each.
Seeds(t, env, seed) ==
    LET v(k) == Eval(t.kids[k], env)
    IN  CASE t.op \in {"Const", "Absent", "Cmp", "IsNan"} -> NoSeeds
          [] t.op \in {"Add", "Sum"} -> [k \in {1, 2} |-> seed]
          [] t.op = "Sub" -> <<seed, Minus(seed)>>
          [] t.op = "Neg" -> <<Minus(seed)>>
          [] t.op = "Mul" -> <<Times(seed, v(2)), Times(seed, v(1))>>
          [] t.op = "Div" -> <<Over(seed, v(2)),
                               Over(Times(Minus(seed), v(1)), Times(v(2), v(2)))>>
          [] t.op = "Square" -> <<Times(Times(seed, Int64(2)), v(1))>>
          [] t.op = "Abs" -> <<Times(seed, Int64(Signum(v(1)[1])))>>
          [] t.op = "Powi" -> <<Times(Times(seed, t.val), Power(v(1), t.val[1] - 1))>>
          [] t.op = "Min" -> Only(IF TakesLeft(Less(v(1), v(2)), v(2)) THEN 1 ELSE 2, seed)
          [] t.op = "Max" -> Only(IF TakesLeft(Less(v(2), v(1)), v(2)) THEN 1 ELSE 2, seed)
          [] t.op = "Select" -> Only(IF v(1) # Zero THEN 2 ELSE 3, seed)
          [] t.op = "Or" -> Only(IF IsNumber(v(1)) THEN 1 ELSE 2, seed)

\* The partial with respect to slot i, accumulated down the tree.
RECURSIVE Grad(_, _, _, _)
Grad(t, env, seed, i) ==
    IF t.op = "Var" THEN IF t.val[1] = i THEN seed ELSE Zero
    ELSE LET to == Seeds(t, env, seed)
         IN  FoldSet(LAMBDA k, acc : Plus(Grad(t.kids[k], env, to[k], i), acc), Zero, DOMAIN to)

-----------------------------------------------------------------------------
(* The Ast.                                                                *)

RECURSIVE Lower(_)
Lower(t) ==
    LET kids == [k \in DOMAIN t.kids |-> Lower(t.kids[k])]
    IN  CASE t.op = "Absent" -> Const(Nan)
          [] t.op = "Or" -> Select(Node("IsNan", <<kids[1]>>), kids[2], kids[1])
          [] OTHER -> [t EXCEPT !.kids = kids]

\* The comparison a Min or a Max names, as a tree.
Strictly(t) == IF t.op = "Min" THEN Node("Cmp", t.kids)
               ELSE Node("Cmp", <<t.kids[2], t.kids[1]>>)

\* skipping: the presence tests ahead of the comparison.
Skipping(t, d) ==
    Select(Node("IsNan", <<t.kids[2]>>), d[1],
           Select(Node("IsNan", <<t.kids[1]>>), d[2], Select(Strictly(t), d[1], d[2])))

\* diff: the exact symbolic derivative with respect to slot i.
RECURSIVE Diff(_, _)
Diff(t, i) ==
    LET e == t.kids
        d == [k \in DOMAIN e |-> Diff(e[k], i)]
        product(a, b) == Node("Mul", <<a, b>>)
        two == Const(Int64(2))
    IN  CASE t.op \in {"Const", "Cmp", "IsNan"} -> Const(Zero)
          [] t.op = "Var" -> Const(Bit(t.val[1] = i))
          [] t.op \in {"Add", "Sub", "Sum", "Neg"} -> Node(t.op, d)
          [] t.op = "Mul" -> Node("Add", <<product(d[1], e[2]), product(e[1], d[2])>>)
          [] t.op = "Div" ->
                 Node("Div", <<Node("Sub", <<product(d[1], e[2]), product(e[1], d[2])>>),
                               Node("Square", <<e[2]>>)>>)
          [] t.op = "Square" -> product(two, product(e[1], d[1]))
          [] t.op = "Abs" -> product(Node("Div", <<e[1], Node("Abs", <<e[1]>>)>>), d[1])
          [] t.op = "Powi" -> product(product(Const(t.val), Powi(e[1], t.val[1] - 1)), d[1])
          [] t.op \in {"Min", "Max"} -> Skipping(t, d)
          [] t.op = "Select" -> Select(e[1], d[2], d[3])

IsConst(t) == t.op = "Const"
Is(t, p) == IsConst(t) /\ t.val = p

\* fold1, fold2: constants through the operator's own law.
Folded(t) == IF \A k \in DOMAIN t.kids : IsConst(t.kids[k]) THEN Const(Eval(t, <<>>)) ELSE t

\* Bug: zero less x is x.
MinusTheRest(t) == IF Is(t.kids[2], Zero) THEN t.kids[1] ELSE t.kids[2]

Negated(e) == IF e.op = "Neg" THEN e.kids[1] ELSE Folded(Node("Neg", <<e>>))

\* What is left of a Sub with a zero in it.
LeftOfSub(t) == IF Is(t.kids[2], Zero) THEN t.kids[1] ELSE Negated(t.kids[2])

\* Constants are summed, and kept where they come to something.
SumOf(kids) ==
    LET acc == FoldLeft(Plus, Zero, [k \in DOMAIN SelectSeq(kids, IsConst) |->
                                        SelectSeq(kids, IsConst)[k].val])
        free == SelectSeq(kids, LAMBDA e : ~IsConst(e))
        rest == IF acc # Zero \/ free = <<>> THEN Append(free, Const(acc)) ELSE free
    IN  IF Len(rest) = 1 THEN rest[1] ELSE Node("Sum", rest)

\* What simplify makes of a node whose operands are simplified.
Identity(t) ==
    LET e == t.kids
        some(p) == \E k \in DOMAIN e : Is(e[k], p)
        other(p) == IF Is(e[1], p) THEN e[2] ELSE e[1]
        folds == \A k \in DOMAIN e : IsConst(e[k])
    IN  CASE t.op = "Sum" -> SumOf(e)
          [] t.op = "Select" -> IF IsConst(e[1]) THEN IF e[1].val # Zero THEN e[2] ELSE e[3]
                                ELSE IF e[2] = e[3] THEN e[2] ELSE t
          [] t.op = "Powi" /\ ~folds /\ t.val \in {Zero, One} ->
                 IF t.val = Zero THEN Const(One) ELSE e[1]
          [] t.op = "Neg" -> Negated(e[1])
          [] t.op = "Add" /\ ~folds /\ some(Zero) -> other(Zero)
          [] t.op = "Sub" /\ ~folds /\ some(Zero) -> LeftOfSub(t)
          [] t.op = "Mul" /\ ~folds /\ some(Zero) -> Const(Zero)
          [] t.op = "Mul" /\ ~folds /\ some(One) -> other(One)
          [] t.op = "Div" /\ ~folds /\ Is(e[1], Zero) -> Const(Zero)
          [] t.op = "Div" /\ ~folds /\ Is(e[2], One) -> e[1]
          [] OTHER -> IF e = <<>> THEN t ELSE Folded(t)

RECURSIVE Simplify(_)
Simplify(t) == Identity([t EXCEPT !.kids = [k \in DOMAIN @ |-> Simplify(t.kids[k])]])

-----------------------------------------------------------------------------
(* A body is written one operator at a time.                               *)

Leaves == {Var(1), Var(2), Absent} \cup {Const(Int64(n)) : n \in Literals}

\* The same type, another literal in it: what one homogeneous Sum may hold.
RECURSIVE Rewritten(_)
Rewritten(t) == IF IsConst(t) THEN Const(Plus(One, Minus(t.val)))
                ELSE [t EXCEPT !.kids = [k \in DOMAIN @ |-> Rewritten(t.kids[k])]]

\* lt and select: neither a comparison nor a condition may be over an absence.
Constructible(t) ==
    /\ t.op = "Cmp" => ~Maybe(t.kids[1]) /\ ~Maybe(t.kids[2])
    /\ t.op = "Select" => ~Maybe(t.kids[1])

Wrappings(t) ==
    {Node(op, kids) : op \in {"Add", "Sub", "Mul", "Div", "Min", "Max", "Cmp", "Or"},
                      kids \in {<<t, t>>} \cup {<<t, l>> : l \in Leaves}
                                          \cup {<<l, t>> : l \in Leaves}}
    \cup {Node(op, <<t>>) : op \in {"Neg", "Square", "Abs"}}
    \cup {Present(t), Node("Sum", <<t, Rewritten(t)>>)}
    \cup {Powi(t, n) : n \in {-1, 1, 3}}
    \cup UNION {{Select(t, l, m), Select(l, t, m), Select(l, m, t)} : l, m \in Leaves}

Init == body \in Leaves /\ ops = 0

Write ==
    /\ ops < MaxOps
    /\ \E t \in Wrappings(body) : Constructible(t) /\ body' = t
    /\ ops' = ops + 1

Spec == Init /\ [][Write]_vars

-----------------------------------------------------------------------------
(* Properties.                                                             *)

Envs == [{1, 2} -> {Int64(n) : n \in Readings}]

RECURSIVE Subtrees(_)
Subtrees(t) == {t} \cup UNION {Subtrees(t.kids[k]) : k \in DOMAIN t.kids}

\* No division by zero in sight, so every NaN is one the body wrote.
Divides(t, env) ==
    \A s \in Subtrees(t) :
        /\ s.op = "Div" => Eval(s.kids[2], env) # Zero
        /\ s.op = "Powi" /\ s.val[1] <= 0 => Eval(s.kids[1], env) # Zero

\* defined_over!: no comparison and no condition the evaluation comes to is over
\* a NaN.
RECURSIVE Defined(_, _)
Defined(t, env) ==
    LET v(k) == Eval(t.kids[k], env)
    IN  /\ t.op = "Cmp" => IsNumber(v(1)) /\ IsNumber(v(2))
        /\ t.op = "Select" => IsNumber(v(1))
        /\ LET came == IF t.op = "Select" THEN {1, IF v(1) # Zero THEN 2 ELSE 3}
                       ELSE DOMAIN t.kids
           IN  \A k \in came : Defined(t.kids[k], env)

\* A body that type-checks compares no absence, on either plane or in any of its
\* derivatives, and one whose MAYBE is false is always a number.
AbsenceIsTyped ==
    \A env \in Envs : Divides(body, env) =>
        /\ Maybe(body) \/ IsNumber(Eval(body, env))
        /\ Defined(Lower(body), env)
        /\ \A i \in {1, 2} : Defined(Diff(Lower(body), i), env)

OffTheKink(t, env) == \A s \in Subtrees(t) : s.op = "Abs" => Eval(s.kids[1], env) # Zero

\* The two planes are one semantics: the Ast has the body's value, and where that
\* is a number, off the kink of abs, the symbolic derivative has its gradient.
PlanesAgree ==
    \A env \in Envs :
        /\ Eval(Lower(body), env) = Eval(body, env)
        /\ IsNumber(Eval(body, env)) /\ Divides(body, env) /\ OffTheKink(body, env) =>
              \A i \in {1, 2} : Eval(Diff(Lower(body), i), env) = Grad(body, env, One, i)

\* A zero product that is no number for all its zero.
Hides(t, env) ==
    \E s \in Subtrees(t) :
        /\ s.op \in {"Mul", "Div"} /\ ~IsNumber(Eval(s, env))
        /\ \E k \in {1, 2} : Is(Simplify(s.kids[k]), Zero)

\* Simplifying a body or its derivative changes no value it has, but where a
\* literal zero stands for a product that is no number.
SimplifyKeeps ==
    \A env \in Envs : \A t \in {Lower(body), Diff(Lower(body), 1)} :
        IsNumber(Eval(t, env)) /\ ~Hides(t, env) =>
            Eval(Simplify(t), env) = Eval(t, env)
=============================================================================
