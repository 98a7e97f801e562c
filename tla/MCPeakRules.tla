----------------------------- MODULE MCPeakRules -----------------------------
(***************************************************************************)
(* PeakRules over a letter in both cases, a question mark, NUL and digits, *)
(* with pages of three, the smallest size at which the two ways to split a *)
(* page differ.                                                            *)
(***************************************************************************)
EXTENDS PeakRules

a == 97
A == 65
zero == 48
one == 49
minus == 45
plus == 43
space == 32
nul == 0
any == 63       \* ?
esc == 92       \* \

Str(buf, flags) == [buf |-> buf, flags |-> flags]

MCStringRules ==
  {Str(<<nul>>, {}), Str(<<a>>, {}), Str(<<A>>, {"RIGHT"}), Str(<<any>>, {}),
   Str(<<a>>, {"NOCASE"}), Str(<<esc, any>>, {"LEFT"}), Str(<<a, any>>, {}),
   Str(<<any, A>>, {"NOCASE", "LEFT", "RIGHT"}), Str(<<>>, {})}

Num(buf, op, type) == [buf |-> buf, op |-> op, type |-> type]

\* All operators; also an unknown one, an unknown type and a number out of range.
MCNumberRules ==
  {Num(<<one>>, "GT", "string"), Num(<<minus, one>>, "LE", "other"),
   Num(<<one, one, a>>, "NE", "string"), Num(<<space, one>>, "LT", "length"),
   Num(<<one>>, "GE", "length"), Num(<<minus, one>>, "EQ", "string"),
   Num(<<one>>, "MAX", "string"), Num(<<one, zero, one>>, "LT", "string"),
   Num(<<minus>>, "NE", "length")}

StringTexts ==
  UNION {[1 .. n -> {a, A, any}] : n \in 0 .. 2}
    \cup {<<a, A, a>>, <<nul>>, <<one>>, <<one, one, a>>}

\* Numbers on both sides of the bounds, signs without a number, and no number.
NumberTexts ==
  {<<>>, <<a>>, <<A, one>>, <<minus>>, <<one>>, <<plus, one>>, <<space, one>>,
   <<space, minus, one>>, <<minus, space, one>>, <<minus, minus, one>>,
   <<one, one, a>>, <<one, zero, zero>>, <<one, zero, one>>,
   <<minus, one, zero, one>>, <<minus, one, one, one>>}

MCTexts ==
  "string" :> StringTexts @@ "number" :> NumberTexts @@ "regex" :> {<<>>, <<a>>, <<A, one>>, <<one>>}

\* The expression ^A in either case, and one that does not compile.
MCRegexes == {Str(<<94, A>>, {"NOCASE"}), Str(<<40>>, {})}

MCRegexMatches ==
  (Str(<<94, A>>, {"NOCASE"}) :> {t \in MCTexts["regex"] : t # <<>> /\ Head(t) \in {a, A}})
=============================================================================
