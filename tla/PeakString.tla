----------------------------- MODULE PeakString ------------------------------
(***************************************************************************)
(* The search trees of lib/peak_string.c: a trie whose nodes keep their    *)
(* children in a paged list.  A node is its value in memory: character,    *)
(* results per method, and the pages of its children.                      *)
(*                                                                         *)
(* Characters are the bytes of the code; a node's character may also be    *)
(* STRING_WILDCARD or one of the numbers behind it, each of which stands   *)
(* for a letter in either case.                                            *)
(***************************************************************************)
EXTENDS PeakPage

STRING_WILDCARD == 256
Methods == {"FLOATING", "LEFT", "RIGHT", "EXACT"}

\* string_nocase[], zero for what is not a letter.
string_nocase(c) ==
  IF c \in 97 .. 122 THEN (c - 97) + 257
  ELSE IF c \in 65 .. 90 THEN (c - 65) + 257 ELSE 0

\* A new node: the ref of the code, which is zero but for its character.
Node(c) == [character |-> c, result |-> [m \in Methods |-> 0], next |-> <<>>]

\* peak_string_init()
peak_string_init == Node(0)

\* Is there an escaped character behind the backslash at i?
Escape(buf, i) == buf[i] = 92 /\ i + 1 <= Len(buf) /\ buf[i + 1] \in {63, 92}

RECURSIVE Characters(_, _, _)

\* The node characters of pattern buf from position i on.
Characters(buf, i, nocase) ==
  IF i > Len(buf) THEN <<>>
  ELSE IF buf[i] = 63 THEN <<STRING_WILDCARD>> \o Characters(buf, i + 1, nocase)
  ELSE LET j == IF Escape(buf, i) THEN i + 1 ELSE i
           c == IF nocase /\ string_nocase(buf[j]) # 0
                THEN string_nocase(buf[j]) ELSE buf[j]
       IN  <<c>> \o Characters(buf, j + 1, nocase)

Method(flags) ==
  IF {"LEFT", "RIGHT"} \subseteq flags THEN "EXACT"
  ELSE IF "LEFT" \in flags THEN "LEFT"
  ELSE IF "RIGHT" \in flags THEN "RIGHT" ELSE "FLOATING"

\* The leaf keeps the first result it is given.
Store(node, method, result) ==
  IF node.result[method] = 0 THEN [node EXCEPT !.result[method] = result] ELSE node

RECURSIVE Grow(_, _, _, _, _)

\* The loop of peak_string_add(); allocating a page fails at depth "fail".
Grow(node, chars, method, result, fail) ==
  IF chars = <<>> THEN Store(node, method, result)
  ELSE
  LET next == PAGE_INSERT(node.next, Node(Head(chars)), fail # 1)
      child == PAGE_FIND(next, Head(chars))
  IN  IF child = <<>> THEN [node EXCEPT !.next = next]
      ELSE [node EXCEPT !.next =
              Update(next, Grow(child[1], Tail(chars), method, result, fail - 1))]

peak_string_add(root, result, buf, flags, fail) ==
  Grow(root, Characters(buf, 1, "NOCASE" \in flags), Method(flags), result, fail)

RECURSIVE Leaf(_, _)

\* The node that a sequence of characters leads to, or <<>>.
Leaf(node, chars) ==
  IF chars = <<>> THEN <<node>>
  ELSE LET child == PAGE_FIND(node.next, Head(chars))
       IN  IF child = <<>> THEN <<>> ELSE Leaf(child[1], Tail(chars))

\* What peak_string_add() returns, afterwards: 0 if it has failed.
AddReturns(root, buf, flags) ==
  LET leaf == Leaf(root, Characters(buf, 1, "NOCASE" \in flags))
  IN  IF leaf = <<>> THEN 0 ELSE leaf[1].result[Method(flags)]
-----------------------------------------------------------------------------
\* A variant that forgets that an exact match is anchored to the left.
ReportsLoosely(node, left, start) ==
  {m \in Methods : /\ node.result[m] # 0
                   /\ m = "LEFT" => start
                   /\ m \in {"RIGHT", "EXACT"} => left = 0}

\* The methods for which a node has a result that may be reported.
Reports(node, left, start) ==
  {m \in Methods : /\ node.result[m] # 0
                   /\ m \in {"LEFT", "EXACT"} => start
                   /\ m \in {"RIGHT", "EXACT"} => left = 0}

\* peak_string_match(): what it pushes; it returns whether left is 0.
peak_string_match(node, left, start) ==
  LET order == SelectSeq(<<"FLOATING", "LEFT", "RIGHT", "EXACT">>,
                         LAMBDA m : m \in Reports(node, left, start))
  IN  [n \in DOMAIN order |-> node.result[order[n]]]

\* The characters looked for: literal, wildcard and, of a letter, either case.
Kinds(c) ==
  <<c, STRING_WILDCARD>> \o (IF string_nocase(c) = 0 THEN <<>> ELSE <<string_nocase(c)>>)

\* A match of the last character ends the search, whatever kind it is.
KeepsLooking(left) == left # 0

RECURSIVE FindFrom(_, _, _)

\* _peak_string_find(): what it pushes, in order.
FindFrom(node, buf, start) ==
  LET left == Len(buf) - 1
      kinds == Kinds(Head(buf))
      child(n) == PAGE_FIND(node.next, kinds[n])
      found == {n \in DOMAIN kinds : child(n) # <<>>}
      seen == {n \in found : KeepsLooking(left) \/ n = Min(found)}
      push(n) == peak_string_match(child(n)[1], left, start)
                   \o (IF left = 0 THEN <<>>
                       ELSE FindFrom(child(n)[1], Tail(buf), start))
  IN  FlattenSeq([n \in DOMAIN kinds |-> IF n \in seen THEN push(n) ELSE <<>>])

\* peak_string_find(): what it pushes, if the stash does not fill up.
peak_string_find(root, buf) ==
  peak_string_match(root, Len(buf), TRUE)
    \o FlattenSeq([i \in DOMAIN buf |->
                     FindFrom(root, SubSeq(buf, i, Len(buf)), i = 1)])
-----------------------------------------------------------------------------
RECURSIVE Nodes(_)

\* A node and all the nodes below it.
Nodes(node) ==
  {node} \cup UNION {Nodes(c) : c \in ToSet(PAGE_FOREACH(node.next))}
=============================================================================
