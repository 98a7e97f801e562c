------------------------------ MODULE PeakRules ------------------------------
(***************************************************************************)
(* The three search interfaces of the library, all of which report the     *)
(* results of the rules that match a text in a stash of the caller         *)
(* (include/peak_stash.h): strings (lib/peak_string.c), numbers            *)
(* (lib/peak_number.c) and regular expressions (lib/peak_regex.c).         *)
(*                                                                         *)
(* Rules are added one after the other, each with a result of its own; a   *)
(* search does not change anything, so what it reports is an operator.     *)
(* The three share nothing, so a behaviour is about one of them.           *)
(***************************************************************************)
EXTENDS PeakString, TLC

CONSTANTS
  StringRules,   \* [buf, flags] that may be passed to peak_string_add()
  NumberRules,   \* [buf, op, type] that may be passed to peak_number_add()
  Regexes,       \* [buf, flags] that may be passed to peak_regex_add()
  RegexMatches,  \* for every one that compiles the texts that pcre matches
  Texts,         \* for every interface the texts searched
  NumberMax,     \* LLONG_MAX
  StashSize,     \* count of STASH_DECLARE()
  MaxAdds        \* bound: the calls that add a rule

VARIABLES
  uses,      \* the interface that is used
  strings,   \* the search tree
  numbers,   \* [string, length]: lists of [op, number, result], newest first
  regexes,   \* list of [regex, result], newest first
  adds,      \* the calls so far; the n-th passes n as result
  added      \* history: for every result the rule that returned it first

vars == <<uses, strings, numbers, regexes, adds, added>>

ASSUME RulesAssumption == NumberMax \in Nat /\ StashSize \in Nat /\ MaxAdds \in Nat
-----------------------------------------------------------------------------
Digit(c) == c \in 48 .. 57

\* isspace()
Space(c) == c = 32 \/ c \in 9 .. 13

RECURSIVE Value(_, _)

\* The value of the digits that buf starts with, v being that of those before.
Value(buf, v) ==
  IF buf = <<>> \/ ~Digit(Head(buf)) THEN v
  ELSE Value(Tail(buf), 10 * v + (Head(buf) - 48))

\* What is left of buf behind the white space that it starts with.
SkipSpace(buf) ==
  LET n == Min({i \in 0 .. Len(buf) : i = Len(buf) \/ ~Space(buf[i + 1])})
  IN  SubSeq(buf, n + 1, Len(buf))

\* The values of a long long.
Numbers == -(NumberMax + 1) .. NumberMax

\* A variant without the check of ERANGE: strtoll() returns the last number in range.
Saturated(v) == <<IF v > NumberMax THEN NumberMax ELSE v>>

\* A number that is out of range is an error.
InRange(v) == IF v \in Numbers THEN <<v>> ELSE <<>>

(***************************************************************************)
(* peak_number_get(): strtoll() takes white space, a sign and what digits  *)
(* there are; without a digit, or with a number that is out of range, the  *)
(* conversion fails.                                                       *)
(***************************************************************************)
peak_number_get(buf) ==
  LET signed == SkipSpace(buf)
      sign == IF signed # <<>> /\ Head(signed) \in {43, 45} THEN <<Head(signed)>> ELSE <<>>
      digits == SubSeq(signed, Len(sign) + 1, Len(signed))
      value == IF sign = <<45>> THEN -Value(digits, 0) ELSE Value(digits, 0)
  IN  IF digits # <<>> /\ Digit(Head(digits)) THEN InRange(value) ELSE <<>>

\* The operators below NUMBER_MAX.
Operators == {"EQ", "NE", "GT", "LT", "LE", "GE"}

\* A variant with one of the operators a little off.
CompareLoosely(op, x, y) ==
  CASE op = "GT" -> x >= y [] op = "LT" -> x < y [] op = "EQ" -> x = y
    [] op = "NE" -> x # y [] op = "LE" -> x <= y [] op = "GE" -> x >= y

\* The operators.
Compare(op, x, y) ==
  CASE op = "GT" -> x > y [] op = "LT" -> x < y [] op = "EQ" -> x = y
    [] op = "NE" -> x # y [] op = "LE" -> x <= y [] op = "GE" -> x >= y

\* What the nodes that pass have as results.
ResultsOf(hits) == [n \in DOMAIN hits |-> hits[n].result]

peak_number_match(list, number) ==
  ResultsOf(SelectSeq(list, LAMBDA node : Compare(node.op, number, node.number)))

\* peak_number_find(): what it pushes, if the stash does not fill up.
peak_number_find(buf) ==
  peak_number_match(numbers.length, Len(buf))
    \o (IF peak_number_get(buf) = <<>> THEN <<>>
        ELSE peak_number_match(numbers.string, peak_number_get(buf)[1]))

\* peak_regex_find(): an empty text matches nothing.
peak_regex_find(buf) ==
  IF buf = <<>> THEN <<>>
  ELSE ResultsOf(SelectSeq(regexes, LAMBDA node : buf \in RegexMatches[node.regex]))

\* STASH_PUSH() of one after the other: what does not fit is dropped.
STASH_PUSH(seq) == SubSeq(seq, 1, Min({Len(seq), StashSize}))
-----------------------------------------------------------------------------
Init ==
  /\ uses \in {"string", "number", "regex"}
  /\ strings = peak_string_init
  /\ numbers = [string |-> <<>>, length |-> <<>>]
  /\ regexes = <<>>
  /\ adds = 0
  /\ added = <<>>

\* A call that passes the next result and gets ret; 0 is not recorded.
Call(rule, ret) ==
  /\ rule.kind = uses
  /\ adds < MaxAdds
  /\ adds' = adds + 1
  /\ added' = IF ret = adds + 1 THEN added @@ (ret :> rule) ELSE added

\* peak_string_add(), in which a page may not be allocated at some depth.
AddString(r, fail) ==
  \E root \in {peak_string_add(strings, adds + 1, r.buf, r.flags, fail)} :
    /\ Call([kind |-> "string", rule |-> r], AddReturns(root, r.buf, r.flags))
    /\ strings' = root
    /\ UNCHANGED <<uses, numbers, regexes>>

\* The list that a rule belongs to; a type that is not known is a string.
ListOf(r) == IF r.type = "length" THEN "length" ELSE "string"

\* A variant that adds a rule that is there another time.
SameNever(node, r) == FALSE

\* Is the rule in the list already?
Same(node, r) == <<node.number>> = peak_number_get(r.buf) /\ node.op = r.op

\* peak_number_add(): no such operator, not a number, known, out of memory, or new.
AddNumber(r, mem) ==
  LET list == numbers[ListOf(r)]
      known == {n \in DOMAIN list : Same(list[n], r)}
      ok == r.op \in Operators /\ peak_number_get(r.buf) # <<>>
      new == ok /\ known = {} /\ mem
      node == [op |-> r.op, number |-> peak_number_get(r.buf)[1], result |-> adds + 1]
  IN
  /\ Call([kind |-> "number", rule |-> r],
          IF new THEN adds + 1 ELSE IF ok /\ known # {} THEN list[Min(known)].result ELSE 0)
  /\ numbers' = IF new THEN [numbers EXCEPT ![ListOf(r)] = <<node>> \o @] ELSE numbers
  /\ UNCHANGED <<uses, strings, regexes>>

\* peak_regex_add(): known, not compiled or out of memory, or new.
AddRegex(r, mem) ==
  LET known == {n \in DOMAIN regexes : regexes[n].regex = r}
      new == known = {} /\ mem /\ r \in DOMAIN RegexMatches
  IN
  /\ Call([kind |-> "regex", rule |-> r],
          IF new THEN adds + 1 ELSE IF known # {} THEN regexes[Min(known)].result ELSE 0)
  /\ regexes' =
       IF new THEN <<[regex |-> r, result |-> adds + 1]>> \o regexes ELSE regexes
  /\ UNCHANGED <<uses, strings, numbers>>

\* What is freed is not expected back.
Forget(kind) ==
  /\ added' = Restrict(added, {n \in DOMAIN added : added[n].kind # kind})
  /\ UNCHANGED adds

\* peak_string_exit(), every page of every node, and a new peak_string_init().
peak_string_exit ==
  /\ strings # peak_string_init
  /\ strings' = peak_string_init
  /\ Forget("string")
  /\ UNCHANGED <<uses, numbers, regexes>>

\* peak_number_exit() and peak_number_init().
peak_number_exit ==
  /\ numbers.string \o numbers.length # <<>>
  /\ numbers' = [string |-> <<>>, length |-> <<>>]
  /\ Forget("number")
  /\ UNCHANGED <<uses, strings, regexes>>

\* peak_regex_exit() and peak_regex_init().
peak_regex_exit ==
  /\ regexes # <<>>
  /\ regexes' = <<>>
  /\ Forget("regex")
  /\ UNCHANGED <<uses, strings, numbers>>

Next ==
  \/ \E r \in StringRules : \E fail \in 0 .. Len(r.buf) : AddString(r, fail)
  \/ \E r \in NumberRules, mem \in BOOLEAN : AddNumber(r, mem)
  \/ \E r \in Regexes, mem \in BOOLEAN : AddRegex(r, mem)
  \/ peak_string_exit \/ peak_number_exit \/ peak_regex_exit

Spec == Init /\ [][Next]_vars
-----------------------------------------------------------------------------
\* A caller that searches a text for everything, with one stash.
SearchAll(text) ==
  STASH_PUSH(peak_string_find(strings, text) \o peak_number_find(text)
               \o peak_regex_find(text))

TypeOK ==
  /\ adds \in 0 .. MaxAdds
  /\ DOMAIN added \subseteq 1 .. adds
  /\ \A text \in Texts[uses] : Len(SearchAll(text)) <= StashSize

(***************************************************************************)
(* The children of every node are in a paged list that is in order, across *)
(* its pages as well, and no page is empty or overfull: however pages are  *)
(* split, everything in them can be found.                                 *)
(***************************************************************************)
PagesSorted ==
  \A node \in Nodes(strings) :
    /\ \A p \in DOMAIN node.next : Len(node.next[p]) \in 1 .. PageSize
    /\ \E all \in {PAGE_FOREACH(node.next)} :
         \A m, n \in DOMAIN all : m < n => all[m].character < all[n].character

\* The string rules by their result.
Added(kind) == {n \in DOMAIN added : added[n].kind = kind}

(***************************************************************************)
(* A rule that was accepted stays until its rules are freed, with the      *)
(* result it has returned; and there is no result to be found that was not *)
(* accepted, in particular not on the nodes of a rule that was given up    *)
(* for lack of memory.  A rule that is there already is not accepted       *)
(* again.                                                                  *)
(***************************************************************************)
RulesKept ==
  /\ \A n \in Added("string") :
       AddReturns(strings, added[n].rule.buf, added[n].rule.flags) = n
  /\ {node.result[m] : node \in Nodes(strings), m \in Methods} \ {0} = Added("string")
  /\ {node.result : node \in ToSet(numbers.string \o numbers.length)} = Added("number")
  /\ {node.result : node \in ToSet(regexes)} = Added("regex")
  /\ \A m, n \in DOMAIN added : added[m] = added[n] => m = n

\* Upper and lower case are the same letter.
Fold(c) == IF c \in 65 .. 90 THEN c + 32 ELSE c

\* A pattern by what its characters mean: the wildcard, or a byte.
Meaning(r) == Characters(r.buf, 1, FALSE)

\* The positions in text at which a string rule matches, by its meaning.
MatchesAt(r, text) ==
  LET pat == Meaning(r) IN
  {i \in 1 .. Len(text) + 1 :
     /\ (i - 1) + Len(pat) <= Len(text)
     /\ \A k \in DOMAIN pat :
          \/ pat[k] = STRING_WILDCARD
          \/ pat[k] = text[(i - 1) + k]
          \/ "NOCASE" \in r.flags /\ Fold(pat[k]) = Fold(text[(i - 1) + k])
     /\ pat = <<>> => i = 1                \* the empty pattern is looked for once
     /\ "LEFT" \in r.flags => i = 1
     /\ "RIGHT" \in r.flags => (i - 1) + Len(pat) = Len(text)}

\* The matches that are reported in any case: those that end before the last
\* character, and those that end in a literal.
MustReport(r, text) ==
  {i \in MatchesAt(r, text) :
     LET pat == Meaning(r) IN
     \/ (i - 1) + Len(pat) < Len(text)
     \/ pat = <<>>
     \/ Last(pat) # STRING_WILDCARD /\ ("NOCASE" \in r.flags => string_nocase(Last(pat)) = 0)}

\* How often n is in seq.
Times(seq, n) == Cardinality({i \in DOMAIN seq : seq[i] = n})

(***************************************************************************)
(* What peak_string_find() reports is a match of the rule, anchored as the *)
(* rule says and reported once per position; and nothing is missed but     *)
(* matches at the very end of the text which end in a wildcard or in a     *)
(* letter of either case.                                                  *)
(***************************************************************************)
StringsFound ==
  \A text \in Texts["string"] :
    \E found \in {peak_string_find(strings, text)} :
      /\ ToSet(found) \subseteq Added("string")
      /\ \A n \in Added("string") :
           /\ Times(found, n) <= Cardinality(MatchesAt(added[n].rule, text))
           /\ Times(found, n) >= Cardinality(MustReport(added[n].rule, text))

\* The stretches of digits that buf starts with, behind white space and a sign.
Stretches(buf) ==
  {d \in (1 .. Len(buf)) \X (1 .. Len(buf)) :
     /\ d[1] <= d[2]
     /\ \A j \in d[1] .. d[2] : Digit(buf[j])
     /\ d[2] < Len(buf) => ~Digit(buf[d[2] + 1])
     /\ \A j \in 1 .. d[1] - 1 : Space(buf[j]) \/ (j = d[1] - 1 /\ buf[j] \in {43, 45})}

\* Its number in decimal, or none: there is at most one such stretch.
NumberOf(buf) ==
  Numbers \cap
    {(IF d[1] > 1 /\ buf[d[1] - 1] = 45 THEN -1 ELSE 1)
       * MapThenSumSet(LAMBDA j : (buf[j] - 48) * 10 ^ (d[2] - j), d[1] .. d[2]) :
       d \in Stretches(buf)}

\* The number a rule is about, for a text: its length or its value.
Subject(r, text) == IF ListOf(r) = "length" THEN {Len(text)} ELSE NumberOf(text)

(***************************************************************************)
(* peak_number_find() reports exactly the comparisons that hold, of the    *)
(* text's length and of the number it starts with, each of them once; a    *)
(* text that does not start with a number, or with one that is out of      *)
(* range, is compared by its length only.                                  *)
(***************************************************************************)
NumbersFound ==
  \A text \in Texts["number"] :
    LET found == peak_number_find(text)
        right == {n \in Added("number") :
                    LET r == added[n].rule IN
                    \E v \in Subject(r, text), k \in NumberOf(r.buf) :
                      CASE r.op = "EQ" -> v = k [] r.op = "NE" -> v < k \/ v > k
                        [] r.op = "GT" -> v >= k + 1 [] r.op = "GE" -> ~(v < k)
                        [] r.op = "LT" -> v + 1 <= k [] r.op = "LE" -> ~(v > k)}
    IN  IsInjective(found) /\ ToSet(found) = right

(***************************************************************************)
(* Adding rules keeps those that are there and their lists in order, also  *)
(* when memory runs out half way.                                          *)
(***************************************************************************)
RulesSound == TypeOK /\ PagesSorted /\ RulesKept

(***************************************************************************)
(* Searching strings and numbers reports what the rules mean.              *)
(***************************************************************************)
RulesFound == StringsFound /\ NumbersFound
=============================================================================
