\* Five rules of a kind in any order, with and without enough memory.  Pages of three
\* are the smallest ones of which the two ways to split differ; five patterns also
\* insert into the halves.
SPECIFICATION Spec
CONSTANTS
  PageSize = 3
  StringRules <- MCStringRules
  NumberRules <- MCNumberRules
  RegexMatches <- MCRegexMatches
  Regexes <- MCRegexes
  Texts <- MCTexts
  NumberMax = 100
  StashSize = 2
  MaxAdds = 5
CHECK_DEADLOCK FALSE
INVARIANTS RulesSound RulesFound
