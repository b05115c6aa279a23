---------------------------- MODULE StringSupport ----------------------------
(***************************************************************************)
(* The text of an environment variable and how the library reads it.  A    *)
(* text is the sequence of what stands between its delimiters: a text with *)
(* k delimiters has k + 1 components, some of them possibly empty.  A      *)
(* component is a number (anything that starts like one: extraction stops  *)
(* at the first other character, and a minus sign wraps to a huge value),  *)
(* a word, or empty.                                                       *)
(***************************************************************************)
EXTENDS Integers, Sequences

CONSTANTS
  Numbers,    \* the numbers that occur
  Words,      \* the words that occur
  MaxFields   \* bound on the components of a text

ASSUME TextAssumption == Numbers \subseteq Nat /\ MaxFields \in Nat \ {0}

Empty == [kind |-> "empty"]

Components ==
  {Empty} \cup [kind : {"number"}, n : Numbers] \cup [kind : {"word"}, w : Words]

Texts == UNION {[1..k -> Components] : k \in 1..MaxFields}

\* getenv: the variable is unset, or set to a text.
Unset == <<>>

\* split drops the empty components: it keeps them all if there is none.
splitKeepsAll(text) == \A i \in DOMAIN text : text[i] # Empty

\* getline until the end of the stream: an empty last component is not seen.
getlines(text) ==
  IF text[Len(text)] = Empty THEN SubSeq(text, 1, Len(text) - 1) ELSE text

\* Whether parse extracts a value of the kind from a component; any text is a
\* string.
parse(c, kind) == kind = "number" => c.kind = "number"

\* parse of a text into as many elements as kinds says.  It fails if split keeps
\* fewer components than there are, if there are too many, or if one of them
\* does not parse.
parseFails(text, kinds) ==
  \/ ~ splitKeepsAll(text)
  \/ Len(text) > Len(kinds)
  \/ \E i \in DOMAIN text : ~ parse(text[i], kinds[i])

\* EnvironmentVariable<uint64_t>: a value that does not parse leaves the default.
EnvNumber(text, default) ==
  IF text = Unset \/ ~ parse(text[1], "number") THEN default ELSE text[1].n
=============================================================================
