-------------------------------- MODULE Html --------------------------------
(***************************************************************************)
(* How the console writes text into its page: replace_all, one character   *)
(* after the other, each over the result of those before it.               *)
(***************************************************************************)
EXTENDS Naturals, Sequences, SequencesExt

CONSTANTS
    Alphabet,  \* the characters of a text
    MaxText    \* bound: its length

\* The entities, in characters.
Amp == <<"&", "a", "m", "p", ";">>
Quot == <<"&", "q", "u", "o", "t", ";">>
Apos == <<"&", "a", "p", "o", "s", ";">>
Lt == <<"&", "l", "t", ";">>
Gt == <<"&", "g", "t", ";">>
NewLine == <<"&", "N", "e", "w", "L", "i", "n", "e", ";">>

\* boost::replace_all of a single character.
ReplaceEach(text, c, by) ==
    FlattenSeq([i \in DOMAIN text |-> IF text[i] = c THEN by ELSE <<text[i]>>])

\* Mutant: & is replaced after < and >.
ReplacedLate(text) ==
    LET quoted == ReplaceEach(ReplaceEach(text, "\"", Quot), "'", Apos)
        angled == ReplaceEach(ReplaceEach(quoted, "<", Lt), ">", Gt)
        lined == ReplaceEach(ReplaceEach(angled, "&", Amp), "\n", NewLine)
    IN ReplaceEach(lined, "\r", <<>>)

\* replace().
Replaced(text) ==
    LET quoted == ReplaceEach(ReplaceEach(ReplaceEach(text, "&", Amp),
                                        "\"", Quot), "'", Apos)
        angled == ReplaceEach(ReplaceEach(quoted, "<", Lt), ">", Gt)
        lined == ReplaceEach(angled, "\n", NewLine)
    IN ReplaceEach(lined, "\r", <<>>)

\* What the browser makes of one character of the text.
Entity(c) ==
    CASE c = "&" -> Amp [] c = "\"" -> Quot [] c = "'" -> Apos [] c = "<" -> Lt
      [] c = ">" -> Gt [] c = "\n" -> NewLine [] c = "\r" -> <<>>
      [] OTHER -> <<c>>

Texts == UNION {[1 .. n -> Alphabet] : n \in 0 .. MaxText}

\* The successive replacements never touch what an earlier one has written:
\* each character of the text becomes its own entity, also in a text that
\* looks like an entity; and no quote is left that would end the script's string,
\* no end of line and no tag (console.cpp replace).
EachItsEntity ==
    \A text \in Texts :
        /\ Replaced(text) = FlattenSeq([i \in DOMAIN text |-> Entity(text[i])])
        /\ \A i \in DOMAIN Replaced(text) :
              Replaced(text)[i] \notin {"'", "\n", "<"}
=============================================================================
