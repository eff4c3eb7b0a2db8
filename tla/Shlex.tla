-------------------------------- MODULE Shlex -------------------------------
(***************************************************************************)
(* The splitting of a command line into words (shlex.go), as a fold of one *)
(* step per character, and the quoting a client may use to send a list of  *)
(* words.  A character is "space", one of the two quotes, the backslash or *)
(* a letter.                                                               *)
(***************************************************************************)
EXTENDS Naturals, SequencesExt

Quote == {"single", "double"}

(* Where shlexReadToken and the loop of shlexSplit are: the words so far,  *)
(* token, quoted, the scanner's state ("space", "word", a quote or         *)
(* "backslash") and escapedstate.                                          *)
Start == [words |-> <<>>, token |-> <<>>, quoted |-> FALSE, state |-> "space", escaped |-> "space"]

(* The token ends; an empty one is not a word, whether quoted or not. *)
EndToken(r) ==
  [Start EXCEPT !.words = IF r.token = <<>> THEN r.words ELSE Append(r.words, r.token)]

Take(r, c)   == [r EXCEPT !.token = Append(@, c)]
Escape(r, s) == [r EXCEPT !.state = "backslash", !.escaped = s]

InSpace(r, c) ==
  CASE c = "space"     -> EndToken(r)
    [] c = "backslash" -> Escape(r, "word")
    [] c \in Quote     -> [r EXCEPT !.state = c]
    [] OTHER           -> [Take(r, c) EXCEPT !.state = "word"]

InQuotes(r, c) ==
  LET q == [r EXCEPT !.quoted = TRUE]
  IN CASE c = r.state                            -> [q EXCEPT !.state = "word"]
       [] c = "backslash" /\ r.state = "double"  -> Escape(q, "double")
       [] OTHER                                  -> Take(q, c)

(* Within quotes a backslash that escapes nothing is kept. *)
AfterBackslash(r, c) ==
  LET kept == r.escaped \in Quote /\ c \notin {"backslash", r.escaped}
  IN [Take(IF kept THEN Take(r, "backslash") ELSE r, c) EXCEPT !.state = r.escaped]

InWord(r, c) ==
  CASE c = "space"     -> IF r.token # <<>> \/ r.quoted THEN EndToken(r) ELSE r
    [] c \in Quote     -> [r EXCEPT !.state = c]
    [] c = "backslash" -> Escape(r, "word")
    [] OTHER           -> Take(r, c)

Step(r, c) ==
  CASE r.state = "space"     -> InSpace(r, c)
    [] r.state \in Quote     -> InQuotes(r, c)
    [] r.state = "backslash" -> AfterBackslash(r, c)
    [] OTHER                 -> InWord(r, c)

(* shlexSplit without its error, which its one caller ignores: what was    *)
(* read when the text ends is a word, even within quotes.                  *)
Split(text) == EndToken(FoldLeft(Step, Start, text)).words

-----------------------------------------------------------------------------
(* The client's side: words quoted by the rules of a POSIX shell, a space  *)
(* between two.  "dollar" stands for the two characters, $ and `, that a   *)
(* backslash escapes within double quotes besides the quote and itself; a  *)
(* word of no characters needs quotes.                                     *)
Quoting == {"single", "double", "backslash"}

QuotedChar(c, how) ==
  CASE how = "backslash" -> <<"backslash", c>>
    [] how = "double"    -> IF c \in {"double", "backslash", "dollar"} THEN <<"backslash", c>>
                                                                       ELSE <<c>>
    [] OTHER             -> IF c = "single" THEN <<"single", "backslash", "single", "single">>
                                            ELSE <<c>>

QuotedWord(word, how) ==
  LET body  == FlattenSeq([i \in DOMAIN word |-> QuotedChar(word[i], how)])
      quote == IF how = "backslash" THEN "single" ELSE how
  IN IF how = "backslash" /\ word # <<>> THEN body ELSE <<quote>> \o body \o <<quote>>

Quoted(words, how) ==
  FoldLeft(LAMBDA text, w : IF text = <<>> THEN QuotedWord(w, how)
                                           ELSE Append(text, "space") \o QuotedWord(w, how),
           <<>>, words)
=============================================================================
