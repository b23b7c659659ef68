-------------------------------- MODULE Glob --------------------------------
(***************************************************************************)
(* ACOS/find.c: regExp() and checkExp(), the matching of a file name       *)
(* against a template.  Characters are their codes.  A string is the       *)
(* memory it lies in: what follows the first NUL is left over from before, *)
(* and checkExp() may come to read it.                                     *)
(***************************************************************************)
EXTENDS Integers, FiniteSets, Sequences, SequencesExt

NUL   == 0
Star  == 42
Dash  == 45
Mark  == 63
Open  == 91
Close == 93

At(s, i) == IF i < Len(s) THEN s[i + 1] ELSE NUL

\* strlen() of what begins at place i of s.
strlen(s, i) == CHOOSE n \in 0..Len(s) : /\ At(s, i + n) = NUL
                                         /\ \A k \in 0..(n - 1) : At(s, i + k) # NUL

\* The loop over a bracket, from place j0 on: is c one of its characters or in an interval?
InBracket(t, j0, c) ==
  LET round[j \in Nat] ==
        CASE At(t, j) = Close -> FALSE
          [] At(t, j) = Dash  -> c \in At(t, j - 1)..At(t, j + 1) \/ round[j + 2]
          [] OTHER            -> c = At(t, j) \/ round[j + 1]
  IN  round[j0]

\* The place after the bracket that begins at place i.
AfterBracket(t, i) == CHOOSE j \in (i + 1)..Len(t) : /\ At(t, j - 1) = Close
                                                     /\ \A k \in i..(j - 2) : At(t, k) # Close

(***************************************************************************)
(* checkExp(t, name)[i][j][tempLen][openBr] is the call of checkExp() with *)
(* template + i and name + j.  tempLen is how many characters the rest of  *)
(* the template asks for, stars aside.  A bracket leaves openBr set, and   *)
(* the next one is then taken for any character.                           *)
(***************************************************************************)
checkExp(t, name) ==
  LET check[i \in Nat] == [j \in Nat |-> [tempLen \in Int |-> [openBr \in BOOLEAN |->
        LET c == At(t, i)
            d == At(name, j)
        IN  CASE c = NUL /\ d = NUL -> TRUE
              [] c = Star ->
                   \E k \in 0..(strlen(name, j) - tempLen) :
                     At(t, i + 1) = NUL \/ check[i + 1][j + k][tempLen][openBr]
              [] c = Mark \/ (c = Open /\ openBr) ->
                   check[i + 1][j + 1][tempLen - 1][openBr]
              [] c = Open /\ ~openBr ->
                   InBracket(t, i + 1, d)
                     /\ check[AfterBracket(t, i)][j + 1][tempLen - 1][TRUE]
              [] OTHER -> c = d /\ check[i + 1][j + 1][tempLen - 1][FALSE]]]]
  IN  check

\* One round of the loop of regExp().
Measure(m, c) ==
  CASE c = Star                           -> m
    [] c = Open /\ ~m.openBr              -> [m EXCEPT !.openBr = TRUE, !.lenOfBrExp = @ + 1]
    [] m.openBr /\ c \notin {Star, Close} -> [m EXCEPT !.lenOfBrExp = @ + 1]
    [] m.openBr /\ c = Close              -> [tempLen |-> m.tempLen + 1, openBr |-> FALSE,
                                              lenOfBrExp |-> 0]
    [] OTHER                              -> [m EXCEPT !.tempLen = @ + 1]

\* A mutant: stars are counted as characters.
regExp_CountsStars(t, name) == checkExp(t, name)[0][0][Len(t)][FALSE]

regExp(t, name) ==
  LET m == FoldLeft(Measure, [tempLen |-> 0, openBr |-> FALSE, lenOfBrExp |-> 0], t)
  IN  checkExp(t, name)[0][0][m.tempLen + m.lenOfBrExp][FALSE]
-----------------------------------------------------------------------------
(***************************************************************************)
(* The reference: a template is a sequence of items, a star or a set of    *)
(* characters.  Spelled is how an item is written.                         *)
(***************************************************************************)
Accepts(items, name) ==
  LET rest[i \in Nat] == [j \in Nat |->   \* from the i-th item and the j-th character on
        IF i > Len(items) THEN j > Len(name)
        ELSE IF items[i].star
        THEN \E k \in j..(Len(name) + 1) : rest[i + 1][k]
        ELSE j <= Len(name) /\ name[j] \in items[i].set /\ rest[i + 1][j + 1]]
  IN  rest[1][1]

Template(items) == FlattenSeq([k \in DOMAIN items |-> items[k].spelled])

Asked(items) == Cardinality({i \in DOMAIN items : ~items[i].star})

\* Two brackets have a plain character between them.
BracketsApart(items) ==
  \A i, k \in DOMAIN items :
    i < k /\ items[i].spelled[1] = Open /\ items[k].spelled[1] = Open
      => \E j \in (i + 1)..(k - 1) : items[j].spelled[1] \notin {Star, Mark, Open}

\* A question mark does not step over the end of the name.
LongEnough(items, name) ==
  Asked(items) <= Len(name) \/ \A i \in DOMAIN items : items[i].spelled[1] # Mark
=============================================================================
