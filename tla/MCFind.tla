------------------------------- MODULE MCFind -------------------------------
(***************************************************************************)
(* find.c for every template of up to MaxItems items and names of up to    *)
(* MaxName characters, in a root with one file and a directory with two.   *)
(***************************************************************************)
EXTENDS Glob, Find

CONSTANTS MaxItems, MaxName

a == 97
b == 98
c == 99

Item(spelled, set) == [star |-> FALSE, spelled |-> spelled, set |-> set]

Items == {[star |-> TRUE, spelled |-> <<Star>>, set |-> {}],
          Item(<<Mark>>, {a, b, c}), Item(<<a>>, {a}), Item(<<b>>, {b}),
          Item(<<Open, a, c, Close>>, {a, c}),
          Item(<<Open, a, Dash, b, Close>>, {a, b})}

\* A template has items of these kinds, and any number of them.
ASSUME TemplatesAssumption == Templates \subseteq Seq(Items)

ItemSeqs == BoundedSeq(Items, MaxItems)
Names == BoundedSeq({a, b, c}, MaxName) \ {<<>>}

MCFiles == {<<a>>, <<a, b>>, <<b, c>>}
MCEntries == [d \in Dirs |-> IF d = Root THEN {<<a>>} \cup (Dirs \ {Root})
                                        ELSE {<<a, b>>, <<b, c>>}]
MCMatches(items, name) == regExp(Template(items), name \o <<NUL>>)

(***************************************************************************)
(* regExp() accepts what the template means, whatever lies in memory after *)
(* the name, for templates whose brackets have a plain character between   *)
(* them and, if they contain a question mark, names that are long enough.  *)
(* It is asked of a template once, where a walk without a program begins.  *)
(***************************************************************************)
GlobIsRight ==
  stack = <<Frame(Root)>> /\ ~program =>
    \A name \in Names :
      BracketsApart(template) /\ LongEnough(template, name) =>
        \A stale \in {<<>>, <<a>>} :
          regExp(Template(template), name \o <<NUL>> \o stale) <=> Accepts(template, name)
=============================================================================
