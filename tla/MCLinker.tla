------------------------------ MODULE MCLinker ------------------------------
(***************************************************************************)
(* Instances of Linker for TLC: symbols 1 to 5 and the base type 0.        *)
(***************************************************************************)
EXTENDS Linker

MCSymbol == 0..5
MCKnown == {0}

\* A declaration that is indexed, parses and has no blank line inside.
D(n, refs) == [name |-> n, head |-> refs, tail |-> {}, indexed |-> TRUE, parses |-> TRUE]
Tailed(n, refs, more) == [D(n, refs) EXCEPT !.tail = more]
Subtype(n, refs) == [D(n, refs) EXCEPT !.indexed = FALSE]
Broken(n) == [D(n, {}) EXCEPT !.parses = FALSE]

MCPrograms == {<<D(1, {0, 2})>>, <<D(1, {2, 3})>>, <<D(1, {3, 4}), D(2, {})>>,
               <<Tailed(1, {0}, {4})>>, <<D(4, {2}), D(1, {4})>>}

\* One declaration a paragraph: cycles, chains, two texts of one name, a
\* declaration that does not parse, one that the search cannot find.
Paragraphs == {D(2, {3}), D(2, {0}), D(3, {2, 4}), D(3, {}), D(4, {0}), D(4, {1, 5}),
               Tailed(4, {0}, {3}), Broken(2), Subtype(3, {4})}
Separate == {{<<d>> : d \in ds} : ds \in SUBSET Paragraphs}

\* Paragraphs of several declarations, as lists of type aliases often are.
Lists == {<<D(2, {3}), D(3, {0})>>, <<D(4, {2}), D(3, {0}), D(2, {})>>, <<D(3, {0})>>,
          <<Subtype(4, {3}), D(3, {1})>>, <<D(2, {4}), Broken(4)>>, <<D(4, {3}), D(1, {2})>>,
          <<D(2, {3, 4}), Tailed(3, {}, {4})>>}

\* Contents an editor takes the files through while link runs.
Edited == {{<<D(2, {3}), D(3, {4})>>}, {<<D(2, {0})>>, <<D(3, {2})>>, <<D(4, {2})>>},
           {<<D(2, {4})>>, <<D(3, {})>>}, {<<D(4, {3}), D(2, {3})>>, <<D(3, {4}), D(4, {})>>}, {}}

MCWorkspaces == {{v} : v \in Separate \cup SUBSET Lists} \cup {Edited}
=============================================================================
