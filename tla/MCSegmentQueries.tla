-------------------------- MODULE MCSegmentQueries --------------------------
EXTENDS SegmentQueries, TLC

Number(n) == [num |-> n, quoted |-> FALSE]
Quoted(n) == [num |-> n, quoted |-> TRUE]
Lookup(k, op, lits, not) == [tag |-> k, op |-> op, vals |-> lits, not |-> not]
Query(op, not, given, lookups, queries) ==
  [op |-> op, not |-> not, given |-> given, nulls |-> {}, lookups |-> lookups, queries |-> queries]
OfLookups(op, not, lookups) == Query(op, not, {"lookups"}, lookups, {})
OfQueries(op, not, queries) == Query(op, not, {"queries"}, {}, queries)

\* Criteria of each shape: Not on a lookup, on a query and on a nested one, an
\* empty list, a null, a word, a large number bare and quoted, a query with both
\* lists, and one nested deeper than the bound.
Either   == OfLookups("OR", FALSE, {Lookup(1, "in", {Number(2), Quoted(10)}, FALSE),
                                    Lookup(2, "<", {Quoted(99)}, TRUE)})
Both     == OfLookups("AND", TRUE, {Lookup(1, "<=", {Number(2)}, TRUE),
                                    Lookup(2, ">=", {Number(10)}, FALSE)})
Empty    == OfLookups("AND", TRUE, {})
Partly   == OfQueries("AND", FALSE, {Empty, Either})
Nested   == OfQueries("OR", TRUE, {Both, Partly})
HasOne   == [OfLookups("AND", FALSE, {Lookup(1, "<", {Quoted(99)}, FALSE)})
              EXCEPT !.nulls = {"lookups"}]
WithNull == OfQueries("AND", FALSE, {HasOne})
TwoLists == Query("AND", FALSE, {"lookups", "queries"}, Either.lookups, {Empty})
TooDeep  == OfQueries("AND", FALSE, {Nested})

SomeCriteria == {Empty, Nested, WithNull, TwoLists, TooDeep}
SomeQueries == SomeCriteria \cup {Either, Both, Partly, HasOne}

\* As text 10 comes before 2, and both before the word.
TwoAndTen == {2, 10}
OneWord == {99}
AsText == {<<10, 2>>, <<10, 99>>, <<2, 99>>}
IntOrStr == {"Int", "Str"}
OneOrTwo == {1, 2}

AllSymmetry == Permutations(TagNames) \cup Permutations(Uds) \cup Permutations(Requests)
=============================================================================
