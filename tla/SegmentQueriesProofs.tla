------------------------ MODULE SegmentQueriesProofs ------------------------
(***************************************************************************)
(* Theorems about tags, segments and their queries, for any criteria of    *)
(* any depth, any documents, uploads, requests and page sizes.             *)
(***************************************************************************)
EXTENDS SegmentQueries, FiniteSetTheorems, TLAPS

-----------------------------------------------------------------------------
(* Recursion on queries.                                                   *)

\* G maps a query and the values of the queries inside to its own value in V.
Closed(V, G) == \A q \in Queries : \A g \in [q.queries -> V] : G[<<q, g>>] \in V
Recursive(V, G) ==
  \E f \in [Queries -> V] :
    \A q \in Queries : f[q] = G[<<q, [s \in q.queries |-> f[s]]>>]

\* A function of a query that is given by its values for the queries inside exists:
\* no query is inside itself.
LEMMA RecursionOnQueries == ASSUME NEW V, NEW G, Closed(V, G) PROVE Recursive(V, G)
<1>0. \A q \in Queries : \A g \in [q.queries -> V] : G[<<q, g>>] \in V
  BY DEF Closed
<1> DEFINE Inner(f, q) == [s \in q.queries |-> f[s]]
           Good(f, D) == /\ D \subseteq Queries /\ \A q \in D : q.queries \subseteq D
                         /\ f \in [D -> V] /\ \A q \in D : f[q] = G[<<q, Inner(f, q)>>]
           Covered == {q \in Queries : \E f, D : Good(f, D) /\ q \in D}
           Value(q) == CHOOSE v : \E f, D : Good(f, D) /\ q \in D /\ v = f[q]
<1>1. ASSUME NEW f, NEW D, Good(f, D), NEW g, NEW E, Good(g, E), NEW x \in D \cap E
      PROVE  f[x] = g[x]
  <2> DEFINE S == {q \in D \cap E : f[q] # g[q]}
  <2>1. SUFFICES ASSUME S # {} PROVE FALSE
    OBVIOUS
  <2>2. PICK q \in S : q.queries \cap S = {}
    <3>1. S \in SUBSET Queries
      BY <1>1
    <3>2. QED
      BY <2>1, <3>1, NestingAssumption
  <2>3. \A s \in q.queries : f[s] = g[s]
    BY <1>1, <2>2
  <2>4. Inner(f, q) = Inner(g, q)
    BY <2>3
  <2> HIDE DEF Inner
  <2>5. f[q] = g[q]
    BY <1>1, <2>4
  <2>6. QED
    BY <2>5
<1>2. ASSUME NEW f, NEW D, Good(f, D), NEW q \in D
      PROVE  Value(q) = f[q]
  <2> HIDE DEF Good
  <2>1. \E v : \E g, E : Good(g, E) /\ q \in E /\ v = f[q] /\ v = g[q]
    BY <1>2
  <2>2. \A v : (\E g, E : Good(g, E) /\ q \in E /\ v = g[q]) => v = f[q]
    BY <1>1, <1>2
  <2>3. QED
    BY <2>1, <2>2
<1> HIDE DEF Value
<1>3. /\ Covered \subseteq Queries
      /\ \A q \in Covered : q.queries \subseteq Covered /\ Value(q) \in V
      /\ \A q \in Covered : Value(q) = G[<<q, [s \in q.queries |-> Value(s)]>>]
  <2>1. ASSUME NEW q \in Covered
        PROVE  /\ q.queries \subseteq Covered /\ Value(q) \in V
               /\ Value(q) = G[<<q, [s \in q.queries |-> Value(s)]>>]
    <3>1. PICK f, D : Good(f, D) /\ q \in D
      OBVIOUS
    <3>2. /\ D \subseteq Queries /\ q.queries \subseteq D /\ f[q] \in V
          /\ f[q] = G[<<q, Inner(f, q)>>]
      BY <3>1
    <3>3. \A s \in q.queries : Value(s) = f[s]
      BY <1>2, <3>1, <3>2
    <3>4. [s \in q.queries |-> Value(s)] = Inner(f, q)
      BY <3>3
    <3>5. Value(q) = f[q]
      BY <1>2, <3>1
    <3>6. q.queries \subseteq Covered
      BY <3>1, <3>2
    <3> HIDE DEF Inner, Good, Covered
    <3>7. QED
      BY <3>2, <3>4, <3>5, <3>6
  <2> HIDE DEF Good
  <2>2. QED
    BY <2>1
<1>4. Covered = Queries
  <2> DEFINE S == Queries \ Covered
  <2>1. SUFFICES ASSUME S # {} PROVE FALSE
    BY <1>3
  <2>2. PICK q \in S : q.queries \cap S = {}
    BY <2>1, NestingAssumption
  <2>3. q \in Queries /\ q \notin Covered /\ q.queries \subseteq Covered
    BY <2>2, QueriesAssumption
  <2> HIDE DEF Covered
  <2> DEFINE D == Covered \cup {q}
             new == G[<<q, [s \in q.queries |-> Value(s)]>>]
             f == [x \in D |-> IF x = q THEN new ELSE Value(x)]
  <2>4. new \in V
    <3>1. [s \in q.queries |-> Value(s)] \in [q.queries -> V]
      BY <1>3, <2>3
    <3>2. QED
      BY <1>0, <2>3, <3>1
  <2>5. \A x \in D : x.queries \subseteq D /\ q \notin x.queries
    BY <1>3, <2>3
  <2>6. ASSUME NEW x \in D
        PROVE  Inner(f, x) = [s \in x.queries |-> Value(s)]
    <3>1. \A s \in x.queries : f[s] = Value(s)
      BY <2>5
    <3> HIDE DEF f
    <3>2. QED
      BY <3>1
  <2>7. f \in [D -> V] /\ D \subseteq Queries
    BY <1>3, <2>3, <2>4
  <2>8. \A x \in D : f[x] = G[<<x, [s \in x.queries |-> Value(s)]>>]
    BY <1>3
  <2>9. Good(f, D) /\ q \in D
    <3> HIDE DEF f, D, Inner
    <3>1. QED
      BY <2>5, <2>6, <2>7, <2>8 DEF D
  <2> HIDE DEF Good, f, D
  <2>10. QED
    BY <2>3, <2>9 DEF Covered
<1> DEFINE h == [q \in Queries |-> Value(q)]
<1>5. h \in [Queries -> V]
  BY <1>3, <1>4
<1>6. ASSUME NEW q \in Queries
      PROVE  h[q] = G[<<q, [s \in q.queries |-> h[s]]>>]
  <2>1. q.queries \subseteq Queries
    BY QueriesAssumption
  <2>2. [s \in q.queries |-> h[s]] = [s \in q.queries |-> Value(s)]
    BY <2>1
  <2>3. h[q] = Value(q)
    OBVIOUS
  <2> HIDE DEF h, Covered
  <2>4. QED
    BY <1>3, <1>4, <2>2, <2>3
<1> HIDE DEF h
<1>7. QED
  BY <1>5, <1>6 DEF Recursive

\* What RecursionOnQueries is cited with: G is defined for the queries and the values
\* it may be asked for.
Asked(V) == UNION {{q} \X [q.queries -> V] : q \in Queries}
LEMMA AskedFacts ==
  ASSUME NEW V, NEW q \in Queries, NEW g \in [q.queries -> V]
  PROVE  <<q, g>> \in Asked(V) /\ <<q, g>>[1] = q /\ <<q, g>>[2] = g
BY DEF Asked

\* A query has no clause when no query in it has one and it has no lookup of its own.
LEMMA NoClauseFacts ==
  /\ NoClause \in [Queries -> BOOLEAN]
  /\ \A q \in Queries : NoClause[q] <=> q.lookups = {} /\ \A s \in q.queries : NoClause[s]
<1> DEFINE Body(f, q) == q.lookups = {} /\ \A s \in q.queries : f[s]
           G == [x \in Asked(BOOLEAN) |-> Body(x[2], x[1])]
           P(f) == f = [q \in Queries |-> Body(f, q)]
<1>1. \A q \in Queries : \A g \in [q.queries -> BOOLEAN] : G[<<q, g>>] = Body(g, q)
  BY AskedFacts
<1>2. PICK f \in [Queries -> BOOLEAN] :
        \A q \in Queries : f[q] = G[<<q, [s \in q.queries |-> f[s]]>>]
  <2>1. \A g, q : Body(g, q) \in BOOLEAN
    OBVIOUS
  <2> HIDE DEF G, Body
  <2>2. Closed(BOOLEAN, G)
    BY <1>1, <2>1 DEF Closed
  <2>3. QED
    BY <2>2, RecursionOnQueries DEF Recursive
<1> HIDE DEF G
<1>3. \A q \in Queries : f[q] = Body(f, q)
  <2>1. ASSUME NEW q \in Queries
        PROVE  f[q] = Body(f, q)
    <3>1. q.queries \subseteq Queries
      BY QueriesAssumption
    <3>2. [s \in q.queries |-> f[s]] \in [q.queries -> BOOLEAN]
      BY <3>1
    <3>3. f[q] = Body([s \in q.queries |-> f[s]], q)
      BY <1>1, <1>2, <3>2
    <3>4. QED
      BY <3>3
  <2>2. QED
    BY <2>1
<1>4. P(f)
  BY <1>3
<1>5. NoClause = CHOOSE g : P(g)
  BY DEF NoClause
<1> HIDE DEF P
<1>6. P(NoClause)
  BY <1>4, <1>5
<1>7. NoClause = [q \in Queries |-> Body(NoClause, q)]
  BY <1>6 DEF P
<1>8. QED
  BY <1>7

\* A query loses a list when a list of its own or one of a query in it is empty.
LEMMA LosesListFacts ==
  /\ LosesList \in [Queries -> BOOLEAN]
  /\ \A q \in Queries : LosesList[q] <=> Given(q, TRUE) # q.given \/ \E s \in q.queries : LosesList[s]
<1> DEFINE Body(f, q) == Given(q, TRUE) # q.given \/ \E s \in q.queries : f[s]
           G == [x \in Asked(BOOLEAN) |-> Body(x[2], x[1])]
           P(f) == f = [q \in Queries |-> Body(f, q)]
<1>1. \A q \in Queries : \A g \in [q.queries -> BOOLEAN] : G[<<q, g>>] = Body(g, q)
  BY AskedFacts
<1>2. PICK f \in [Queries -> BOOLEAN] :
        \A q \in Queries : f[q] = G[<<q, [s \in q.queries |-> f[s]]>>]
  <2>1. \A g, q : Body(g, q) \in BOOLEAN
    OBVIOUS
  <2> HIDE DEF G, Body
  <2>2. Closed(BOOLEAN, G)
    BY <1>1, <2>1 DEF Closed
  <2>3. QED
    BY <2>2, RecursionOnQueries DEF Recursive
<1> HIDE DEF G
<1>3. \A q \in Queries : f[q] = Body(f, q)
  <2>1. ASSUME NEW q \in Queries
        PROVE  f[q] = Body(f, q)
    <3>1. q.queries \subseteq Queries
      BY QueriesAssumption
    <3>2. [s \in q.queries |-> f[s]] \in [q.queries -> BOOLEAN]
      BY <3>1
    <3>3. f[q] = Body([s \in q.queries |-> f[s]], q)
      BY <1>1, <1>2, <3>2
    <3>4. QED
      BY <3>3
  <2>2. QED
    BY <2>1
<1>4. P(f)
  BY <1>3
<1>5. LosesList = CHOOSE g : P(g)
  BY DEF LosesList
<1> HIDE DEF P
<1>6. P(LosesList)
  BY <1>4, <1>5
<1>7. LosesList = [q \in Queries |-> Body(LosesList, q)]
  BY <1>6 DEF P
<1>8. QED
  BY <1>7

\* The documents found for a query are some of the index, got from those of its parts.
LEMMA FoundFacts ==
  ASSUME NEW t
  PROVE  /\ Found(t) \in [Queries -> SUBSET Uds]
         /\ \A q \in Queries :
              LET parts == {Clause(t, l) : l \in q.lookups}
                             \cup {Found(t)[s] : s \in {x \in q.queries : ~NoClause[x]}}
                  hits  == Combine(q.op, parts)
              IN  Found(t)[q] = IF q.not THEN MustNot(t, hits) ELSE hits
<1> DEFINE Parts(f, q) == {Clause(t, l) : l \in q.lookups}
                            \cup {f[s] : s \in {x \in q.queries : ~NoClause[x]}}
           Body(f, q) == IF q.not THEN MustNot(t, Combine(q.op, Parts(f, q)))
                         ELSE Combine(q.op, Parts(f, q))
           V == SUBSET Uds
           G == [x \in Asked(V) |-> Body(x[2], x[1])]
           P(f) == f = [q \in Queries |-> Body(f, q)]
<1>1. \A q \in Queries : \A g \in [q.queries -> V] : G[<<q, g>>] = Body(g, q)
  <2> HIDE DEF Body
  <2>1. QED
    BY AskedFacts
<1>2. PICK f \in [Queries -> V] :
        \A q \in Queries : f[q] = G[<<q, [s \in q.queries |-> f[s]]>>]
  <2>1. ASSUME NEW q \in Queries, NEW g \in [q.queries -> V]
        PROVE  Body(g, q) \in V
    <3>1. Index(t) \subseteq Uds
      BY DEF Index
    <3>2. \A l : Clause(t, l) \subseteq Uds
      BY <3>1 DEF Clause, MustNot, Term
    <3>3. \A p \in Parts(g, q) : p \subseteq Uds
      BY <3>2
    <3> HIDE DEF Parts
    <3>4. Combine(q.op, Parts(g, q)) \subseteq Uds
      BY <3>3 DEF Combine
    <3>5. QED
      BY <3>1, <3>4 DEF MustNot
  <2> HIDE DEF G, Body, V
  <2>2. Closed(V, G)
    BY <1>1, <2>1 DEF Closed
  <2>3. QED
    BY <2>2, RecursionOnQueries DEF Recursive
<1> HIDE DEF G, V
<1>3. \A q \in Queries : f[q] = Body(f, q)
  <2>1. ASSUME NEW q \in Queries
        PROVE  f[q] = Body(f, q)
    <3> DEFINE g == [s \in q.queries |-> f[s]]
    <3>1. q.queries \subseteq Queries
      BY QueriesAssumption
    <3>2. g \in [q.queries -> V]
      BY <3>1
    <3>3. \A s \in q.queries : g[s] = f[s]
      OBVIOUS
    <3>4. f[q] = G[<<q, g>>]
      BY <1>2
    <3> HIDE DEF g
    <3>5. Parts(g, q) = Parts(f, q)
      BY <3>3
    <3> HIDE DEF Parts
    <3>6. Body(g, q) = Body(f, q)
      BY <3>5
    <3> HIDE DEF Body
    <3>7. QED
      BY <1>1, <3>2, <3>4, <3>6
  <2>2. QED
    BY <2>1
<1>4. P(f)
  <2> HIDE DEF Body
  <2>1. QED
    BY <1>3
<1>5. Found(t) = CHOOSE g : P(g)
  BY DEF Found
<1> HIDE DEF P
<1>6. P(Found(t))
  BY <1>4, <1>5
<1> HIDE DEF Body
<1>7. Found(t) = [q \in Queries |-> Body(Found(t), q)]
  BY <1>6 DEF P
<1>8. \A q \in Queries : Found(t)[q] = Body(Found(t), q)
  BY <1>7
<1>9. f = Found(t)
  <2> DEFINE S == {q \in Queries : f[q] # Found(t)[q]}
  <2>1. SUFFICES ASSUME S # {} PROVE FALSE
    BY <1>7
  <2>2. PICK q \in S : q.queries \cap S = {}
    BY <2>1, NestingAssumption
  <2>3. q \in Queries /\ q.queries \subseteq Queries
    BY <2>2, QueriesAssumption
  <2>4. \A s \in q.queries : f[s] = Found(t)[s]
    BY <2>2, <2>3
  <2>5. Parts(f, q) = Parts(Found(t), q)
    BY <2>4
  <2> HIDE DEF Parts
  <2>6. Body(f, q) = Body(Found(t), q)
    BY <2>5 DEF Body
  <2>7. QED
    BY <1>3, <1>8, <2>3, <2>6
<1>10. QED
  BY <1>2, <1>8, <1>9 DEF Body, V

Depths == 0..(MaxQueryDepth + 1)

\* v is the validation, at each depth, of queries as sent or as rows have them.
Validates(t, o, v) ==
  \A q \in Queries, d \in Depths :
    v[q][d] <=> /\ d <= MaxQueryDepth /\ MustHaveOne(Given(q, o))
                /\ \A s \in q.queries : v[s][d + 1]
                /\ \A l \in q.lookups : ValidLookup(t, l)

\* A query is valid when it is, as the outermost one, with the queries and lookups in it.
LEMMA ValidFacts ==
  \A t \in Tenants, o \in BOOLEAN : \E v \in [Queries -> [Depths -> BOOLEAN]] :
    Validates(t, o, v) /\ \A q \in Queries : ValidQuery(t, q, o) <=> v[q][0]
<1> SUFFICES ASSUME NEW t \in Tenants, NEW o \in BOOLEAN
             PROVE  \E v \in [Queries -> [Depths -> BOOLEAN]] :
                      Validates(t, o, v) /\ \A q \in Queries : ValidQuery(t, q, o) <=> v[q][0]
  OBVIOUS
<1>0. PICK V : V = [Depths -> BOOLEAN]
  OBVIOUS
<1> DEFINE Row(f, q) == [d \in Depths |->
                          /\ d <= MaxQueryDepth
                          /\ MustHaveOne(Given(q, o))
                          /\ \A s \in q.queries : f[s][d + 1]
                          /\ \A l \in q.lookups : ValidLookup(t, l)]
           G == [x \in Asked(V) |-> Row(x[2], x[1])]
           P(f) == f = [q \in Queries |-> Row(f, q)]
<1>1. \A q \in Queries : \A g \in [q.queries -> V] : G[<<q, g>>] = Row(g, q)
  <2> HIDE DEF Row
  <2>1. QED
    BY AskedFacts, Zenon
<1>2. PICK v \in [Queries -> V] :
        \A q \in Queries : v[q] = G[<<q, [s \in q.queries |-> v[s]]>>]
  <2>1. \A q, g : Row(g, q) \in V
    BY <1>0
  <2> HIDE DEF G, Row
  <2>2. Closed(V, G)
    BY <1>1, <2>1, Zenon DEF Closed
  <2>3. QED
    BY <2>2, RecursionOnQueries DEF Recursive
<1> HIDE DEF G
<1>3. ASSUME NEW f, NEW g, NEW q \in Queries, \A s \in q.queries : f[s] = g[s]
      PROVE  Row(f, q) = Row(g, q)
  BY <1>3
<1>4. ASSUME NEW q \in Queries
      PROVE  v[q] = Row(v, q)
  <2> DEFINE g == [s \in q.queries |-> v[s]]
  <2>1. q.queries \subseteq Queries
    BY QueriesAssumption
  <2> HIDE DEF Row
  <2>2. g \in [q.queries -> V] /\ v[q] = G[<<q, g>>]
    BY <1>2, <2>1
  <2>3. \A s \in q.queries : g[s] = v[s]
    OBVIOUS
  <2> HIDE DEF g
  <2>4. Row(g, q) = Row(v, q)
    BY <1>3, <2>3
  <2>5. QED
    BY <1>1, <2>2, <2>4
<1>5. P(v)
  <2> HIDE DEF Row
  <2>1. QED
    BY <1>4
<1>6. ASSUME NEW g, P(g)
      PROVE  g = v
  <2> HIDE DEF Row
  <2> DEFINE S == {q \in Queries : v[q] # g[q]}
  <2>1. SUFFICES ASSUME S # {} PROVE FALSE
    BY <1>5, <1>6
  <2>2. PICK q \in S : q.queries \cap S = {}
    BY <2>1, NestingAssumption
  <2>3. q \in Queries /\ q.queries \subseteq Queries
    BY <2>2, QueriesAssumption
  <2>4. \A s \in q.queries : v[s] = g[s]
    BY <2>2, <2>3
  <2>5. Row(v, q) = Row(g, q)
    BY <1>3, <2>3, <2>4
  <2>6. g[q] = Row(g, q)
    BY <1>6, <2>3
  <2>7. QED
    BY <1>4, <2>2, <2>3, <2>5, <2>6
<1>7. ASSUME NEW q \in Queries
      PROVE  ValidQuery(t, q, o) = (CHOOSE g : P(g))[q][0]
  BY DEF ValidQuery, Depths
<1>8. (CHOOSE g : P(g)) = v
  <2> HIDE DEF P
  <2>1. QED
    BY <1>5, <1>6
<1>9. ASSUME NEW q \in Queries
      PROVE  ValidQuery(t, q, o) = v[q][0]
  <2> HIDE DEF P
  <2>1. QED
    BY <1>7, <1>8
<1>10. Validates(t, o, v)
  <2>1. \A q \in Queries, d \in Depths : v[q][d] = Row(v, q)[d]
    <3> HIDE DEF Row
    <3>1. QED
      BY <1>4
  <2>2. QED
    BY <1>0, <2>1 DEF Validates
<1>11. QED
  BY <1>0, <1>9, <1>10

\* The same, of any state, for what a step makes of the validation.
ValidAsked ==
  \A t \in Tenants, o \in BOOLEAN : \E v \in [Queries -> [Depths -> BOOLEAN]] :
    Validates(t, o, v) /\ \A q \in Queries : ValidQuery(t, q, o) <=> v[q][0]
LEMMA ValidFactsNext == ValidAsked /\ ValidAsked'
<1>1. ValidAsked
  BY ValidFacts DEF ValidAsked
<1>2. QED
  BY <1>1, PTL

\* No step changes or removes the row of a tag.
TagsKept == \A k \in 1..Len(tags) : k \in 1..Len(tags') /\ tags'[k] = tags[k]

\* Criteria that pass the validation pass it after any step that keeps the tags.
LEMMA ValidKept ==
  ASSUME TagsKept, NEW t \in Tenants, NEW query \in Queries, ValidQuery(t, query, FALSE)
  PROVE  ValidQuery(t, query, FALSE)'
<1>1. PICK v \in [Queries -> [Depths -> BOOLEAN]] :
        Validates(t, FALSE, v) /\ \A q \in Queries : ValidQuery(t, q, FALSE) <=> v[q][0]
  BY ValidFactsNext DEF ValidAsked
<1>2. PICK w \in [Queries -> [Depths -> BOOLEAN]] :
        Validates(t, FALSE, w)' /\ \A q \in Queries : ValidQuery(t, q, FALSE)' <=> w[q][0]
  BY ValidFactsNext DEF ValidAsked
<1>3. \A l : ValidLookup(t, l) => ValidLookup(t, l)'
  BY DEF ValidLookup, TagOf, TagsKept
<1>4. MaxQueryDepth \in Nat
  BY BoundsAssumption
<1> DEFINE S == {q \in Queries : \E d \in Depths : v[q][d] /\ ~w[q][d]}
<1>5. S = {}
  <2>1. SUFFICES ASSUME S # {} PROVE FALSE
    OBVIOUS
  <2>2. PICK q \in S : q.queries \cap S = {}
    BY <2>1, NestingAssumption
  <2>3. PICK d \in Depths : v[q][d] /\ ~w[q][d]
    BY <2>2
  <2>4. q \in Queries /\ q.queries \subseteq Queries
    BY <2>2, QueriesAssumption
  <2>5. /\ d <= MaxQueryDepth /\ MustHaveOne(Given(q, FALSE))
        /\ \A s \in q.queries : v[s][d + 1]
        /\ \A l \in q.lookups : ValidLookup(t, l)
    BY <1>1, <2>3, <2>4 DEF Validates
  <2>6. d + 1 \in Depths
    BY <1>4, <2>5 DEF Depths
  <2>7. \A s \in q.queries : w[s][d + 1]
    BY <2>2, <2>4, <2>5, <2>6
  <2>8. w[q][d]
    BY <1>2, <1>3, <2>4, <2>5, <2>7 DEF Validates
  <2>9. QED
    BY <2>3, <2>8
<1>6. 0 \in Depths
  BY <1>4 DEF Depths
<1>7. QED
  BY <1>1, <1>2, <1>5, <1>6

-----------------------------------------------------------------------------
(* The parts of the invariant.                                             *)

\* One request, and what it holds is still right.
RequestRows == {IdleReq} \cup [at : {"TagNamed"}, row : TagRow]
                 \cup [at : {"SegmentNamed"}, row : NewSegment]
                 \cup [at : {"Listed"}, tag : Ids, values : SUBSET Values]
Sound(x) ==
  /\ x \in RequestRows
  /\ x.at = "SegmentNamed" => ValidQuery(x.row.tenant, x.row.criteria, FALSE)
  /\ x.at = "Listed" => x.tag \in 1..Len(tags) /\ x.values \subseteq written[x.tag]

\* The requests are sound one by one.
EachSound == req = [r \in Requests |-> req[r]] /\ \A r \in Requests : Sound(req[r])
LEMMA RequestsOneByOne == (RequestsSound <=> EachSound) /\ (RequestsSound' <=> EachSound')
<1>1. RequestsSound <=> EachSound
  <2>1. req \in [Requests -> RequestRows] <=>
          req = [r \in Requests |-> req[r]] /\ \A r \in Requests : req[r] \in RequestRows
    OBVIOUS
  <2>2. RequestsSound <=>
          /\ req \in [Requests -> RequestRows]
          /\ \A r \in Requests :
               /\ req[r].at = "SegmentNamed" => ValidQuery(req[r].row.tenant, req[r].row.criteria, FALSE)
               /\ req[r].at = "Listed" => /\ req[r].tag \in 1..Len(tags)
                                          /\ req[r].values \subseteq written[req[r].tag]
    BY DEF RequestsSound, RequestRows
  <2>3. QED
    BY <2>1, <2>2 DEF EachSound, Sound
<1>2. RequestsSound' <=> EachSound'
  BY <1>1, PTL
<1>3. QED
  BY <1>1, <1>2

\* What a request holds stays right while tags are kept and uploads only write.
LEMMA SoundKept ==
  ASSUME TagsKept, \A k \in Ids : written[k] \subseteq written'[k], NEW x, Sound(x)
  PROVE  x \in RequestRows /\ Sound(x)'
<1>1. x \in RequestRows
  BY DEF Sound
<1>2. CASE x.at = "SegmentNamed"
  <2>1. x.row.tenant \in Tenants /\ x.row.criteria \in Queries
    <3>1. x.row \in NewSegment
      BY <1>1, <1>2 DEF RequestRows, IdleReq
    <3>2. QED
      BY <3>1, QueriesAssumption DEF NewSegment
  <2>2. ValidQuery(x.row.tenant, x.row.criteria, FALSE)'
    BY <1>2, <2>1, ValidKept DEF Sound
  <2>3. QED
    BY <1>1, <1>2, <2>2 DEF Sound
<1>3. CASE x.at = "Listed"
  <2>1. x.tag \in Ids
    BY <1>1, <1>3 DEF RequestRows, IdleReq
  <2>2. QED
    BY <1>1, <1>3, <2>1 DEF Sound, TagsKept
<1>4. CASE x.at # "SegmentNamed" /\ x.at # "Listed"
  BY <1>1, <1>4 DEF Sound
<1>5. QED
  BY <1>2, <1>3, <1>4

\* One table of tags or segments, with one row for each name of a tenant.
OneRow(rows) == \A i, j \in 1..Len(rows) :
  (rows[i].tenant = rows[j].tenant /\ rows[i].name = rows[j].name) => i = j

\* An insert keeps the rows there are, adds at most one, and never the second of a name.
Inserted(R, rows, row, all) ==
  /\ all \in Seq(R) /\ OneRow(all)
  /\ Len(all) \in {Len(rows), Len(rows) + 1}
  /\ \A k \in 1..Len(rows) : all[k] = rows[k]
  /\ \A k \in 1..Len(all) : k \in 1..Len(rows) \/ all[k] = row
LEMMA InsertFacts ==
  ASSUME NEW R, NEW rows \in Seq(R), NEW row \in R, OneRow(rows)
  PROVE  Inserted(R, rows, row, Insert(rows, row))
<1>1. CASE HasName(rows, row.tenant, row.name)
  BY <1>1 DEF Insert, Inserted
<1>2. CASE ~HasName(rows, row.tenant, row.name)
  <2>1. Insert(rows, row) = Append(rows, row)
    BY <1>2 DEF Insert
  <2>2. PICK all : all = Append(rows, row)
    OBVIOUS
  <2>3. /\ all \in Seq(R) /\ Len(all) = Len(rows) + 1 /\ all[Len(rows) + 1] = row
        /\ \A k \in 1..Len(rows) : all[k] = rows[k]
    BY <2>2
  <2>4. \A k \in 1..Len(all) : k \in 1..Len(rows) \/ k = Len(rows) + 1
    BY <2>3
  <2>5. \A i \in 1..Len(rows) : rows[i].tenant # row.tenant \/ rows[i].name # row.name
    BY <1>2 DEF HasName
  <2>6. OneRow(all)
    <3>1. ASSUME NEW i \in 1..Len(all), NEW j \in 1..Len(all),
                 all[i].tenant = all[j].tenant, all[i].name = all[j].name
          PROVE  i = j
      BY <2>3, <2>4, <2>5, <3>1 DEF OneRow
    <3>2. QED
      BY <3>1 DEF OneRow
  <2>7. QED
    BY <2>1, <2>2, <2>3, <2>4, <2>6 DEF Inserted
<1>3. QED
  BY <1>1, <1>2

\* What a scroll holds is right.
ScrollOf(d) ==
  /\ d \in Download
  /\ d.left \cup d.got \subseteq d.matched
  /\ d.left \cap d.got = {}
  /\ Cardinality(LostUds(d)) <= d.repeats * d.limit

\* A page is the rest when it is shorter than the page size.
LEMMA PageFacts ==
  ASSUME NEW left \in SUBSET Uds, NEW limit \in Limits, NEW page \in Pages(left, limit)
  PROVE  /\ page \subseteq left /\ (~HasCursor(page, limit) => page = left)
         /\ IsFiniteSet(page) /\ Cardinality(page) <= limit
<1>1. IsFiniteSet(left) /\ limit \in Nat
  BY BoundsAssumption, FS_Subset
<1>2. page \subseteq left /\ Cardinality(page) \in {Cardinality(left), limit}
  BY DEF Pages
<1>3. Cardinality(page) \in Nat
  BY <1>1, <1>2, FS_Subset, FS_CardinalityType
<1>4. ASSUME ~HasCursor(page, limit) PROVE page = left
  <2>1. Cardinality(page) = Cardinality(left)
    BY <1>1, <1>2, <1>3, <1>4 DEF HasCursor
  <2>2. QED
    BY <1>1, <1>2, <2>1, FS_Subset
<1>5. IsFiniteSet(page)
  BY <1>1, <1>2, FS_Subset
<1>6. Cardinality(page) <= limit
  <2>1. Cardinality(left) \in Nat
    BY <1>1, FS_CardinalityType
  <2>2. Cardinality(page) = IF Cardinality(left) < limit THEN Cardinality(left) ELSE limit
    BY DEF Pages
  <2>3. QED
    BY <1>1, <2>1, <2>2
<1>7. QED
  BY <1>2, <1>4, <1>5, <1>6

\* A page moves from what is left of a scroll to what has come.
LEMMA PagedFacts ==
  ASSUME NEW d, ScrollOf(d), NEW page \in Pages(d.left, d.limit)
  PROVE  /\ ScrollOf(Paged(d, page))
         /\ Paged(d, page).at = "Over" => Paged(d, page).left = {}
<1>1. d.left \in SUBSET Uds /\ d.limit \in Limits /\ d \in Download
  BY DEF ScrollOf, Download
<1>2. page \subseteq d.left /\ (~HasCursor(page, d.limit) => page = d.left)
  BY <1>1, PageFacts
<1>3. PICK e : e = Paged(d, page)
  OBVIOUS
<1>4. /\ e \in Download /\ e.matched = d.matched /\ e.repeats = d.repeats /\ e.limit = d.limit
      /\ e.got = d.got \cup page /\ e.left = d.left \ page
      /\ e.at = "Over" => ~HasCursor(page, d.limit)
  BY <1>1, <1>2, <1>3 DEF Paged, Download
<1>5. QED
  <2>1. ScrollOf(e)
    <3>1. e.left \cup e.got = d.left \cup d.got
      BY <1>2, <1>4
    <3>2. LostUds(e) = LostUds(d)
      BY <1>4, <3>1 DEF LostUds
    <3>3. QED
      BY <1>2, <1>4, <3>1, <3>2 DEF ScrollOf
  <2>2. e.at = "Over" => e.left = {}
    BY <1>2, <1>4
  <2>3. QED
    BY <1>3, <1>4, <2>1, <2>2

-----------------------------------------------------------------------------
(* Every step keeps the invariant.                                         *)

\* The part about the tables, and what the rest needs of a step.
LEMMA TablesParts ==
  /\ SegmentsInv => /\ tags \in Seq(TagRow) /\ segments \in Seq(SegmentRow)
                    /\ OneRow(tags) /\ OneRow(segments)
  /\ (OneRow(tags) /\ OneRow(segments) => OneRowPerName)
  /\ (OneRow(tags)' /\ OneRow(segments)' => OneRowPerName')
BY DEF SegmentsInv, TypeOK, OneRowPerName, OneRow, TagRow, SegmentRow

\* A step of which the requests, the segments or the uploads know nothing keeps what
\* is said of them.
LEMMA Frame ==
  ASSUME SegmentsInv
  PROVE  /\ tags' = tags => TagsKept
         /\ TagsKept /\ segments' = segments => SegmentsValid'
         /\ UNCHANGED <<docs, written, cache>> => ValuesWritten'
         /\ download' = download => ScrollSound'
         /\ (/\ TagsKept /\ \A k \in Ids : written[k] \subseteq written'[k]
             /\ req' = [r \in Requests |-> req'[r]]
             /\ \A r \in Requests : req'[r] = req[r] \/ Sound(req[r])')
            => RequestsSound'
         /\ (tags' = tags /\ segments' = segments) => OneRowPerName'
<1>1. tags' = tags => TagsKept
  BY DEF TagsKept
<1>2. ASSUME TagsKept, segments' = segments PROVE SegmentsValid'
  <2>1. ASSUME NEW s \in 1..Len(segments)
        PROVE  ValidQuery(segments[s].tenant, segments[s].criteria, FALSE)'
    <3>1. segments[s].tenant \in Tenants /\ segments[s].criteria \in Queries
      <4>1. segments[s] \in SegmentRow
        BY TablesParts
      <4>2. QED
        BY <4>1, QueriesAssumption DEF SegmentRow
    <3>2. ValidQuery(segments[s].tenant, segments[s].criteria, FALSE)
      BY DEF SegmentsInv, SegmentsValid
    <3>3. PICK t \in Tenants, q \in Queries : t = segments[s].tenant /\ q = segments[s].criteria
      BY <3>1
    <3>4. ValidQuery(t, q, FALSE)
      BY <3>2, <3>3
    <3>5. ValidQuery(t, q, FALSE)'
      BY <1>2, <3>4, ValidKept
    <3>6. t = segments'[s].tenant /\ q = segments'[s].criteria
      BY <1>2, <3>3
    <3>7. QED
      BY <3>5, <3>6
  <2>2. QED
    BY <1>2, <2>1 DEF SegmentsValid
<1>3. UNCHANGED <<docs, written, cache>> => ValuesWritten'
  BY DEF SegmentsInv, ValuesWritten
<1>4. download' = download => ScrollSound'
  BY DEF SegmentsInv, ScrollSound
<1>5. ASSUME TagsKept, \A k \in Ids : written[k] \subseteq written'[k],
             req' = [r \in Requests |-> req'[r]],
             \A r \in Requests : req'[r] = req[r] \/ Sound(req[r])'
      PROVE  RequestsSound'
  <2>1. \A r \in Requests : Sound(req[r])
    BY RequestsOneByOne DEF SegmentsInv, EachSound
  <2>2. ASSUME NEW r \in Requests, req'[r] = req[r]
        PROVE  Sound(req[r])'
    <3>1. PICK x : x = req[r] /\ Sound(x)
      BY <2>1
    <3>2. Sound(x)'
      BY <1>5, <3>1, SoundKept
    <3>3. x = req'[r]
      BY <2>2, <3>1
    <3>4. QED
      BY <3>2, <3>3
  <2>3. QED
    BY <1>5, <2>2, RequestsOneByOne DEF EachSound
<1>6. ASSUME tags' = tags, segments' = segments PROVE OneRowPerName'
  BY <1>6 DEF SegmentsInv, OneRowPerName
<1>7. QED
  BY <1>1, <1>2, <1>3, <1>4, <1>5, <1>6

\* What TypeOK says of the tables and the documents; the rest follows from the other
\* parts of the invariant.
TableTypes ==
  /\ tags \in Seq(TagRow) /\ Len(tags) <= MaxTags
  /\ segments \in Seq(SegmentRow) /\ Len(segments) <= MaxSegments
FieldTypes ==
  /\ docs \in [Ids -> [Uds -> Values \cup {Absent}]]
  /\ written \in [Ids -> SUBSET Values]
  /\ cache \in [Ids -> (SUBSET Values) \cup {NoList}]
LEMMA TypeParts ==
  /\ SegmentsInv => TableTypes /\ FieldTypes
  /\ SegmentsInv' <=> /\ TableTypes' /\ FieldTypes' /\ OneRowPerName'
                      /\ RequestsSound' /\ SegmentsValid' /\ ValuesWritten' /\ ScrollSound'
<1>1. RequestsSound =>
        \A r \in Requests : req[r].at \in {"Idle", "TagNamed", "SegmentNamed", "Listed"}
  <2>1. ASSUME NEW x, Sound(x)
        PROVE  x.at \in {"Idle", "TagNamed", "SegmentNamed", "Listed"}
    BY <2>1 DEF Sound, RequestRows, IdleReq
  <2>2. QED
    BY <2>1, RequestsOneByOne DEF EachSound
<1>2. ScrollSound => download.at \in {"Idle", "Cursor", "Over"}
  BY DEF ScrollSound, Download, NoDownload
<1>3. TypeOK <=>
        /\ TableTypes /\ FieldTypes
        /\ \A r \in Requests : req[r].at \in {"Idle", "TagNamed", "SegmentNamed", "Listed"}
        /\ download.at \in {"Idle", "Cursor", "Over"}
  BY DEF TypeOK, TableTypes, FieldTypes, TagRow, SegmentRow
<1>4. SegmentsInv <=> /\ TableTypes /\ FieldTypes /\ OneRowPerName
                      /\ RequestsSound /\ SegmentsValid /\ ValuesWritten /\ ScrollSound
  BY <1>1, <1>2, <1>3 DEF SegmentsInv
<1>5. SegmentsInv' <=> /\ TableTypes' /\ FieldTypes' /\ OneRowPerName'
                       /\ RequestsSound' /\ SegmentsValid' /\ ValuesWritten' /\ ScrollSound'
  BY <1>4, PTL
<1>6. QED
  BY <1>4, <1>5

\* A step of one request that leaves it with something sound.
LEMMA OneRequest ==
  ASSUME SegmentsInv, TagsKept, \A k \in Ids : written[k] \subseteq written'[k],
         NEW r \in Requests, NEW x, Sound(x)', req' = [req EXCEPT ![r] = x]
  PROVE  RequestsSound'
<1>1. req = [p \in Requests |-> req[p]]
  BY RequestsOneByOne DEF SegmentsInv, EachSound
<1>2. req' = [p \in Requests |-> req'[p]] /\ req'[r] = x
  BY <1>1
<1>3. \A p \in Requests : p # r => req'[p] = req[p]
  BY <1>1
<1>4. Sound(req[r])'
  BY <1>2
<1>5. \A p \in Requests : req'[p] = req[p] \/ Sound(req[p])'
  BY <1>3, <1>4
<1>6. QED
  BY <1>2, <1>5, Frame

\* Nothing is held by a request that is idle.
LEMMA IdleSound == Sound(IdleReq)'
BY DEF Sound, RequestRows, IdleReq

\* A request that found the name of a tag free.
LEMMA StepCreateTag ==
  ASSUME SegmentsInv, NEW r \in Requests, CreateTag(r) PROVE SegmentsInv'
<1>1. UNCHANGED <<tags, segments, docs, written, cache, download>>
  BY DEF CreateTag
<1>2. PICK row \in TagRow : req' = [req EXCEPT ![r] = [at |-> "TagNamed", row |-> row]]
  BY DEF CreateTag, TagRow
<1>3. PICK x : x = [at |-> "TagNamed", row |-> row]
  OBVIOUS
<1>4. Sound(x)'
  BY <1>3 DEF Sound, RequestRows
<1>5. RequestsSound'
  BY <1>1, <1>2, <1>3, <1>4, OneRequest, Frame
<1>6. TableTypes' /\ FieldTypes'
  BY <1>1, TypeParts DEF TableTypes, FieldTypes
<1>7. QED
  BY <1>1, <1>5, <1>6, Frame, TypeParts

\* A request that found the name of a segment free, once its criteria were valid.
LEMMA StepCreateSegment ==
  ASSUME SegmentsInv, NEW r \in Requests, CreateSegment(r) PROVE SegmentsInv'
<1>1. UNCHANGED <<tags, segments, docs, written, cache, download>>
  BY DEF CreateSegment
<1>2. PICK t \in Tenants, n \in SegmentNames, q \in Criteria :
        /\ ValidQuery(t, q, FALSE)
        /\ req' = [req EXCEPT ![r] = [at |-> "SegmentNamed",
                                      row |-> [tenant |-> t, name |-> n,
                                               criteria |-> q, omits |-> FALSE]]]
  BY DEF CreateSegment
<1>3. PICK x : x = [at |-> "SegmentNamed",
                    row |-> [tenant |-> t, name |-> n, criteria |-> q, omits |-> FALSE]]
  OBVIOUS
<1>4. TagsKept
  BY <1>1, Frame
<1>5. Sound(x)
  BY <1>2, <1>3 DEF Sound, RequestRows, NewSegment
<1>6. Sound(x)'
  BY <1>1, <1>4, <1>5, SoundKept
<1>7. RequestsSound'
  BY <1>1, <1>2, <1>3, <1>4, <1>6, OneRequest
<1>8. TableTypes' /\ FieldTypes'
  BY <1>1, TypeParts DEF TableTypes, FieldTypes
<1>9. QED
  BY <1>1, <1>4, <1>7, <1>8, Frame, TypeParts

\* The insert of a tag: one row at the end, or none when the name was taken meanwhile.
LEMMA StepInsertTag ==
  ASSUME SegmentsInv, NEW r \in Requests, InsertTag(r) PROVE SegmentsInv'
<1>1. /\ UNCHANGED <<segments, docs, written, cache, download>>
      /\ tags' = Insert(tags, req[r].row) /\ req' = [req EXCEPT ![r] = IdleReq]
      /\ req[r].at = "TagNamed" /\ Len(tags) < MaxTags
  BY DEF InsertTag
<1>2. req[r].row \in TagRow
  <2>1. req[r] \in RequestRows
    BY RequestsOneByOne DEF SegmentsInv, EachSound, Sound
  <2>2. QED
    BY <1>1, <2>1 DEF RequestRows, IdleReq
<1>3. tags \in Seq(TagRow) /\ OneRow(tags) /\ OneRow(segments)
  BY TablesParts
<1>4. PICK row \in TagRow : row = req[r].row
  BY <1>2
<1>5. PICK new : new = Insert(tags, row)
  OBVIOUS
<1>6. /\ new \in Seq(TagRow) /\ OneRow(new)
      /\ Len(new) \in {Len(tags), Len(tags) + 1}
      /\ \A k \in 1..Len(tags) : new[k] = tags[k]
  <2>1. Inserted(TagRow, tags, row, Insert(tags, row))
    BY <1>3, InsertFacts
  <2>2. QED
    BY <1>5, <2>1 DEF Inserted
<1>7. tags' = new
  BY <1>1, <1>4, <1>5
<1>8. TagsKept
  BY <1>3, <1>6, <1>7 DEF TagsKept
<1>9. RequestsSound'
  BY <1>1, <1>8, IdleSound, OneRequest
<1>10. TableTypes' /\ FieldTypes'
  <2>1. MaxTags \in Nat /\ Len(tags) \in Nat
    BY <1>3, BoundsAssumption
  <2>2. Len(new) <= MaxTags
    BY <1>1, <1>6, <2>1
  <2>3. QED
    BY <1>1, <1>6, <1>7, <2>2, TypeParts DEF TableTypes, FieldTypes
<1>11. OneRowPerName'
  <2>1. OneRow(tags)' /\ OneRow(segments)'
    BY <1>1, <1>3, <1>6, <1>7 DEF OneRow
  <2>2. QED
    BY <2>1, TablesParts
<1>12. QED
  BY <1>1, <1>8, <1>9, <1>10, <1>11, Frame, TypeParts

\* The insert of a segment, whose criteria were valid when its name was looked up.
LEMMA StepInsertSegment ==
  ASSUME SegmentsInv, NEW r \in Requests, InsertSegment(r) PROVE SegmentsInv'
<1>1. /\ UNCHANGED <<tags, docs, written, cache, download>>
      /\ segments' = Insert(segments, ToSegmentModel(req[r].row))
      /\ req' = [req EXCEPT ![r] = IdleReq]
      /\ req[r].at = "SegmentNamed" /\ Len(segments) < MaxSegments
  BY DEF InsertSegment
<1>2. req[r].row \in NewSegment /\ ValidQuery(req[r].row.tenant, req[r].row.criteria, FALSE)
  <2>1. Sound(req[r])
    BY RequestsOneByOne DEF SegmentsInv, EachSound
  <2>2. req[r] \in RequestRows
    BY <2>1 DEF Sound
  <2>3. req[r].row \in NewSegment
    BY <1>1, <2>2 DEF RequestRows, IdleReq
  <2>4. ValidQuery(req[r].row.tenant, req[r].row.criteria, FALSE)
    BY <1>1, <2>1 DEF Sound
  <2>5. QED
    BY <2>3, <2>4
<1>3. segments \in Seq(SegmentRow) /\ OneRow(tags) /\ OneRow(segments)
  BY TablesParts
<1>4. PICK row \in SegmentRow :
        /\ row = ToSegmentModel(req[r].row) /\ ValidQuery(row.tenant, row.criteria, FALSE)
  <2>1. PICK x \in NewSegment : x = req[r].row /\ ValidQuery(x.tenant, x.criteria, FALSE)
    BY <1>2
  <2>2. PICK row : row = ToSegmentModel(x)
    OBVIOUS
  <2>3. row \in SegmentRow /\ row.tenant = x.tenant /\ row.criteria = x.criteria
    BY <2>2 DEF ToSegmentModel, NewSegment, SegmentRow
  <2>4. QED
    BY <2>1, <2>2, <2>3
<1>5. PICK new : new = Insert(segments, row)
  OBVIOUS
<1>6. /\ new \in Seq(SegmentRow) /\ OneRow(new)
      /\ Len(new) \in {Len(segments), Len(segments) + 1}
      /\ \A k \in 1..Len(segments) : new[k] = segments[k]
      /\ \A k \in 1..Len(new) : k \in 1..Len(segments) \/ new[k] = row
  <2>1. Inserted(SegmentRow, segments, row, Insert(segments, row))
    BY <1>3, InsertFacts
  <2>2. QED
    BY <1>5, <2>1 DEF Inserted
<1>7. segments' = new
  BY <1>1, <1>4, <1>5
<1>8. TagsKept
  BY <1>1, Frame
<1>9. RequestsSound'
  BY <1>1, <1>8, IdleSound, OneRequest
<1>10. TableTypes' /\ FieldTypes'
  <2>1. MaxSegments \in Nat /\ Len(segments) \in Nat
    BY <1>3, BoundsAssumption
  <2>2. Len(new) <= MaxSegments
    BY <1>1, <1>6, <2>1
  <2>3. QED
    BY <1>1, <1>6, <1>7, <2>2, TypeParts DEF TableTypes, FieldTypes
<1>11. OneRowPerName'
  <2>1. OneRow(tags)' /\ OneRow(segments)'
    BY <1>1, <1>3, <1>6, <1>7 DEF OneRow
  <2>2. QED
    BY <2>1, TablesParts
<1>12. SegmentsValid'
  <2>1. ASSUME NEW s \in 1..Len(new)
        PROVE  ValidQuery(new[s].tenant, new[s].criteria, FALSE)
    <3>1. CASE s \in 1..Len(segments)
      <4>1. ValidQuery(segments[s].tenant, segments[s].criteria, FALSE)
        BY <3>1 DEF SegmentsInv, SegmentsValid
      <4>2. new[s] = segments[s]
        BY <1>6, <3>1
      <4>3. QED
        BY <4>1, <4>2
    <3>2. CASE new[s] = row
      BY <1>4, <3>2
    <3>3. QED
      BY <1>6, <3>1, <3>2
  <2>2. ASSUME NEW s \in 1..Len(new)
        PROVE  ValidQuery(new[s].tenant, new[s].criteria, FALSE)'
    <3>1. new[s] \in SegmentRow
      BY <1>6
    <3>2. PICK t \in Tenants, q \in Queries : t = new[s].tenant /\ q = new[s].criteria
      BY <3>1, QueriesAssumption DEF SegmentRow
    <3>3. ValidQuery(t, q, FALSE)
      BY <2>1, <3>2
    <3>4. ValidQuery(t, q, FALSE)'
      BY <1>8, <3>3, ValidKept
    <3>5. QED
      BY <3>2, <3>4
  <2>3. QED
    BY <1>7, <2>2 DEF SegmentsValid
<1>13. QED
  BY <1>1, <1>8, <1>9, <1>10, <1>11, <1>12, Frame, TypeParts

\* An insert that failed ends its request.
LEMMA StepInsertFails ==
  ASSUME SegmentsInv, NEW r \in Requests, InsertFails(r) PROVE SegmentsInv'
<1>1. /\ UNCHANGED <<tags, segments, docs, written, cache, download>>
      /\ req' = [req EXCEPT ![r] = IdleReq]
  BY DEF InsertFails
<1>2. TagsKept
  BY <1>1, Frame
<1>3. RequestsSound'
  BY <1>1, <1>2, IdleSound, OneRequest
<1>4. TableTypes' /\ FieldTypes'
  BY <1>1, TypeParts DEF TableTypes, FieldTypes
<1>5. QED
  BY <1>1, <1>2, <1>3, <1>4, Frame, TypeParts

\* A write of an upload adds to what was written for the tag.
LEMMA StepWrite == ASSUME SegmentsInv, Write PROVE SegmentsInv'
<1>1. UNCHANGED <<tags, segments, cache, req, download>>
  BY DEF Write
<1>2. PICK k \in 1..Len(tags), u \in Uds, v \in Values :
        /\ docs' = [docs EXCEPT ![k][u] = v]
        /\ written' = [written EXCEPT ![k] = @ \cup {v}]
  BY DEF Write
<1>3. FieldTypes /\ TableTypes
  BY TypeParts
<1>4. k \in Ids
  <2>1. Len(tags) \in Nat /\ MaxTags \in Nat /\ Len(tags) <= MaxTags
    BY <1>3, BoundsAssumption DEF TableTypes
  <2>2. QED
    BY <2>1 DEF Ids
<1>5. FieldTypes' /\ TableTypes'
  <2>1. docs' \in [Ids -> [Uds -> Values \cup {Absent}]]
    BY <1>2, <1>3, <1>4 DEF FieldTypes
  <2>2. written' \in [Ids -> SUBSET Values]
    BY <1>2, <1>3, <1>4 DEF FieldTypes
  <2>3. QED
    BY <1>1, <1>3, <2>1, <2>2 DEF FieldTypes, TableTypes
<1>6. \A j \in Ids : written[j] \subseteq written'[j]
  BY <1>2, <1>3, <1>4 DEF FieldTypes
<1>7. TagsKept
  BY <1>1, Frame
<1>8. RequestsSound'
  <2>1. req' = [p \in Requests |-> req'[p]]
    BY <1>1, RequestsOneByOne DEF SegmentsInv, EachSound
  <2>2. QED
    BY <1>1, <1>6, <1>7, <2>1, Frame
<1>9. ValuesWritten'
  <2>1. ASSUME NEW j \in Ids, NEW p \in Uds, docs'[j][p] # Absent
        PROVE  docs'[j][p] \in written'[j]
    <3>1. CASE j = k /\ p = u
      BY <1>2, <1>3, <1>4, <3>1 DEF FieldTypes
    <3>2. CASE ~(j = k /\ p = u)
      <4>1. docs'[j][p] = docs[j][p]
        BY <1>2, <1>3, <1>4, <3>2 DEF FieldTypes
      <4>2. docs[j][p] \in written[j]
        BY <2>1, <4>1 DEF SegmentsInv, ValuesWritten
      <4>3. QED
        BY <1>6, <4>1, <4>2
    <3>3. QED
      BY <3>1, <3>2
  <2>2. ASSUME NEW j \in Ids, cache[j] # NoList
        PROVE  cache[j] \subseteq written'[j]
    BY <1>6, <2>2 DEF SegmentsInv, ValuesWritten
  <2>3. QED
    BY <1>1, <2>1, <2>2 DEF ValuesWritten
<1>10. QED
  BY <1>1, <1>5, <1>7, <1>8, <1>9, Frame, TypeParts

\* A list of the values of a tag has values that documents hold, so that were written.
LEMMA StepSearchTagValues ==
  ASSUME SegmentsInv, NEW r \in Requests, SearchTagValues(r) PROVE SegmentsInv'
<1>1. UNCHANGED <<tags, segments, docs, written, cache, download>>
  BY DEF SearchTagValues
<1>2. PICK k \in 1..Len(tags) : \E b \in Buckets(k) :
        req' = [req EXCEPT ![r] = [at |-> "Listed", tag |-> k, values |-> b]]
  BY DEF SearchTagValues
<1>3. PICK b \in Buckets(k) :
        req' = [req EXCEPT ![r] = [at |-> "Listed", tag |-> k, values |-> b]]
  BY <1>2
<1>4. FieldTypes /\ TableTypes
  BY TypeParts
<1>5. k \in Ids
  <2>1. Len(tags) \in Nat /\ MaxTags \in Nat /\ Len(tags) <= MaxTags
    BY <1>4, BoundsAssumption DEF TableTypes
  <2>2. QED
    BY <2>1 DEF Ids
<1>6. b \subseteq Values /\ b \subseteq written[k]
  <2>1. ASSUME NEW v \in Values, Holders(k, v) > 0
        PROVE  v \in written[k]
    <3>1. {u \in Uds : docs[k][u] = v} # {}
      <4>1. SUFFICES ASSUME {u \in Uds : docs[k][u] = v} = {} PROVE FALSE
        OBVIOUS
      <4>2. Holders(k, v) = 0
        BY <4>1, FS_EmptySet DEF Holders
      <4>3. QED
        BY <2>1, <4>2
    <3>2. PICK u \in Uds : docs[k][u] = v
      BY <3>1
    <3>3. docs[k][u] # Absent
      BY <2>1, <3>2, BoundsAssumption
    <3>4. QED
      BY <1>5, <3>2, <3>3 DEF SegmentsInv, ValuesWritten
  <2>2. \A v \in b : v \in Values /\ Holders(k, v) > 0
    BY DEF Buckets
  <2>3. QED
    BY <2>1, <2>2
<1>7. PICK x : x = [at |-> "Listed", tag |-> k, values |-> b]
  OBVIOUS
<1>8. Sound(x)'
  BY <1>1, <1>5, <1>6, <1>7 DEF Sound, RequestRows
<1>9. TagsKept
  BY <1>1, Frame
<1>10. RequestsSound'
  BY <1>1, <1>3, <1>7, <1>8, <1>9, OneRequest
<1>11. TableTypes' /\ FieldTypes'
  BY <1>1, <1>4 DEF TableTypes, FieldTypes
<1>12. QED
  BY <1>1, <1>9, <1>10, <1>11, Frame, TypeParts

\* The list goes to the cache, under the key of its tag.
LEMMA StepSetTagValues ==
  ASSUME SegmentsInv, NEW r \in Requests, SetTagValues(r) PROVE SegmentsInv'
<1>1. /\ UNCHANGED <<tags, segments, docs, written, download>>
      /\ cache' = [cache EXCEPT ![req[r].tag] = req[r].values]
      /\ req' = [req EXCEPT ![r] = IdleReq]
      /\ req[r].at = "Listed"
  BY DEF SetTagValues, CacheKey
<1>2. Sound(req[r])
  BY RequestsOneByOne DEF SegmentsInv, EachSound
<1>3. PICK k \in Ids, b \in SUBSET Values :
        k = req[r].tag /\ b = req[r].values /\ b \subseteq written[k]
  <2>1. req[r].tag \in Ids /\ req[r].values \in SUBSET Values
    BY <1>1, <1>2 DEF Sound, RequestRows, IdleReq
  <2>2. QED
    BY <1>1, <1>2, <2>1 DEF Sound
<1>4. cache' = [cache EXCEPT ![k] = b]
  BY <1>1, <1>3
<1>5. FieldTypes /\ TableTypes
  BY TypeParts
<1>6. FieldTypes' /\ TableTypes'
  BY <1>1, <1>4, <1>5 DEF FieldTypes, TableTypes
<1>7. ValuesWritten'
  <2>1. ASSUME NEW j \in Ids, cache'[j] # NoList
        PROVE  cache'[j] \subseteq written[j]
    <3>1. CASE j = k
      BY <1>3, <1>4, <1>5, <3>1 DEF FieldTypes
    <3>2. CASE j # k
      BY <1>4, <1>5, <2>1, <3>2 DEF FieldTypes, SegmentsInv, ValuesWritten
    <3>3. QED
      BY <3>1, <3>2
  <2>2. QED
    BY <1>1, <2>1 DEF SegmentsInv, ValuesWritten
<1>8. TagsKept
  BY <1>1, Frame
<1>9. RequestsSound'
  BY <1>1, <1>8, IdleSound, OneRequest
<1>10. QED
  BY <1>1, <1>6, <1>7, <1>8, <1>9, Frame, TypeParts

\* A cached list runs out.
LEMMA StepExpire == ASSUME SegmentsInv, NEW k \in Ids, Expire(k) PROVE SegmentsInv'
<1>1. /\ UNCHANGED <<tags, segments, docs, written, req, download>>
      /\ cache' = [cache EXCEPT ![k] = NoList]
  BY DEF Expire
<1>2. FieldTypes /\ TableTypes
  BY TypeParts
<1>3. FieldTypes' /\ TableTypes'
  BY <1>1, <1>2 DEF FieldTypes, TableTypes
<1>4. ValuesWritten'
  BY <1>1, <1>2 DEF FieldTypes, SegmentsInv, ValuesWritten
<1>5. TagsKept
  BY <1>1, Frame
<1>6. RequestsSound'
  <2>1. req' = [p \in Requests |-> req'[p]]
    BY <1>1, RequestsOneByOne DEF SegmentsInv, EachSound
  <2>2. QED
    BY <1>1, <1>5, <2>1, Frame
<1>7. QED
  BY <1>1, <1>3, <1>4, <1>5, <1>6, Frame, TypeParts

\* A restart loses the cache and the requests.
LEMMA StepRestart == ASSUME SegmentsInv, Restart PROVE SegmentsInv'
<1>1. /\ UNCHANGED <<tags, segments, docs, written, download>>
      /\ cache' = [k \in Ids |-> NoList]
      /\ req' = [r \in Requests |-> IdleReq]
  BY DEF Restart
<1>2. FieldTypes /\ TableTypes
  BY TypeParts
<1>3. FieldTypes' /\ TableTypes'
  BY <1>1, <1>2 DEF FieldTypes, TableTypes
<1>4. ValuesWritten'
  BY <1>1, <1>2 DEF SegmentsInv, ValuesWritten
<1>5. TagsKept
  BY <1>1, Frame
<1>6. RequestsSound'
  <2>1. \A r \in Requests : Sound(req[r])'
    BY <1>1, IdleSound
  <2>2. EachSound'
    BY <1>1, <2>1 DEF EachSound
  <2>3. QED
    BY <2>2, RequestsOneByOne
<1>7. QED
  BY <1>1, <1>3, <1>4, <1>5, <1>6, Frame, TypeParts

\* A step of the download that leaves a sound scroll, or none.
ScrollNow(d) == ScrollOf(d) /\ (d.at = "Over" => d.left = {})
LEMMA OneDownload ==
  ASSUME SegmentsInv, UNCHANGED <<tags, segments, docs, written, cache, req>>,
         download' = NoDownload \/ ScrollNow(download')
  PROVE  SegmentsInv'
<1>1. TableTypes' /\ FieldTypes'
  BY TypeParts DEF TableTypes, FieldTypes
<1>2. TagsKept
  BY Frame
<1>3. RequestsSound'
  <2>1. req' = [p \in Requests |-> req'[p]]
    BY RequestsOneByOne DEF SegmentsInv, EachSound
  <2>2. QED
    BY <1>2, <2>1, Frame
<1>4. ScrollSound'
  <2>1. CASE download' = NoDownload
    BY <2>1 DEF ScrollSound
  <2>2. CASE ScrollNow(download')
    BY <2>2 DEF ScrollNow, ScrollOf, ScrollSound
  <2>3. QED
    BY <2>1, <2>2
<1>5. QED
  BY <1>1, <1>2, <1>3, <1>4, Frame, TypeParts

\* The documents selected are users.
LEMMA SelectedFacts ==
  ASSUME NEW t, NEW q \in Queries PROVE Selected(t, q) \in SUBSET Uds
<1>1. Found(t)[q] \in SUBSET Uds
  BY FoundFacts
<1>2. QED
  BY <1>1 DEF Selected

\* The first page, or the answer to a query with no clause.
LEMMA StepOpenScroll == ASSUME SegmentsInv, OpenScroll PROVE SegmentsInv'
<1>1. UNCHANGED <<tags, segments, docs, written, cache, req>>
  BY DEF OpenScroll
<1>2. PICK s \in 1..Len(segments), limit \in Limits :
        LET t == segments[s].tenant
            q == segments[s].criteria
            hits == Selected(t, q)
            d == [at |-> "Over", limit |-> limit, matched |-> hits, left |-> hits,
                  got |-> {}, repeats |-> 0]
        IN  \E page \in Pages(hits, limit) :
              download' = IF NoClause[q] THEN d ELSE Paged(d, page)
  BY DEF OpenScroll
<1>3. PICK t \in Tenants, q \in Queries : q = segments[s].criteria /\ t = segments[s].tenant
  <2>1. segments[s] \in SegmentRow
    BY TablesParts
  <2>2. QED
    BY <2>1, QueriesAssumption DEF SegmentRow
<1>4. PICK hits \in SUBSET Uds : hits = Selected(t, q)
  BY SelectedFacts
<1>5. PICK d : d = [at |-> "Over", limit |-> limit, matched |-> hits, left |-> hits,
                    got |-> {}, repeats |-> 0]
  OBVIOUS
<1>6. PICK page \in Pages(hits, limit) : download' = IF NoClause[q] THEN d ELSE Paged(d, page)
  BY <1>2, <1>3, <1>4, <1>5
<1>7. ScrollOf(d) /\ d.left = hits /\ d.limit = limit
  <2>1. MaxRepeats \in Nat /\ limit \in Nat
    BY BoundsAssumption
  <2>2. LostUds(d) = {} /\ Cardinality(LostUds(d)) = 0
    BY <1>5, FS_EmptySet DEF LostUds
  <2>3. d \in Download /\ d.left = hits /\ d.limit = limit
    BY <1>4, <1>5, <2>1 DEF Download
  <2>4. QED
    BY <1>5, <2>1, <2>2, <2>3 DEF ScrollOf
<1>8. CASE NoClause[q]
  <2>1. hits = {}
    BY <1>4, <1>8 DEF Selected
  <2>2. ScrollNow(download')
    BY <1>6, <1>7, <1>8, <2>1 DEF ScrollNow
  <2>3. QED
    BY <1>1, <2>2, OneDownload
<1>9. CASE ~NoClause[q]
  <2>1. page \in Pages(d.left, d.limit)
    BY <1>6, <1>7
  <2>2. ScrollNow(Paged(d, page))
    BY <1>7, <2>1, PagedFacts DEF ScrollNow
  <2>3. ScrollNow(download')
    BY <1>6, <1>9, <2>2
  <2>4. QED
    BY <1>1, <2>3, OneDownload
<1>10. QED
  BY <1>8, <1>9

\* A download that has a cursor is a scroll.
LEMMA CursorIsScroll == ASSUME SegmentsInv, download.at = "Cursor" PROVE ScrollOf(download)
BY DEF SegmentsInv, ScrollSound, ScrollOf, NoDownload

\* One more page.
LEMMA StepNextPage == ASSUME SegmentsInv, NextPage PROVE SegmentsInv'
<1>1. UNCHANGED <<tags, segments, docs, written, cache, req>> /\ download.at = "Cursor"
  BY DEF NextPage
<1>2. PICK d : d = download /\ ScrollOf(d)
  BY <1>1, CursorIsScroll
<1>3. PICK page \in Pages(d.left, d.limit) : download' = Paged(d, page)
  BY <1>2 DEF NextPage
<1>4. ScrollNow(Paged(d, page))
  BY <1>2, PagedFacts DEF ScrollNow
<1>5. QED
  BY <1>1, <1>3, <1>4, OneDownload

\* A call that was repeated loses a page, and is counted.
LEMMA StepRepeatedCall == ASSUME SegmentsInv, RepeatedCall PROVE SegmentsInv'
<1>1. UNCHANGED <<tags, segments, docs, written, cache, req>> /\ download.at = "Cursor"
  BY DEF RepeatedCall
<1>2. PICK d : d = download /\ ScrollOf(d)
  BY <1>1, CursorIsScroll
<1>3. PICK lost \in Pages(d.left, d.limit) : \E page \in Pages(d.left \ lost, d.limit) :
        download' = Paged([d EXCEPT !.left = @ \ lost, !.repeats = @ + 1], page)
  BY <1>2, Zenon DEF RepeatedCall
<1>4. PICK e : e = [d EXCEPT !.left = @ \ lost, !.repeats = @ + 1]
  OBVIOUS
<1>5. d \in Download /\ d.repeats < MaxRepeats /\ MaxRepeats \in Nat
  BY <1>2, BoundsAssumption DEF ScrollOf, RepeatedCall
<1>6. /\ e.left = d.left \ lost /\ e.limit = d.limit /\ e.repeats = d.repeats + 1
      /\ e.got = d.got /\ e.matched = d.matched /\ e \in Download
  <2>1. d.repeats + 1 \in 0..MaxRepeats
    BY <1>5 DEF Download
  <2>2. QED
    BY <1>4, <1>5, <2>1 DEF Download
<1>7. ScrollOf(e)
  <2>1. /\ d.left \cup d.got \subseteq d.matched /\ d.left \cap d.got = {}
        /\ Cardinality(LostUds(d)) <= d.repeats * d.limit
    BY <1>2 DEF ScrollOf
  <2>2. /\ d.left \in SUBSET Uds /\ d.matched \in SUBSET Uds
        /\ d.limit \in Limits /\ d.limit \in Nat /\ d.repeats \in Nat
    <3>1. /\ d.left \in SUBSET Uds /\ d.matched \in SUBSET Uds
          /\ d.limit \in Limits /\ d.repeats \in 0..MaxRepeats
      BY <1>5 DEF Download
    <3>2. Limits \subseteq Nat
      BY BoundsAssumption
    <3>3. d.limit \in Nat
      BY <3>1, <3>2
    <3>4. d.repeats \in Nat
      BY <1>5, <3>1
    <3>5. QED
      BY <3>1, <3>3, <3>4
  <2>3. lost \subseteq d.left /\ IsFiniteSet(lost) /\ Cardinality(lost) <= d.limit
    BY <1>3, <2>2, PageFacts
  <2>4. IsFiniteSet(LostUds(d))
    BY <2>2, BoundsAssumption, FS_Subset DEF LostUds
  <2>5. LostUds(e) = LostUds(d) \cup lost
    BY <1>6, <2>1, <2>3 DEF LostUds
  <2>6. Cardinality(LostUds(e)) <= Cardinality(LostUds(d)) + Cardinality(lost)
    <3>1. /\ IsFiniteSet(LostUds(d) \cap lost)
          /\ Cardinality(LostUds(d) \cup lost) =
               Cardinality(LostUds(d)) + Cardinality(lost) - Cardinality(LostUds(d) \cap lost)
      BY <2>3, <2>4, FS_Union, FS_Intersection
    <3>2. /\ Cardinality(LostUds(d)) \in Nat /\ Cardinality(lost) \in Nat
          /\ Cardinality(LostUds(d) \cap lost) \in Nat
      BY <2>3, <2>4, <3>1, FS_CardinalityType
    <3>3. QED
      BY <2>5, <3>1, <3>2
  <2>7. Cardinality(LostUds(e)) <= e.repeats * e.limit
    <3>1. (d.repeats + 1) * d.limit = d.repeats * d.limit + d.limit
      <4>1. \A a, b \in Int : (a + 1) * b = a * b + b
        OBVIOUS
      <4>2. d.repeats \in Int /\ d.limit \in Int
        BY <2>2
      <4>3. QED
        BY <4>1, <4>2
    <3>2. /\ Cardinality(LostUds(d)) \in Nat /\ Cardinality(lost) \in Nat
          /\ IsFiniteSet(LostUds(d) \cup lost)
      BY <2>3, <2>4, FS_CardinalityType, FS_Union
    <3>3. Cardinality(LostUds(e)) \in Nat /\ d.repeats * d.limit \in Nat
      BY <2>2, <2>5, <3>2, FS_CardinalityType
    <3>4. QED
      BY <1>6, <2>1, <2>2, <2>3, <2>6, <3>1, <3>2, <3>3
  <2>8. QED
    BY <1>6, <2>1, <2>3, <2>7 DEF ScrollOf
<1>8. PICK page \in Pages(e.left, e.limit) : download' = Paged(e, page)
  BY <1>3, <1>4, <1>6
<1>9. ScrollNow(Paged(e, page))
  BY <1>7, PagedFacts DEF ScrollNow
<1>10. QED
  BY <1>1, <1>8, <1>9, OneDownload

\* The end of a download.
LEMMA StepCloseDownload == ASSUME SegmentsInv, CloseDownload PROVE SegmentsInv'
BY OneDownload DEF CloseDownload

\* Any step.
LEMMA StepSegmentsInv == ASSUME SegmentsInv, [Next]_vars PROVE SegmentsInv'
<1>1. CASE UNCHANGED vars
  <2>1. UNCHANGED <<tags, segments, docs, written, cache, req, download>>
    BY <1>1 DEF vars
  <2>2. TagsKept
    BY <2>1, Frame
  <2>3. RequestsSound'
    <3>1. req' = [p \in Requests |-> req'[p]]
      BY <2>1, RequestsOneByOne DEF SegmentsInv, EachSound
    <3>2. QED
      BY <2>1, <2>2, <3>1, Frame
  <2>4. TableTypes' /\ FieldTypes'
    BY <2>1, TypeParts DEF TableTypes, FieldTypes
  <2>5. QED
    BY <2>1, <2>2, <2>3, <2>4, Frame, TypeParts
<1>2. CASE Next
  BY <1>2, StepCreateTag, StepCreateSegment, StepInsertTag, StepInsertSegment,
     StepInsertFails, StepWrite, StepSearchTagValues, StepSetTagValues, StepExpire,
     StepRestart, StepOpenScroll, StepNextPage, StepRepeatedCall, StepCloseDownload
  DEF Next
<1>3. QED
  BY <1>1, <1>2

-----------------------------------------------------------------------------
(* The theorems.                                                           *)

\* The state of tags, segments, documents, cached lists, requests and the download is
\* always one from which every handler goes on soundly.
THEOREM SegmentsInvariant == Spec => []SegmentsInv
<1>1. Init => SegmentsInv
  <2> SUFFICES ASSUME Init PROVE SegmentsInv
    OBVIOUS
  <2>1. RequestsSound
    <3>1. Sound(IdleReq)
      BY DEF Sound, RequestRows, IdleReq
    <3>2. EachSound
      BY <3>1 DEF Init, EachSound
    <3>3. QED
      BY <3>2, RequestsOneByOne
  <2>2. MaxTags \in Nat /\ MaxSegments \in Nat
    BY BoundsAssumption
  <2>3. Len(tags) = 0 /\ Len(segments) = 0 /\ tags = << >> /\ segments = << >>
    BY DEF Init
  <2>4. \A r \in Requests : req[r] = IdleReq
    BY DEF Init
  <2>5. TypeOK
    BY <2>2, <2>3, <2>4 DEF Init, TypeOK, IdleReq, NoDownload
  <2>6. OneRowPerName /\ SegmentsValid
    BY <2>3 DEF OneRowPerName, SegmentsValid
  <2>7. ValuesWritten /\ ScrollSound
    BY DEF Init, ValuesWritten, ScrollSound
  <2>8. QED
    BY <2>1, <2>5, <2>6, <2>7 DEF SegmentsInv
<1>2. SegmentsInv /\ [Next]_vars => SegmentsInv'
  BY StepSegmentsInv
<1>3. QED
  BY <1>1, <1>2, PTL DEF Spec

\* Each variable stays in its type.
THEOREM TypeCorrect == Spec => []TypeOK
<1>1. SegmentsInv => TypeOK
  BY DEF SegmentsInv
<1>2. QED
  BY <1>1, SegmentsInvariant, PTL

\* Two requests that found the same name free never leave two tags, or two segments, of
\* that name in a tenant (GetByName before Create, under the unique key).
THEOREM OneRowHolds == Spec => []OneRowPerName
<1>1. SegmentsInv => OneRowPerName
  BY DEF SegmentsInv
<1>2. QED
  BY <1>1, SegmentsInvariant, PTL

\* Whoever follows the cursors of DownloadUds to the empty one gets every user that
\* matched and nobody else, for any page size, but for answers that were lost.
THEOREM DownloadHolds == Spec => []DownloadComplete
<1>1. SegmentsInv => DownloadComplete
  <2> SUFFICES ASSUME SegmentsInv PROVE DownloadComplete
    OBVIOUS
  <2>1. ScrollSound
    BY DEF SegmentsInv
  <2>2. CASE download = NoDownload
    BY <2>2 DEF NoDownload, DownloadComplete
  <2>3. CASE download # NoDownload
    <3>1. PICK d \in Download :
            /\ d = download
            /\ d.left \cup d.got \subseteq d.matched
            /\ d.left \cap d.got = {}
            /\ Cardinality(LostUds(d)) <= d.repeats * d.limit
            /\ d.at = "Over" => d.left = {}
      BY <2>1, <2>3 DEF ScrollSound
    <3>2. d.at = "Over" => LostUds(d) = d.matched \ d.got
      BY <3>1 DEF LostUds
    <3>3. d.got \subseteq d.matched
      BY <3>1
    <3>4. QED
      BY <3>1, <3>2, <3>3 DEF DownloadComplete
  <2>4. QED
    BY <2>2, <2>3
<1>2. QED
  BY <1>1, SegmentsInvariant, PTL

\* A cached list of values, however old, and one on its way to the cache, has only
\* values that an upload wrote for that tag.
THEOREM DistinctHolds == Spec => []DistinctWasStored
<1>1. SegmentsInv => DistinctWasStored
  <2> SUFFICES ASSUME SegmentsInv PROVE DistinctWasStored
    OBVIOUS
  <2>1. \A k \in 1..Len(tags) : k \in Ids
    <3>1. Len(tags) \in Nat /\ MaxTags \in Nat /\ Len(tags) <= MaxTags
      BY TypeParts, BoundsAssumption DEF TableTypes
    <3>2. QED
      BY <3>1 DEF Ids
  <2>2. \A r \in Requests : Sound(req[r])
    BY RequestsOneByOne DEF SegmentsInv, EachSound
  <2>3. QED
    BY <2>1, <2>2 DEF DistinctWasStored, TagValues, CacheKey, Sound, SegmentsInv, ValuesWritten
<1>2. QED
  BY <1>1, SegmentsInvariant, PTL

-----------------------------------------------------------------------------
(* The count of a segment is the number of users its criteria mean.        *)

\* What a lookup says of user u.
Says(u, l) == (IF docs[l.tag][u] = Absent THEN FALSE ELSE Asks(l, docs[l.tag][u])) # l.not

\* What a query says of a user, from what its parts say.
MeantBy(f, u, q) ==
  LET parts == {s \in q.queries : ~NoClause[s]}
  IN  q.not # IF q.op = "OR"
              THEN (\E l \in q.lookups : Says(u, l)) \/ (\E s \in parts : f[s])
              ELSE (\A l \in q.lookups : Says(u, l)) /\ (\A s \in parts : f[s])

\* Meant(u) says of each query what it says from what its parts say.
LEMMA MeantFacts ==
  ASSUME NEW u
  PROVE  \A q \in Queries : Meant(u)[q] = MeantBy(Meant(u), u, q)
<1> DEFINE V == BOOLEAN
           Body(f, q) == MeantBy(f, u, q)
           G == [x \in Asked(BOOLEAN) |-> Body(x[2], x[1])]
           P(f) == f = [q \in Queries |-> Body(f, q)]
<1>1. \A q \in Queries : \A g \in [q.queries -> BOOLEAN] : G[<<q, g>>] = Body(g, q)
  <2> HIDE DEF Body
  <2>1. QED
    BY AskedFacts, Zenon
<1>2. PICK f \in [Queries -> BOOLEAN] :
        \A q \in Queries : f[q] = G[<<q, [s \in q.queries |-> f[s]]>>]
  <2>1. \A g, q : Body(g, q) \in BOOLEAN
    BY DEF MeantBy
  <2> HIDE DEF G, Body
  <2>2. Closed(BOOLEAN, G)
    BY <1>1, <2>1, Zenon DEF Closed
  <2>3. QED
    BY <2>2, RecursionOnQueries DEF Recursive
<1> HIDE DEF G
<1>3. ASSUME NEW f1, NEW g1, NEW q \in Queries, \A s \in q.queries : f1[s] = g1[s]
      PROVE  Body(f1, q) = Body(g1, q)
  BY <1>3 DEF MeantBy
<1> HIDE DEF Body
<1>4. P(f)
  <2>1. ASSUME NEW q \in Queries
        PROVE  f[q] = Body(f, q)
    <3> DEFINE g == [s \in q.queries |-> f[s]]
    <3>1. q.queries \subseteq Queries
      BY QueriesAssumption
    <3>2. g \in [q.queries -> BOOLEAN] /\ f[q] = G[<<q, g>>]
      BY <1>2, <3>1
    <3>3. \A s \in q.queries : g[s] = f[s]
      OBVIOUS
    <3> HIDE DEF g
    <3>4. Body(g, q) = Body(f, q)
      BY <1>3, <3>3
    <3>5. QED
      BY <1>1, <3>2, <3>4
  <2>2. QED
    BY <2>1
<1>5. Meant(u) = CHOOSE g : P(g)
  BY DEF Meant, Body, MeantBy, Says
<1> HIDE DEF P
<1>6. P(Meant(u))
  BY <1>4, <1>5
<1>7. QED
  BY <1>6 DEF P, Body

\* The comparisons the search makes of a number are those the lookup asks for.
LEMMA SatisfiesIsAsks ==
  ASSUME NEW q \in Queries, NEW l \in q.lookups, NEW v \in Values
  PROVE  Satisfies(l.tag, v, l.op, l.vals) <=> Asks(l, v)
<1>1. l.op \in LookupOps /\ \A x \in l.vals : x.num \in Int
  BY QueriesAssumption DEF Literal
<1>2. \A x \in l.vals : /\ ~Less(l.tag, v, x.num) <=> v = x.num \/ Less(l.tag, x.num, v)
                        /\ ~Less(l.tag, x.num, v) <=> v = x.num \/ Less(l.tag, v, x.num)
  <2>1. ASSUME NEW x \in l.vals
        PROVE  <<v, x.num>> \in TextOrder <=> v # x.num /\ <<x.num, v>> \notin TextOrder
    BY TextAssumption
  <2>2. v \in Int
    BY BoundsAssumption
  <2>3. QED
    BY <1>1, <2>1, <2>2 DEF Less
<1> DEFINE above(x) == Less(l.tag, x.num, v)
           below(x) == Less(l.tag, v, x.num)
<1>3. Satisfies(l.tag, v, l.op, l.vals) <=>
        \E x \in l.vals : \/ l.op \in {"=", "in", ">=", "<="} /\ v = x.num
                          \/ l.op \in {">", ">="} /\ above(x)
                          \/ l.op \in {"<", "<="} /\ below(x)
  BY DEF Satisfies
<1>4. Asks(l, v) <=>
        \E x \in l.vals : CASE l.op \in {"=", "in"} -> v = x.num
                            [] l.op = ">"  -> above(x)
                            [] l.op = ">=" -> ~below(x)
                            [] l.op = "<"  -> below(x)
                            [] l.op = "<=" -> ~above(x)
  BY DEF Asks
<1>5. \A x \in l.vals : /\ ~below(x) <=> v = x.num \/ above(x)
                        /\ ~above(x) <=> v = x.num \/ below(x)
  BY <1>2
<1> HIDE DEF above, below
<1>6. CASE l.op = "=" \/ l.op = "in"
  BY <1>3, <1>4, <1>6
<1>7. CASE l.op = ">"
  BY <1>3, <1>4, <1>7
<1>8. CASE l.op = ">="
  BY <1>3, <1>4, <1>5, <1>8
<1>9. CASE l.op = "<"
  BY <1>3, <1>4, <1>9
<1>10. CASE l.op = "<="
  BY <1>3, <1>4, <1>5, <1>10
<1>11. QED
  BY <1>1, <1>6, <1>7, <1>8, <1>9, <1>10 DEF LookupOps

\* What a lookup of a query is.
LEMMA LookupFacts ==
  ASSUME NEW q \in Queries, NEW l \in q.lookups
  PROVE  l.tag \in Nat /\ l.op \in LookupOps /\ l.not \in BOOLEAN /\ l.vals \subseteq Literal
BY QueriesAssumption

\* The clause of a valid lookup finds the users of the index it says something of.
LEMMA ClauseFacts ==
  ASSUME SegmentsInv, NEW t, NEW q \in Queries, NEW l \in q.lookups, ValidLookup(t, l),
         NEW u \in Index(t)
  PROVE  (u \in Clause(t, l)) = Says(u, l)
<1>1. /\ l.op \in LookupOps /\ l.not \in BOOLEAN /\ l.vals \subseteq Literal
  BY LookupFacts
<1>2. TagOf(t, l.tag) /\ l.tag \in Ids /\ u \in Uds
  <2>1. TagOf(t, l.tag)
    BY DEF ValidLookup
  <2>2. Len(tags) \in Nat /\ MaxTags \in Nat /\ Len(tags) <= MaxTags
    BY TypeParts, BoundsAssumption DEF TableTypes
  <2>3. l.tag \in Ids
    BY <2>1, <2>2 DEF TagOf, Ids
  <2>4. QED
    BY <2>1, <2>3 DEF Index
<1>3. PICK v : v = docs[l.tag][u]
  OBVIOUS
<1>4. v = Absent \/ v \in Values
  <2>1. docs \in [Ids -> [Uds -> Values \cup {Absent}]]
    BY TypeParts DEF FieldTypes
  <2>2. QED
    BY <1>2, <1>3, <2>1
<1>5. u \in Term(t, l) <=> v # Absent /\ Satisfies(l.tag, v, l.op, l.vals)
  BY <1>2, <1>3 DEF Term
<1>6. u \in Term(t, l) <=> v # Absent /\ Asks(l, v)
  BY <1>4, <1>5, SatisfiesIsAsks
<1>7. Says(u, l) <=> IF l.not THEN ~(v # Absent /\ Asks(l, v)) ELSE v # Absent /\ Asks(l, v)
  <2>1. Asks(l, v) \in BOOLEAN
    BY DEF Asks
  <2>2. QED
    BY <1>1, <1>3, <2>1 DEF Says
<1>8. (u \in Clause(t, l)) <=> IF l.not THEN u \notin Term(t, l) ELSE u \in Term(t, l)
  BY DEF Clause, MustNot
<1>9. Says(u, l) \in BOOLEAN
  BY DEF Says
<1>10. QED
  BY <1>6, <1>7, <1>8, <1>9

\* What a query finds is what its parts find, put together.
FoundBy(t, f, q) ==
  LET parts == {Clause(t, l) : l \in q.lookups}
                 \cup {f[s] : s \in {x \in q.queries : ~NoClause[x]}}
      hits  == Combine(q.op, parts)
  IN  IF q.not THEN MustNot(t, hits) ELSE hits

\* The parts of a query, one set of users each, are joined for OR and met for AND.
LEMMA CombineFacts ==
  ASSUME NEW parts, parts # {}, NEW u
  PROVE  /\ u \in Combine("OR", parts) <=> \E p \in parts : u \in p
         /\ u \in Combine("AND", parts) <=> \A p \in parts : u \in p
BY DEF Combine

\* When the parts of a query find whom they mean, the query does.
LEMMA FoundIsMeant ==
  ASSUME NEW t, NEW q \in Queries, ~NoClause[q], NEW f, NEW g, NEW u \in Index(t),
         \A l \in q.lookups : (u \in Clause(t, l)) = Says(u, l),
         \A s \in q.queries : ~NoClause[s] => (u \in f[s]) = g[s]
  PROVE  (u \in FoundBy(t, f, q)) = MeantBy(g, u, q)
<1> DEFINE subs  == {s \in q.queries : ~NoClause[s]}
           parts == {Clause(t, l) : l \in q.lookups} \cup {f[s] : s \in subs}
<1>1. parts # {}
  BY NoClauseFacts
<1>2. (\E p \in parts : u \in p) <=> (\E l \in q.lookups : Says(u, l)) \/ (\E s \in subs : g[s])
  OBVIOUS
<1>3. (\A p \in parts : u \in p) <=> (\A l \in q.lookups : Says(u, l)) /\ (\A s \in subs : g[s])
  OBVIOUS
<1>4. q.op \in {"AND", "OR"} /\ q.not \in BOOLEAN
  BY QueriesAssumption
<1> DEFINE hits  == Combine(q.op, parts)
           meant == IF q.op = "OR"
                    THEN (\E l \in q.lookups : Says(u, l)) \/ (\E s \in subs : g[s])
                    ELSE (\A l \in q.lookups : Says(u, l)) /\ (\A s \in subs : g[s])
<1>5. (u \in hits) <=> meant
  <2> HIDE DEF parts
  <2>1. CASE q.op = "OR"
    BY <1>1, <1>2, <2>1, CombineFacts
  <2>2. CASE q.op = "AND"
    BY <1>1, <1>3, <2>2, CombineFacts
  <2>3. QED
    BY <1>4, <2>1, <2>2
<1>6. meant \in BOOLEAN
  OBVIOUS
<1>7. FoundBy(t, f, q) = IF q.not THEN MustNot(t, hits) ELSE hits
  BY DEF FoundBy
<1>8. MeantBy(g, u, q) = (q.not # meant)
  BY DEF MeantBy
<1> HIDE DEF parts, hits, meant
<1>9. (u \in FoundBy(t, f, q)) <=> IF q.not THEN ~meant ELSE meant
  BY <1>5, <1>7 DEF MustNot
<1>10. QED
  BY <1>4, <1>6, <1>8, <1>9

\* A valid query finds the users of the index it means, whatever is nested in it.
LEMMA ValidFindsMeant ==
  ASSUME SegmentsInv, NEW t \in Tenants, NEW query \in Queries, ValidQuery(t, query, FALSE),
         ~NoClause[query]
  PROVE  Found(t)[query] = {u \in Index(t) : Meant(u)[query]}
<1>1. PICK v \in [Queries -> [Depths -> BOOLEAN]] :
        Validates(t, FALSE, v) /\ \A q \in Queries : ValidQuery(t, q, FALSE) <=> v[q][0]
  BY ValidFacts
<1> DEFINE S == {q \in Queries : /\ ~NoClause[q] /\ \E d \in Depths : v[q][d]
                                 /\ \E u \in Index(t) : (u \in Found(t)[q]) # Meant(u)[q]}
<1>2. MaxQueryDepth \in Nat
  BY BoundsAssumption
<1>3. \A q \in Queries : Found(t)[q] = FoundBy(t, Found(t), q)
  BY FoundFacts DEF FoundBy
<1>4. S = {}
  <2>1. SUFFICES ASSUME S # {} PROVE FALSE
    OBVIOUS
  <2>2. PICK q \in S : q.queries \cap S = {}
    BY <2>1, NestingAssumption
  <2>3. PICK d \in Depths, u \in Index(t) : v[q][d] /\ (u \in Found(t)[q]) # Meant(u)[q]
    BY <2>2
  <2>4. q \in Queries /\ q.queries \subseteq Queries /\ ~NoClause[q]
    BY <2>2, QueriesAssumption
  <2>5. /\ d <= MaxQueryDepth
        /\ \A s \in q.queries : v[s][d + 1]
        /\ \A l \in q.lookups : ValidLookup(t, l)
    BY <1>1, <2>3, <2>4 DEF Validates
  <2>6. d + 1 \in Depths
    BY <1>2, <2>5 DEF Depths
  <2>7. ASSUME NEW s \in q.queries, ~NoClause[s]
        PROVE  (u \in Found(t)[s]) = Meant(u)[s]
    <3>1. s \in Queries /\ s \notin S /\ v[s][d + 1]
      BY <2>2, <2>4, <2>5
    <3>2. QED
      BY <2>6, <2>7, <3>1
  <2>8. ASSUME NEW l \in q.lookups
        PROVE  (u \in Clause(t, l)) = Says(u, l)
    BY <2>4, <2>5, ClauseFacts
  <2> HIDE DEF S
  <2>9. (u \in FoundBy(t, Found(t), q)) = MeantBy(Meant(u), u, q)
    BY <2>4, <2>7, <2>8, FoundIsMeant
  <2>10. Meant(u)[q] = MeantBy(Meant(u), u, q)
    BY <2>4, MeantFacts
  <2>11. Found(t)[q] = FoundBy(t, Found(t), q)
    BY <1>3, <2>4
  <2>12. QED
    BY <2>3, <2>9, <2>10, <2>11
<1>5. \A u \in Index(t) : (u \in Found(t)[query]) = Meant(u)[query]
  <2>1. 0 \in Depths
    BY <1>2 DEF Depths
  <2>2. v[query][0]
    BY <1>1, Zenon
  <2>3. QED
    BY <1>4, <2>1, <2>2
<1>6. Found(t)[query] \subseteq Index(t)
  <2>1. \A l : Clause(t, l) \subseteq Index(t)
    BY DEF Clause, MustNot, Term
  <2> DEFINE T == {q \in Queries : ~(Found(t)[q] \subseteq Index(t))}
  <2>2. T = {}
    <3>1. SUFFICES ASSUME T # {} PROVE FALSE
      OBVIOUS
    <3>2. PICK q \in T : q.queries \cap T = {}
      BY <3>1, NestingAssumption
    <3>3. q \in Queries /\ q.queries \subseteq Queries
      BY <3>2, QueriesAssumption
    <3>4. \A s \in q.queries : Found(t)[s] \subseteq Index(t)
      BY <3>2, <3>3
    <3> DEFINE parts == {Clause(t, l) : l \in q.lookups}
                          \cup {Found(t)[s] : s \in {x \in q.queries : ~NoClause[x]}}
    <3>5. \A p \in parts : p \subseteq Index(t)
      BY <2>1, <3>4
    <3>6. FoundBy(t, Found(t), q) =
            IF q.not THEN MustNot(t, Combine(q.op, parts)) ELSE Combine(q.op, parts)
      BY DEF FoundBy
    <3> HIDE DEF parts
    <3>7. Combine(q.op, parts) \subseteq Index(t)
      BY <3>5 DEF Combine
    <3>8. FoundBy(t, Found(t), q) \subseteq Index(t)
      BY <3>6, <3>7 DEF MustNot
    <3>9. QED
      BY <1>3, <3>2, <3>3, <3>8
  <2>3. QED
    BY <2>2
<1>7. QED
  BY <1>5, <1>6

\* Validation refuses what a row has of accepted criteria when a list was lost, and
\* accepts it otherwise.
LEMMA ReadAgain ==
  ASSUME NEW t \in Tenants, NEW query \in Queries, ValidQuery(t, query, FALSE)
  PROVE  ValidQuery(t, query, TRUE) <=> ~LosesList[query]
<1>1. PICK v \in [Queries -> [Depths -> BOOLEAN]] :
        Validates(t, FALSE, v) /\ \A q \in Queries : ValidQuery(t, q, FALSE) <=> v[q][0]
  BY ValidFacts
<1>2. PICK w \in [Queries -> [Depths -> BOOLEAN]] :
        Validates(t, TRUE, w) /\ \A q \in Queries : ValidQuery(t, q, TRUE) <=> w[q][0]
  BY ValidFacts
<1>3. MaxQueryDepth \in Nat
  BY BoundsAssumption
<1>4. ASSUME NEW q \in Queries, NEW d \in Depths, v[q][d]
      PROVE  /\ d <= MaxQueryDepth /\ d + 1 \in Depths
             /\ q.queries \subseteq Queries
             /\ Cardinality(q.given) = 1 /\ IsFiniteSet(q.given)
             /\ \A s \in q.queries : v[s][d + 1]
             /\ \A l \in q.lookups : ValidLookup(t, l)
  <2>1. /\ d <= MaxQueryDepth /\ MustHaveOne(Given(q, FALSE))
        /\ \A s \in q.queries : v[s][d + 1]
        /\ \A l \in q.lookups : ValidLookup(t, l)
    BY <1>1, <1>4 DEF Validates
  <2>2. d + 1 \in Depths
    BY <1>3, <2>1 DEF Depths
  <2>3. q.given \subseteq {"lookups", "queries"} /\ q.queries \subseteq Queries
    BY QueriesAssumption
  <2>4. IsFiniteSet({"lookups", "queries"})
    <3>1. IsFiniteSet({"lookups"}) /\ IsFiniteSet({"queries"})
      BY FS_Singleton
    <3>2. IsFiniteSet({"lookups"} \cup {"queries"})
      BY <3>1, FS_Union
    <3>3. {"lookups", "queries"} = {"lookups"} \cup {"queries"}
      OBVIOUS
    <3>4. QED
      BY <3>2, <3>3
  <2>5. Given(q, FALSE) = q.given
    BY DEF Given
  <2>6. QED
    BY <2>1, <2>2, <2>3, <2>4, <2>5, FS_Subset DEF MustHaveOne
<1> DEFINE S == {q \in Queries : \E d \in Depths : v[q][d] /\ w[q][d] = LosesList[q]}
<1>5. S = {}
  <2>1. SUFFICES ASSUME S # {} PROVE FALSE
    OBVIOUS
  <2>2. PICK q \in S : q.queries \cap S = {}
    BY <2>1, NestingAssumption
  <2>3. q \in Queries
    BY <2>2
  <2>4. PICK d \in Depths : v[q][d] /\ w[q][d] = LosesList[q]
    BY <2>2
  <2>5. /\ d <= MaxQueryDepth /\ d + 1 \in Depths
        /\ q.queries \subseteq Queries
        /\ Cardinality(q.given) = 1 /\ IsFiniteSet(q.given)
        /\ \A s \in q.queries : v[s][d + 1]
        /\ \A l \in q.lookups : ValidLookup(t, l)
    BY <1>4, <2>3, <2>4
  <2>6. \A s \in q.queries : w[s][d + 1] = ~LosesList[s]
    <3>1. ASSUME NEW s \in q.queries PROVE w[s][d + 1] # LosesList[s]
      <4>1. s \in Queries /\ s \notin S /\ v[s][d + 1]
        BY <2>2, <2>5
      <4>2. QED
        BY <2>5, <4>1
    <3>2. \A s \in q.queries : w[s][d + 1] \in BOOLEAN /\ LosesList[s] \in BOOLEAN
      <4>1. \A s \in q.queries : s \in Queries /\ w[s] \in [Depths -> BOOLEAN]
        BY <1>2, <2>5
      <4>2. \A s \in q.queries : w[s][d + 1] \in BOOLEAN
        BY <2>5, <4>1
      <4>3. QED
        BY <4>1, <4>2, LosesListFacts
    <3>3. QED
      BY <3>1, <3>2
  <2>7. w[q][d] <=> MustHaveOne(Given(q, TRUE)) /\ \A s \in q.queries : ~LosesList[s]
    BY <1>2, <2>3, <2>5, <2>6 DEF Validates
  <2>8. MustHaveOne(Given(q, TRUE)) <=> Given(q, TRUE) = q.given
    <3>1. Given(q, TRUE) \subseteq q.given
      BY DEF Given
    <3>2. Cardinality(Given(q, TRUE)) = Cardinality(q.given) <=> Given(q, TRUE) = q.given
      BY <2>5, <3>1, FS_Subset
    <3>3. QED
      BY <2>5, <3>2 DEF MustHaveOne
  <2>9. LosesList[q] <=> Given(q, TRUE) # q.given \/ \E s \in q.queries : LosesList[s]
    BY <2>3, LosesListFacts
  <2>10. w[q][d] <=> ~LosesList[q]
    BY <2>7, <2>8, <2>9
  <2>11. w[q][d] \in BOOLEAN /\ LosesList[q] \in BOOLEAN
    BY <1>2, <2>3, LosesListFacts
  <2>12. QED
    BY <2>4, <2>10, <2>11
<1>6. v[query][0] /\ 0 \in Depths
  <2>1. v[query][0]
    BY <1>1, Zenon
  <2>2. QED
    BY <1>3, <2>1 DEF Depths
<1>7. w[query][0] \in BOOLEAN /\ LosesList[query] \in BOOLEAN
  BY <1>2, <1>6, LosesListFacts
<1>8. w[query][0] # LosesList[query]
  BY <1>5, <1>6
<1>9. QED
  BY <1>2, <1>7, <1>8

\* The bool query built for Elasticsearch counts exactly the users that the criteria sent
\* for a segment mean, of any shape and depth and for any documents, also where the row
\* lost an empty list, and gives no answer for a null; previews agree with the count,
\* but for those of what a row returns when it lost a list, which are refused.
THEOREM CountHolds == Spec => []CountIsMeaning
<1>1. SegmentsInv => CountIsMeaning
  <2> SUFFICES ASSUME SegmentsInv PROVE CountIsMeaning
    OBVIOUS
  <2>1. ASSUME NEW s \in 1..Len(segments)
        PROVE  LET t == segments[s].tenant
                   q == segments[s].criteria
                   count == CountUd(s)
               IN  /\ count = IF HasNull[q] THEN NoAnswer ELSE Cardinality(MeantUds(t, q))
                   /\ PreviewUd(t, q, FALSE) = count
                   /\ PreviewUd(t, q, segments[s].omits) = IF LosesList[q] THEN -1 ELSE count
    <3>1. segments[s] \in SegmentRow
      BY TablesParts
    <3>2. PICK t \in Tenants, q \in Queries : t = segments[s].tenant /\ q = segments[s].criteria
      BY <3>1, QueriesAssumption DEF SegmentRow
    <3>3. ValidQuery(t, q, FALSE) /\ segments[s].omits = TRUE
      BY <3>1, <3>2 DEF SegmentsInv, SegmentsValid, SegmentRow
    <3>4. Selected(t, q) = MeantUds(t, q)
      <4>1. CASE NoClause[q]
        BY <4>1 DEF Selected, MeantUds
      <4>2. CASE ~NoClause[q]
        <5>1. Found(t)[q] = {u \in Index(t) : Meant(u)[q]}
          BY <3>3, <4>2, ValidFindsMeant
        <5>2. QED
          BY <4>2, <5>1 DEF Selected, MeantUds
      <4>3. QED
        BY <4>1, <4>2
    <3>5. /\ CountUd(s) = Count(t, q)
          /\ Count(t, q) = IF HasNull[q] THEN NoAnswer ELSE Cardinality(MeantUds(t, q))
      BY <3>2, <3>4 DEF CountUd, Count
    <3>6. PreviewUd(t, q, FALSE) = Count(t, q)
      BY <3>3 DEF PreviewUd
    <3>7. PreviewUd(t, q, TRUE) = IF LosesList[q] THEN -1 ELSE Count(t, q)
      BY <3>3, ReadAgain DEF PreviewUd
    <3>8. QED
      BY <3>2, <3>3, <3>5, <3>6, <3>7
  <2>2. QED
    BY <2>1 DEF CountIsMeaning
<1>2. QED
  BY <1>1, SegmentsInvariant, PTL
=============================================================================
