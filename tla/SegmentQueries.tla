--------------------------- MODULE SegmentQueries ---------------------------
(***************************************************************************)
(* Tags, segments and the questions asked of the search index: creating    *)
(* tags and segments under names that are unique in a tenant, the          *)
(* validation of a segment's criteria, the Elasticsearch query built from  *)
(* them, counting and downloading the users they select while uploads go   *)
(* on writing, and the cached list of the values of a tag.                 *)
(*                                                                         *)
(* CountUd, PreviewUd and the other handlers that only read are operators  *)
(* of the state; a handler that writes, or that reads twice, is actions.   *)
(* A document holds a value for each tag, or Absent; docs is what a search *)
(* sees, so Write stands for an upload's update once it is searchable.     *)
(***************************************************************************)
EXTENDS Integers, FiniteSets, Sequences

CONSTANTS
  Tenants,        \* tenants; the index of each holds its users' documents
  TagNames,       \* names of tags
  SegmentNames,   \* names of segments
  ValueTypes,     \* the types of the tags that are created
  Uds,            \* users (documents) of an index
  Values,         \* the numbers an upload writes, for a Str tag as text
  Words,          \* integers that stand for text that is no number
  TextOrder,      \* pairs of integers of which the first as text is the lesser
  Requests,       \* requests of the process that may be under way at once
  Criteria,       \* the criteria callers send
  Queries,        \* the criteria and every query inside them
  Limits,         \* page sizes of downloads
  MaxQueryDepth,  \* as in the code, 5 there
  MaxBuckets,     \* how many distinct values one aggregation returns
  Million,        \* the least JSON number fmt.Sprint writes with an exponent
  MaxTags,        \* bound on the tags
  MaxSegments,    \* bound on the segments
  MaxRepeats,     \* calls of a scroll that are sent again, 5 each in the code
  Absent          \* no value

ASSUME BoundsAssumption ==
  /\ MaxQueryDepth \in Nat /\ MaxTags \in Nat /\ MaxSegments \in Nat
  /\ MaxRepeats \in Nat /\ MaxBuckets \in Nat \ {0} /\ Limits \subseteq Nat
  /\ ValueTypes \subseteq {"Int", "Str", "Float"}
  /\ Values \subseteq Int /\ Million \in Int /\ Absent \notin Values
  /\ IsFiniteSet(Uds)

\* A literal of a lookup is a JSON number, the same number as a string, or a word.
LookupOps == {"=", ">", "<", ">=", "<=", "in"}
Literal == {x \in [num : Int, quoted : BOOLEAN] : x.num \in Words => x.quoted}

\* given: which of the two lists the JSON of a query has (nil or not); nulls: which
\* of them has a null among its elements.
ASSUME QueriesAssumption ==
  Criteria \subseteq Queries /\ \A q \in Queries :
     /\ q.op \in {"AND", "OR"} /\ q.not \in BOOLEAN
     /\ q.given \subseteq {"lookups", "queries"} /\ q.nulls \subseteq q.given
     /\ q.lookups # {} => "lookups" \in q.given
     /\ q.queries # {} => "queries" \in q.given
     /\ q.queries \subseteq Queries
     /\ \A l \in q.lookups : /\ l.tag \in Nat /\ l.op \in LookupOps /\ l.not \in BOOLEAN
                             /\ l.vals \subseteq Literal

\* Criteria are JSON: no query is inside itself, at whatever depth.
ASSUME NestingAssumption ==
  \A S \in SUBSET Queries : S # {} => \E q \in S : q.queries \cap S = {}

\* Of two texts that differ one is the lesser.
ASSUME TextAssumption ==
  \A v \in Values, q \in Queries : \A l \in q.lookups : \A x \in l.vals :
    <<v, x.num>> \in TextOrder <=> v # x.num /\ <<x.num, v>> \notin TextOrder

VARIABLES
  tags,      \* tag_tab: rows [tenant, name, type]; the id is the position
  segments,  \* segment_tab: rows [tenant, name, criteria, omits]
  docs,      \* [tag id -> [ud -> value]]: field tag_<id> of the documents
  written,   \* history: the values uploads ever wrote for a tag
  cache,     \* baseCache of queryRepo: [key -> list of values, or none]
  req,       \* the handlers that are between two steps
  download   \* a caller that reads a segment page after page

vars == <<tags, segments, docs, written, cache, req, download>>

Ids == 1..MaxTags
IdleReq == [at |-> "Idle"]
NoDownload == [at |-> "Idle"]
NoList == {Absent}

Init ==
  /\ tags = << >> /\ segments = << >>
  /\ docs = [k \in Ids |-> [u \in Uds |-> Absent]]
  /\ written = [k \in Ids |-> {}]
  /\ cache = [k \in Ids |-> NoList]
  /\ req = [r \in Requests |-> IdleReq]
  /\ download = NoDownload

(***************************************************************************)
(* What a search returns                                                   *)
(***************************************************************************)
TagOf(t, k) == k \in 1..Len(tags) /\ tags[k].tenant = t

\* An index has a document for each user with a value of a tag of its tenant.
Index(t) == {u \in Uds : \E k \in Ids : TagOf(t, k) /\ docs[k][u] # Absent}

\* The field of a Str tag is a keyword, which compares as text.
Less(k, v, w) == IF tags[k].type = "Str" THEN <<v, w>> \in TextOrder ELSE v < w

Satisfies(k, v, op, lits) ==
  \E x \in lits : \/ op \in {"=", "in", ">=", "<="} /\ v = x.num
                  \/ op \in {">", ">="} /\ Less(k, x.num, v)
                  \/ op \in {"<", "<="} /\ Less(k, v, x.num)

\* term, terms and range: the documents whose field has such a value.
Term(t, l) == {u \in Index(t) : /\ TagOf(t, l.tag) /\ docs[l.tag][u] # Absent
                                /\ Satisfies(l.tag, docs[l.tag][u], l.op, l.vals)}

MustNot(t, hits) == Index(t) \ hits
Clause(t, l) == IF l.not THEN MustNot(t, Term(t, l)) ELSE Term(t, l)

\* buildElasticQuery returns nil for a query with no lookup anywhere in it.
NoClause == LET none[q \in Queries] == q.lookups = {} /\ \A s \in q.queries : none[s]
            IN  none

\* A null list element, lookup or query, passes the validation; building the clause
\* dereferences it, and the handler that panics gives no answer.
HasNull == LET null[q \in Queries] == q.nulls # {} \/ \E s \in q.queries : null[s]
           IN  null
NoAnswer == -2

\* The two operators of a query are swapped.
CombineSwapped(op, parts) == IF op = "AND" THEN UNION parts
                             ELSE {u \in UNION parts : \A p \in parts : u \in p}

Combine(op, parts) == IF op = "OR" THEN UNION parts
                      ELSE {u \in UNION parts : \A p \in parts : u \in p}

\* The documents the clause built from a query matches in the index of t.
Found(t) ==
  LET found[q \in Queries] ==
        LET parts == {Clause(t, l) : l \in q.lookups}
                       \cup {found[s] : s \in {x \in q.queries : ~NoClause[x]}}
            hits  == Combine(q.op, parts)
        IN  IF q.not THEN MustNot(t, hits) ELSE hits
  IN  found

Selected(t, q) == IF NoClause[q] THEN {} ELSE Found(t)[q]
Count(t, q) == IF HasNull[q] THEN NoAnswer ELSE Cardinality(Selected(t, q))

(***************************************************************************)
(* Validation of criteria                                                  *)
(***************************************************************************)
\* strconv.Atoi refuses what fmt.Sprint makes of a large JSON number.
Atoi(x) == x.quoted \/ (-Million < x.num /\ x.num < Million)
IsValidTagValue(type, x) ==
  /\ x.num \in Words => type = "Str"
  /\ type = "Int" => Atoi(x)

ValidLookup(t, l) ==
  /\ TagOf(t, l.tag)
  /\ l.vals # {}
  /\ \A x \in l.vals : IsValidTagValue(tags[l.tag].type, x)

\* The JSON that a row keeps omits each list with no element, at whatever depth:
\* omits says whether criteria are read from a row or came with a request.
Given(q, omits) == {x \in q.given : omits => \/ x = "lookups" /\ q.lookups # {}
                                             \/ x = "queries" /\ q.queries # {}
                                             \/ x \in q.nulls}

MustHaveOne(lists) == Cardinality(lists) = 1

ValidQuery(t, query, omits) ==
  LET valid[q \in Queries] == [depth \in 0..(MaxQueryDepth + 1) |->
        /\ depth <= MaxQueryDepth
        /\ MustHaveOne(Given(q, omits))
        /\ \A s \in q.queries : valid[s][depth + 1]
        /\ \A l \in q.lookups : ValidLookup(t, l)]
  IN  valid[query][0]

\* PreviewUd answers -1 for criteria that do not pass the validation.
PreviewUd(t, q, omits) == IF ValidQuery(t, q, omits) THEN Count(t, q) ELSE -1
CountUd(s) == Count(segments[s].tenant, segments[s].criteria)

(***************************************************************************)
(* CreateTag and CreateSegment: look the name up, then insert              *)
(***************************************************************************)
HasName(rows, t, n) == \E i \in 1..Len(rows) : rows[i].tenant = t /\ rows[i].name = n

\* The table has no unique key.
InsertAlways(rows, row) == Append(rows, row)

\* The unique key on tenant, name and status refuses the insert.
Insert(rows, row) == IF HasName(rows, row.tenant, row.name) THEN rows ELSE Append(rows, row)

CreateTag(r) ==
  /\ req[r] = IdleReq /\ Len(tags) < MaxTags
  /\ \E t \in Tenants, n \in TagNames, type \in ValueTypes :
       /\ ~HasName(tags, t, n)
       /\ req' = [req EXCEPT ![r] = [at |-> "TagNamed",
                                     row |-> [tenant |-> t, name |-> n, type |-> type]]]
  /\ UNCHANGED <<tags, segments, docs, written, cache, download>>

CreateSegment(r) ==
  /\ req[r] = IdleReq /\ Len(segments) < MaxSegments
  /\ \E t \in Tenants, n \in SegmentNames, q \in Criteria :
       /\ ValidQuery(t, q, FALSE)
       /\ ~HasName(segments, t, n)
       /\ req' = [req EXCEPT ![r] = [at |-> "SegmentNamed",
                                     row |-> [tenant |-> t, name |-> n,
                                             criteria |-> q, omits |-> FALSE]]]
  /\ UNCHANGED <<tags, segments, docs, written, cache, download>>

InsertTag(r) ==
  /\ req[r].at = "TagNamed" /\ Len(tags) < MaxTags
  /\ tags' = Insert(tags, req[r].row)
  /\ req' = [req EXCEPT ![r] = IdleReq]
  /\ UNCHANGED <<segments, docs, written, cache, download>>

ToSegmentModel(row) == [row EXCEPT !.omits = TRUE]

InsertSegment(r) ==
  /\ req[r].at = "SegmentNamed" /\ Len(segments) < MaxSegments
  /\ segments' = Insert(segments, ToSegmentModel(req[r].row))
  /\ req' = [req EXCEPT ![r] = IdleReq]
  /\ UNCHANGED <<tags, docs, written, cache, download>>

\* The insert fails, or the process dies before it: the request ends.
InsertFails(r) ==
  /\ req[r].at \in {"TagNamed", "SegmentNamed"}
  /\ req' = [req EXCEPT ![r] = IdleReq]
  /\ UNCHANGED <<tags, segments, docs, written, cache, download>>

(***************************************************************************)
(* Uploads and the list of the values of a tag                             *)
(***************************************************************************)
\* An upload task of a tag updates one field of one document of its tenant.
Write ==
  /\ \E k \in 1..Len(tags), u \in Uds, v \in Values :
       /\ IsValidTagValue(tags[k].type, [num |-> v, quoted |-> TRUE])
       /\ docs' = [docs EXCEPT ![k][u] = v]
       /\ written' = [written EXCEPT ![k] = @ \cup {v}]
  /\ UNCHANGED <<tags, segments, cache, req, download>>

CanDistinctTagValues(k) == tags[k].type = "Str"

\* The key of the cached list leaves the tag out.
CacheKeyOfAll(k) == 1

CacheKey(k) == k

Holders(k, v) == Cardinality({u \in Uds : docs[k][u] = v})

\* The documents with no value make a bucket as well.
BucketsWithMissing(k) == {{docs[k][u] : u \in Uds}}

\* A terms aggregation returns the values most documents have, up to a number.
Buckets(k) ==
  LET stored == {v \in Values : Holders(k, v) > 0}
  IN  {b \in SUBSET stored :
         /\ Cardinality(b) = IF Cardinality(stored) < MaxBuckets
                             THEN Cardinality(stored) ELSE MaxBuckets
         /\ \A v \in b, w \in stored \ b : Holders(k, v) >= Holders(k, w)}

\* A list in the cache is the answer; else the search, and then the cache.
SearchTagValues(r) ==
  /\ req[r] = IdleReq
  /\ \E k \in 1..Len(tags) :
       /\ CanDistinctTagValues(k)
       /\ cache[CacheKey(k)] = NoList
       /\ \E b \in Buckets(k) :
            req' = [req EXCEPT ![r] = [at |-> "Listed", tag |-> k, values |-> b]]
  /\ UNCHANGED <<tags, segments, docs, written, cache, download>>

SetTagValues(r) ==
  /\ req[r].at = "Listed"
  /\ cache' = [cache EXCEPT ![CacheKey(req[r].tag)] = req[r].values]
  /\ req' = [req EXCEPT ![r] = IdleReq]
  /\ UNCHANGED <<tags, segments, docs, written, download>>

\* The answer of GetDistinctTagValues when the cache has one.
TagValues(k) == cache[CacheKey(k)]

Expire(k) ==
  /\ cache[k] # NoList
  /\ cache' = [cache EXCEPT ![k] = NoList]
  /\ UNCHANGED <<tags, segments, docs, written, req, download>>

Restart ==
  /\ cache' = [k \in Ids |-> NoList]
  /\ req' = [r \in Requests |-> IdleReq]
  /\ UNCHANGED <<tags, segments, docs, written, download>>

(***************************************************************************)
(* DownloadUds: a scroll over the documents that matched when it opened    *)
(***************************************************************************)
Pages(left, limit) ==
  {p \in SUBSET left : Cardinality(p) = IF Cardinality(left) < limit
                                        THEN Cardinality(left) ELSE limit}

\* A page that is just full is taken for the last.
HasCursorOnlyBeyond(page, limit) == Cardinality(page) > limit

\* A cursor is returned for a full page; after any other the scroll is closed.
HasCursor(page, limit) == Cardinality(page) >= limit

Paged(d, page) ==
  [d EXCEPT !.at = IF HasCursor(page, d.limit) THEN "Cursor" ELSE "Over",
            !.got = @ \cup page, !.left = @ \ page]

OpenScroll ==
  /\ download = NoDownload
  /\ \E s \in 1..Len(segments), limit \in Limits :
       LET t == segments[s].tenant
           q == segments[s].criteria
           hits == Selected(t, q)
           d == [at |-> "Over", limit |-> limit, matched |-> hits, left |-> hits,
                 got |-> {}, repeats |-> 0]
       IN  /\ ~HasNull[q]
           /\ \E page \in Pages(hits, limit) :
                download' = IF NoClause[q] THEN d ELSE Paged(d, page)
  /\ UNCHANGED <<tags, segments, docs, written, cache, req>>

NextPage ==
  /\ download.at = "Cursor"
  /\ \E page \in Pages(download.left, download.limit) :
       download' = Paged(download, page)
  /\ UNCHANGED <<tags, segments, docs, written, cache, req>>

\* A gateway loses the answer, and the client sends the scroll call again.
RepeatedCall ==
  /\ download.at = "Cursor" /\ download.repeats < MaxRepeats
  /\ \E lost \in Pages(download.left, download.limit) :
       \E page \in Pages(download.left \ lost, download.limit) :
         download' = Paged([download EXCEPT !.left = @ \ lost, !.repeats = @ + 1], page)
  /\ UNCHANGED <<tags, segments, docs, written, cache, req>>

\* The scroll has timed out or the call failed, or the caller is done.
CloseDownload ==
  /\ download # NoDownload
  /\ download' = NoDownload
  /\ UNCHANGED <<tags, segments, docs, written, cache, req>>

Next ==
  \/ \E r \in Requests : \/ CreateTag(r) \/ CreateSegment(r)
                         \/ InsertTag(r) \/ InsertSegment(r) \/ InsertFails(r)
                         \/ SearchTagValues(r) \/ SetTagValues(r)
  \/ Write
  \/ \E k \in Ids : Expire(k)
  \/ Restart
  \/ OpenScroll \/ NextPage \/ RepeatedCall \/ CloseDownload

Spec == Init /\ [][Next]_vars

(***************************************************************************)
(* Properties                                                              *)
(***************************************************************************)
TypeOK ==
  /\ tags \in Seq([tenant : Tenants, name : TagNames, type : ValueTypes])
  /\ segments \in Seq([tenant : Tenants, name : SegmentNames, criteria : Criteria,
                      omits : {TRUE}])
  /\ Len(tags) <= MaxTags /\ Len(segments) <= MaxSegments
  /\ docs \in [Ids -> [Uds -> Values \cup {Absent}]]
  /\ written \in [Ids -> SUBSET Values]
  /\ cache \in [Ids -> (SUBSET Values) \cup {NoList}]
  /\ \A r \in Requests : req[r].at \in {"Idle", "TagNamed", "SegmentNamed", "Listed"}
  /\ download.at \in {"Idle", "Cursor", "Over"}

\* Two requests that both found a name free (GetByName before Create) do not
\* leave a tenant with two tags, or two segments, of that name: looking a tag
\* up by its name has one answer.
OneRowPerName ==
  \A rows \in {tags, segments} : \A i, j \in 1..Len(rows) :
     (rows[i].tenant = rows[j].tenant /\ rows[i].name = rows[j].name) => i = j

\* What a query says of a user, read as the boolean formula it is: AND and OR
\* of its parts that hold some lookup, negated when Not is set.  A user with
\* no value for a tag satisfies no lookup on it, and every negated one.
Asks(l, v) ==
  \E x \in l.vals : CASE l.op \in {"=", "in"} -> v = x.num
                      [] l.op = ">"  -> Less(l.tag, x.num, v)
                      [] l.op = ">=" -> ~Less(l.tag, v, x.num)
                      [] l.op = "<"  -> Less(l.tag, v, x.num)
                      [] l.op = "<=" -> ~Less(l.tag, x.num, v)

Meant(u) ==
  LET says(l) == (IF docs[l.tag][u] = Absent THEN FALSE ELSE Asks(l, docs[l.tag][u])) # l.not
      meant[q \in Queries] ==
        LET parts == {s \in q.queries : ~NoClause[s]}
        IN  q.not # IF q.op = "OR"
                    THEN (\E l \in q.lookups : says(l)) \/ (\E s \in parts : meant[s])
                    ELSE (\A l \in q.lookups : says(l)) /\ (\A s \in parts : meant[s])
  IN  meant

MeantUds(t, q) == {u \in Index(t) : ~NoClause[q] /\ Meant(u)[q]}

\* A list of the tree has no element, so that the row lost it.
LosesList ==
  LET loses[q \in Queries] == Given(q, TRUE) # q.given \/ \E s \in q.queries : loses[s]
  IN  loses

\* The bool query built for Elasticsearch (must, should and must_not, nested)
\* counts exactly the users that the criteria sent for a segment mean, whatever
\* uploads have written since and although the row has lost the lists that
\* were empty; with a null in them there is no answer.  A preview of what was
\* sent always agrees with the count; a preview of what the row returns is
\* refused where a list was lost, and agrees anywhere else.
CountIsMeaning ==
  \A s \in 1..Len(segments) :
     LET t == segments[s].tenant
         q == segments[s].criteria
         count == CountUd(s)
     IN  /\ count = IF HasNull[q] THEN NoAnswer ELSE Cardinality(MeantUds(t, q))
         /\ PreviewUd(t, q, FALSE) = count
         /\ PreviewUd(t, q, segments[s].omits) = IF LosesList[q] THEN -1 ELSE count

\* A caller that followed the cursors of DownloadUds to the empty one has got
\* nobody who did not match when it began, whatever uploads wrote meanwhile and
\* whether or not the last page was full, and misses at most the users of the
\* pages whose calls were repeated: everybody is there when none was.
DownloadComplete ==
  /\ download.at = "Over" =>
       /\ download.got \subseteq download.matched
       /\ Cardinality(download.matched \ download.got) <= download.repeats * download.limit
  /\ download.at = "Cursor" => download.left \cap download.got = {}

\* However old the cached list of a tag's values is, each value in it was
\* written for that tag, by an upload of the tenant that has it.
DistinctWasStored ==
  /\ \A k \in 1..Len(tags) :
       (CanDistinctTagValues(k) /\ TagValues(k) # NoList) => TagValues(k) \subseteq written[k]
  /\ \A r \in Requests : req[r].at = "Listed" => req[r].values \subseteq written[req[r].tag]

(***************************************************************************)
(* The inductive invariant behind the properties                           *)
(***************************************************************************)
TagRow == [tenant : Tenants, name : TagNames, type : ValueTypes]
SegmentRow == [tenant : Tenants, name : SegmentNames, criteria : Criteria, omits : {TRUE}]
NewSegment == [tenant : Tenants, name : SegmentNames, criteria : Criteria, omits : {FALSE}]

\* What a request holds between its two steps is still right when it goes on: a
\* segment has passed the validation, and listed values were written for the tag.
RequestsSound ==
  /\ req \in [Requests -> {IdleReq} \cup [at : {"TagNamed"}, row : TagRow]
                          \cup [at : {"SegmentNamed"}, row : NewSegment]
                          \cup [at : {"Listed"}, tag : Ids, values : SUBSET Values]]
  /\ \A r \in Requests :
       /\ req[r].at = "SegmentNamed" =>
            ValidQuery(req[r].row.tenant, req[r].row.criteria, FALSE)
       /\ req[r].at = "Listed" => /\ req[r].tag \in 1..Len(tags)
                                  /\ req[r].values \subseteq written[req[r].tag]

\* The criteria of a segment would be accepted for ever, sent as they once were.
SegmentsValid ==
  \A s \in 1..Len(segments) : ValidQuery(segments[s].tenant, segments[s].criteria, FALSE)

\* Documents and cached lists hold what was written for their tag.
ValuesWritten ==
  \A k \in Ids : /\ \A u \in Uds : docs[k][u] # Absent => docs[k][u] \in written[k]
                 /\ cache[k] # NoList => cache[k] \subseteq written[k]

\* What a scroll has not sent yet, and nothing else, is still to come, but for the
\* pages that were lost.
Download == [at : {"Cursor", "Over"}, limit : Limits, matched : SUBSET Uds,
             left : SUBSET Uds, got : SUBSET Uds, repeats : 0..MaxRepeats]
LostUds(d) == d.matched \ (d.left \cup d.got)
ScrollSound ==
  /\ download \in Download \cup {NoDownload}
  /\ download # NoDownload =>
       /\ download.left \cup download.got \subseteq download.matched
       /\ download.left \cap download.got = {}
       /\ Cardinality(LostUds(download)) <= download.repeats * download.limit
       /\ download.at = "Over" => download.left = {}

SegmentsInv ==
  /\ TypeOK /\ OneRowPerName
  /\ RequestsSound /\ SegmentsValid /\ ValuesWritten /\ ScrollSound
=============================================================================
