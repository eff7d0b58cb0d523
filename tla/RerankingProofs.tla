--------------------------- MODULE RerankingProofs ---------------------------
(* Rerankers keep a ranking a ranking, whatever its length, the documents that
   no index holds, the depths and what the models answer.                    *)
EXTENDS Reranking, DataFacts

-----------------------------------------------------------------------------
(* Rows, and the smaller of two numbers.                                     *)
LEMMA RowFacts ==
    ASSUME NEW s \in Seq(Rows), NEW k \in 1..Len(s)
    PROVE  s[k] \in Rows /\ s[k].score \in Int /\ s[k].doc \in DOMAIN ExternalId
<1>1. s[k] \in Rows
  OBVIOUS
<1>. QED BY <1>1 DEF Rows

LEMMA Rescored ==
    ASSUME NEW r \in Rows, NEW n \in Int
    PROVE  /\ [r EXCEPT !.score = n] \in Rows
           /\ [r EXCEPT !.score = n].doc = r.doc
           /\ [r EXCEPT !.score = n].score = n
  BY DEF Rows

LEMMA NegInfType == NegInf \in Int
  BY SMT DEF NegInf

LEMMA DocumentsOf ==
    ASSUME NEW r \in Seq(Rows), NEW x
    PROVE  x \in ToSet(Documents(r)) <=> \E k \in 1..Len(r) : r[k].doc = x
<1>1. DOMAIN r = 1..Len(r)
  OBVIOUS
<1>2. Documents(r) = [k \in 1..Len(r) |-> r[k].doc]
  BY <1>1 DEF Documents
<1> HIDE DEF Documents
<1>3. DOMAIN Documents(r) = 1..Len(r) /\ \A k \in 1..Len(r) : Documents(r)[k] = r[k].doc
  BY <1>2, Zenon
<1>4. x \in ToSet(Documents(r)) <=> \E k \in DOMAIN Documents(r) : x = Documents(r)[k]
  BY Zenon DEF ToSet
<1>. QED BY <1>3, <1>4, Zenon

\* A ranking lined up anew has the same documents.
LEMMA LinedUp ==
    ASSUME NEW r \in Seq(Rows), NEW s \in Seq(Rows), Len(s) = Len(r),
           NEW A \in [1..Len(r) -> 1..Len(r)],
           \A i \in 1..Len(r) : \E k \in 1..Len(r) : A[k] = i,
           \A k \in 1..Len(r) : s[k].doc = r[A[k]].doc
    PROVE  ToSet(Documents(s)) = ToSet(Documents(r))
<1> DEFINE S == 1..Len(r)
<1>1. \A x : x \in ToSet(Documents(s)) <=> \E k \in S : s[k].doc = x
  <2>1. S = 1..Len(s)
    OBVIOUS
  <2> HIDE DEF S
  <2>. QED BY <2>1, DocumentsOf, Zenon
<1>2. \A x : x \in ToSet(Documents(r)) <=> \E k \in S : r[k].doc = x
  BY DocumentsOf, Zenon
<1>3. /\ \A k \in S : A[k] \in S /\ s[k].doc = r[A[k]].doc
      /\ \A i \in S : \E k \in S : A[k] = i
  OBVIOUS
<1> HIDE DEF S
<1>4. ASSUME NEW x, x \in ToSet(Documents(s)) PROVE x \in ToSet(Documents(r))
  <2>1. PICK k \in S : s[k].doc = x
    BY <1>1, <1>4
  <2>2. A[k] \in S /\ r[A[k]].doc = x
    BY <1>3, <2>1
  <2>. QED BY <1>2, <2>2
<1>5. ASSUME NEW x, x \in ToSet(Documents(r)) PROVE x \in ToSet(Documents(s))
  <2>1. PICK i \in S : r[i].doc = x
    BY <1>2, <1>5
  <2>2. PICK k \in S : A[k] = i
    BY <1>3
  <2>3. s[k].doc = x
    BY <1>3, <2>1, <2>2
  <2>. QED BY <1>1, <2>3
<1>. QED BY <1>4, <1>5

-----------------------------------------------------------------------------
(* Sorted rankings.                                                          *)
LEMMA BeforeFacts ==
    ASSUME NEW a \in Int, NEW b \in Int, NEW c \in Int,
           NEW d \in Int, NEW e \in Int, NEW f \in Int,
           NEW i \in Int, NEW j \in Int, NEW k \in Int
    PROVE  LET B(x, p, y, q) == x > y \/ (x = y /\ p < q)
               O(x, p, m, y, q, n) == B(x, p, y, q) \/ (~B(y, q, x, p) /\ m < n)
           IN  /\ ~O(a, d, i, a, d, i)
               /\ i # j => O(a, d, i, b, e, j) \/ O(b, e, j, a, d, i)
               /\ O(a, d, i, b, e, j) /\ O(b, e, j, c, f, k) => O(a, d, i, c, f, k)
               /\ O(a, d, i, b, e, j) => a >= b
  OBVIOUS

LEMMA SortOrderIsOne ==
    ASSUME NEW r \in Seq(Rows)
    PROVE  /\ IsOrder(Len(r), SortOrder(r))
           /\ \A i, j \in 1..Len(r) : <<i, j>> \in SortOrder(r) => r[i].score >= r[j].score
<1> DEFINE S == 1..Len(r)
           score(i) == r[i].score
           id(i) == ExternalId[r[i].doc]
           B(x, p, y, q) == x > y \/ (x = y /\ p < q)
           O(x, p, m, y, q, n) == B(x, p, y, q) \/ (~B(y, q, x, p) /\ m < n)
<1>1. \A i \in S : i \in Int /\ score(i) \in Int /\ id(i) \in Int
  BY RowFacts, RerankAssumption
<1>2. \A i, j \in S : <<i, j>> \in SortOrder(r) <=> O(score(i), id(i), i, score(j), id(j), j)
  BY DEF SortOrder, Before
<1> HIDE DEF score, id, S
<1>3. ASSUME NEW i \in S, NEW j \in S, NEW k \in S
      PROVE  /\ ~O(score(i), id(i), i, score(i), id(i), i)
             /\ i # j => \/ O(score(i), id(i), i, score(j), id(j), j)
                         \/ O(score(j), id(j), j, score(i), id(i), i)
             /\ /\ O(score(i), id(i), i, score(j), id(j), j)
                /\ O(score(j), id(j), j, score(k), id(k), k)
                => O(score(i), id(i), i, score(k), id(k), k)
             /\ O(score(i), id(i), i, score(j), id(j), j) => score(i) >= score(j)
  BY <1>1, BeforeFacts
<1> HIDE DEF O
<1>4. \A i \in S : <<i, i>> \notin SortOrder(r)
  BY <1>2, <1>3
<1>5. \A i, j \in S : i # j => <<i, j>> \in SortOrder(r) \/ <<j, i>> \in SortOrder(r)
  BY <1>2, <1>3
<1>6. \A i, j, k \in S : /\ <<i, j>> \in SortOrder(r)
                          /\ <<j, k>> \in SortOrder(r)
                          => <<i, k>> \in SortOrder(r)
  BY <1>2, <1>3
<1>7. \A i, j \in S : <<i, j>> \in SortOrder(r) => r[i].score >= r[j].score
  BY <1>2, <1>3 DEF score
<1>. QED BY <1>4, <1>5, <1>6, <1>7 DEF IsOrder, S

LEMMA SortedFacts ==
    ASSUME NEW r \in Seq(Rows)
    PROVE  /\ Sorted(r) \in Seq(Rows)
           /\ Len(Sorted(r)) = Len(r)
           /\ ToSet(Documents(Sorted(r))) = ToSet(Documents(r))
           /\ Descends(Sorted(r))
<1> DEFINE n == Len(r)
           A == Arrange(n, SortOrder(r))
           s == Sorted(r)
<1>1. n \in Nat /\ DOMAIN r = 1..n
  OBVIOUS
<1>2. /\ A \in [1..n -> 1..n]
      /\ \A i \in 1..n : \E k \in 1..n : A[k] = i
      /\ \A k, l \in 1..n : k < l => <<A[k], A[l]>> \in SortOrder(r)
  BY <1>1, SortOrderIsOne, ArrangeFacts
<1>3. s = [k \in 1..n |-> r[A[k]]]
  BY <1>1 DEF Sorted
<1> HIDE DEF A, s
<1>4. \A k \in 1..n : r[A[k]] \in Rows
  BY <1>2
<1>5. s \in Seq(Rows) /\ Len(s) = n /\ DOMAIN s = 1..n
  BY <1>1, <1>3, <1>4
<1>6. \A k \in 1..n : s[k] = r[A[k]]
  BY <1>3
<1>7. ToSet(Documents(s)) = ToSet(Documents(r))
  BY <1>2, <1>5, <1>6, LinedUp
<1>8. ASSUME NEW k \in 1..n, NEW l \in 1..n, k < l PROVE s[k].score >= s[l].score
  <2>1. A[k] \in 1..n /\ A[l] \in 1..n /\ <<A[k], A[l]>> \in SortOrder(r)
    BY <1>2, <1>8
  <2>2. r[A[k]].score >= r[A[l]].score
    BY <2>1, SortOrderIsOne
  <2>. QED BY <1>6, <2>2
<1>9. Descends(s)
  BY <1>5, <1>8 DEF Descends
<1>. QED BY <1>5, <1>7, <1>9 DEF s

-----------------------------------------------------------------------------
(* BERT's scores.                                                            *)
LEMMA PassagesAreFew ==
    ASSUME NEW d \in DOMAIN ExternalId
    PROVE  \E m \in 0..PsgCnt : DOMAIN Passages(d) = 1..m
<1>0. PsgCnt \in Nat \ {0}
  BY RerankAssumption
<1>1. ASSUME NEW len PROVE \E m \in 0..PsgCnt : DOMAIN BodyWindows(len) = 1..m
  <2> DEFINE begin(k) == (k - 1) * PsgStride
             used == {k \in 1..PsgCnt : /\ begin(k) < len
                                        /\ k > 1 => begin(k - 1) + PsgLen < len}
             m == Cardinality(used)
  <2>1. IsFiniteSet(1..PsgCnt) /\ Cardinality(1..PsgCnt) = PsgCnt
    BY <1>0, FS_Interval
  <2>2. used \in SUBSET (1..PsgCnt)
    OBVIOUS
  <2>3. DOMAIN BodyWindows(len) = 1..m
    BY DEF BodyWindows
  <2> HIDE DEF used
  <2>4. m \in Nat /\ m <= PsgCnt
    BY <2>1, <2>2, FS_Subset, FS_CardinalityType
  <2>5. m \in 0..PsgCnt
    BY <1>0, <2>4
  <2>. QED BY <2>3, <2>5
<1>2. DOMAIN << >> = 1..0 /\ DOMAIN << <<0, 0>> >> = 1..1
  OBVIOUS
<1>3. 0 \in 0..PsgCnt /\ 1 \in 0..PsgCnt
  BY <1>0
<1>4. Passages(d) = << >> \/ Passages(d) = << <<0, 0>> >> \/ Passages(d) = BodyWindows(BodyLength[d])
  BY DEF Passages
<1>. QED BY <1>1, <1>2, <1>3, <1>4

LEMMA AggregateType ==
    ASSUME NEW scores \in Seq(Int), NEW method \in Aggregations
    PROVE  Aggregate(scores, method) \in Int
<1>1. CASE scores = << >>
  BY <1>1, NegInfType DEF Aggregate
<1>2. CASE scores # << >>
  <2> DEFINE n == Len(scores)
  <2>0. n \in Nat /\ n > 0 /\ scores \in [1..n -> Int] /\ IsFiniteSet(1..n) /\ DOMAIN scores = 1..n
    BY <1>2, FS_Interval
  <2>1. scores[1] \in Int
    BY <2>0
  <2>2. SumFunction(scores) \in Int
    BY <2>0, SumInteger DEF SumFunction
  <2>3. SumFunction(scores) \div n \in Int
    BY <2>0, <2>2
  <2>4. Max(ToSet(scores)) \in Int
    <3>1. scores \in Surjection(1..n, Range(scores)) /\ Range(scores) \subseteq Int
      BY <2>0, Fun_RangeProperties
    <3>2. IsFiniteSet(Range(scores))
      BY <2>0, <3>1, FS_Surjection
    <3>3. ToSet(scores) = Range(scores)
      BY DEF ToSet, Range
    <3>4. scores[1] \in ToSet(scores)
      BY <2>0 DEF ToSet
    <3>5. PICK m \in ToSet(scores) : \A q \in ToSet(scores) : q <= m
      BY <3>1, <3>2, <3>3, <3>4, LargestOf
    <3> HIDE DEF n
    <3>6. \A q \in ToSet(scores) : m >= q
      BY <3>1, <3>3, <3>5
    <3>7. Max(ToSet(scores)) \in ToSet(scores)
      BY <3>5, <3>6 DEF Max
    <3>. QED BY <3>1, <3>3, <3>7
  <2>5. \/ method = "firstp" /\ Aggregate(scores, method) = scores[1]
        \/ method = "avgp" /\ Aggregate(scores, method) = SumFunction(scores) \div n
        \/ method = "maxp" /\ Aggregate(scores, method) = Max(ToSet(scores))
    BY <1>2 DEF Aggregate, Aggregations
  <2>. QED BY <2>1, <2>2, <2>3, <2>4, <2>5
<1>. QED BY <1>1, <1>2

NeuralAnswers(docs) == [docs -> [1..PsgCnt -> NeuralScores]]

LEMMA DocumentScoreType ==
    ASSUME NEW docs, NEW neural \in NeuralAnswers(docs), NEW d \in docs,
           docs \subseteq DOMAIN ExternalId, NEW method \in Aggregations
    PROVE  DocumentScore(d, neural, method) \in Int
<1>1. PICK m \in 0..PsgCnt : DOMAIN Passages(d) = 1..m
  BY PassagesAreFew
<1>2. \A p \in 1..m : neural[d][p] \in Int
  <2>1. neural[d] \in [1..PsgCnt -> NeuralScores]
    BY DEF NeuralAnswers
  <2>2. \A p \in 1..m : p \in 1..PsgCnt
    BY RerankAssumption
  <2>. QED BY <2>1, <2>2, RerankAssumption
<1> DEFINE scores == [p \in 1..m |-> neural[d][p]]
<1>3. scores \in Seq(Int)
  BY <1>2
<1>4. DocumentScore(d, neural, method) = Aggregate(scores, method)
  BY <1>1 DEF DocumentScore
<1>. QED BY <1>3, <1>4, AggregateType

LEMMA BERTFacts ==
    ASSUME NEW top \in Seq(Rows), NEW docs, NEW neural \in NeuralAnswers(docs),
           ToSet(Documents(top)) \subseteq docs, docs \subseteq DOMAIN ExternalId,
           NEW method \in Aggregations
    PROVE  LET new == RerankWithBERT(top, neural, method)
           IN  /\ new \in Seq(Rows)
               /\ Len(new) = Len(top)
               /\ ToSet(Documents(new)) = ToSet(Documents(top))
               /\ Descends(new)
<1> DEFINE n == Len(top)
           score(i) == DocumentScore(top[i].doc, neural, method)
           row(i) == [top[i] EXCEPT !.score = score(i)]
           scored == [i \in 1..n |-> row(i)]
           same == [i \in 1..n |-> i]
<1>1. n \in Nat /\ DOMAIN top = 1..n
  OBVIOUS
<1>2. ASSUME NEW i \in 1..n PROVE top[i] \in Rows /\ score(i) \in Int
  <2>1. top[i].doc \in docs
    BY DocumentsOf
  <2>. QED BY <2>1, DocumentScoreType
<1>3. RerankWithBERT(top, neural, method) = Sorted(scored)
  BY <1>1 DEF RerankWithBERT
<1> HIDE DEF score
<1>4. \A i \in 1..n : row(i) \in Rows /\ row(i).doc = top[i].doc
  BY <1>2, Rescored
<1> HIDE DEF row
<1>5. scored \in Seq(Rows) /\ Len(scored) = n
  BY <1>1, <1>4
<1>6. ToSet(Documents(scored)) = ToSet(Documents(top))
  <2>1. /\ same \in [1..n -> 1..n]
        /\ \A i \in 1..n : same[i] = i
        /\ \A i \in 1..n : \E k \in 1..n : same[k] = i
    OBVIOUS
  <2>2. \A i \in 1..n : scored[i].doc = top[same[i]].doc
    BY <1>4, <2>1
  <2> HIDE DEF same, scored
  <2>. QED BY <1>5, <2>1, <2>2, LinedUp
<1> HIDE DEF scored
<1>. QED BY <1>3, <1>5, <1>6, SortedFacts

-----------------------------------------------------------------------------
(* The learned model's order: those it can look up first.                    *)
LEMMA LookedUpFirst ==
    ASSUME NEW a \in Int, NEW b \in Int, NEW c \in Int,
           NEW f \in {0, 1}, NEW g \in {0, 1}, NEW h \in {0, 1},
           NEW i \in Int, NEW j \in Int, NEW k \in Int
    PROVE  LET O(u, x, m, v, y, n) == \/ u = 0 /\ v = 1
                                      \/ u = 0 /\ v = 0 /\ x > y
                                      \/ u = 0 /\ v = 0 /\ x = y /\ m < n
                                      \/ u = 1 /\ v = 1 /\ m < n
           IN  /\ ~O(f, a, i, f, a, i)
               /\ i # j => O(f, a, i, g, b, j) \/ O(g, b, j, f, a, i)
               /\ O(f, a, i, g, b, j) /\ O(g, b, j, h, c, k) => O(f, a, i, h, c, k)
               /\ O(f, a, i, g, b, j) /\ g = 0 => a >= b
  OBVIOUS

LEMMA LtrRowFacts ==
    ASSUME NEW r \in Rows, NEW docs, NEW neural \in NeuralAnswers(docs), r.doc \in docs
    PROVE  LtrRow(r, neural) \in Rows /\ LtrRow(r, neural).doc = r.doc
                                      /\ LtrRow(r, neural).score \in Int
<1>1. neural[r.doc][1] \in Int
  <2>1. neural[r.doc] \in [1..PsgCnt -> NeuralScores]
    BY DEF NeuralAnswers
  <2>2. 1 \in 1..PsgCnt
    BY RerankAssumption
  <2>. QED BY <2>1, <2>2, RerankAssumption
<1>2. r.score \in Int
  BY DEF Rows
<1>. QED BY <1>1, <1>2, Rescored DEF LtrRow

LEMMA LtrOrderIsOne ==
    ASSUME NEW top \in Seq(Rows), NEW docs, NEW neural \in NeuralAnswers(docs),
           ToSet(Documents(top)) \subseteq docs, NEW n \in Nat, n <= Len(top)
    PROVE  /\ IsOrder(n, LtrOrder(top, neural, n))
           /\ \A i, j \in 1..n :
                 (<<i, j>> \in LtrOrder(top, neural, n) /\ top[j].doc \notin Foreign) =>
                    LtrRow(top[i], neural).score >= LtrRow(top[j], neural).score
<1> DEFINE S == 1..n
           R == LtrOrder(top, neural, n)
           score(i) == LtrRow(top[i], neural).score
           known(i) == IF top[i].doc \in Foreign THEN 1 ELSE 0
           O(u, x, m, v, y, w) == \/ u = 0 /\ v = 1
                                  \/ u = 0 /\ v = 0 /\ x > y
                                  \/ u = 0 /\ v = 0 /\ x = y /\ m < w
                                  \/ u = 1 /\ v = 1 /\ m < w
<1>1. \A i \in S : /\ i \in Int /\ known(i) \in {0, 1} /\ score(i) \in Int
                   /\ LtrRow(top[i], neural).doc = top[i].doc
  <2> TAKE i \in S
  <2>1. i \in 1..Len(top)
    OBVIOUS
  <2>2. top[i] \in Rows /\ top[i].doc \in docs
    BY <2>1, RowFacts, DocumentsOf
  <2>. QED BY <2>2, LtrRowFacts
<1>2. \A i, j \in S : <<i, j>> \in R <=> O(known(i), score(i), i, known(j), score(j), j)
  <2> TAKE i \in S, j \in S
  <2>1. <<i, j>> \in R <=>
          LET a == LtrRow(top[i], neural)
              b == LtrRow(top[j], neural)
          IN  \/ a.doc \notin Foreign /\ b.doc \in Foreign
              \/ a.doc \notin Foreign /\ b.doc \notin Foreign /\ a.score > b.score
              \/ a.doc \notin Foreign /\ b.doc \notin Foreign /\ a.score = b.score /\ i < j
              \/ a.doc \in Foreign /\ b.doc \in Foreign /\ i < j
    BY DEF LtrOrder
  <2>2. /\ known(i) = 0 <=> LtrRow(top[i], neural).doc \notin Foreign
        /\ known(i) = 1 <=> LtrRow(top[i], neural).doc \in Foreign
        /\ known(j) = 0 <=> LtrRow(top[j], neural).doc \notin Foreign
        /\ known(j) = 1 <=> LtrRow(top[j], neural).doc \in Foreign
    BY <1>1
  <2> HIDE DEF known, R
  <2>. QED BY <2>1, <2>2
<1>3. \A j \in S : top[j].doc \notin Foreign => known(j) = 0
  OBVIOUS
<1> HIDE DEF S, R, score, known
<1>4. ASSUME NEW i \in S, NEW j \in S, NEW k \in S
      PROVE  /\ ~O(known(i), score(i), i, known(i), score(i), i)
             /\ i # j => \/ O(known(i), score(i), i, known(j), score(j), j)
                         \/ O(known(j), score(j), j, known(i), score(i), i)
             /\ /\ O(known(i), score(i), i, known(j), score(j), j)
                /\ O(known(j), score(j), j, known(k), score(k), k)
                => O(known(i), score(i), i, known(k), score(k), k)
             /\ O(known(i), score(i), i, known(j), score(j), j) /\ known(j) = 0 =>
                  score(i) >= score(j)
  BY <1>1, LookedUpFirst
<1> HIDE DEF O
<1>5. \A i \in S : <<i, i>> \notin R
  BY <1>2, <1>4
<1>6. \A i, j \in S : i # j => <<i, j>> \in R \/ <<j, i>> \in R
  BY <1>2, <1>4
<1>7. \A i, j, k \in S : <<i, j>> \in R /\ <<j, k>> \in R => <<i, k>> \in R
  BY <1>2, <1>4
<1>8. \A i, j \in S : <<i, j>> \in R /\ top[j].doc \notin Foreign => score(i) >= score(j)
  BY <1>2, <1>3, <1>4
<1>. QED BY <1>5, <1>6, <1>7, <1>8 DEF IsOrder, S, R, score

LEMMA UpTo ==
    ASSUME NEW n \in Nat, NEW b \in Nat, b <= n
    PROVE  /\ \A k \in 1..n : ~(k > b) => k \in 1..b
           /\ \A k \in 1..b : k \in 1..n /\ ~(k > b)
  OBVIOUS

LEMMA LtrFacts ==
    ASSUME NEW top \in Seq(Rows), NEW docs, NEW neural \in NeuralAnswers(docs),
           ToSet(Documents(top)) \subseteq docs, NEW depth \in Nat
    PROVE  LET new == RerankWithLtr(top, neural, depth)
           IN  /\ new \in Seq(Rows)
               /\ Len(new) = Len(top)
               /\ ToSet(Documents(new)) = ToSet(Documents(top))
               /\ Len(top) <= depth /\ (\A k \in 1..Len(top) : top[k].doc \notin Foreign)
                  => Descends(new)
<1> DEFINE n == Len(top)
           bound == Min({depth, n})
           A == Arrange(bound, LtrOrder(top, neural, bound))
           from(k) == IF k > bound THEN k ELSE A[k]
           row(k) == IF k > bound THEN top[k] ELSE LtrRow(top[A[k]], neural)
           B == [k \in 1..n |-> from(k)]
           new == RerankWithLtr(top, neural, depth)
<1>1. n \in Nat /\ DOMAIN top = 1..n
  OBVIOUS
<1>2. bound \in Nat /\ bound <= n /\ (n <= depth => bound = n)
  BY <1>1, MinOfTwo
<1>3. new = [k \in 1..n |-> row(k)]
  BY <1>1 DEF RerankWithLtr
<1> HIDE DEF bound, new
<1>4. /\ A \in [1..bound -> 1..bound]
      /\ \A i \in 1..bound : \E k \in 1..bound : A[k] = i
      /\ \A k, l \in 1..bound : k < l => <<A[k], A[l]>> \in LtrOrder(top, neural, bound)
  BY <1>2, LtrOrderIsOne, ArrangeFacts
<1>5. \A i \in 1..n : top[i] \in Rows /\ LtrRow(top[i], neural) \in Rows
                                       /\ LtrRow(top[i], neural).doc = top[i].doc
  <2> TAKE i \in 1..n
  <2>1. top[i] \in Rows /\ top[i].doc \in docs
    BY RowFacts, DocumentsOf
  <2>. QED BY <2>1, LtrRowFacts
<1> HIDE DEF A
<1>50. /\ \A k \in 1..n : ~(k > bound) => k \in 1..bound
      /\ \A k \in 1..bound : k \in 1..n /\ ~(k > bound)
  BY <1>1, <1>2, UpTo
<1>6. \A k \in 1..n : from(k) \in 1..n /\ row(k) \in Rows /\ row(k).doc = top[from(k)].doc
  <2> TAKE k \in 1..n
  <2>1. CASE k > bound
    BY <1>5, <2>1
  <2>2. CASE ~(k > bound)
    <3>1. k \in 1..bound
      BY <1>50, <2>2
    <3>2. A[k] \in 1..n
      BY <1>4, <1>50, <3>1
    <3>. QED BY <1>5, <2>2, <3>2
  <2>. QED BY <2>1, <2>2
<1>7. \A i \in 1..n : \E k \in 1..n : from(k) = i
  <2> TAKE i \in 1..n
  <2>1. CASE i > bound
    BY <2>1
  <2>2. CASE ~(i > bound)
    <3>1. i \in 1..bound
      BY <1>50, <2>2
    <3>2. PICK k \in 1..bound : A[k] = i
      BY <1>4, <3>1
    <3>3. k \in 1..n /\ ~(k > bound)
      BY <1>50
    <3>. QED BY <3>2, <3>3
  <2>. QED BY <2>1, <2>2
<1>8. ASSUME NEW k \in 1..bound, NEW l \in 1..bound, k < l, top[A[l]].doc \notin Foreign
      PROVE  row(k).score >= row(l).score
  <2>1. A[k] \in 1..bound /\ A[l] \in 1..bound
        /\ <<A[k], A[l]>> \in LtrOrder(top, neural, bound)
    BY <1>4, <1>8
  <2>2. row(k) = LtrRow(top[A[k]], neural) /\ row(l) = LtrRow(top[A[l]], neural)
    BY <1>2
  <2>3. LtrRow(top[A[k]], neural).score >= LtrRow(top[A[l]], neural).score
    BY <1>2, <1>8, <2>1, LtrOrderIsOne
  <2>. QED BY <2>2, <2>3
<1> HIDE DEF from, row
<1>9. new \in Seq(Rows) /\ Len(new) = n /\ DOMAIN new = 1..n /\ \A k \in 1..n : new[k] = row(k)
  BY <1>1, <1>3, <1>6
<1>10. ToSet(Documents(new)) = ToSet(Documents(top))
  <2>1. /\ B \in [1..n -> 1..n]
        /\ \A i \in 1..n : \E k \in 1..n : B[k] = i
        /\ \A k \in 1..n : B[k] = from(k)
    BY <1>6, <1>7
  <2> HIDE DEF B
  <2>2. \A k \in 1..n : new[k].doc = top[B[k]].doc
    BY <1>6, <1>9, <2>1
  <2>. QED BY <1>9, <2>1, <2>2, LinedUp
<1>11. ASSUME n <= depth, \A k \in 1..n : top[k].doc \notin Foreign
       PROVE  Descends(new)
  <2>1. bound = n
    BY <1>2, <1>11
  <2>2. \A k, l \in 1..n : k < l => row(k).score >= row(l).score
    <3> TAKE k \in 1..n, l \in 1..n
    <3>1. k \in 1..bound /\ l \in 1..bound
      BY <2>1
    <3>2. A[l] \in 1..n
      BY <1>4, <2>1, <3>1
    <3>. QED BY <1>8, <1>11, <3>1, <3>2
  <2>. QED BY <1>9, <2>2 DEF Descends
<1>. QED BY <1>9, <1>10, <1>11 DEF new

-----------------------------------------------------------------------------
(* The merge: the rows that follow a reranked part of depth rows.            *)
LEMMA MaxOfTwo ==
    ASSUME NEW x \in Int
    PROVE  Max({0, x}) \in Int /\ Max({0, x}) >= 0 /\ Max({0, x}) >= x
<1>1. \E m \in {0, x} : \A y \in {0, x} : m >= y
  <2>1. CASE x >= 0
    BY <2>1
  <2>2. CASE x < 0
    BY <2>2
  <2> QED
    BY <2>1, <2>2
<1> QED
  BY <1>1 DEF Max

LEMMA Concatenation ==
    ASSUME NEW S, NEW s \in Seq(S), NEW t \in Seq(S)
    PROVE  /\ s \o t \in Seq(S)
           /\ Len(s \o t) = Len(s) + Len(t)
           /\ \A k \in 1..(Len(s) + Len(t)) :
                 (s \o t)[k] = IF k <= Len(s) THEN s[k] ELSE t[k - Len(s)]
  BY ConcatProperties

\* All are lowered by the same amount, or are as low as can be.
LEMMA LoweredBy ==
    ASSUME NEW old \in Seq(Rows), NEW new \in Seq(Rows),
           NEW depth \in Nat \ {0}, Len(new) = depth, Len(old) > depth
    PROVE  \E adjust \in Nat :
              /\ adjust >= (old[depth + 1].score + 1) - new[depth].score
              /\ \A r \in Rows :
                    /\ Lowered(old, new, depth, r) \in Rows
                    /\ Lowered(old, new, depth, r).doc = r.doc
                    /\ Lowered(old, new, depth, r).score =
                          IF new[depth].score = NegInf THEN NegInf ELSE r.score - adjust
<1> DEFINE last == new[depth].score
           adjust == Max({0, (old[depth + 1].score + 1) - last})
<1>1. depth \in 1..Len(new) /\ depth + 1 \in 1..Len(old)
  OBVIOUS
<1>2. last \in Int /\ old[depth + 1].score \in Int
  BY <1>1, RowFacts
<1>3. (old[depth + 1].score + 1) - last \in Int
  BY <1>2
<1>4. adjust \in Nat /\ adjust >= (old[depth + 1].score + 1) - last
  <2>1. adjust \in Int /\ adjust >= 0 /\ adjust >= (old[depth + 1].score + 1) - last
    BY <1>3, MaxOfTwo
  <2> HIDE DEF adjust
  <2>. QED BY <2>1
<1>5. \A r \in Rows : Lowered(old, new, depth, r) =
                       [r EXCEPT !.score = IF last = NegInf THEN NegInf ELSE r.score - adjust]
  BY DEF Lowered, Rows
<1> HIDE DEF adjust, last
<1>6. ASSUME NEW r \in Rows
      PROVE  /\ Lowered(old, new, depth, r) \in Rows
             /\ Lowered(old, new, depth, r).doc = r.doc
             /\ Lowered(old, new, depth, r).score =
                   IF last = NegInf THEN NegInf ELSE r.score - adjust
  <2> DEFINE s == IF last = NegInf THEN NegInf ELSE r.score - adjust
  <2>1. r.score \in Int
    BY DEF Rows
  <2>2. s \in Int
    BY <1>4, <2>1, NegInfType
  <2>3. Lowered(old, new, depth, r) = [r EXCEPT !.score = s]
    BY <1>5, Zenon
  <2> HIDE DEF s
  <2>4. /\ Lowered(old, new, depth, r) \in Rows
        /\ Lowered(old, new, depth, r).doc = r.doc
        /\ Lowered(old, new, depth, r).score = s
    BY <2>2, <2>3, Rescored
  <2>. QED BY <2>4 DEF s
<1>. QED BY <1>4, <1>6 DEF last

LEMMA LoweredRow ==
    ASSUME NEW old \in Seq(Rows), NEW new \in Seq(Rows),
           NEW depth \in Nat \ {0}, Len(new) = depth, Len(old) > depth,
           NEW i \in (depth + 1)..Len(old)
    PROVE  LET r == Lowered(old, new, depth, old[i])
           IN  /\ r \in Rows
               /\ r.doc = old[i].doc
               /\ DescendsBelow(old, depth) => r.score <= new[depth].score
<1> DEFINE last == new[depth].score
           first == old[depth + 1].score
<1>1. PICK adjust \in Nat :
         /\ adjust >= (first + 1) - last
         /\ \A r \in Rows :
               /\ Lowered(old, new, depth, r) \in Rows
               /\ Lowered(old, new, depth, r).doc = r.doc
               /\ Lowered(old, new, depth, r).score =
                     IF last = NegInf THEN NegInf ELSE r.score - adjust
  BY LoweredBy, Zenon
<1>2. depth \in 1..Len(new) /\ depth + 1 \in 1..Len(old) /\ i \in 1..Len(old)
  OBVIOUS
<1>3. last \in Int /\ first \in Int /\ old[i] \in Rows /\ old[i].score \in Int
  BY <1>2, RowFacts
<1>4. DescendsBelow(old, depth) => old[i].score <= first
  <2>1. depth + 1 \in (depth + 1)..Len(old) /\ (i = depth + 1 \/ depth + 1 < i)
    OBVIOUS
  <2>. QED BY <1>3, <2>1 DEF DescendsBelow
<1> HIDE DEF last, first
<1> DEFINE low == Lowered(old, new, depth, old[i])
<1>5. /\ low \in Rows /\ low.doc = old[i].doc
      /\ low.score = IF last = NegInf THEN NegInf ELSE old[i].score - adjust
  BY <1>1, <1>3
<1> HIDE DEF low
<1>6. old[i].score <= first => low.score <= last
  <2>1. last = NegInf => low.score <= last
    BY <1>3, <1>5
  <2>2. old[i].score <= first => old[i].score - adjust <= last
    BY <1>1, <1>3
  <2>. QED BY <1>5, <2>1, <2>2
<1>. QED BY <1>4, <1>5, <1>6 DEF last, low

\* The rows that follow keep their order.
LEMMA LoweredAlike ==
    ASSUME NEW old \in Seq(Rows), NEW new \in Seq(Rows),
           NEW depth \in Nat \ {0}, Len(new) = depth, Len(old) > depth,
           DescendsBelow(old, depth),
           NEW i \in (depth + 1)..Len(old), NEW j \in (depth + 1)..Len(old), i < j
    PROVE  Lowered(old, new, depth, old[i]).score >= Lowered(old, new, depth, old[j]).score
<1> DEFINE last == new[depth].score
<1>1. PICK adjust \in Nat :
         /\ adjust >= (old[depth + 1].score + 1) - last
         /\ \A r \in Rows :
               /\ Lowered(old, new, depth, r) \in Rows
               /\ Lowered(old, new, depth, r).doc = r.doc
               /\ Lowered(old, new, depth, r).score =
                     IF last = NegInf THEN NegInf ELSE r.score - adjust
  BY LoweredBy, Zenon
<1>2. depth \in 1..Len(new) /\ i \in 1..Len(old) /\ j \in 1..Len(old)
  OBVIOUS
<1>3. /\ last \in Int /\ old[i] \in Rows /\ old[j] \in Rows
      /\ old[i].score \in Int /\ old[j].score \in Int
  BY <1>2, RowFacts
<1>4. old[i].score >= old[j].score
  BY DEF DescendsBelow
<1> HIDE DEF last
<1>6. NegInf >= NegInf /\ old[i].score - adjust >= old[j].score - adjust
  BY <1>3, <1>4, NegInfType
<1>. QED BY <1>1, <1>3, <1>6

(* The merged ranking is as long as the one that was given, begins with what
   the reranker returned and continues with the documents that were not
   reranked, in their order.  When these descended they still do, and when what
   the reranker returned descends everything does: Reranker.py:59-64 lowers the
   scores that stay "so that reranked scores are higher".                    *)
THEOREM MergeKeepsTheRanking ==
    ASSUME NEW old \in Seq(Rows), NEW new \in Seq(Rows), NEW depth \in Nat,
           depth # 0 \/ old = << >>, Len(new) = Min({depth, Len(old)})
    PROVE  LET merged == Merge(old, new, depth)
           IN  /\ merged \in Seq(Rows)
               /\ Len(merged) = Len(old)
               /\ \A k \in 1..Len(new) : merged[k] = new[k]
               /\ \A k \in (Len(new) + 1)..Len(old) : merged[k].doc = old[k].doc
               /\ DescendsBelow(old, depth) =>
                     DescendsBelow(merged, depth) /\ (Descends(new) => Descends(merged))
<1> DEFINE merged == Merge(old, new, depth)
           Kept(m) == /\ m \in Seq(Rows)
                      /\ Len(m) = Len(old)
                      /\ \A k \in 1..Len(new) : m[k] = new[k]
                      /\ \A k \in (Len(new) + 1)..Len(old) : m[k].doc = old[k].doc
                      /\ DescendsBelow(old, depth) =>
                            DescendsBelow(m, depth) /\ (Descends(new) => Descends(m))
<1> SUFFICES Kept(merged)
  BY Zenon
<1>0. Len(old) \in Nat /\ DOMAIN old = 1..Len(old) /\ DOMAIN new = 1..Len(new)
      /\ Len(new) = IF depth <= Len(old) THEN depth ELSE Len(old)
  BY MinOfTwo
<1>1. CASE Len(old) <= depth
  <2>1. merged = new /\ Len(new) = Len(old)
    BY <1>0, <1>1 DEF Merge
  <2>2. DescendsBelow(new, depth)
    BY <1>0, <1>1, <2>1 DEF DescendsBelow
  <2>3. \A k \in (Len(new) + 1)..Len(old) : FALSE
    BY <1>0, <2>1
  <2>4. Kept(new)
    BY <2>1, <2>2, <2>3
  <2> HIDE DEF merged, Kept
  <2>. QED BY <2>1, <2>4
<1>2. CASE Len(old) > depth
  <2> DEFINE low(k) == Lowered(old, new, depth, old[k])
             rest == [i \in 1..(Len(old) - depth) |-> low(depth + i)]
  <2>0. Len(new) = depth /\ depth \in Nat \ {0}
    BY <1>0, <1>2
  <2>1. \A k \in (depth + 1)..Len(old) :
          k - depth \in 1..(Len(old) - depth) /\ depth + (k - depth) = k
    BY <1>0
  <2>2. \A i \in 1..(Len(old) - depth) : depth + i \in (depth + 1)..Len(old)
    BY <1>0
  <2>3. \A k \in (depth + 1)..Len(old) : /\ low(k) \in Rows
                                         /\ low(k).doc = old[k].doc
                                         /\ DescendsBelow(old, depth) => low(k).score <= new[depth].score
    BY <1>2, <2>0, LoweredRow
  <2>4. merged = new \o rest
    BY <1>2, <2>0 DEF Merge
  <2> HIDE DEF low, merged
  <2>5. rest \in Seq(Rows) /\ Len(rest) = Len(old) - depth
    BY <1>0, <1>2, <2>2, <2>3
  <2>6. \A k \in (depth + 1)..Len(old) : rest[k - depth] = low(k)
    BY <2>1
  <2> HIDE DEF rest
  <2>7. /\ merged \in Seq(Rows) /\ Len(merged) = Len(old)
        /\ \A k \in 1..depth : merged[k] = new[k]
        /\ \A k \in (depth + 1)..Len(old) : merged[k] = low(k)
    <3>1. /\ merged \in Seq(Rows)
          /\ Len(merged) = Len(new) + Len(rest)
          /\ \A k \in 1..(Len(new) + Len(rest)) :
                merged[k] = IF k <= Len(new) THEN new[k] ELSE rest[k - Len(new)]
      BY <2>4, <2>5, Concatenation, Zenon
    <3>2. Len(new) + Len(rest) = Len(old)
      BY <1>0, <2>0, <2>5
    <3>3. /\ \A k \in 1..depth : k \in 1..Len(old) /\ k <= depth
          /\ \A k \in (depth + 1)..Len(old) : k \in 1..Len(old) /\ ~(k <= depth)
      BY <1>0, <1>2
    <3>4. \A k \in 1..Len(old) : merged[k] = IF k <= depth THEN new[k] ELSE rest[k - depth]
      BY <2>0, <3>1, <3>2, Zenon
    <3>. QED BY <2>6, <3>1, <3>2, <3>3, <3>4
  <2>8. DOMAIN merged = 1..Len(old)
    BY <2>7
  <2>9. ASSUME DescendsBelow(old, depth)
        PROVE  DescendsBelow(merged, depth) /\ (Descends(new) => Descends(merged))
    <3>1. ASSUME NEW i \in (depth + 1)..Len(old), NEW j \in (depth + 1)..Len(old), i < j
          PROVE  merged[i].score >= merged[j].score
      <4>1. low(i).score >= low(j).score
        BY <1>2, <2>0, <2>9, <3>1, LoweredAlike DEF low
      <4>. QED BY <2>7, <4>1
    <3>2. DescendsBelow(merged, depth)
      BY <2>7, <3>1 DEF DescendsBelow
    <3>3. ASSUME Descends(new), NEW i \in 1..Len(old), NEW j \in 1..Len(old), i < j
          PROVE  merged[i].score >= merged[j].score
      <4>1. CASE j <= depth
        <5>1. i \in 1..depth /\ j \in 1..depth
          BY <1>0, <3>3, <4>1
        <5>2. new[i].score >= new[j].score
          BY <1>0, <2>0, <3>3, <5>1 DEF Descends
        <5>. QED BY <2>7, <5>1, <5>2
      <4>2. CASE i > depth
        <5>1. i \in (depth + 1)..Len(old) /\ j \in (depth + 1)..Len(old)
          BY <1>0, <3>3, <4>2
        <5>. QED BY <3>1, <3>3, <5>1
      <4>3. CASE i <= depth /\ j > depth
        <5>1. i \in 1..depth /\ j \in (depth + 1)..Len(old) /\ depth \in 1..depth
              /\ (i = depth \/ i < depth)
          BY <1>0, <2>0, <3>3, <4>3
        <5>2. new[i].score \in Int /\ new[depth].score \in Int
          BY <2>0, <5>1, RowFacts
        <5>3. new[i].score >= new[depth].score
          <6>1. CASE i = depth
            BY <5>2, <6>1
          <6>2. CASE i < depth
            BY <1>0, <2>0, <3>3, <5>1, <6>2 DEF Descends
          <6>. QED BY <5>1, <6>1, <6>2
        <5>4. low(j).score <= new[depth].score /\ low(j) \in Rows
          BY <2>3, <2>9, <5>1
        <5>5. low(j).score \in Int
          BY <5>4 DEF Rows
        <5>6. merged[i] = new[i] /\ merged[j] = low(j)
          BY <2>7, <5>1
        <5>. QED BY <5>2, <5>3, <5>4, <5>5, <5>6
      <4>. QED BY <1>0, <3>3, <4>1, <4>2, <4>3
    <3>. QED BY <2>8, <3>2, <3>3 DEF Descends
  <2>10. \A k \in (depth + 1)..Len(old) : merged[k].doc = old[k].doc
    BY <2>3, <2>7
  <2>. QED BY <2>0, <2>7, <2>9, <2>10, Zenon
<1> HIDE DEF Kept, merged
<1>. QED BY <1>0, <1>1, <1>2

-----------------------------------------------------------------------------
(* The reranked head of a ranking.                                           *)
LEMMA HeadOf ==
    ASSUME NEW r \in Seq(Rows), NEW n \in 0..Len(r)
    PROVE  /\ SubSeq(r, 1, n) \in Seq(Rows)
           /\ Len(SubSeq(r, 1, n)) = n
           /\ \A k \in 1..n : SubSeq(r, 1, n)[k] = r[k]
  OBVIOUS

LEMMA TopFacts ==
    ASSUME NEW r \in Seq(Rows), NEW depth \in Nat
    PROVE  LET cut == Min({depth, Len(r)})
           IN  /\ cut \in 0..Len(r) /\ cut <= depth /\ (cut = 0 => depth = 0 \/ r = << >>)
               /\ Top(r, depth) \in Seq(Rows)
               /\ Len(Top(r, depth)) = cut
               /\ \A k \in 1..cut : Top(r, depth)[k] = r[k]
<1> DEFINE cut == Min({depth, Len(r)})
<1>1. cut = IF depth <= Len(r) THEN depth ELSE Len(r)
  BY MinOfTwo
<1>2. cut \in 0..Len(r) /\ cut <= depth /\ (cut = 0 => depth = 0 \/ r = << >>)
  BY <1>1
<1>3. Top(r, depth) = SubSeq(r, 1, cut)
  BY DEF Top
<1> HIDE DEF cut
<1>4. /\ Top(r, depth) \in Seq(Rows)
      /\ Len(Top(r, depth)) = cut
      /\ \A k \in 1..cut : Top(r, depth)[k] = r[k]
  BY <1>2, <1>3, HeadOf
<1>. QED BY <1>2, <1>4 DEF cut

\* The documents of a part of a ranking are those of its rows.
LEMMA HeadDocuments ==
    ASSUME NEW r \in Seq(Rows), NEW n \in 0..Len(r), NEW x
    PROVE  x \in ToSet(SubSeq(Documents(r), 1, n)) <=> \E k \in 1..n : r[k].doc = x
<1> DEFINE D == [k \in 1..Len(r) |-> r[k].doc]
<1>1. \A k \in 1..Len(r) : r[k].doc \in DOMAIN ExternalId
  BY RowFacts
<1>2. Documents(r) = D
  BY DEF Documents
<1>3. D \in Seq(DOMAIN ExternalId) /\ Len(D) = Len(r) /\ \A k \in 1..Len(r) : D[k] = r[k].doc
  BY <1>1
<1> HIDE DEF D
<1>4. DOMAIN SubSeq(D, 1, n) = 1..n /\ \A k \in 1..n : SubSeq(D, 1, n)[k] = D[k]
  BY <1>3
<1>5. \A k \in 1..n : D[k] = r[k].doc
  BY <1>3
<1>6. x \in ToSet(SubSeq(D, 1, n)) <=> \E k \in DOMAIN SubSeq(D, 1, n) : x = SubSeq(D, 1, n)[k]
  BY Zenon DEF ToSet
<1>7. x \in ToSet(SubSeq(D, 1, n)) <=> \E k \in 1..n : r[k].doc = x
  BY <1>4, <1>5, <1>6, Zenon
<1>. QED BY <1>2, <1>7

RankingInv == ranking \in Seq(Rows) /\ conf.depth \in Nat \X Nat

LEMMA RerankedHeadFacts ==
    ASSUME RankingInv, RerankTask,
           NEW neural \in NeuralAnswers(ToSet(Documents(ranking)))
    PROVE  LET new == RerankedHead(neural)
           IN  /\ new \in Seq(Rows)
               /\ Len(new) = Min({Depth1, Len(ranking)})
               /\ ToSet(Documents(new)) = ToSet(Documents(Top(ranking, Depth1)))
               /\ FullyScored => Descends(new)
<1> DEFINE docs == ToSet(Documents(ranking))
           top == Top(ranking, Depth1)
           new == RerankedHead(neural)
           cut == Min({Depth1, Len(ranking)})
<1>1. ranking \in Seq(Rows) /\ Depth1 \in Nat /\ conf.depth[2] \in Nat
  BY DEF RankingInv, Depth1
<1>2. /\ cut \in 0..Len(ranking) /\ cut <= Depth1 
      /\ top \in Seq(Rows) /\ Len(top) = cut
      /\ \A k \in 1..cut : top[k] = ranking[k]
  BY <1>1, TopFacts
<1>3. docs \subseteq DOMAIN ExternalId
  BY <1>1, DocumentsOf, RowFacts
<1> HIDE DEF docs, top, cut
<1>4. \A k \in 1..cut : k \in 1..Len(ranking) /\ top[k].doc = ranking[k].doc
  BY <1>1, <1>2
<1>5. \A k \in 1..cut : top[k].doc \in docs
  BY <1>1, <1>4, DocumentsOf DEF docs
<1>6. ToSet(Documents(top)) \subseteq docs
  BY <1>2, <1>5, DocumentsOf
<1>7. neural \in NeuralAnswers(docs)
  BY DEF docs
<1>8. CASE Head(tasks) = "ltr"
  <2>1. new = RerankWithLtr(top, neural, conf.depth[2])
    BY <1>8 DEF RerankedHead, top
  <2>2. /\ new \in Seq(Rows) /\ Len(new) = Len(top)
        /\ ToSet(Documents(new)) = ToSet(Documents(top))
        /\ Len(top) <= conf.depth[2] /\ (\A k \in 1..Len(top) : top[k].doc \notin Foreign)
           => Descends(new)
    BY <1>1, <1>2, <1>6, <1>7, <2>1, LtrFacts
  <2>3. FullyScored => Len(top) <= conf.depth[2] /\ \A k \in 1..Len(top) : top[k].doc \notin Foreign
    <3> SUFFICES ASSUME FullyScored
                 PROVE  Len(top) <= conf.depth[2]
                        /\ \A k \in 1..Len(top) : top[k].doc \notin Foreign
      OBVIOUS
    <3>1. Depth1 = conf.depth[2] /\ Foreign \cap ToSet(Documents(top)) = {}
      BY <1>8 DEF FullyScored, top
    <3>2. \A k \in 1..cut : top[k].doc \in ToSet(Documents(top))
      BY <1>2, DocumentsOf
    <3>. QED BY <1>2, <3>1, <3>2
  <2>. QED BY <1>2, <2>2, <2>3 DEF top, cut, new
<1>9. CASE Head(tasks) # "ltr"
  <2>1. new = RerankWithBERT(top, neural, Head(tasks))
    BY <1>9 DEF RerankedHead, top
  <2>2. Head(tasks) \in Aggregations
    BY <1>9 DEF RerankTask, Rerankers
  <2>3. /\ new \in Seq(Rows) /\ Len(new) = Len(top)
        /\ ToSet(Documents(new)) = ToSet(Documents(top)) /\ Descends(new)
    BY <1>2, <1>3, <1>6, <1>7, <2>1, <2>2, BERTFacts
  <2>. QED BY <1>2, <2>3 DEF top, cut, new
<1>. QED BY <1>8, <1>9

-----------------------------------------------------------------------------
(* The steps of the pipeline.                                                *)
LEMMA RerankStep ==
    ASSUME RankingInv, Rerank
    PROVE  ranking' \in Seq(Rows) /\ RerankingStep
<1> DEFINE cut == Min({Depth1, Len(ranking)})
<1>1. ranking \in Seq(Rows) /\ Depth1 \in Nat /\ RerankTask
  BY DEF RankingInv, Depth1, Rerank
<1>2. PICK neural \in NeuralAnswers(ToSet(Documents(ranking))) :
         ranking' = Merge(ranking, RerankedHead(neural), Depth1)
  BY DEF Rerank, NeuralAnswers
<1> DEFINE new == RerankedHead(neural)
<1>3. /\ new \in Seq(Rows) /\ Len(new) = cut
      /\ ToSet(Documents(new)) = ToSet(Documents(Top(ranking, Depth1)))
      /\ FullyScored => Descends(new)
  BY <1>1, RerankedHeadFacts
<1>4. /\ cut \in 0..Len(ranking) /\ (cut = 0 => Depth1 = 0 \/ ranking = << >>)
      /\ Top(ranking, Depth1) \in Seq(Rows) /\ Len(Top(ranking, Depth1)) = cut
      /\ \A k \in 1..cut : Top(ranking, Depth1)[k] = ranking[k]
  BY <1>1, TopFacts
<1> HIDE DEF new
<1>5. Depth1 # 0 \/ ranking = << >>
  <2>1. Top(ranking, Depth1) # << >> \/ ranking = << >>
    BY DEF Rerank, NoneReranked
  <2>2. Depth1 = 0 => Top(ranking, Depth1) = << >>
    <3>1. Depth1 = 0 => cut = 0
      BY <1>1, MinOfTwo
    <3> HIDE DEF cut
    <3>. QED BY <1>4, <3>1
  <2>. QED BY <2>1, <2>2
<1>6. /\ ranking' \in Seq(Rows)
      /\ Len(ranking') = Len(ranking)
      /\ \A k \in 1..cut : ranking'[k] = new[k]
      /\ \A k \in (cut + 1)..Len(ranking) : ranking'[k].doc = ranking[k].doc
      /\ DescendsBelow(ranking, Depth1) =>
            DescendsBelow(ranking', Depth1) /\ (Descends(new) => Descends(ranking'))
  <2>1. Len(new) = Min({Depth1, Len(ranking)})
    BY <1>3
  <2>2. ranking' = Merge(ranking, new, Depth1)
    BY <1>2 DEF new
  <2> HIDE DEF cut
  <2>3. /\ ranking' \in Seq(Rows)
        /\ Len(ranking') = Len(ranking)
        /\ \A k \in 1..Len(new) : ranking'[k] = new[k]
        /\ \A k \in (Len(new) + 1)..Len(ranking) : ranking'[k].doc = ranking[k].doc
        /\ DescendsBelow(ranking, Depth1) =>
              DescendsBelow(ranking', Depth1) /\ (Descends(new) => Descends(ranking'))
    BY <1>1, <1>3, <1>5, <2>1, <2>2, MergeKeepsTheRanking, Zenon
  <2>. QED BY <1>3, <2>3
<1> HIDE DEF cut
<1>7. ToSet(SubSeq(Documents(ranking'), 1, cut)) = ToSet(SubSeq(Documents(ranking), 1, cut))
  <2>1. \A x : x \in ToSet(SubSeq(Documents(ranking'), 1, cut)) <=> \E k \in 1..cut : new[k].doc = x
    <3>1. cut \in 0..Len(ranking')
      BY <1>4, <1>6
    <3>2. \A x : x \in ToSet(SubSeq(Documents(ranking'), 1, cut)) <=>
                 \E k \in 1..cut : ranking'[k].doc = x
      BY <1>6, <3>1, HeadDocuments, Zenon
    <3>. QED BY <1>6, <3>2, Zenon
  <2>2. \A x : x \in ToSet(SubSeq(Documents(ranking), 1, cut)) <=> \E k \in 1..cut : ranking[k].doc = x
    BY <1>1, <1>4, HeadDocuments, Zenon
  <2>3. \A x : x \in ToSet(Documents(new)) <=> \E k \in 1..cut : new[k].doc = x
    BY <1>3, DocumentsOf
  <2>4. \A x : x \in ToSet(Documents(Top(ranking, Depth1))) <=> \E k \in 1..cut : ranking[k].doc = x
    <3>1. \A x : x \in ToSet(Documents(Top(ranking, Depth1))) <=>
                 \E k \in 1..cut : Top(ranking, Depth1)[k].doc = x
      BY <1>4, DocumentsOf
    <3>. QED BY <1>4, <3>1, Zenon
  <2>5. \A x : x \in ToSet(SubSeq(Documents(ranking'), 1, cut)) <=>
               x \in ToSet(SubSeq(Documents(ranking), 1, cut))
    BY <1>3, <2>1, <2>2, <2>3, <2>4, Zenon
  <2>. QED BY <2>5, Zenon
<1>8. RerankingStep
  BY <1>3, <1>6, <1>7 DEF RerankingStep, cut
<1>. QED BY <1>6, <1>8

LEMMA OtherTaskStep ==
    ASSUME RankingInv, OtherTask
    PROVE  ranking' \in Seq(Rows) /\ RerankingStep
<1>1. ranking' \in Seq(Rows)
  BY DEF RankingInv, OtherTask
<1>2. ~RerankTask
  BY DEF OtherTask, RerankTask
<1>. QED BY <1>1, <1>2 DEF RerankingStep

LEMMA StandingStep ==
    ASSUME UNCHANGED rerankVars
    PROVE  RerankingStep
  BY DEF rerankVars, RerankingStep

(* Whatever the tasks of a configuration, its rankings and its depths, and
   whatever the models answer: a reranker keeps the documents, reorders only
   those above the rerank depth and leaves a ranking that descends when the
   rows below the depth did and all above it are scored (Reranker.py:50-72).  *)
THEOREM RerankersKeepTheRanking == RerankSpec => RerankingKeepsTheRanking
<1>1. RerankInit => RankingInv
  BY DEF RerankInit, RankingInv
<1>2. RankingInv /\ [Rerank \/ OtherTask]_rerankVars => RankingInv' /\ RerankingStep
  <2> SUFFICES ASSUME RankingInv, [Rerank \/ OtherTask]_rerankVars
               PROVE  RankingInv' /\ RerankingStep
    OBVIOUS
  <2>1. CASE Rerank
    <3>1. conf' = conf
      BY <2>1 DEF Rerank
    <3>. QED BY <2>1, <3>1, RerankStep DEF RankingInv
  <2>2. CASE OtherTask
    <3>1. conf' = conf
      BY <2>2 DEF OtherTask
    <3>. QED BY <2>2, <3>1, OtherTaskStep DEF RankingInv
  <2>3. CASE UNCHANGED rerankVars
    <3>1. RankingInv'
      BY <2>3 DEF rerankVars, RankingInv
    <3>. QED BY <2>3, <3>1, StandingStep
  <2>. QED BY <2>1, <2>2, <2>3
<1>. QED BY <1>1, <1>2, PTL DEF RerankSpec, RerankingKeepsTheRanking
=============================================================================
