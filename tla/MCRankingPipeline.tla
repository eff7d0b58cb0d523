-------------------------- MODULE MCRankingPipeline --------------------------
(* A collection of three documents for RankingPipeline.  Terms a, b and c occur
   in its bodies and a in a title; "the" is a stopword, "a-b" two terms.    *)
EXTENDS RankingPipeline

MCIndex ==
    (<<"a", "body">>  :> <<DocPosting(1, <<1, 4>>), DocPosting(2, <<2>>),
                           DocPosting(3, <<1, 2>>)>>) @@
    (<<"b", "body">>  :> <<DocPosting(1, <<2, 3>>), DocPosting(3, <<3, 4>>)>>) @@
    (<<"c", "body">>  :> <<DocPosting(2, <<1>>), DocPosting(3, <<5>>)>>) @@
    (<<"a", "title">> :> <<DocPosting(2, <<1>>)>>)

MCStems ==
    ("and" :> <<>>) @@ ("or" :> <<>>) @@
    [word \in {"a", "b", "c", "number"} \cup Iops \cup Sops |-> <<word>>]
        @@ ("the" :> <<>>) @@ ("a-b" :> <<"a", "b">>)

\* Not the order of the internal ids; document 4 is of another collection.
MCExternalId == (Nonexistent :> 5) @@ (1 :> 3) @@ (2 :> 1) @@ (3 :> 2) @@ (4 :> 4)
MCForeign == {Nonexistent, 4}

Line(d, score) == [doc |-> d, score |-> score]
MCTermRank == [word \in {"a", "b", "c"} |-> CASE word = "a" -> 1 [] word = "b" -> 2 [] OTHER -> 3]

W(word) == <<Word(word, "body")>>
Near(dist, s) == <<Op("near", dist), Open>> \o s \o <<Close>>
Window(dist, s) == <<Op("window", dist), Open>> \o s \o <<Close>>
Weighted(k, s) == <<Number(k)>> \o s

a == W("a")
b == W("b")
c == W("c")
the == W("the")

\* Arguments on positions, and of them the ones that vanish or fail.
Positional ==
    {a, b, <<Word("a", "title")>>, the, W("a-b"),
     Near(1, a \o b), Near(2, b \o a), Near(1, a \o Near(2, b \o c)),
     Window(2, a \o b), Window(3, Near(1, a \o b) \o c), Window(4, a \o a),
     Call("syn", b \o c), Near(1, Call("syn", c \o a) \o b), Near(1, the \o the),
     Window(0, a \o b), Call("syn", a \o <<Word("a", "title")>>)}

\* Operators on scores, over each of those and nested in each other.
BestMatch ==
    {Call("sum", p \o q) : p \in Positional, q \in Positional} \cup
    {Call("wsum", Weighted(2, p) \o Weighted(1, c)) : p \in Positional} \cup
    {Call("wsum", Weighted(1, Call("sum", a \o b)) \o Weighted(3, Call("sum", c))),
     Call("sum", a \o b \o a), Call("sum", Call("sum", a \o a) \o b),
     Call("wsum", Weighted(2, Call("wsum", Weighted(1, a) \o Weighted(1, b))) \o Weighted(1, b)),
     Call("score", a \o b), Call("and", a \o b), Call("sum", Call("score", b))}

Boolean ==
    {Call("and", p \o q) : p \in Positional, q \in Positional \cup {Call("or", c \o a)}} \cup
    {Call("or", Call("and", p \o b) \o Call("and", c \o a)) : p \in Positional} \cup
    {Call("and", Call("or", a \o c) \o Call("or", b \o c)), Call("or", a \o Call("sum", b \o c)),
     Call("and", Call("or", a \o Call("and", b \o c)) \o c),
     Call("or", Call("and", Call("or", a \o c) \o b) \o Call("and", c \o a)),
     Call("and", Call("or", Call("and", a \o b) \o Call("and", b \o a)) \o Call("and", b \o c) \o a),
     Call("or", Call("and", Call("and", c \o a) \o b \o a) \o b)}

Malformed ==
    {<<>>, the, a \o b, a \o <<Open>> \o b, <<Op("and", NoDistance)>> \o a,
     <<Op("and", NoDistance), Open, Close, Open, Close>>, <<Op("and", NoDistance), Close, Open>>,
     Call("near", a), Near(1, Call("and", a \o b)), Call("wsum", a), Call("wsum", Weighted(1, <<>>)),
     Call("and", <<Open>> \o a \o <<Close>> \o b),
     Call("and", <<Op("or", NoDistance)>> \o a \o <<Close, Open>>),
     Call("wsum", Weighted(1, a) \o <<Open>>)}

AllModels == {"UnrankedBoolean", "RankedBoolean", "BM25"}

\* rerankDepth given; zero; and left to the two defaults, 1000 and 100.
Depths == {<<2, 2>>, <<0, 0>>, <<3, 1>>}

\* Indexes in which all terms are in too many documents, b and c in half of them, ...
Sizes == {3, 4, 5, 7}

SizedJobs(queries, models, taskLists, depths, sizes) ==
    [query : queries, model : models, tasks : taskLists, depth : depths, size : sizes,
     runFile : {<<>>}]

JobsOf(queries, models, taskLists, depths) ==
    SizedJobs(queries, models, taskLists, depths, {3})

\* Runs of this collection and of another one, and no lines for the query.
RunFiles == {<<>>, <<Line(3, 50), Line(4, 40), Line(1, 40), Line(2, -3)>>,
             <<Line(4, 9), Line(2, 8)>>, <<Line(2, 8), Line(1, 0), Line(3, -7)>>}

StoredRuns ==
    [query : {a}, model : {"BM25"}, depth : Depths, size : {5}, runFile : RunFiles,
     tasks : {<<"inRankFile", task>> : task \in {"firstp", "avgp", "maxp", "ltr"}} \cup
             {<<"inRankFile", "maxp", "ltr">>, <<"inRankFile", "rm3", "rank">>}]

MCJobs ==
    JobsOf(BestMatch \cup Boolean \cup Malformed, AllModels, {<<"rank">>}, {<<2, 2>>}) \cup
    SizedJobs({a \o b, a \o a \o c, W("a-b") \o the, the, Call("sum", Near(1, a \o b) \o c)},
              {"BM25"}, {<<"rank", task, "rank">> : task \in Rewriters}, {<<2, 2>>}, Sizes) \cup
    SizedJobs({a \o b, Call("wsum", Weighted(2, a) \o Weighted(1, c))}, {"BM25"},
              {<<"rank", task, "ltr">> : task \in Rewriters}, {<<2, 2>>}, {4, 7}) \cup
    JobsOf({a \o b, b \o c}, {"BM25"},
           {<<"rank", task>> : task \in {"firstp", "avgp", "maxp", "ltr"}}, Depths) \cup
    SizedJobs({a}, {"BM25"}, {<<"dense", task>> : task \in {"avgp", "ltr"}} \cup
                             {<<"dense", "rm3", "rank">>}, Depths, {5}) \cup
    JobsOf({a, Near(1, c \o a), Near(1, c \o b), Call("sum", <<Word("b", "title")>>)}, {"BM25"},
           {<<"rank", "trec_eval", "inRankFile", task>> : task \in {"maxp", "ltr"}},
           {<<2, 2>>, <<3, 1>>}) \cup
    StoredRuns

\* A NEAR that vanishes with its stopwords, before two weighted terms.
VanishingJobs ==
    JobsOf({Call("wsum", Weighted(1, Near(1, the \o the)) \o Weighted(3, a) \o Weighted(2, b))},
           {"BM25"}, {<<"rank">>}, {<<2, 2>>})

MCBodyLength == <<0, 2, 5>>
MCTitleLength == <<0, 1, 1>>
MCNeural == {-20, 10}
=============================================================================
