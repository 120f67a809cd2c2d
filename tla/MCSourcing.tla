----------------------------- MODULE MCSourcing -----------------------------
EXTENDS Sourcing

MCNoId == <<>>

File(suffix, inlined, size, says) ==
    [dir |-> FALSE, suffix |-> suffix, inlined |-> inlined, size |-> size, width |-> 1, says |-> says]

Directory == [File("", FALSE, 0, "") EXCEPT !.dir = TRUE]

Word(name, code, words) == [name |-> name, code |-> code, words |-> words]

Fruit == <<"apple", "large", "big", "stone", "river">>

(* A pair, two codes that are no pair or repeat a word, a question nobody  *)
(* answered, and another pair.                                             *)
CodebookLines ==
    << Word("1", 6, Fruit), Word("2", 7, Fruit), Word("3", 3, <<"a", "a", "b", "c", "d">>),
       Word("4", 24, <<"one", "two", "three", "end", "stop">>), Word("5", 3, Fruit) >>

Answered == [header |-> <<"", "1", "4">>, rows |-> << <<0, 6, 24>>, <<0, 6, -1>>, <<0, 3>>, <<0, 6, 3>> >>]

Viqt_ == [id |-> "viqt", redist |-> "yes", method |-> "direct-download",
          urls |-> << [kind |-> "html", files |-> <<>>],
                      [kind |-> "zip", files |-> << Directory, File("codebook.txt", TRUE, 5, CodebookLines),
                                                    File(".csv", TRUE, 9, Answered), Directory >>],
                      [kind |-> "json", files |-> << File(".json", TRUE, 3, "") >>] >>]

Label(q, a, t) == [q |-> q, a |-> a, text |-> t]

Quiz(code, configs) ==
    [code |-> code, titles |-> << [q |-> "9", text |-> "stem"], [q |-> "8", text |-> ""], [q |-> "9", text |-> "Stem"] >>,
     answers |-> << Label("9", "a1", "w"), Label("8", "a5", "w"), Label("9", "a2", "x"), Label("9", "a3", ""),
                    Label("9", "a4", "y"), Label("9", "a6", "z") >>,
     configs |-> configs]

Config(correct) == [questions |-> {"8", "9"}, correct |-> correct]

Page(says) == [kind |-> "html", files |-> << File("", TRUE, 4, says) >>]

Asvab_ == [id |-> "asvab", redist |-> "no", method |-> "scrape-html",
           urls |-> << Page(Quiz("GS", <<>>)), Page(Quiz("AR", <<>>)),
                       Page(Quiz("WK", << [questions |-> {}, correct |-> {}], Config({<<"9", "a4">>, <<"8", "a5">>}) >>)) >>]

Text_(size) == [File("", TRUE, size, "") EXCEPT !.width = 3]

Prose == [id |-> "prose", redist |-> "conditional", method |-> "api",
          urls |-> << [kind |-> "json", files |-> << Text_(4) >>], [kind |-> "html", files |-> <<>>],
                      [kind |-> "json-query", files |-> << Text_(6) >>] >>]

(* The same by plain download, as the command line can fetch it.           *)
Essay == [Prose EXCEPT !.id = "essay", !.method = "direct-download"]

Generate(type, seed) ==
    [kind |-> "generate", type |-> type, difficulty |-> 3, seed |-> seed, count |-> 1, limit |-> 0]

Figural(ref) ==
    [id |-> <<"hand", "1">>, source |-> "author", origin |-> "authored", redist |-> "yes", type |-> "A1", band |-> 1,
     stimulus |-> << PlainText("why"), [text |-> "", kind |-> "figure", ref |-> ref] >>,
     format |-> "true-false-cannotsay", options |-> <<>>, key |-> [BlankKey EXCEPT !.verdict = "true"]]

Extract(source, type, model, limit) ==
    [kind |-> "extract", source |-> source, type |-> type, model |-> model, tokens |-> 0, limit |-> limit]

MCRequests ==
    [viqt    |-> [kind |-> "ingest", source |-> Viqt_, limit |-> 0],
     viqt2   |-> [kind |-> "ingest", source |-> Viqt_, limit |-> 2],
     viqt1   |-> [kind |-> "ingest", source |-> Viqt_, limit |-> 1],
     asvab   |-> [kind |-> "ingest", source |-> Asvab_, limit |-> 0],
     asvab2  |-> [kind |-> "ingest", source |-> Asvab_, limit |-> 2],
     other   |-> [kind |-> "ingest", source |-> Prose, limit |-> 0],
     prose   |-> Extract(Prose, "C1", "m", 0),
     prose1  |-> [Extract(Prose, "C1", "m", 1) EXCEPT !.tokens = 9],
     essay   |-> Extract(Essay, "C1", "m", 0),
     essay_n |-> Extract(Essay, "C1", "n", 0),
     nomodel |-> Extract(Prose, "C1", "n", 0),
     notext  |-> Extract([Prose EXCEPT !.method = "generate"], "C1", "m", 0),
     series  |-> Generate("A1", 1),
     series2 |-> Generate("A1", 2),
     level2  |-> [Generate("A1", 1) EXCEPT !.difficulty = 2],
     level5  |-> [Generate("A1", 1) EXCEPT !.difficulty = 5],
     odd     |-> Generate("A4", 1),
     none    |-> Generate("B1", 1),
     hand    |-> [kind |-> "author", spec |-> Figural(DataUri("picture")), limit |-> 0],
     link    |-> [kind |-> "author", spec |-> Figural(OutsideUrl("picture")), limit |-> 0],
     bad     |-> [kind |-> "author", spec |-> [Figural(DataUri("picture")) EXCEPT !.stimulus = <<>>], limit |-> 0]]

Cand(stem, answer, difficulty) ==
    [stem |-> stem, options |-> <<"p", "q", "r", "s">>, answer |-> answer, difficulty |-> difficulty]

Answer(status, json, choices) == [status |-> status, json |-> json, choices |-> choices]
Choice(items) == << [present |-> TRUE, content |-> [json |-> TRUE, items |-> items]] >>

(* The same question twice, one with a key of no option, one of too few.   *)
MCBackend ==
    {Answer(200, TRUE, Choice(<<Cand("s1", 0, 2), Cand("s1", 1, 2), Cand("s2", 3, 9), Cand("s3", 4, 1)>>)),
     Answer(200, TRUE, Choice(<<Cand("s2", 1, 1)>>)),
     Answer(200, TRUE, Choice(<<Cand("s3", 7, 1)>>)),
     Answer(200, TRUE, Choice(<<>>)),
     Answer(429, TRUE, <<>>), Answer(200, TRUE, <<>>)}

Draw(shape, wrong, at) ==
    [shape |-> shape, asym |-> 1, fill |-> TRUE, rows |-> <<1, 2, 3>>, wrong |-> wrong, at |-> at,
     count |-> 2, other |-> 3, decoy |-> 4, turn |-> 2]

MCStreams ==
    << << Draw(1, <<1, 2, 3, 4>>, 2), Draw(2, <<4, 3, 2, 1>>, 5) >>,
       << Draw(1, <<7, 2, 9, 4>>, 1), Draw(2, <<4, 3, 2, 1>>, 5) >> >>

MediaIn(specs) == UNION {{p.ref : p \in Range(s.stimulus) \cup Range(s.options)} : s \in Range(specs)}

PutRefs ==
    {ContentRef(ref) : ref \in {DataUri("picture")} \cup
        UNION {MediaIn(Generated(MCRequests[r], MCStreams[MCRequests[r].seed])) :
                    r \in {"series", "series2", "level2", "level5", "odd"}}}

(* By a name of its own, TLC evaluates the set once.                       *)
MCRefs == PutRefs

MCProcessOf == [server1 |-> "server", server2 |-> "server", cli |-> "cli"]

MCMayAsk == [server1 |-> DOMAIN MCRequests, server2 |-> {"hand"}, cli |-> {"prose", "essay", "essay_n", "viqt", "level2"}]
=============================================================================
