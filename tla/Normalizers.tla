---------------------------- MODULE Normalizers -----------------------------
(***************************************************************************)
(* app/ingest: from what a fetcher brought to item specs. Pure. A raw item *)
(* has the suffix of its name, whether its text is inlined, how long the   *)
(* text is, and what it says when it is a codebook, a table of responses   *)
(* or a quiz page; the regular expressions that read a page are outside.   *)
(*                                                                         *)
(* An operator named ...Bug is a plausible slip in the one it precedes,    *)
(* used only to show which property notices.                               *)
(***************************************************************************)
EXTENDS Items, Lists, SequencesExt

CONSTANT PayloadCap    \* maxPayloadChars

PlainText(t) == [text |-> t, kind |-> "", ref |-> NoMedia]
PlainOption(id, t) == [id |-> id, text |-> t, kind |-> "", ref |-> NoMedia]

ChoiceSpec(id, source, origin, type, stem, options, key, band) ==
    [id |-> id, source |-> source.id, origin |-> origin, redist |-> source.redist, type |-> type,
     band |-> band, stimulus |-> <<PlainText(stem)>>, format |-> "multiple-choice",
     options |-> options, key |-> [BlankKey EXCEPT !.option = key]]

NoSpecs(err)   == [err |-> err, specs |-> <<>>]
SomeSpecs(seq) == [err |-> "", specs |-> seq]

Distinct(seq) == IsInjective(seq)

-----------------------------------------------------------------------------
(* VIQT: a codebook of five-word questions, each asked once, and what the  *)
(* takers answered.                                                        *)

(* The mask of two of five words, as their places.                         *)
PairOfBug(code) ==
    CASE code = 3 -> {1, 2} [] code = 6 -> {1, 3} [] code = 12 -> {3, 4} [] OTHER -> {}

PairOf(code) ==
    CASE code = 3  -> {1, 2} [] code = 5  -> {1, 3} [] code = 6  -> {2, 3} [] code = 9  -> {1, 4}
      [] code = 10 -> {2, 4} [] code = 12 -> {3, 4} [] code = 17 -> {1, 5} [] code = 18 -> {2, 5}
      [] code = 20 -> {3, 5} [] code = 24 -> {4, 5} [] OTHER -> {}

(* The places of the questions that can be keyed. *)
Codebook(lines) ==
    {n \in DOMAIN lines :
        PairOf(lines[n].code) # {} /\ Len(lines[n].words) = 5 /\ Distinct(lines[n].words)}

(* The last of the columns that carry a question's name.                   *)
ColumnsOf(header, q) == {c \in DOMAIN header : header[c] = q}

(* A field that is missing or no integer is no response.                   *)
NotAnInteger == -1

Responses(table, q) ==
    LET column == Max(ColumnsOf(table.header, q))
    IN  {r \in DOMAIN table.rows :
            column \in DOMAIN table.rows[r] /\ table.rows[r][column] # NotAnInteger}

Right(table, q) ==
    {r \in Responses(table, q.name) : table.rows[r][Max(ColumnsOf(table.header, q.name))] = q.code}

HasResponses(table, q) == ColumnsOf(table.header, q) # {} /\ Responses(table, q) # {}

(* In fifths of the takers who got it right.                               *)
ViqtBand(right, all) ==
    IF 5 * right >= 4 * all THEN 1
    ELSE IF 5 * right >= 3 * all THEN 2
    ELSE IF 5 * right >= 2 * all THEN 3
    ELSE IF 5 * right >= all THEN 4 ELSE 5

Places == <<"o0", "o1", "o2", "o3", "o4">>

ViqtSpec(source, q, band) ==
    LET first == Min(PairOf(q.code))
        others == Picked(<<1, 2, 3, 4, 5>>, 1..5 \ {first})
    IN  ChoiceSpec(<<source.id, q.name>>, source, "fetched", "C3", q.words[first],
                   [k \in 1..4 |-> PlainOption(Places[others[k]], q.words[others[k]])],
                   Places[Max(PairOf(q.code))], band)

(* rawContent: the first inlined artifact with the suffix.                 *)
Artifacts(raw, suffix) == {n \in DOMAIN raw : raw[n].suffix = suffix /\ raw[n].inlined}

ContentOf(raw, suffix) == raw[Min(Artifacts(raw, suffix))].says

Book(raw)  == ContentOf(raw, "codebook.txt")
Table(raw) == ContentOf(raw, ".csv")

(* The places in the codebook of the questions that somebody answered.     *)
Usable(raw) == {n \in Codebook(Book(raw)) : HasResponses(Table(raw), Book(raw)[n].name)}

Viqt(source, raw) ==
    LET band(q) == ViqtBand(Cardinality(Right(Table(raw), q)), Cardinality(Responses(Table(raw), q.name)))
        usable  == Picked(Book(raw), Usable(raw))
    IN  IF Artifacts(raw, "codebook.txt") = {} \/ Artifacts(raw, ".csv") = {} \/ Usable(raw) = {}
        THEN NoSpecs("viqt data")
        ELSE SomeSpecs([k \in DOMAIN usable |-> ViqtSpec(source, usable[k], band(usable[k]))])

-----------------------------------------------------------------------------
(* ASVAB: quiz pages, each with its subtest, its questions and answers in  *)
(* document order, and the configurations found in it that say which       *)
(* answers are correct.                                                    *)

SubtestType == [WK |-> "C3", PC |-> "C1", AR |-> "B2", MK |-> "B2"]
AsvabBand   == 3

(* A repeated question keeps its place and takes the later title.          *)
FirstAsked(page) ==
    {k \in DOMAIN page.titles : \A j \in 1..k-1 : page.titles[j].q # page.titles[k].q}

TitleOf(page, q) == page.titles[Max({k \in DOMAIN page.titles : page.titles[k].q = q})].text

AnswerKeys(page) == {k \in DOMAIN page.configs : page.configs[k].questions # {}}

(* Of several flagged, the last.                                           *)
CorrectOption(page, q, opts) ==
    LET answerKey == page.configs[Min(AnswerKeys(page))]
        flagged   == {k \in DOMAIN opts : <<q, opts[k].id>> \in answerKey.correct}
    IN  IF flagged = {} THEN "" ELSE opts[Max(flagged)].id

AsvabOptions(page, q) ==
    LET labelled == Picked(page.answers,
                           {k \in DOMAIN page.answers : page.answers[k].q = q /\ page.answers[k].text # ""})
    IN  [k \in DOMAIN labelled |-> PlainOption(labelled[k].a, labelled[k].text)]

(* A question the text cannot carry, or with options that read the same,   *)
(* is left out.                                                            *)
Askable(page, q) ==
    LET opts == AsvabOptions(page, q)
    IN  /\ Len(opts) \in 4..6
        /\ CorrectOption(page, q, opts) # ""
        /\ TitleOf(page, q) # ""
        /\ Distinct([k \in DOMAIN opts |-> opts[k].text])

(* The questions of a page, each with the page. *)
Asked(page) ==
    LET asked == Picked(page.titles, {k \in FirstAsked(page) : Askable(page, page.titles[k].q)})
    IN  IF page.titles = <<>> \/ page.code \notin DOMAIN SubtestType \/ AnswerKeys(page) = {} THEN <<>>
        ELSE [n \in DOMAIN asked |-> [page |-> page, q |-> asked[n].q]]

AsvabSpec(source, page, q) ==
    LET opts == AsvabOptions(page, q)
    IN  ChoiceSpec(<<source.id, page.code, q>>, source, "fetched", SubtestType[page.code],
                   TitleOf(page, q), opts, CorrectOption(page, q, opts), AsvabBand)

TextPages(raw) == {k \in DOMAIN raw : raw[k].inlined /\ raw[k].size > 0}

Pages(raw) == Picked(raw, TextPages(raw))

(* A page that fails must not sink the others.                             *)
Asvab(source, raw) ==
    LET asked == FlattenSeq([k \in DOMAIN Pages(raw) |-> Asked(Pages(raw)[k].says)])
    IN  IF asked = <<>> THEN NoSpecs("asvab data")
        ELSE SomeSpecs([k \in DOMAIN asked |-> AsvabSpec(source, asked[k].page, asked[k].q)])

-----------------------------------------------------------------------------
(* The registry of the composition root.                                   *)
Registered == {"viqt", "asvab"}

Normalize(source, raw) ==
    CASE source.id = "viqt" -> Viqt(source, raw) [] source.id = "asvab" -> Asvab(source, raw)

-----------------------------------------------------------------------------
(* LLM extraction: the texts joined up to a cap, and the candidates of a   *)
(* completion.                                                             *)

(* A cut never falls inside a character; width is the bytes of each.       *)
RuneSafe(raw, n) == n - (n % raw.width)

(* What is left after a separator of two. *)
Room(joined) == PayloadCap - joined - (IF joined > 0 THEN 2 ELSE 0)

(* A text that does not fit whole is the last.                             *)
Fits(joined, raw) == raw.size = 0 \/ raw.size <= Room(joined)

(* How long the payload is with one more text. *)
With(joined, raw) ==
    LET room == Room(joined)
        sep  == IF joined > 0 THEN 2 ELSE 0
    IN  IF raw.size = 0 \/ room <= 0 THEN joined
        ELSE joined + sep + (IF raw.size > room THEN RuneSafe(raw, room) ELSE raw.size)

(* A full payload takes no more, and one without text brings none.         *)
JoinStep(payload, raw) ==
    IF payload.full \/ ~raw.inlined THEN payload
    ELSE [size |-> With(payload.size, raw), full |-> ~Fits(payload.size, raw)]

Payloads(raw) ==
    LET upto[n \in 0..Len(raw)] ==
            IF n = 0 THEN [size |-> 0, full |-> FALSE] ELSE JoinStep(upto[n - 1], raw[n])
    IN  upto

PayloadSize(raw) == Payloads(raw)[Len(raw)].size

DefaultBand == 3

ModelBand(d) == IF d \in 1..5 THEN d ELSE DefaultBand

(* The place in the list names the item. *)
ExtractedIdBug(source, cands, k) == <<source.id, "llm", ToString(k)>>

(* The content names the item (a hash of stem and options in the code).    *)
ExtractedId(source, cands, k) == <<source.id, "llm", cands[k].stem>> \o cands[k].options

(* Candidates that read the same collapse to the first.                    *)
Fresh(source, cands) ==
    {k \in DOMAIN cands : \A j \in 1..k-1 : ExtractedId(source, cands, j) # ExtractedId(source, cands, k)}

(* An answer outside the options makes a key of no option.                 *)
ExtractedSpec(source, type, cands, k) ==
    LET option(n) == "o" \o ToString(n)
    IN  ChoiceSpec(ExtractedId(source, cands, k), source, "generated", type, cands[k].stem,
                   [n \in DOMAIN cands[k].options |-> PlainOption(option(n - 1), cands[k].options[n])],
                   option(cands[k].answer), ModelBand(cands[k].difficulty))

ExtractSpecs(source, type, completion) ==
    LET cands == completion.items
        kept  == Fresh(source, cands)
    IN  IF ~completion.json THEN NoSpecs("extract parse")
        ELSE SomeSpecs([n \in 1..Cardinality(kept) |-> ExtractedSpec(source, type, cands, Place(kept, n))])
=============================================================================
