---------------------------- MODULE SourcingProofs ---------------------------
(***************************************************************************)
(* What sourcing guarantees for any requests, sources, clients and         *)
(* processes, dying anywhere: the file store is the map a blob store       *)
(* promises, on its own and under every run of an ingest, an extraction, a *)
(* generation or an authoring; no item of the bank refers to media that is *)
(* not there; limits are kept and reports are true; an id keeps the        *)
(* question it names, a key is what its source marks as right, and a       *)
(* generated puzzle has one answer.                                        *)
(***************************************************************************)
EXTENDS Sourcing, ListProofs

-----------------------------------------------------------------------------
(* BlobStore                                                               *)

(* No file under the name of a reference is torn, and whatever is being    *)
(* written, its writer holds the mutex of its process.                     *)
BlobInv ==
    /\ DOMAIN files \subseteq Refs
    /\ files = [r \in DOMAIN files |-> "whole"]
    /\ temps \in [Clients -> {"none", "torn", "whole"}]
    /\ mutex \in [Processes -> Clients \cup {NoOne}]
    /\ WritersHoldTheMutex

LEMMA InvInit == BlobInit => BlobInv
BY DEF BlobInit, BlobInv, WritersHoldTheMutex

LEMMA InvStep == BlobInv /\ [BlobNext]_blobVars => BlobInv'
<1> SUFFICES ASSUME BlobInv, [BlobNext]_blobVars PROVE BlobInv'
  OBVIOUS
<1> USE DEF BlobInv, WritersHoldTheMutex
<1>0. \A c \in Clients : ProcessOf[c] \in Processes
  BY DEF Processes
<1>1. ASSUME NEW c \in Clients, NEW ref \in Refs, PutKnown(c, ref) PROVE BlobInv'
  BY <1>1 DEF PutKnown, blobVars
<1>2. ASSUME NEW c \in Clients, NEW ref \in Refs, PutCreate(c, ref) PROVE BlobInv'
  <2>1. /\ mutex[ProcessOf[c]] = NoOne
        /\ temps' = [temps EXCEPT ![c] = "torn"]
        /\ mutex' = [mutex EXCEPT ![ProcessOf[c]] = c]
        /\ files' = files
    BY <1>2 DEF PutCreate, Free
  <2>2. \A d \in Clients : ProcessOf[d] = ProcessOf[c] => temps[d] = "none"
    BY <2>1, NobodyAssumption
  <2>3. WritersHoldTheMutex'
    BY <1>0, <2>1, <2>2
  <2> QED  BY <1>0, <2>1, <2>3
<1>3. ASSUME NEW c \in Clients, NEW ref \in Refs, PutWrite(c, ref) PROVE BlobInv'
  BY <1>3 DEF PutWrite
<1>4. ASSUME NEW c \in Clients, NEW ref \in Refs, PutRename(c, ref) PROVE BlobInv'
  <2>1. /\ temps[c] = "whole"
        /\ files' = [r \in DOMAIN files \cup {ref} |-> IF r = ref THEN temps[c] ELSE files[r]]
        /\ temps' = [temps EXCEPT ![c] = "none"]
        /\ mutex' = [mutex EXCEPT ![ProcessOf[c]] = NoOne]
    BY <1>4 DEF PutRename
  <2>2. \A r \in DOMAIN files : files[r] = "whole"
    OBVIOUS
  <2>3. files' = [r \in DOMAIN files \cup {ref} |-> "whole"]
    BY <2>1, <2>2
  <2>4. mutex[ProcessOf[c]] = c
    BY <2>1
  <2>5. WritersHoldTheMutex'
    BY <1>0, <2>1, <2>4
  <2> QED  BY <1>0, <2>1, <2>3, <2>5
<1>5. ASSUME NEW c \in Clients, PutFails(c) PROVE BlobInv'
  <2>1. /\ temps' = [temps EXCEPT ![c] = "none"]
        /\ mutex' = [p \in Processes |-> IF mutex[p] = c THEN NoOne ELSE mutex[p]]
        /\ files' = files
    BY <1>5 DEF PutFails
  <2>2. WritersHoldTheMutex'
    BY <1>0, <2>1
  <2> QED  BY <2>1, <2>2
<1>6. ASSUME NEW p \in Processes, LoseProcess(p) PROVE BlobInv'
  BY <1>0, <1>6 DEF LoseProcess
<1>7. CASE UNCHANGED blobVars
  BY <1>7 DEF blobVars
<1> QED  BY <1>1, <1>2, <1>3, <1>4, <1>5, <1>6, <1>7 DEF BlobNext

(* Every step of the file store is a Put of the map, or none.              *)
LEMMA StepRefines == BlobInv /\ [BlobNext]_blobVars => [Promise!Next]_files
<1> SUFFICES ASSUME BlobInv, [BlobNext]_blobVars PROVE [Promise!Next]_files
  OBVIOUS
<1>1. ASSUME NEW c \in Clients, NEW ref \in Refs, PutRename(c, ref) PROVE Promise!Next
  <2>1. \A r \in DOMAIN files : files[r] = "whole"
    BY DEF BlobInv
  <2>2. files' = [r \in DOMAIN files \cup {ref} |-> "whole"]
    BY <1>1, <2>1 DEF PutRename
  <2> QED  BY <2>2 DEF Promise!Next, Promise!Put
<1> QED  BY <1>1 DEF BlobNext, blobVars, PutKnown, PutCreate, PutWrite, PutFails, LoseProcess

(* The directory of the file store is the map a blob store promises.       *)
THEOREM FileStoreImplementsBlobs == BlobSpec => BlobsKeepTheirPromise
<1>1. BlobInit => Promise!Init
  BY DEF BlobInit, Promise!Init
<1> QED  BY <1>1, InvInit, InvStep, StepRefines, PTL
         DEF BlobSpec, BlobsKeepTheirPromise, Promise!Spec

(* At most one request of a process is between the creation and the        *)
(* renaming of its file.                                                   *)
THEOREM OneWriterAProcess == BlobSpec => []WritersHoldTheMutex
<1>1. BlobInv => WritersHoldTheMutex
  BY DEF BlobInv
<1> QED  BY <1>1, InvInit, InvStep, PTL DEF BlobSpec

-----------------------------------------------------------------------------
(* Media                                                                   *)

(* Parts as a request hands them in, or as they have become. *)
PartsAreTyped(parts) ==
    /\ DOMAIN parts = 1..Len(parts) /\ Len(parts) \in Nat
    /\ \A k \in DOMAIN parts : "ref" \in DOMAIN parts[k]

(* A reference that may be in a spec yet to be saved: to be offloaded, or  *)
(* offloaded to the files there are, or none of the store's.               *)
Pending(stored, ref) ==
    IF IsInline(ref) THEN ContentRef(ref) \in Refs ELSE ref \in Refs => ref \in stored

SpecIsTyped(spec) ==
    /\ {"stimulus", "options"} \subseteq DOMAIN spec
    /\ PartsAreTyped(spec.stimulus) /\ PartsAreTyped(spec.options)

(* A spec of a batch or an author's, on its way through the offload.       *)
PendingSpec(stored, spec) ==
    SpecIsTyped(spec) /\ \A ref \in MediaOf(spec) : Pending(stored, ref)

(* A spec that was fetched or extracted: text only. *)
PlainSpec(spec) ==
    {"stimulus", "options"} \subseteq DOMAIN spec /\ MediaOf(spec) = {}

HandsIn(kind) == kind \in {"generate", "author"}

RunInv(stored, run) ==
    LET kind == Requests[run.req].kind
    IN  /\ DOMAIN run = DOMAIN NewRun
        /\ run.phase \in {"idle", "fetching", "asking", "storing", "ended"}
        /\ run.phase # "idle" => run.req \in DOMAIN Requests
        /\ run.phase \in {"fetching", "asking"} => ~HandsIn(kind)
        /\ run.phase = "fetching" /\ kind = "ingest" => Requests[run.req].source.id \in Registered
        /\ run.phase = "storing" => \A k \in DOMAIN run.specs :
              IF HandsIn(kind) THEN PendingSpec(stored, run.specs[k]) ELSE PlainSpec(run.specs[k])

SourcingInv ==
    /\ BlobInv
    /\ DOMAIN runs = Clients /\ \A c \in Clients : RunInv(DOMAIN files, runs[c])
    /\ crashed \subseteq Processes
    /\ NoDanglingMedia

-----------------------------------------------------------------------------
(* What is fetched is text *)

LEMMA RefsApart == /\ ~IsInline(NoMedia)
                   /\ \A ref : ~IsInline(ContentRef(ref)) /\ \A d : IsInline(DataUri(d))
BY DEF IsInline, NoMedia, ContentRef, BlobRef, DataUri

LEMMA ChoiceIsPlain ==
    ASSUME NEW id, NEW source, NEW origin, NEW type, NEW stem, NEW options, NEW key, NEW band,
           \A k \in DOMAIN options : options[k].ref = NoMedia
    PROVE  PlainSpec(ChoiceSpec(id, source, origin, type, stem, options, key, band))
<1> DEFINE spec == ChoiceSpec(id, source, origin, type, stem, options, key, band)
<1>1. /\ {"stimulus", "options"} \subseteq DOMAIN spec
      /\ spec.stimulus = <<PlainText(stem)>> /\ spec.options = options
  BY DEF ChoiceSpec
<1> HIDE DEF spec
<1>2. \A part \in Range(spec.stimulus) : part.ref = NoMedia
  <2>1. PlainText(stem).ref = NoMedia
    BY DEF PlainText
  <2>2. \A k \in DOMAIN <<PlainText(stem)>> : <<PlainText(stem)>>[k] = PlainText(stem)
    OBVIOUS
  <2>3. QED
    BY <1>1, <2>1, <2>2 DEF Range
<1>3. \A part \in Range(spec.options) : part.ref = NoMedia
  BY <1>1 DEF Range
<1>4. QED
  BY <1>1, <1>2, <1>3 DEF PlainSpec, MediaOf, spec

LEMMA NoSpecsArePlain == ASSUME NEW err PROVE \A k \in DOMAIN NoSpecs(err).specs : PlainSpec(NoSpecs(err).specs[k])
<1>1. NoSpecs(err).specs = <<>>
  BY DEF NoSpecs
<1>2. QED
  BY <1>1

LEMMA ViqtIsPlain ==
    ASSUME NEW source, NEW raw
    PROVE  \A k \in DOMAIN Viqt(source, raw).specs : PlainSpec(Viqt(source, raw).specs[k])
<1>1. ASSUME NEW q, NEW band PROVE PlainSpec(ViqtSpec(source, q, band))
  <2> DEFINE others == Picked(<<1, 2, 3, 4, 5>>, 1..5 \ {Min(PairOf(q.code))})
             options == [k \in 1..4 |-> PlainOption(Places[others[k]], q.words[others[k]])]
  <2>1. ViqtSpec(source, q, band) =
           ChoiceSpec(<<source.id, q.name>>, source, "fetched", "C3", q.words[Min(PairOf(q.code))],
                      options, Places[Max(PairOf(q.code))], band)
    BY DEF ViqtSpec
  <2> HIDE DEF others
  <2>2. \A k \in DOMAIN options : options[k].ref = NoMedia
    BY DEF PlainOption
  <2> HIDE DEF options
  <2>3. QED
    BY <2>1, <2>2, ChoiceIsPlain
<1> DEFINE usable  == Picked(Book(raw), Usable(raw))
           band(q) == ViqtBand(Cardinality(Right(Table(raw), q)), Cardinality(Responses(Table(raw), q.name)))
           specs == [k \in DOMAIN usable |-> ViqtSpec(source, usable[k], band(usable[k]))]
<1>2. Viqt(source, raw) = NoSpecs("viqt data") \/ Viqt(source, raw) = SomeSpecs(specs)
  BY DEF Viqt
<1> HIDE DEF usable, band
<1>3. \A k \in DOMAIN specs : PlainSpec(specs[k])
  BY <1>1
<1> HIDE DEF specs
<1>4. SomeSpecs(specs).specs = specs
  BY DEF SomeSpecs
<1>5. QED
  BY <1>2, <1>3, <1>4, NoSpecsArePlain

LEMMA AsvabIsPlain ==
    ASSUME NEW source, NEW raw
    PROVE  \A k \in DOMAIN Asvab(source, raw).specs : PlainSpec(Asvab(source, raw).specs[k])
<1>1. ASSUME NEW page, NEW q PROVE PlainSpec(AsvabSpec(source, page, q))
  <2> DEFINE options == AsvabOptions(page, q)
             labelled == Picked(page.answers,
                                {k \in DOMAIN page.answers : page.answers[k].q = q /\ page.answers[k].text # ""})
  <2>1. AsvabSpec(source, page, q) =
           ChoiceSpec(<<source.id, page.code, q>>, source, "fetched", SubtestType[page.code],
                      TitleOf(page, q), options, CorrectOption(page, q, options), AsvabBand)
    BY DEF AsvabSpec
  <2>2. options = [k \in DOMAIN labelled |-> PlainOption(labelled[k].a, labelled[k].text)]
    BY DEF AsvabOptions
  <2> HIDE DEF labelled, options
  <2>3. \A k \in DOMAIN options : options[k].ref = NoMedia
    BY <2>2 DEF PlainOption
  <2>4. QED
    BY <2>1, <2>3, ChoiceIsPlain
<1> DEFINE asked == FlattenSeq([k \in DOMAIN Pages(raw) |-> Asked(Pages(raw)[k].says)])
           specs == [k \in DOMAIN asked |-> AsvabSpec(source, asked[k].page, asked[k].q)]
<1>2. Asvab(source, raw) = NoSpecs("asvab data") \/ Asvab(source, raw) = SomeSpecs(specs)
  BY DEF Asvab
<1> HIDE DEF asked
<1>3. \A k \in DOMAIN specs : PlainSpec(specs[k])
  BY <1>1
<1> HIDE DEF specs
<1>4. SomeSpecs(specs).specs = specs
  BY DEF SomeSpecs
<1>5. QED
  BY <1>2, <1>3, <1>4, NoSpecsArePlain

LEMMA ExtractedArePlain ==
    ASSUME NEW source, NEW type, NEW completion
    PROVE  \A k \in DOMAIN ExtractSpecs(source, type, completion).specs :
              PlainSpec(ExtractSpecs(source, type, completion).specs[k])
<1> DEFINE cands == completion.items
           kept  == Fresh(source, cands)
           specs == [n \in 1..Cardinality(kept) |-> ExtractedSpec(source, type, cands, Place(kept, n))]
<1>1. \/ ExtractSpecs(source, type, completion) = NoSpecs("extract parse")
      \/ ExtractSpecs(source, type, completion) = SomeSpecs(specs)
  BY DEF ExtractSpecs
<1>2. ASSUME NEW k PROVE PlainSpec(ExtractedSpec(source, type, cands, k))
  <2> DEFINE option(n) == "o" \o ToString(n)
             options == [n \in DOMAIN cands[k].options |-> PlainOption(option(n - 1), cands[k].options[n])]
  <2>1. ExtractedSpec(source, type, cands, k) =
           ChoiceSpec(ExtractedId(source, cands, k), source, "generated", type, cands[k].stem, options,
                      option(cands[k].answer), ModelBand(cands[k].difficulty))
    BY DEF ExtractedSpec
  <2>2. \A n \in DOMAIN options : options[n].ref = NoMedia
    BY DEF PlainOption
  <2> HIDE DEF options, option, cands
  <2>3. QED
    BY <2>1, <2>2, ChoiceIsPlain
<1> HIDE DEF kept, cands
<1>3. \A n \in DOMAIN specs : PlainSpec(specs[n])
  BY <1>2
<1> HIDE DEF specs
<1>4. SomeSpecs(specs).specs = specs
  BY DEF SomeSpecs
<1>5. QED
  BY <1>1, <1>3, <1>4, NoSpecsArePlain

LEMMA NormalizedArePlain ==
    ASSUME NEW source, NEW raw, source.id \in Registered
    PROVE  \A k \in DOMAIN Normalize(source, raw).specs : PlainSpec(Normalize(source, raw).specs[k])
<1>1. Normalize(source, raw) = Viqt(source, raw) \/ Normalize(source, raw) = Asvab(source, raw)
  BY DEF Normalize, Registered
<1>2. QED
  BY <1>1, ViqtIsPlain, AsvabIsPlain

-----------------------------------------------------------------------------
(* What is handed in is pictures, or links *)

LEMMA RangeOf == ASSUME NEW f, NEW x \in Range(f) PROVE \E k \in DOMAIN f : x = f[k]
BY DEF Range

LEMMA AssembledIsTyped ==
    ASSUME NEW right, NEW wrong, DOMAIN wrong = 1..4, wrong = [k \in DOMAIN wrong |-> wrong[k]], NEW at \in 1..5
    PROVE  LET options == Assemble(right, wrong, at)
           IN  Len(options) = 5 /\ DOMAIN options = 1..5
<1> DEFINE S == {wrong[k] : k \in DOMAIN wrong} \cup {right}
           before == SubSeq(wrong, 1, at - 1)
           after  == SubSeq(wrong, at, Len(wrong))
<1>1. wrong \in [1..4 -> S]
  OBVIOUS
<1>2. wrong \in Seq(S) /\ Len(wrong) = 4
  <2>1. wrong \in UNION {[1..n -> S] : n \in Nat}
    BY <1>1
  <2>2. wrong \in Seq(S)
    BY <2>1, SeqDef
  <2> HIDE DEF S
  <2>3. Len(wrong) \in Nat /\ 1..Len(wrong) = 1..4
    BY <1>1, <2>2, LenProperties
  <2>4. QED
    BY <2>2, <2>3
<1>3. before \in Seq(S) /\ Len(before) = at - 1
  BY <1>2, SubSeqProperties
<1>4. after \in Seq(S) /\ Len(after) = 5 - at
  BY <1>2, SubSeqProperties
<1>5. <<right>> \in Seq(S) /\ Len(<<right>>) = 1
  OBVIOUS
<1> HIDE DEF before, after, S
<1>6. before \o <<right>> \o after \in Seq(S) /\ Len(before \o <<right>> \o after) = 5
  BY <1>3, <1>4, <1>5
<1>7. QED
  BY <1>6, LenProperties DEF Assemble, before, after

LEMMA BuiltIsTyped ==
    ASSUME NEW type \in DOMAIN EngineOf, NEW band, NEW d,
           d.wrong \in [1..4 -> Nat], d.at \in 1..5
    PROVE  LET options == Build(type, band, d).options
           IN  Len(options) = 5 /\ DOMAIN options = 1..5
<1>1. EngineOf[type] \in {"series", "matrix", "odd"}
  BY DEF EngineOf
<1>2. ASSUME NEW base, NEW turnable
      PROVE  LET wrong == DistinctNeighbors(base, turnable, d.wrong)
             IN  DOMAIN wrong = 1..4 /\ wrong = [k \in DOMAIN wrong |-> wrong[k]]
  <2> DEFINE uniq == Neighbors(base, turnable)
  <2>1. DistinctNeighbors(base, turnable, d.wrong) = [k \in DOMAIN d.wrong |-> uniq[d.wrong[k]]]
    BY DEF DistinctNeighbors
  <2> HIDE DEF uniq
  <2>2. QED
    BY <2>1
<1>3. \E right : \E wrong :
          /\ Build(type, band, d).options = Assemble(right, wrong, d.at)
          /\ DOMAIN wrong = 1..4 /\ wrong = [k \in DOMAIN wrong |-> wrong[k]]
  <2>1. CASE EngineOf[type] = "series"
    <3>1. Build(type, band, d).options = Series(band, d).options
      BY <2>1 DEF Build
    <3> DEFINE right == SeriesFigure(band, d, 3)
               wrong == DistinctNeighbors(right, band >= 2, d.wrong)
    <3>2. Series(band, d).options = Assemble(right, wrong, d.at)
      BY DEF Series
    <3>3. DOMAIN wrong = 1..4 /\ wrong = [k \in DOMAIN wrong |-> wrong[k]]
      BY <1>2
    <3> HIDE DEF right, wrong
    <3>4. QED
      BY <3>1, <3>2, <3>3
  <2>2. CASE EngineOf[type] = "matrix"
    <3>1. Build(type, band, d).options = Matrix(band, d).options
      BY <2>2 DEF Build
    <3> DEFINE right == MatrixCell(band, d, 3, 3)
               wrong == DistinctNeighbors(right, FALSE, d.wrong)
    <3>2. Matrix(band, d).options = Assemble(right, wrong, d.at)
      BY DEF Matrix
    <3>3. DOMAIN wrong = 1..4 /\ wrong = [k \in DOMAIN wrong |-> wrong[k]]
      BY <1>2
    <3> HIDE DEF right, wrong
    <3>4. QED
      BY <3>1, <3>2, <3>3
  <2>3. CASE EngineOf[type] = "odd"
    <3>1. Build(type, band, d).options = OddOneOut(band, d).options
      BY <2>3 DEF Build
    <3>2. \E odd : \E four : /\ OddOneOut(band, d).options = Assemble(odd, [k \in 1..4 |-> four[k]], d.at)
      <4> DEFINE attr == ClampBand(band, 4)
                 base == OddBase(attr, d)
                 four == [k \in 1..4 |-> IF attr = 3 THEN [base EXCEPT !.shape = Shapes[k]]
                                         ELSE [base EXCEPT !.count = Counts[k]]]
                 odd  == CASE attr = 1 -> [base EXCEPT !.shape = Shapes[d.other], !.count = Counts[d.decoy]]
                           [] attr = 2 -> [base EXCEPT !.filled = ~@, !.count = Counts[d.decoy]]
                           [] attr = 3 -> [base EXCEPT !.count = Counts[d.other], !.shape = Shapes[d.decoy]]
                           [] attr = 4 -> [base EXCEPT !.turn = Orientations[d.turn], !.count = Counts[d.decoy]]
      <4>1. OddOneOut(band, d).options = Assemble(odd, four, d.at)
        BY DEF OddOneOut
      <4>2. four = [k \in 1..4 |-> four[k]]
        OBVIOUS
      <4> HIDE DEF odd, four
      <4>3. QED
        BY <4>1, <4>2
    <3>3. PICK odd, four : OddOneOut(band, d).options = Assemble(odd, [k \in 1..4 |-> four[k]], d.at)
      BY <3>2
    <3>4. QED
      BY <3>1, <3>3
  <2>4. QED
    BY <1>1, <2>1, <2>2, <2>3
<1>4. PICK right, wrong : /\ Build(type, band, d).options = Assemble(right, wrong, d.at)
                          /\ DOMAIN wrong = 1..4 /\ wrong = [k \in DOMAIN wrong |-> wrong[k]]
  BY <1>3
<1>5. QED
  BY <1>4, AssembledIsTyped

LEMMA GeneratedShape ==
    ASSUME NEW req, NEW puzzle, NEW i,
           Len(puzzle.options) \in Nat, DOMAIN puzzle.options = 1..Len(puzzle.options)
    PROVE  LET spec == GeneratedItem(req, puzzle, i)
           IN  SpecIsTyped(spec) /\ \A ref \in MediaOf(spec) : IsInline(ref)
<1> DEFINE spec  == GeneratedItem(req, puzzle, i)
           text  == [text |-> EngineOf[req.type], kind |-> "", ref |-> NoMedia]
           scene == [text |-> "", kind |-> puzzle.kind, ref |-> FigureUri(puzzle.seen)]
           more  == IF puzzle.kind = "" THEN <<>> ELSE <<scene>>
           n     == Len(puzzle.options)
           option(k) == [id |-> OptionIds[k], text |-> "", kind |-> "svg", ref |-> FigureUri(<<puzzle.options[k]>>)]
<1>1. /\ {"stimulus", "options"} \subseteq DOMAIN spec
      /\ spec.stimulus = <<text>> \o more
      /\ spec.options = [k \in 1..n |-> option(k)]
  BY DEF GeneratedItem
<1>2. text.ref = NoMedia /\ "ref" \in DOMAIN text /\ IsInline(scene.ref) /\ "ref" \in DOMAIN scene
  BY RefsApart DEF FigureUri
<1>3. \A k : "ref" \in DOMAIN option(k) /\ IsInline(option(k).ref)
  BY RefsApart DEF FigureUri
<1> HIDE DEF spec, text, scene, option
<1>4. spec.stimulus \in Seq({text, scene})
  <2> DEFINE S == {text, scene}
  <2>a. <<text>> \in Seq(S) /\ <<scene>> \in Seq(S) /\ <<>> \in Seq(S)
    OBVIOUS
  <2> HIDE DEF S
  <2>1. <<text>> \in Seq(S) /\ more \in Seq(S)
    BY <2>a
  <2> HIDE DEF more
  <2>3. <<text>> \o more \in Seq(S)
    BY <2>1, ConcatProperties
  <2>2. QED
    BY <1>1, <2>3 DEF S
<1>5. PartsAreTyped(spec.stimulus) /\ \A k \in DOMAIN spec.stimulus : spec.stimulus[k] \in {text, scene}
  <2>1. /\ Len(spec.stimulus) \in Nat /\ DOMAIN spec.stimulus = 1..Len(spec.stimulus)
        /\ \A k \in DOMAIN spec.stimulus : spec.stimulus[k] \in {text, scene}
    BY <1>4, LenProperties, ElementOfSeq
  <2>2. QED
    BY <1>2, <2>1 DEF PartsAreTyped
<1>6. /\ PartsAreTyped(spec.options)
      /\ \A k \in DOMAIN spec.options : IsInline(spec.options[k].ref)
  <2>1. n \in Nat
    OBVIOUS
  <2> HIDE DEF n
  <2>2. Len([k \in 1..n |-> option(k)]) = n
    BY <2>1
  <2>3. QED
    BY <1>1, <1>3, <2>1, <2>2 DEF PartsAreTyped
<1>7. \A ref \in MediaOf(spec) : IsInline(ref)
  <2> SUFFICES ASSUME NEW ref \in MediaOf(spec) PROVE IsInline(ref)
    OBVIOUS
  <2>1. PICK part \in Range(spec.stimulus) \cup Range(spec.options) : ref = part.ref
    BY DEF MediaOf
  <2>2. ref # NoMedia
    BY DEF MediaOf
  <2>3. CASE part \in Range(spec.stimulus)
    BY <1>2, <1>5, <2>1, <2>2, <2>3, RangeOf
  <2>4. CASE part \in Range(spec.options)
    BY <1>6, <2>1, <2>4, RangeOf
  <2>5. QED
    BY <2>1, <2>3, <2>4
<1>8. QED
  BY <1>1, <1>5, <1>6, <1>7 DEF SpecIsTyped, spec

(* Whatever a request hands in: typed, and pictures are in Refs once put.  *)
LEMMA HandedInIsPending ==
    ASSUME NEW name \in DOMAIN Requests, HandsIn(Requests[name].kind), NEW stored,
           NEW spec \in HandedIn(Requests[name])
    PROVE  PendingSpec(stored, spec)
<1> DEFINE req == Requests[name]
<1>1. \A ref \in MediaOf(spec) : IsInline(ref) => ContentRef(ref) \in Refs
  BY MediaAssumption
<1>2. CASE req.kind = "author"
  <2>1. spec = req.spec
    BY <1>2 DEF HandedIn
  <2>2. SpecIsTyped(spec)
    BY <1>2, <2>1, MediaAssumption DEF SpecIsTyped, PartsAreTyped, SpecFields, PartFields
  <2>3. \A ref \in MediaOf(spec) : ~IsInline(ref) => ref \notin Refs
    BY <1>2, MediaAssumption
  <2>4. QED
    BY <1>1, <2>2, <2>3 DEF PendingSpec, Pending
<1>3. CASE req.kind = "generate"
  <2>1. Generable(req) /\ spec \in Range(Generated(req, Streams[req.seed]))
    BY <1>3 DEF HandedIn
  <2>2. PICK i \in 1..req.count :
             spec = GeneratedItem(req, Build(req.type, req.difficulty, Streams[req.seed][i]), i)
    BY <2>1 DEF Generated, Range
  <2>3. req.type \in DOMAIN EngineOf
    BY <2>1 DEF Generable
  <2> DEFINE draw == Streams[req.seed][i]
  <2>a. draw.wrong \in [1..4 -> Nat] /\ draw.at \in 1..5
    BY <1>3, <2>1, MediaAssumption
  <2> DEFINE puzzle == Build(req.type, req.difficulty, Streams[req.seed][i])
  <2>4. Len(puzzle.options) \in Nat /\ DOMAIN puzzle.options = 1..Len(puzzle.options)
    BY <2>3, <2>a, BuiltIsTyped
  <2>5. SpecIsTyped(spec) /\ \A ref \in MediaOf(spec) : IsInline(ref)
    BY <2>2, <2>4, GeneratedShape
  <2>6. QED
    BY <1>1, <2>5 DEF PendingSpec, Pending
<1>4. QED
  BY <1>2, <1>3 DEF HandsIn

-----------------------------------------------------------------------------
(* The offload *)

LEMMA MinIsThere ==
    ASSUME NEW S \in SUBSET Nat, S # {}
    PROVE  Min(S) \in S
<1> DEFINE Less == OpToRel(<, Nat)
<1>1. \E x \in S : \A y \in S : ~(<<y, x>> \in Less)
  BY NatLessThanWellFounded, WFMin
<1>2. \A x, y \in Nat : y < x => <<y, x>> \in Less
  BY DEF OpToRel
<1> HIDE DEF Less
<1>3. PICK x \in S : \A y \in S : ~(<<y, x>> \in Less)
  BY <1>1
<1>4. ASSUME NEW y \in S PROVE x <= y
  <2>1. x \in Nat /\ y \in Nat
    OBVIOUS
  <2>2. ~(y < x)
    BY <1>2, <1>3, <2>1
  <2>3. QED
    BY <2>1, <2>2
<1>5. QED
  BY <1>4 DEF Min

(* One part's reference is replaced by that of what it holds.              *)
LEMMA OnePartRewritten ==
    ASSUME NEW parts, PartsAreTyped(parts), InlineParts(parts) # {}
    PROVE  LET m   == Min(InlineParts(parts))
               new == [parts EXCEPT ![m].ref = ContentRef(@)]
           IN  /\ m \in DOMAIN parts /\ IsInline(parts[m].ref)
               /\ PartsAreTyped(new) /\ DOMAIN new = DOMAIN parts
               /\ \A k \in DOMAIN parts : new[k].ref = IF k = m THEN ContentRef(parts[m].ref) ELSE parts[k].ref
<1> DEFINE m   == Min(InlineParts(parts))
           new == [parts EXCEPT ![m].ref = ContentRef(@)]
           n   == Len(parts)
<1>1. m \in InlineParts(parts)
  <2>1. InlineParts(parts) \in SUBSET Nat
    BY DEF InlineParts, PartsAreTyped
  <2>2. QED
    BY <2>1, MinIsThere
<1>2. m \in DOMAIN parts /\ IsInline(parts[m].ref)
  BY <1>1 DEF InlineParts
<1>3. n \in Nat /\ DOMAIN parts = 1..n /\ \A k \in DOMAIN parts : "ref" \in DOMAIN parts[k]
  BY DEF PartsAreTyped
<1> HIDE DEF m, n
<1>4. new = [k \in 1..n |-> IF k = m THEN [parts[k] EXCEPT !.ref = ContentRef(@)] ELSE parts[k]]
  BY <1>2, <1>3
<1> HIDE DEF new
<1>5. Len(new) = n /\ DOMAIN new = 1..n
  BY <1>3, <1>4
<1>6. \A k \in DOMAIN parts : /\ "ref" \in DOMAIN new[k]
                              /\ new[k].ref = IF k = m THEN ContentRef(parts[m].ref) ELSE parts[k].ref
  BY <1>2, <1>3, <1>4
<1>7. PartsAreTyped(new)
  BY <1>3, <1>5, <1>6 DEF PartsAreTyped
<1>8. QED
  BY <1>2, <1>3, <1>5, <1>6, <1>7 DEF new, m

LEMMA MediaOfParts ==
    ASSUME NEW spec
    PROVE  /\ \A k \in DOMAIN spec.stimulus : spec.stimulus[k].ref # NoMedia => spec.stimulus[k].ref \in MediaOf(spec)
           /\ \A k \in DOMAIN spec.options : spec.options[k].ref # NoMedia => spec.options[k].ref \in MediaOf(spec)
           /\ \A ref \in MediaOf(spec) : \/ \E k \in DOMAIN spec.stimulus : ref = spec.stimulus[k].ref
                                         \/ \E k \in DOMAIN spec.options : ref = spec.options[k].ref
BY DEF MediaOf, Range

LEMMA OffloadStep ==
    ASSUME NEW stored, NEW spec, PendingSpec(stored, spec),
           InlineParts(spec.stimulus) # {} \/ InlineParts(spec.options) # {}
    PROVE  /\ ContentRef(NextInline(spec)) \in Refs
           /\ PendingSpec(stored \cup {ContentRef(NextInline(spec))}, Rewritten(spec))
<1> DEFINE next  == NextInline(spec)
           added == stored \cup {ContentRef(next)}
           out   == Rewritten(spec)
<1>1. SpecIsTyped(spec) /\ \A ref \in MediaOf(spec) : Pending(stored, ref)
  BY DEF PendingSpec
<1>2. ASSUME NEW ref \in MediaOf(spec) PROVE Pending(added, ref)
  BY <1>1 DEF Pending
<1>3. Pending(added, ContentRef(next))
  BY RefsApart DEF Pending
<1>4. CASE InlineParts(spec.stimulus) # {}
  <2> DEFINE parts == spec.stimulus
             m     == Min(InlineParts(parts))
             new   == [parts EXCEPT ![m].ref = ContentRef(@)]
  <2>1. next = parts[m].ref
    BY <1>4 DEF NextInline
  <2>2. out = [spec EXCEPT !.stimulus = new]
    BY <1>4 DEF Rewritten
  <2>3. /\ m \in DOMAIN parts /\ IsInline(parts[m].ref)
        /\ PartsAreTyped(new) /\ DOMAIN new = DOMAIN parts
        /\ \A k \in DOMAIN parts : new[k].ref = IF k = m THEN ContentRef(parts[m].ref) ELSE parts[k].ref
    BY <1>1, <1>4, OnePartRewritten DEF SpecIsTyped
  <2> HIDE DEF m, new, next, out
  <2>4. /\ {"stimulus", "options"} \subseteq DOMAIN out
        /\ out.stimulus = new /\ out.options = spec.options
    BY <1>1, <2>2 DEF SpecIsTyped
  <2>5. ContentRef(next) \in Refs
    <3>1. next \in MediaOf(spec) /\ IsInline(next)
      BY <2>1, <2>3, RefsApart, MediaOfParts
    <3>2. QED
      BY <1>1, <3>1 DEF Pending
  <2>6. ASSUME NEW ref \in MediaOf(out) PROVE Pending(added, ref)
    <3>1. ref = ContentRef(next) \/ ref \in MediaOf(spec)
      <4>1. ref # NoMedia
        BY DEF MediaOf
      <4>2. \/ \E k \in DOMAIN new : ref = new[k].ref
            \/ \E k \in DOMAIN spec.options : ref = spec.options[k].ref
        BY <2>4, MediaOfParts
      <4>3. QED
        BY <2>1, <2>3, <4>1, <4>2, MediaOfParts
    <3>2. QED
      BY <1>2, <1>3, <3>1
  <2>7. SpecIsTyped(out)
    BY <1>1, <2>3, <2>4 DEF SpecIsTyped
  <2>8. QED
    BY <2>5, <2>6, <2>7 DEF PendingSpec, next, out
<1>5. CASE InlineParts(spec.stimulus) = {}
  <2> DEFINE parts == spec.options
             m     == Min(InlineParts(parts))
             new   == [parts EXCEPT ![m].ref = ContentRef(@)]
  <2>1. next = parts[m].ref
    BY <1>5 DEF NextInline
  <2>2. out = [spec EXCEPT !.options = new]
    BY <1>5 DEF Rewritten
  <2>3. /\ m \in DOMAIN parts /\ IsInline(parts[m].ref)
        /\ PartsAreTyped(new) /\ DOMAIN new = DOMAIN parts
        /\ \A k \in DOMAIN parts : new[k].ref = IF k = m THEN ContentRef(parts[m].ref) ELSE parts[k].ref
    BY <1>1, <1>5, OnePartRewritten DEF SpecIsTyped
  <2> HIDE DEF m, new, next, out
  <2>4. /\ {"stimulus", "options"} \subseteq DOMAIN out
        /\ out.options = new /\ out.stimulus = spec.stimulus
    BY <1>1, <2>2 DEF SpecIsTyped
  <2>5. ContentRef(next) \in Refs
    <3>1. next \in MediaOf(spec) /\ IsInline(next)
      BY <2>1, <2>3, RefsApart, MediaOfParts
    <3>2. QED
      BY <1>1, <3>1 DEF Pending
  <2>6. ASSUME NEW ref \in MediaOf(out) PROVE Pending(added, ref)
    <3>1. ref = ContentRef(next) \/ ref \in MediaOf(spec)
      <4>1. ref # NoMedia
        BY DEF MediaOf
      <4>2. \/ \E k \in DOMAIN spec.stimulus : ref = spec.stimulus[k].ref
            \/ \E k \in DOMAIN new : ref = new[k].ref
        BY <2>4, MediaOfParts
      <4>3. QED
        BY <2>1, <2>3, <4>1, <4>2, MediaOfParts
    <3>2. QED
      BY <1>2, <1>3, <3>1
  <2>7. SpecIsTyped(out)
    BY <1>1, <2>3, <2>4 DEF SpecIsTyped
  <2>8. QED
    BY <2>5, <2>6, <2>7 DEF PendingSpec, next, out
<1>6. QED
  BY <1>4, <1>5

(* What was handed in and has no picture left in it, or was text all along.*)
LEMMA SnapshotMedia ==
    ASSUME NEW spec, {"stimulus", "options"} \subseteq DOMAIN spec
    PROVE  MediaOf(Snapshot(spec)) = MediaOf(spec)
<1>1. Snapshot(spec).stimulus = spec.stimulus /\ Snapshot(spec).options = spec.options
  BY DEF Snapshot
<1>2. QED
  BY <1>1 DEF MediaOf

LEMMA NothingDangles ==
    ASSUME NEW stored, NEW spec,
           \/ PlainSpec(spec)
           \/ PendingSpec(stored, spec) /\ InlineParts(spec.stimulus) = {} /\ InlineParts(spec.options) = {}
    PROVE  \A ref \in MediaOf(Snapshot(spec)) : ~IsInline(ref) /\ (ref \in Refs => ref \in stored)
<1>1. MediaOf(Snapshot(spec)) = MediaOf(spec)
  BY SnapshotMedia DEF PlainSpec, PendingSpec, SpecIsTyped
<1>2. CASE PlainSpec(spec)
  BY <1>1, <1>2 DEF PlainSpec
<1>3. CASE PendingSpec(stored, spec) /\ InlineParts(spec.stimulus) = {} /\ InlineParts(spec.options) = {}
  <2>1. \A ref \in MediaOf(spec) : ~IsInline(ref)
    BY <1>3, MediaOfParts DEF InlineParts
  <2>2. QED
    BY <1>1, <1>3, <2>1 DEF PendingSpec, Pending
<1>4. QED
  BY <1>2, <1>3

-----------------------------------------------------------------------------
(* One run *)

LEMMA RunKept ==
    ASSUME NEW stored, NEW more, stored \subseteq more, NEW run, RunInv(stored, run)
    PROVE  RunInv(more, run)
BY DEF RunInv, PendingSpec, Pending

LEMMA EndedIsFine ==
    ASSUME NEW stored, NEW run, NEW err, DOMAIN run = DOMAIN NewRun, run.req \in DOMAIN Requests
    PROVE  RunInv(stored, Ended(run, err))
BY DEF RunInv, Ended, NewRun

LEMMA StoringIsFine ==
    ASSUME NEW stored, NEW run, NEW found, DOMAIN run = DOMAIN NewRun, run.req \in DOMAIN Requests,
           \A k \in DOMAIN found.specs :
              IF HandsIn(Requests[run.req].kind) THEN PendingSpec(stored, found.specs[k])
              ELSE PlainSpec(found.specs[k])
    PROVE  RunInv(stored, Storing(run, found))
<1>1. CASE found.err # ""
  BY <1>1, EndedIsFine DEF Storing
<1>2. CASE found.err = ""
  <2> DEFINE out == [run EXCEPT !.phase = "storing", !.specs = found.specs]
  <2>1. Storing(run, found) = out
    BY <1>2 DEF Storing
  <2>2. /\ DOMAIN out = DOMAIN NewRun
        /\ out.phase = "storing" /\ out.req = run.req /\ out.specs = found.specs
    BY DEF NewRun
  <2> HIDE DEF out
  <2>3. QED
    BY <2>1, <2>2 DEF RunInv
<1>3. QED
  BY <1>1, <1>2

-----------------------------------------------------------------------------
(* Every step *)

LEMMA SourcingInvInit == Init => SourcingInv
<1> SUFFICES ASSUME Init PROVE SourcingInv
  OBVIOUS
<1>1. BlobInv
  BY InvInit DEF Init
<1>2. NoDanglingMedia
  BY DEF Init, NoDanglingMedia
<1>3. RunInv(DOMAIN files, NewRun)
  BY DEF RunInv, NewRun
<1>4. QED
  BY <1>1, <1>2, <1>3 DEF Init, SourcingInv

(* What an offload or a crash does to the blob store, the store does by    *)
(* itself.                                                                 *)
LEMMA DrivesTheStore == SourcingInv /\ [Next]_vars => [BlobNext]_blobVars
<1> SUFFICES ASSUME SourcingInv, [Next]_vars PROVE [BlobNext]_blobVars
  OBVIOUS
<1>1. ASSUME NEW c \in Clients, Offload(c) PROVE BlobNext
  <2>1. ContentRef(NextInline(Head_(c))) \in Refs
    <3>1. MustOffload(c)
      BY <1>1 DEF Offload
    <3>2. PendingSpec(DOMAIN files, Head_(c))
      BY <3>1 DEF MustOffload, Busy, Authoring, Request, Head_, SourcingInv, RunInv, HandsIn
    <3>3. QED
      BY <3>1, <3>2, OffloadStep DEF MustOffload
  <2>2. QED
    BY <1>1, <2>1 DEF Offload, BlobNext
<1>2. ASSUME NEW c \in Clients, OffloadFails(c) PROVE BlobNext
  BY <1>2 DEF OffloadFails, BlobNext
<1>3. ASSUME NEW p \in Processes, Crash(p) PROVE BlobNext
  BY <1>3 DEF Crash, BlobNext
<1>4. ASSUME NEW c \in Clients,
             \/ \E name \in DOMAIN Requests : Begin(c, name)
             \/ Fetch(c)
             \/ \E answer \in Backend : Ask(c, answer)
             \/ CallFails(c) \/ Skip(c) \/ Save(c) \/ SaveFails(c) \/ Finish(c)
      PROVE  UNCHANGED blobVars
  BY <1>4 DEF Begin, Fetch, Ask, CallFails, Skip, Save, SaveFails, Finish
<1>5. CASE UNCHANGED vars
  BY <1>5 DEF vars, blobVars
<1>6. QED
  BY <1>1, <1>2, <1>3, <1>4, <1>5 DEF Next

LEMMA FilesStay ==
    ASSUME BlobInv, [BlobNext]_blobVars
    PROVE  DOMAIN files \subseteq DOMAIN files'
BY DEF BlobNext, blobVars, PutKnown, PutCreate, PutWrite, PutRename, PutFails, LoseProcess

LEMMA BankKept ==
    ASSUME SourcingInv, BlobInv', DOMAIN files \subseteq DOMAIN files', UNCHANGED bank
    PROVE  NoDanglingMedia'
BY DEF SourcingInv, BlobInv, NoDanglingMedia

(* One client's run moves on and the others stay what they were.           *)
LEMMA OneRunMoves ==
    ASSUME SourcingInv, BlobInv', DOMAIN files \subseteq DOMAIN files', NoDanglingMedia', UNCHANGED crashed,
           NEW c \in Clients, NEW run, Update(c, run), RunInv(DOMAIN files', run)
    PROVE  SourcingInv'
<1>1. DOMAIN runs = Clients
  BY DEF SourcingInv
<1>2. /\ DOMAIN runs' = Clients
      /\ \A d \in Clients : runs'[d] = IF d = c THEN run ELSE runs[d]
  BY <1>1 DEF Update
<1>3. \A d \in Clients : RunInv(DOMAIN files', runs'[d])
  BY <1>2, RunKept DEF SourcingInv
<1>4. QED
  BY <1>2, <1>3 DEF SourcingInv

LEMMA SourcingInvStep == SourcingInv /\ [Next]_vars => SourcingInv'
<1> SUFFICES ASSUME SourcingInv, [Next]_vars PROVE SourcingInv'
  OBVIOUS
<1>1. BlobInv' /\ DOMAIN files \subseteq DOMAIN files'
  BY DrivesTheStore, InvStep, FilesStay DEF SourcingInv
<1>2. UNCHANGED bank => NoDanglingMedia'
  BY <1>1, BankKept
<1>3. \A c \in Clients : RunInv(DOMAIN files, runs[c]) /\ DOMAIN runs[c] = DOMAIN NewRun
  BY DEF SourcingInv, RunInv
<1>4. ASSUME NEW c \in Clients, NEW err, runs[c].phase # "idle",
             Update(c, Ended(runs[c], err)), UNCHANGED <<bank, crashed>>
      PROVE  SourcingInv'
  <2>1. runs[c].req \in DOMAIN Requests
    BY <1>3, <1>4 DEF RunInv
  <2>2. QED
    BY <1>1, <1>2, <1>3, <1>4, <2>1, EndedIsFine, OneRunMoves
<1>5. ASSUME NEW c \in Clients, NEW name \in DOMAIN Requests, Begin(c, name) PROVE SourcingInv'
  <2> DEFINE req == Requests[name]
             run == [NewRun EXCEPT !.req = name]
             batch == SomeSpecs(Generated(req, Streams[req.seed]))
             piece == SomeSpecs(<<req.spec>>)
  <2>1. DOMAIN run = DOMAIN NewRun /\ run.req = name /\ run.specs = <<>>
    BY DEF NewRun
  <2>2. UNCHANGED <<bank, crashed>>
    BY <1>5 DEF Begin
  <2>3. req.kind \in {"ingest", "extract", "generate", "author"}
    BY MediaAssumption
  <2>4. /\ DOMAIN [run EXCEPT !.phase = "fetching"] = DOMAIN NewRun
        /\ [run EXCEPT !.phase = "fetching"].phase = "fetching"
        /\ [run EXCEPT !.phase = "fetching"].req = name
    BY DEF NewRun
  <2> HIDE DEF run
  <2>5. ASSUME NEW out, Update(c, out), RunInv(DOMAIN files', out) PROVE SourcingInv'
    BY <1>1, <1>2, <2>2, <2>5, OneRunMoves
  <2>6. CASE req.kind = "ingest"
    <3>1. CASE req.source.id \in Registered
      <4>1. Update(c, [run EXCEPT !.phase = "fetching"])
        BY <1>5, <2>6, <3>1 DEF Begin, run
      <4>2. RunInv(DOMAIN files', [run EXCEPT !.phase = "fetching"])
        BY <2>4, <2>6, <3>1 DEF RunInv, HandsIn
      <4>3. QED
        BY <2>5, <4>1, <4>2
    <3>2. CASE req.source.id \notin Registered
      <4>1. Update(c, Ended(run, "no normalizer"))
        BY <1>5, <2>6, <3>2 DEF Begin, run
      <4>2. QED
        BY <2>1, <2>5, <4>1, EndedIsFine
    <3>3. QED
      BY <3>1, <3>2
  <2>7. CASE req.kind = "extract"
    <3>1. Update(c, [run EXCEPT !.phase = "fetching"])
      BY <1>5, <2>7 DEF Begin, run
    <3>2. RunInv(DOMAIN files', [run EXCEPT !.phase = "fetching"])
      BY <2>4, <2>7 DEF RunInv, HandsIn
    <3>3. QED
      BY <2>5, <3>1, <3>2
  <2>8. CASE req.kind = "generate"
    <3>1. CASE Generable(req)
      <4>1. Update(c, Storing(run, batch))
        BY <1>5, <2>8, <3>1 DEF Begin, run
      <4>2. batch.specs = Generated(req, Streams[req.seed])
        BY DEF SomeSpecs
      <4>3. \A k \in DOMAIN batch.specs : batch.specs[k] \in HandedIn(req)
        BY <2>8, <3>1, <4>2 DEF HandedIn, Range
      <4>4. HandsIn(req.kind)
        BY <2>8 DEF HandsIn
      <4> HIDE DEF batch
      <4>5. \A k \in DOMAIN batch.specs : PendingSpec(DOMAIN files', batch.specs[k])
        BY <4>3, <4>4, HandedInIsPending
      <4>6. RunInv(DOMAIN files', Storing(run, batch))
        BY <2>1, <4>4, <4>5, StoringIsFine
      <4>7. QED
        BY <2>5, <4>1, <4>6
    <3>2. CASE ~Generable(req)
      <4>1. Update(c, Ended(run, "invalid spec"))
        BY <1>5, <2>8, <3>2 DEF Begin, run
      <4>2. QED
        BY <2>1, <2>5, <4>1, EndedIsFine
    <3>3. QED
      BY <3>1, <3>2
  <2>9. CASE req.kind = "author"
    <3>1. CASE ValidItem(req.spec)
      <4>1. Update(c, Storing(run, piece))
        BY <1>5, <2>9, <3>1 DEF Begin, run
      <4>2. \A k \in DOMAIN piece.specs : piece.specs[k] \in HandedIn(req)
        BY <2>9 DEF HandedIn, SomeSpecs
      <4>3. HandsIn(req.kind)
        BY <2>9 DEF HandsIn
      <4> HIDE DEF piece
      <4>4. \A k \in DOMAIN piece.specs : PendingSpec(DOMAIN files', piece.specs[k])
        BY <4>2, <4>3, HandedInIsPending
      <4>5. RunInv(DOMAIN files', Storing(run, piece))
        BY <2>1, <4>3, <4>4, StoringIsFine
      <4>6. QED
        BY <2>5, <4>1, <4>5
    <3>2. CASE ~ValidItem(req.spec)
      <4>1. Update(c, Ended(run, "invalid item"))
        BY <1>5, <2>9, <3>2 DEF Begin, run
      <4>2. QED
        BY <2>1, <2>5, <4>1, EndedIsFine
    <3>3. QED
      BY <3>1, <3>2
  <2>10. QED
    BY <2>3, <2>6, <2>7, <2>8, <2>9
<1>6. ASSUME NEW c \in Clients, Fetch(c) PROVE SourcingInv'
  <2> DEFINE req == Request(c)
             got == Fetched(Wired(c, req.kind), req.source, req.limit)
             run == [runs[c] EXCEPT !.fetched = Len(got.items), !.partial = got.partial]
             out == [run EXCEPT !.phase = "asking", !.asked = PayloadSize(got.items)]
             found == Normalize(req.source, got.items)
  <2>1. /\ runs[c].phase = "fetching" /\ UNCHANGED <<bank, crashed>>
        /\ Update(c, IF req.kind = "ingest" THEN Storing(run, found)
                     ELSE IF PayloadSize(got.items) = 0 THEN Ended(run, "no payload")
                     ELSE out)
    BY <1>6 DEF Fetch
  <2>2. /\ runs[c].req \in DOMAIN Requests /\ ~HandsIn(req.kind)
        /\ req.kind = "ingest" => req.source.id \in Registered
    BY <1>3, <2>1 DEF RunInv, Request
  <2>3. DOMAIN run = DOMAIN NewRun /\ run.req = runs[c].req
    BY <1>3 DEF NewRun
  <2>4. DOMAIN out = DOMAIN NewRun /\ out.req = runs[c].req /\ out.phase = "asking"
    BY <1>3 DEF NewRun
  <2>5. \A k \in DOMAIN found.specs : req.kind = "ingest" => PlainSpec(found.specs[k])
    BY <2>2, NormalizedArePlain
  <2>6. req = Requests[runs[c].req]
    BY DEF Request
  <2> HIDE DEF run, out, found, req
  <2>7. req.kind = "ingest" => RunInv(DOMAIN files', Storing(run, found))
    BY <2>2, <2>3, <2>5, <2>6, StoringIsFine
  <2>8. RunInv(DOMAIN files', out)
    BY <2>2, <2>4, <2>6 DEF RunInv
  <2>9. RunInv(DOMAIN files', Ended(run, "no payload"))
    BY <2>2, <2>3, EndedIsFine
  <2>10. QED
    BY <1>1, <1>2, <2>1, <2>7, <2>8, <2>9, OneRunMoves
<1>7. ASSUME NEW c \in Clients, NEW answer \in Backend, Ask(c, answer) PROVE SourcingInv'
  <2> DEFINE req == Request(c)
             run == [runs[c] EXCEPT !.tokens = Clamped(req.tokens, CapOf(c))]
             out == Completion(answer)
             found == ExtractSpecs(req.source, req.type, out.content)
  <2>1. /\ runs[c].phase = "asking" /\ UNCHANGED <<bank, crashed>>
        /\ Update(c, IF ~Allowed(req.model, ModelsOf(c)) THEN Ended(runs[c], "model not allowed")
                     ELSE IF out.err # "" THEN Ended(run, out.err)
                     ELSE Storing(run, found))
    BY <1>7 DEF Ask
  <2>2. runs[c].req \in DOMAIN Requests /\ ~HandsIn(req.kind)
    BY <1>3, <2>1 DEF RunInv, Request
  <2>3. DOMAIN run = DOMAIN NewRun /\ run.req = runs[c].req
    BY <1>3 DEF NewRun
  <2>4. \A k \in DOMAIN found.specs : PlainSpec(found.specs[k])
    BY ExtractedArePlain
  <2>5. req = Requests[runs[c].req]
    BY DEF Request
  <2> HIDE DEF run, out, found, req
  <2>6. RunInv(DOMAIN files', Storing(run, found))
    BY <2>2, <2>3, <2>4, <2>5, StoringIsFine
  <2>7. /\ RunInv(DOMAIN files', Ended(run, out.err))
        /\ RunInv(DOMAIN files', Ended(runs[c], "model not allowed"))
    BY <1>3, <2>2, <2>3, EndedIsFine
  <2>8. QED
    BY <1>1, <1>2, <2>1, <2>6, <2>7, OneRunMoves
<1>8. ASSUME NEW c \in Clients, CallFails(c) PROVE SourcingInv'
  BY <1>4, <1>8 DEF CallFails
<1>9. ASSUME NEW c \in Clients, Offload(c) PROVE SourcingInv'
  <2> DEFINE spec == Head_(c)
             ref  == ContentRef(NextInline(spec))
             k    == runs[c].next
             run  == [runs[c] EXCEPT !.specs[k] = Rewritten(@)]
  <2>1. /\ MustOffload(c) /\ UNCHANGED <<bank, crashed>>
        /\ \/ UNCHANGED runs
           \/ Update(c, run) /\ ref \in DOMAIN files'
    BY <1>9 DEF Offload, PutKnown, PutRename, blobVars
  <2>2. /\ runs[c].phase = "storing" /\ HandsIn(Requests[runs[c].req].kind)
        /\ k \in DOMAIN runs[c].specs /\ spec = runs[c].specs[k]
        /\ InlineParts(spec.stimulus) # {} \/ InlineParts(spec.options) # {}
    BY <2>1 DEF MustOffload, Busy, Authoring, Request, HandsIn, Head_
  <2>3. RunInv(DOMAIN files', runs[c])
    BY <1>1, <1>3, RunKept
  <2>4. CASE UNCHANGED runs
    <3>1. DOMAIN runs = Clients /\ \A d \in Clients : RunInv(DOMAIN files', runs[d])
      BY <1>1, <1>3, RunKept DEF SourcingInv
    <3>2. QED
      BY <1>1, <1>2, <2>1, <2>4, <3>1 DEF SourcingInv
  <2>5. CASE Update(c, run) /\ ref \in DOMAIN files'
    <3>1. PendingSpec(DOMAIN files', spec)
      BY <2>2, <2>3 DEF RunInv
    <3>2. PendingSpec(DOMAIN files' \cup {ref}, Rewritten(spec))
      BY <2>2, <3>1, OffloadStep
    <3>3. PendingSpec(DOMAIN files', Rewritten(spec))
      <4>1. DOMAIN files' \cup {ref} = DOMAIN files'
        BY <2>5
      <4>2. QED
        BY <3>2, <4>1
    <3>4. /\ DOMAIN run = DOMAIN NewRun
          /\ run.phase = "storing" /\ run.req = runs[c].req
          /\ DOMAIN run.specs = DOMAIN runs[c].specs
          /\ \A j \in DOMAIN runs[c].specs : run.specs[j] = IF j = k THEN Rewritten(spec) ELSE runs[c].specs[j]
      BY <1>3, <2>2 DEF NewRun
    <3> HIDE DEF run, k, spec, ref
    <3>5. RunInv(DOMAIN files', run)
      BY <2>2, <2>3, <3>3, <3>4 DEF RunInv
    <3>6. QED
      BY <1>1, <1>2, <2>1, <2>5, <3>5, OneRunMoves
  <2>6. QED
    BY <2>1, <2>4, <2>5
<1>10. ASSUME NEW c \in Clients, OffloadFails(c) PROVE SourcingInv'
  BY <1>4, <1>10 DEF OffloadFails, MustOffload, Busy
<1>11. ASSUME NEW c \in Clients, Skip(c) PROVE SourcingInv'
  <2> DEFINE run == [runs[c] EXCEPT !.next = @ + 1, !.skipped = @ + 1]
  <2>1. Update(c, run) /\ UNCHANGED <<bank, crashed>>
    BY <1>11 DEF Skip
  <2>2. /\ DOMAIN run = DOMAIN NewRun /\ run.phase = runs[c].phase
        /\ run.req = runs[c].req /\ run.specs = runs[c].specs
    BY <1>3 DEF NewRun
  <2> HIDE DEF run
  <2>3. RunInv(DOMAIN files, run)
    BY <1>3, <2>2 DEF RunInv
  <2>4. QED
    BY <1>1, <1>2, <2>1, <2>3, RunKept, OneRunMoves
<1>12. ASSUME NEW c \in Clients, Save(c) PROVE SourcingInv'
  <2> DEFINE run  == [runs[c] EXCEPT !.next = @ + 1, !.saved = @ + 1]
             spec == Head_(c)
  <2>1. /\ Update(c, run) /\ UNCHANGED crashed /\ Savable(c)
        /\ bank' = [id \in DOMAIN bank \cup {spec.id} |-> IF id = spec.id THEN Snapshot(spec) ELSE bank[id]]
    BY <1>12 DEF Save
  <2>2. /\ DOMAIN run = DOMAIN NewRun /\ run.phase = runs[c].phase
        /\ run.req = runs[c].req /\ run.specs = runs[c].specs
    BY <1>3 DEF NewRun
  <2>3. RunInv(DOMAIN files, run)
    BY <1>3, <2>2 DEF RunInv
  <2>4. \/ PlainSpec(spec)
        \/ PendingSpec(DOMAIN files, spec) /\ InlineParts(spec.stimulus) = {} /\ InlineParts(spec.options) = {}
    BY <1>3, <2>1 DEF Savable, MustOffload, Busy, Authoring, Request, Head_, HandsIn, RunInv
  <2> HIDE DEF run, spec
  <2>5. \A ref \in MediaOf(Snapshot(spec)) : ~IsInline(ref) /\ (ref \in Refs => ref \in DOMAIN files)
    BY <2>4, NothingDangles
  <2>6. \A ref \in DOMAIN files' : files'[ref] = "whole"
    BY <1>1 DEF BlobInv
  <2>7. NoDanglingMedia'
    <3> SUFFICES ASSUME NEW id \in DOMAIN bank', NEW ref \in MediaOf(bank'[id])
                 PROVE  /\ ref \in Refs => ref \in DOMAIN files' /\ files'[ref] = "whole"
                        /\ ~IsInline(ref)
      BY DEF NoDanglingMedia
    <3>1. CASE id = spec.id
      BY <1>1, <2>1, <2>5, <2>6, <3>1
    <3>2. CASE id # spec.id
      <4>1. id \in DOMAIN bank /\ ref \in MediaOf(bank[id])
        BY <2>1, <3>2
      <4>2. QED
        BY <1>1, <2>6, <4>1 DEF SourcingInv, NoDanglingMedia
    <3>3. QED
      BY <3>1, <3>2
  <2>8. QED
    BY <1>1, <2>1, <2>3, <2>7, RunKept, OneRunMoves
<1>13. ASSUME NEW c \in Clients, SaveFails(c) PROVE SourcingInv'
  BY <1>4, <1>13 DEF SaveFails, Savable, Busy
<1>14. ASSUME NEW c \in Clients, Finish(c) PROVE SourcingInv'
  BY <1>4, <1>14 DEF Finish
<1>15. ASSUME NEW p \in Processes, Crash(p) PROVE SourcingInv'
  <2>1. RunInv(DOMAIN files', NewRun)
    BY DEF RunInv, NewRun
  <2>2. /\ runs' = [c \in Clients |-> IF ProcessOf[c] = p THEN NewRun ELSE runs[c]]
        /\ UNCHANGED bank /\ crashed' = crashed \cup {p}
    BY <1>15 DEF Crash
  <2>3. \A c \in Clients : RunInv(DOMAIN files', runs'[c])
    BY <1>1, <1>3, <2>1, <2>2, RunKept
  <2>4. QED
    BY <1>1, <1>2, <2>2, <2>3 DEF SourcingInv
<1>16. CASE UNCHANGED vars
  <2>1. UNCHANGED <<runs, bank, crashed>>
    BY <1>16 DEF vars
  <2>2. \A c \in Clients : RunInv(DOMAIN files', runs[c])
    BY <1>1, <1>3, RunKept
  <2>3. QED
    BY <1>1, <1>2, <2>1, <2>2 DEF SourcingInv
<1>17. QED
  BY <1>5, <1>6, <1>7, <1>8, <1>9, <1>10, <1>11, <1>12, <1>13, <1>14, <1>15, <1>16 DEF Next

-----------------------------------------------------------------------------
(* What a fetch brings *)

SourceIsTyped(source) ==
    /\ IsList(source.urls)
    /\ \A k \in DOMAIN source.urls :
          /\ IsList(source.urls[k].files)
          /\ \A n \in DOMAIN source.urls[k].files :
                /\ source.urls[k].files[n].size \in Nat
                /\ source.urls[k].files[n].width \in Nat \ {0}

FilesOf(source) == UNION {Range(source.urls[k].files) : k \in DOMAIN source.urls}

Wirings == {ServerFetchers, CommandFetchers.ingest, CommandFetchers.extract}

Urls(w, source) == UrlsFor(FetcherFor(w, source), source.urls)

All(w, source) == Brought(Urls(w, source), Len(Urls(w, source)))

LEMMA SourcesAreTyped ==
    ASSUME NEW name \in DOMAIN Requests, Fetching(Requests[name])
    PROVE  SourceIsTyped(Requests[name].source) /\ Requests[name].limit \in Int
BY SourceAssumption DEF SourceIsTyped

(* The first fetcher of a wiring that supports a source is the one its     *)
(* method names, or the stub if the wiring has none of that method.        *)
LEMMA ServedBy ==
    ASSUME NEW w \in Wirings, NEW source
    PROVE  LET f == FetcherFor(w, source) IN
             \/ f = "stubfetcher" /\ \A k \in DOMAIN w : w[k] # "stubfetcher" => ~Supports(w[k], source)
             \/ f \in {"httpfetch", "scrapefetch", "apifetch"} /\ MethodOf[f] = source.method
<1> DEFINE able == {k \in DOMAIN w : Supports(w[k], source)}
           n    == Min(able)
           last == Len(w)
<1>1. /\ last \in Nat /\ DOMAIN w = 1..last /\ last \in 1..last /\ w[last] = "stubfetcher"
      /\ \A k \in 1..last : k # last => w[k] \in {"httpfetch", "scrapefetch", "apifetch"}
  <2>1. CASE w = ServerFetchers
    BY <2>1 DEF ServerFetchers
  <2>2. CASE w = CommandFetchers.ingest
    BY <2>2 DEF CommandFetchers
  <2>3. CASE w = CommandFetchers.extract
    BY <2>3 DEF CommandFetchers
  <2>4. QED
    BY <2>1, <2>2, <2>3 DEF Wirings
<1> HIDE DEF last
<1>2. last \in able /\ able \in SUBSET Nat
  BY <1>1 DEF Supports
<1>3. FetcherFor(w, source) = w[n]
  BY DEF FetcherFor
<1>4. n \in able /\ \A k \in able : n <= k
  <2> HIDE DEF able
  <2>1. n \in able
    BY <1>2, MinIsThere
  <2>2. \E x \in able : \A y \in able : x <= y
    BY <1>2, SmallestIn
  <2>3. \A k \in able : n <= k
    BY <2>2 DEF Min
  <2>4. QED
    BY <2>1, <2>3
<1>5. n \in 1..last /\ Supports(w[n], source)
  BY <1>1, <1>4
<1> HIDE DEF n
<1>6. CASE n = last
  <2>1. ASSUME NEW k \in DOMAIN w, w[k] # "stubfetcher" PROVE ~Supports(w[k], source)
    <3>1. k \in 1..last /\ k # last
      BY <1>1, <2>1
    <3>2. k \notin able
      BY <1>1, <1>4, <1>6, <3>1
    <3>3. QED
      BY <3>2
  <2>2. QED
    BY <1>1, <1>3, <1>6, <2>1
<1>7. CASE n # last
  <2>1. w[n] \in {"httpfetch", "scrapefetch", "apifetch"}
    BY <1>1, <1>5, <1>7
  <2>2. QED
    BY <1>3, <1>5, <2>1 DEF Supports
<1>8. QED
  BY <1>6, <1>7

(* The command line serves a source as the server does or not at all.      *)
LEMMA AsTheServer ==
    ASSUME NEW w \in Wirings, NEW source
    PROVE  FetcherFor(w, source) \in {FetcherFor(ServerFetchers, source), "stubfetcher"}
<1> DEFINE f == FetcherFor(w, source)
           g == FetcherFor(ServerFetchers, source)
<1>1. ServerFetchers \in Wirings
  BY DEF Wirings
<1>2. \/ f = "stubfetcher"
      \/ f \in {"httpfetch", "scrapefetch", "apifetch"} /\ MethodOf[f] = source.method
  BY ServedBy
<1>3. \/ g = "stubfetcher" /\ \A k \in DOMAIN ServerFetchers :
                                  ServerFetchers[k] # "stubfetcher" => ~Supports(ServerFetchers[k], source)
      \/ g \in {"httpfetch", "scrapefetch", "apifetch"} /\ MethodOf[g] = source.method
  BY <1>1, ServedBy
<1> HIDE DEF f, g
<1>4. \A x \in {"httpfetch", "scrapefetch", "apifetch"} : \E k \in DOMAIN ServerFetchers : ServerFetchers[k] = x
  BY DEF ServerFetchers
<1>5. \A x, y \in {"httpfetch", "scrapefetch", "apifetch"} : MethodOf[x] = MethodOf[y] => x = y
  BY DEF MethodOf
<1>6. \A x \in {"httpfetch", "scrapefetch", "apifetch"} : MethodOf[x] = source.method => Supports(x, source)
  BY DEF Supports
<1>7. QED
  BY <1>2, <1>3, <1>4, <1>5, <1>6 DEF f, g

LEMMA UrlsAreListed ==
    ASSUME NEW w \in Wirings, NEW source, SourceIsTyped(source)
    PROVE  Urls(w, source) \in Seq(Range(source.urls))
<1> DEFINE f    == FetcherFor(w, source)
           urls == source.urls
<1>1. f \in {"httpfetch", "scrapefetch", "apifetch", "stubfetcher"}
  BY ServedBy
<1>2. urls \in Seq(Range(urls))
  BY DEF SourceIsTyped, IsList
<1>3. \A K \in SUBSET (DOMAIN urls) : Picked(urls, K) \in Seq(Range(urls))
  <2> HIDE DEF urls
  <2>1. QED
    BY <1>2, PickedFacts
<1>4. DataUrls(urls) \in Seq(Range(urls)) /\ ApiUrls(urls) \in Seq(Range(urls))
  <2> HIDE DEF urls
  <2>1. QED
    BY <1>3 DEF DataUrls, ApiUrls
<1>5. <<>> \in Seq(Range(urls))
  OBVIOUS
<1> HIDE DEF f
<1>6. UrlsFor(f, urls) \in Seq(Range(urls))
  <2> HIDE DEF urls
  <2>1. QED
    BY <1>1, <1>2, <1>4, <1>5 DEF UrlsFor
<1>7. QED
  BY <1>6 DEF Urls, f

LEMMA MembersAreListed ==
    ASSUME NEW w \in Wirings, NEW source, SourceIsTyped(source)
    PROVE  [k \in 1..Len(Urls(w, source)) |-> Members(Urls(w, source)[k])] \in Seq(Seq(FilesOf(source)))
<1> DEFINE urls == Urls(w, source)
           F    == FilesOf(source)
           N    == Len(urls)
<1>1. urls \in Seq(Range(source.urls)) /\ N \in Nat
  BY UrlsAreListed, LenProperties
<1>2. \A k \in 1..N : urls[k] \in Range(source.urls)
  BY <1>1, ElementOfSeq
<1>3. ASSUME NEW url \in Range(source.urls) PROVE Members(url) \in Seq(F)
  <2>1. PICK k \in DOMAIN source.urls : url = source.urls[k]
    BY RangeOf
  <2>2. url.files \in Seq(Range(url.files)) /\ Range(url.files) \subseteq F
    BY <2>1 DEF SourceIsTyped, IsList, FilesOf
  <2> HIDE DEF F
  <2>3. url.files \in Seq(F)
    BY <2>2, SeqMonotonic
  <2>4. \A K \in SUBSET (DOMAIN url.files) : Picked(url.files, K) \in Seq(F)
    BY <2>3, PickedFacts
  <2>5. QED
    BY <2>3, <2>4 DEF Members
<1> HIDE DEF urls, F, N
<1>4. [k \in 1..N |-> Members(urls[k])] \in [1..N -> Seq(F)]
  BY <1>2, <1>3
<1>5. [k \in 1..N |-> Members(urls[k])] \in Seq(Seq(F))
  BY <1>1, <1>4, ListOf
<1>6. QED
  BY <1>5 DEF urls, F, N

LEMMA BroughtIsListed ==
    ASSUME NEW w \in Wirings, NEW source, SourceIsTyped(source), NEW n \in 0..Len(Urls(w, source))
    PROVE  /\ Brought(Urls(w, source), n) \in Seq(FilesOf(source))
           /\ Reached(Urls(w, source), n) = Len(Brought(Urls(w, source), n))
           /\ Reached(Urls(w, source), n) <= Len(All(w, source))
<1> DEFINE urls == Urls(w, source)
           F    == FilesOf(source)
           N    == Len(urls)
           seqs == [k \in 1..N |-> Members(urls[k])]
           t    == [k \in 1..n |-> seqs[k]]
<1>1. N \in Nat /\ n \in Nat /\ n <= N
  BY UrlsAreListed, LenProperties
<1>2. seqs \in Seq(Seq(F))
  BY MembersAreListed
<1>3. Len(seqs) = N
  BY <1>1
<1>4. [k \in 1..n |-> Members(urls[k])] = t
  BY <1>1
<1>5. All(w, source) = FlattenSeq(seqs) /\ Brought(urls, n) = FlattenSeq(t)
  BY <1>4 DEF All, Brought
<1>6. FlattenSeq(t) \in Seq(F) /\ Len(FlattenSeq(t)) <= Len(FlattenSeq(seqs))
  <2> HIDE DEF seqs, N, F
  <2>1. n \in 0..Len(seqs)
    BY <1>1, <1>3
  <2>2. QED
    BY <1>2, <2>1, FlattenGrows
<1>7. QED
  BY <1>5, <1>6 DEF Reached

(* Under a limit a fetch brings the first of what there is, as many as the *)
(* limit lets through, and says when there was more.                       *)
LEMMA FetchedFacts ==
    ASSUME NEW w \in Wirings, NEW source, SourceIsTyped(source), NEW limit \in Int
    PROVE  /\ All(w, source) \in Seq(FilesOf(source))
           /\ Fetched(w, source, 0).items = All(w, source)
           /\ Fetched(w, source, limit).items \in Seq(FilesOf(source))
           /\ Len(Fetched(w, source, limit).items) <= Len(All(w, source))
           /\ \A n \in 1..Len(Fetched(w, source, limit).items) :
                 Fetched(w, source, limit).items[n] = All(w, source)[n]
           /\ limit > 0 => Len(Fetched(w, source, limit).items) <= limit
           /\ Fetched(w, source, limit).partial \/ Len(Fetched(w, source, limit).items) = Len(All(w, source))
<1> DEFINE urls == Urls(w, source)
           F    == FilesOf(source)
           all  == All(w, source)
           N    == Len(urls)
           stops == Stops(urls, limit)
           stop == CHOOSE n \in stops : \A m \in stops : n <= m
           got  == Fetched(w, source, limit)
<1>1. N \in Nat
  BY UrlsAreListed, LenProperties
<1>2. \A n \in 0..N : Brought(urls, n) \in Seq(F) /\ Reached(urls, n) = Len(Brought(urls, n)) /\ Reached(urls, n) \in Nat
  <2> SUFFICES ASSUME NEW n \in 0..N
               PROVE  Brought(urls, n) \in Seq(F) /\ Reached(urls, n) = Len(Brought(urls, n)) /\ Reached(urls, n) \in Nat
    OBVIOUS
  <2>1. Brought(urls, n) \in Seq(F)
    BY BroughtIsListed
  <2>2. Len(Brought(urls, n)) \in Nat
    BY <2>1, LenProperties
  <2>3. QED
    BY <2>1, <2>2 DEF Reached
<1>3. all = Brought(urls, N) /\ all \in Seq(F) /\ Len(all) \in Nat /\ Reached(urls, N) = Len(all)
  BY <1>1, <1>2, LenProperties DEF All
<1>4. Fetched(w, source, 0).items = all
  BY DEF Fetched, Urls, All
<1>5. got = IF limit <= 0 \/ stops = {} THEN [items |-> all, partial |-> FALSE]
            ELSE [items |-> SubSeq(all, 1, limit), partial |-> Reached(urls, stop) > limit \/ stop < N]
  BY DEF Fetched, Urls, All
<1>6. stops = {n \in 1..N : Reached(urls, n) >= limit}
  BY DEF Stops
<1>7. CASE limit <= 0 \/ stops = {}
  <2>1. got.items = all
    BY <1>5, <1>7
  <2>2. limit > 0 => Len(all) <= limit
    <3> SUFFICES ASSUME limit > 0 PROVE Len(all) <= limit
      OBVIOUS
    <3>1. CASE N = 0
      <4>1. \A k : k \notin 1..0
        OBVIOUS
      <4>2. [k \in 1..0 |-> Members(urls[k])] = <<>>
        BY <4>1
      <4>3. all = FlattenSeq(<<>>)
        BY <1>3, <3>1, <4>2 DEF Brought
      <4>4. FlattenSeq(<<>>) = <<>>
        BY DEF FlattenSeq
      <4>5. Len(all) = 0
        BY <4>3, <4>4
      <4>6. QED
        BY <4>5
    <3>2. CASE N # 0
      <4>1. N \in 1..N /\ N \notin stops
        BY <1>1, <1>7, <3>2
      <4>2. ~(Reached(urls, N) >= limit)
        <5> HIDE DEF N, stops, urls
        <5>1. QED
          BY <1>6, <4>1
      <4>3. QED
        BY <1>3, <4>2
    <3>3. QED
      BY <3>1, <3>2
  <2> HIDE DEF all, got
  <2>3. QED
    BY <1>3, <1>4, <2>1, <2>2 DEF all, got
<1>8. CASE ~(limit <= 0 \/ stops = {})
  <2>1. /\ got.items = SubSeq(all, 1, limit)
        /\ got.partial = (Reached(urls, stop) > limit \/ stop < N)
    <3> HIDE DEF all, got, stop, stops, N, urls
    <3>1. QED
      BY <1>5, <1>8
  <2>2. stops \in SUBSET Nat /\ stops # {} /\ limit \in Nat /\ limit >= 1
    <3>1. 1..N \in SUBSET Nat
      BY <1>1
    <3>2. QED
      BY <1>6, <1>8, <3>1
  <2>3. stop \in stops
    <3> HIDE DEF stops
    <3>1. \E x \in stops : \A y \in stops : x <= y
      BY <2>2, SmallestIn
    <3>2. QED
      BY <3>1
  <2>4. stop \in 1..N /\ Reached(urls, stop) >= limit
    <3> HIDE DEF stop, N, urls, stops
    <3>1. QED
      BY <1>6, <2>3
  <2>5. limit <= Len(all)
    <3>1. stop \in 0..N
      BY <1>1, <2>4
    <3>2. Reached(urls, stop) <= Len(all) /\ Reached(urls, stop) \in Nat
      <4> HIDE DEF stop
      <4>1. QED
        BY <1>2, <3>1, BroughtIsListed
    <3> HIDE DEF stop, all, urls
    <3>3. QED
      BY <1>3, <2>2, <2>4, <3>2
  <2>6. /\ SubSeq(all, 1, limit) \in Seq(F) /\ Len(SubSeq(all, 1, limit)) = limit
        /\ \A n \in 1..limit : SubSeq(all, 1, limit)[n] = all[n]
    <3> HIDE DEF all, F
    <3>1. \A n \in 1..limit : n \in 1..Len(all) /\ all[n] \in F
      <4>1. \A n \in 1..limit : n \in 1..Len(all)
        BY <1>3, <2>2, <2>5
      <4>2. QED
        BY <1>3, <4>1, ElementOfSeq
    <3>2. 1 \in Int /\ limit \in Int /\ 1 <= limit + 1
      BY <2>2
    <3>3. \A n \in 1..limit : all[n] \in F
      BY <3>1
    <3>4. SubSeq(all, 1, limit) \in Seq(F) /\ Len(SubSeq(all, 1, limit)) = IF 1 <= limit THEN limit - 1 + 1 ELSE 0
      BY <3>2, <3>3, SubSeqProperties
    <3>5. \A n \in 1..(limit - 1 + 1) : SubSeq(all, 1, limit)[n] = all[1 + n - 1]
      BY <3>2, <3>3, SubSeqProperties
    <3>6. \A n \in 1..limit : n \in 1..(limit - 1 + 1) /\ 1 + n - 1 = n
      BY <2>2
    <3>7. \A n \in 1..limit : SubSeq(all, 1, limit)[n] = all[n]
      BY <3>5, <3>6
    <3>8. limit - 1 + 1 = limit
      BY <2>2
    <3>9. QED
      BY <2>2, <3>4, <3>7, <3>8
  <2>7. got.partial \/ limit = Len(all)
    <3> SUFFICES ASSUME ~got.partial PROVE limit = Len(all)
      OBVIOUS
    <3>1. ~(Reached(urls, stop) > limit) /\ ~(stop < N)
      BY <2>1
    <3>2. stop = N
      <4> HIDE DEF stop, N
      <4>1. stop \in 1..N /\ N \in Nat
        BY <1>1, <2>4
      <4>2. QED
        BY <3>1, <4>1
    <3>3. ~(Len(all) > limit)
      <4> HIDE DEF stop, N, all, urls
      <4>1. QED
        BY <1>3, <3>1, <3>2
    <3> HIDE DEF all
    <3>4. QED
      BY <1>3, <2>2, <2>5, <3>3
  <2> DEFINE first == SubSeq(all, 1, limit)
  <2>8. got.items = first
    BY <2>1
  <2> HIDE DEF all, got, first, F
  <2>9. /\ got.items \in Seq(F) /\ Len(got.items) = limit
        /\ \A n \in 1..Len(got.items) : got.items[n] = all[n]
    BY <2>6, <2>8 DEF first
  <2>10. Len(got.items) <= Len(all) /\ Len(got.items) <= limit /\ (got.partial \/ Len(got.items) = Len(all))
    BY <1>3, <2>2, <2>5, <2>7, <2>9
  <2>11. QED
    BY <1>3, <1>4, <2>9, <2>10 DEF all, got, F
<1>9. QED
  BY <1>7, <1>8

-----------------------------------------------------------------------------
(* The payload *)

(* What an ingest brings, by whichever wiring, is the first of what there  *)
(* is.                                                                     *)
LEMMA BringsTheFirst ==
    ASSUME NEW w \in Wirings, NEW source, SourceIsTyped(source), NEW limit \in Int
    PROVE  LET raw == Fetched(w, source, limit).items
               all == Whole(source)
           IN  /\ raw \in Seq(FilesOf(source)) /\ all \in Seq(FilesOf(source)) /\ Len(raw) <= Len(all)
               /\ \A n \in 1..Len(raw) : raw[n] = all[n]
<1> DEFINE raw == Fetched(w, source, limit).items
           all == Whole(source)
           F   == FilesOf(source)
<1>1. ServerFetchers \in Wirings /\ 0 \in Int
  BY DEF Wirings
<1>2. all = All(ServerFetchers, source) /\ all \in Seq(F)
  BY <1>1, FetchedFacts DEF Whole
<1>3. /\ raw \in Seq(F) /\ Len(raw) <= Len(All(w, source))
      /\ \A n \in 1..Len(raw) : raw[n] = All(w, source)[n]
  BY FetchedFacts
<1>4. CASE FetcherFor(w, source) = FetcherFor(ServerFetchers, source)
  <2>1. All(w, source) = all
    BY <1>2, <1>4 DEF All, Urls
  <2>2. QED
    BY <1>2, <1>3, <2>1
<1>5. CASE FetcherFor(w, source) = "stubfetcher"
  <2>1. Urls(w, source) = <<>>
    BY <1>5 DEF Urls, UrlsFor
  <2>2. All(w, source) = FlattenSeq(<<>>)
    <3>1. [k \in 1..Len(<<>>) |-> Members(<<>>[k])] = <<>>
      OBVIOUS
    <3>2. QED
      BY <2>1, <3>1 DEF All, Brought
  <2>3. FlattenSeq(<<>>) = <<>>
    BY DEF FlattenSeq
  <2>4. Len(All(w, source)) = 0
    BY <2>2, <2>3
  <2> HIDE DEF raw, all, F
  <2>5. Len(raw) \in Nat /\ Len(all) \in Nat
    BY <1>2, <1>3, LenProperties
  <2>6. Len(raw) = 0
    BY <1>3, <2>4, <2>5
  <2>7. QED
    BY <1>2, <1>3, <2>5, <2>6 DEF raw, all, F
<1>6. QED
  BY <1>4, <1>5, AsTheServer

LEMMA WiredIsAWiring ==
    ASSUME NEW c, NEW kind \in {"ingest", "extract"}
    PROVE  Wired(c, kind) \in Wirings
BY DEF Wired, Wirings, CommandFetchers


LEMMA JoinedFits ==
    ASSUME PayloadCap \in Nat, NEW joined \in Int, joined <= PayloadCap,
           NEW raw, raw.size \in Nat, raw.width \in Nat \ {0}
    PROVE  With(joined, raw) \in Int /\ With(joined, raw) <= PayloadCap
<1> DEFINE sep  == IF joined > 0 THEN 2 ELSE 0
           room == Room(joined)
           cut  == RuneSafe(raw, room)
<1>1. sep \in Int /\ room = PayloadCap - joined - sep /\ room \in Int
  BY DEF Room
<1>2. room > 0 => cut \in Int /\ cut <= room
  <2>1. \A a, b \in Nat : b # 0 => a - (a % b) \in Int /\ a - (a % b) <= a
    OBVIOUS
  <2> HIDE DEF room
  <2>2. room > 0 => room \in Nat
    BY <1>1
  <2>3. QED
    BY <2>1, <2>2 DEF RuneSafe
<1>3. With(joined, raw) = IF raw.size = 0 \/ room <= 0 THEN joined
                          ELSE joined + sep + (IF raw.size > room THEN cut ELSE raw.size)
  BY DEF With
<1> HIDE DEF sep, room, cut
<1>4. QED
  BY <1>1, <1>2, <1>3

(* The payload of a question never outgrows its cap, whatever is joined.   *)
LEMMA PayloadBounded ==
    ASSUME NEW source, SourceIsTyped(source), NEW raw \in Seq(FilesOf(source))
    PROVE  PayloadSize(raw) \in Int /\ PayloadSize(raw) <= PayloadCap
<1> DEFINE N    == Len(raw)
           A    == {p \in [size : Int, full : BOOLEAN] : p.size <= PayloadCap}
           base == [size |-> 0, full |-> FALSE]
           Eq(u) == u = [n \in 0..N |-> IF n = 0 THEN base ELSE JoinStep(u[n - 1], raw[n])]
           step == [p \in A \X (1..N) |-> JoinStep(p[1], raw[p[2]])]
<1>1. N \in Nat /\ \A n \in 1..N : raw[n] \in FilesOf(source)
  BY LenProperties, ElementOfSeq
<1>2. \A file \in FilesOf(source) : file.size \in Nat /\ file.width \in Nat \ {0}
  BY RangeOf DEF FilesOf, SourceIsTyped
<1>3. base \in A /\ PayloadCap \in Nat
  BY CapAssumption
<1>4. ASSUME NEW p \in A, NEW n \in 1..N PROVE JoinStep(p, raw[n]) \in A
  <2>1. p.size \in Int /\ p.size <= PayloadCap
    OBVIOUS
  <2>2. raw[n].size \in Nat /\ raw[n].width \in Nat \ {0}
    BY <1>1, <1>2
  <2> DEFINE size == With(p.size, raw[n])
             full == ~Fits(p.size, raw[n])
  <2>3. size \in Int /\ size <= PayloadCap
    BY <1>3, <2>1, <2>2, JoinedFits
  <2>4. full \in BOOLEAN
    BY DEF Fits
  <2> HIDE DEF size, full, N
  <2>5. [size |-> size, full |-> full] \in A
    BY <2>3, <2>4
  <2>6. JoinStep(p, raw[n]) = p \/ JoinStep(p, raw[n]) = [size |-> size, full |-> full]
    BY DEF JoinStep, size, full
  <2> HIDE DEF A
  <2>7. QED
    BY <2>5, <2>6
<1>5. \A p \in A : \A n \in 1..N : step[<<p, n>>] = JoinStep(p, raw[n]) /\ step[<<p, n>>] \in A
  <2> HIDE DEF A, N
  <2>1. QED
    BY <1>4
<1> HIDE DEF step
<1>6. PICK f : IsLoop(f, N, A, base, step)
  <2> HIDE DEF A, N, base
  <2>1. \E f : IsLoop(f, N, A, base, step)
    BY <1>1, <1>3, <1>5, LoopExists
  <2>2. QED
    BY <2>1
<1>7. Eq(f)
  <2> HIDE DEF A, base, N
  <2>1. f = [n \in 0..N |-> f[n]]
    BY <1>6 DEF IsLoop
  <2>2. \A n \in 1..N : f[n] = JoinStep(f[n - 1], raw[n])
    <3> SUFFICES ASSUME NEW n \in 1..N PROVE f[n] = JoinStep(f[n - 1], raw[n])
      OBVIOUS
    <3>1. n - 1 \in 0..N
      BY <1>1
    <3>2. f[n - 1] \in A /\ f[n] = step[<<f[n - 1], n>>]
      BY <1>6, <3>1 DEF IsLoop
    <3>3. QED
      BY <1>5, <3>2
  <2>3. \A n \in 0..N : f[n] = IF n = 0 THEN base ELSE JoinStep(f[n - 1], raw[n])
    <3>1. \A n \in 0..N : n # 0 => n \in 1..N
      BY <1>1
    <3>2. f[0] = base
      BY <1>6 DEF IsLoop
    <3>3. QED
      BY <2>2, <3>1, <3>2
  <2>4. QED
    BY <2>1, <2>3
<1>8. Payloads(raw) = CHOOSE u : Eq(u)
  BY DEF Payloads
<1>9. Eq(Payloads(raw))
  <2> HIDE DEF Eq
  <2>1. QED
    BY <1>7, <1>8
<1> DEFINE P == Payloads(raw)
<1>10. /\ P[0] = base
       /\ \A n \in 1..N : P[n] = JoinStep(P[n - 1], raw[n])
  <2>1. \A n \in 0..N : P[n] = IF n = 0 THEN base ELSE JoinStep(P[n - 1], raw[n])
    <3> HIDE DEF base, N
    <3>1. QED
      BY <1>9
  <2>2. 0 \in 0..N /\ \A n \in 1..N : n \in 0..N /\ n # 0
    BY <1>1
  <2> HIDE DEF P, N, base
  <2>3. QED
    BY <2>1, <2>2
<1> HIDE DEF P, A, base, Eq
<1>11. \A n \in 0..N : P[n] \in A
  <2> DEFINE T == {n \in 0..N : P[n] \in A}
  <2>0. \A n \in 1..N : n \in 0..N /\ 0 \in 0..N
    BY <1>1
  <2>1. 0 \in T
    BY <1>1, <1>3, <1>10
  <2> HIDE DEF N
  <2>2. \A n \in 1..N : n - 1 \in T => n \in T
    BY <1>4, <1>10, <2>0
  <2> HIDE DEF T
  <2>3. \A n \in 0..N : n \in T
    BY <1>1, <2>1, <2>2, Rounds
  <2>4. QED
    BY <2>3 DEF T
<1>12. N \in 0..N
  BY <1>1
<1>13. P[N] \in A
  <2> HIDE DEF N
  <2>1. QED
    BY <1>11, <1>12
<1>14. QED
  BY <1>13 DEF PayloadSize, P, A

-----------------------------------------------------------------------------
(* The limits *)

(* What a run has counted is what its fetch brought, and what it asked and *)
(* was granted is within the caps.                                         *)
LimitsRun(c, run) ==
    LET req == Requests[run.req]
        got == Fetched(Wired(c, req.kind), req.source, req.limit)
    IN  /\ run.fetched # 0 =>
              /\ run.req \in DOMAIN Requests /\ Fetching(req)
              /\ run.fetched = Len(got.items) /\ run.partial = got.partial
        /\ run.phase = "asking" => run.req \in DOMAIN Requests /\ req.kind = "extract"
        /\ run.phase \in {"idle", "fetching"} => run.asked = 0
        /\ run.asked \in Int /\ run.asked <= PayloadCap
        /\ run.tokens \in Int
        /\ AtServer(c) /\ TokensCap > 0 =>
              /\ run.tokens <= TokensCap
              /\ run.phase = "storing" /\ run.asked > 0 => run.tokens > 0

(* Whatever follows a run in which the cap was granted, or nothing asked.  *)
Granted(c, run) == AtServer(c) /\ TokensCap > 0 => run.asked <= 0 \/ run.tokens > 0

LimitsInv == \A c \in Clients : LimitsRun(c, runs[c])

LEMMA NewRunIsWithin == ASSUME NEW c PROVE LimitsRun(c, NewRun)
BY CapAssumption DEF LimitsRun, NewRun

LEMMA OnwardIsWithin ==
    ASSUME NEW c, NEW run, LimitsRun(c, run), NEW out, out.phase \in {"storing", "ended"}, out.req = run.req,
           out.phase = "storing" => Granted(c, run),
           out.fetched = run.fetched, out.partial = run.partial, out.asked = run.asked, out.tokens = run.tokens
    PROVE  LimitsRun(c, out)
BY DEF LimitsRun, Granted

LEMMA EndedIsWithin ==
    ASSUME NEW c, NEW run, LimitsRun(c, run), DOMAIN run = DOMAIN NewRun, NEW err
    PROVE  LimitsRun(c, Ended(run, err))
<1> DEFINE out == Ended(run, err)
<1>1. /\ out.phase = "ended" /\ out.req = run.req
      /\ out.fetched = run.fetched /\ out.partial = run.partial /\ out.asked = run.asked /\ out.tokens = run.tokens
  BY DEF Ended, NewRun
<1> HIDE DEF out
<1>2. LimitsRun(c, out)
  BY <1>1, OnwardIsWithin
<1>3. QED
  BY <1>2 DEF out

LEMMA StoringIsWithin ==
    ASSUME NEW c, NEW run, LimitsRun(c, run), Granted(c, run), DOMAIN run = DOMAIN NewRun, NEW found
    PROVE  LimitsRun(c, Storing(run, found))
<1> DEFINE out == [run EXCEPT !.phase = "storing", !.specs = found.specs]
<1>1. /\ out.phase = "storing" /\ out.req = run.req
      /\ out.fetched = run.fetched /\ out.partial = run.partial /\ out.asked = run.asked /\ out.tokens = run.tokens
  BY DEF NewRun
<1> HIDE DEF out
<1>2. LimitsRun(c, out)
  BY <1>1, OnwardIsWithin
<1>3. QED
  BY <1>2, EndedIsWithin DEF Storing, out

(* A fetch within its limit that says when it leaves something behind.     *)
LEMMA LimitsFollow == LimitsInv => LimitsHold
<1> SUFFICES ASSUME LimitsInv, NEW c \in Clients, runs[c].fetched > 0
             PROVE  /\ Request(c).limit > 0 => runs[c].fetched <= Request(c).limit
                    /\ \/ runs[c].partial
                       \/ runs[c].fetched = Len(Fetched(Wired(c, Request(c).kind), Request(c).source, 0).items)
                    /\ runs[c].asked <= PayloadCap
                    /\ AtServer(c) /\ TokensCap > 0 =>
                          /\ runs[c].tokens <= TokensCap
                          /\ runs[c].phase = "storing" /\ runs[c].asked > 0 => runs[c].tokens > 0
  BY DEF LimitsHold
<1> DEFINE req == Request(c)
           w   == Wired(c, req.kind)
           got == Fetched(w, req.source, req.limit)
<1>1. LimitsRun(c, runs[c]) /\ req = Requests[runs[c].req]
  BY DEF LimitsInv, Request
<1>2. runs[c].fetched # 0
  OBVIOUS
<1>3. /\ runs[c].req \in DOMAIN Requests /\ Fetching(req)
      /\ runs[c].fetched = Len(got.items) /\ runs[c].partial = got.partial
  BY <1>1, <1>2 DEF LimitsRun
<1>4. SourceIsTyped(req.source) /\ req.limit \in Int /\ w \in Wirings
  BY <1>1, <1>3, SourcesAreTyped, WiredIsAWiring DEF Fetching
<1>5. /\ req.limit > 0 => Len(got.items) <= req.limit
      /\ got.partial \/ Len(got.items) = Len(Fetched(w, req.source, 0).items)
  <2> HIDE DEF req, w
  <2>1. QED
    BY <1>4, FetchedFacts
<1>6. QED
  BY <1>1, <1>3, <1>5 DEF LimitsRun

LEMMA LimitsStep == SourcingInv /\ LimitsInv /\ [Next]_vars => LimitsInv'
<1> SUFFICES ASSUME SourcingInv, LimitsInv, [Next]_vars PROVE LimitsInv'
  OBVIOUS
<1>1. /\ DOMAIN runs = Clients
      /\ \A c \in Clients : RunInv(DOMAIN files, runs[c]) /\ DOMAIN runs[c] = DOMAIN NewRun /\ LimitsRun(c, runs[c])
  BY DEF SourcingInv, RunInv, LimitsInv
<1>2. ASSUME NEW c \in Clients, NEW out, Update(c, out), LimitsRun(c, out) PROVE LimitsInv'
  <2>1. \A d \in Clients : runs'[d] = IF d = c THEN out ELSE runs[d]
    BY <1>1, <1>2 DEF Update
  <2>2. QED
    BY <1>1, <1>2, <2>1 DEF LimitsInv
<1>3. ASSUME NEW c \in Clients, NEW err, Update(c, Ended(runs[c], err)) PROVE LimitsInv'
  BY <1>1, <1>2, <1>3, EndedIsWithin
<1>4. ASSUME NEW c \in Clients, NEW name \in DOMAIN Requests, Begin(c, name) PROVE LimitsInv'
  <2> DEFINE run == [NewRun EXCEPT !.req = name]
             fetching == [run EXCEPT !.phase = "fetching"]
             req == Requests[name]
  <2>1. DOMAIN run = DOMAIN NewRun /\ LimitsRun(c, run) /\ LimitsRun(c, fetching) /\ Granted(c, run)
    BY CapAssumption DEF LimitsRun, NewRun, Granted
  <2>2. req.kind \in {"ingest", "extract", "generate", "author"}
    BY MediaAssumption
  <2>3. \/ Update(c, fetching)
        \/ \E err : Update(c, Ended(run, err))
        \/ \E found : Update(c, Storing(run, found))
    BY <1>4, <2>2 DEF Begin
  <2> HIDE DEF run, fetching
  <2>4. QED
    BY <1>2, <2>1, <2>3, EndedIsWithin, StoringIsWithin
<1>5. ASSUME NEW c \in Clients, Fetch(c) PROVE LimitsInv'
  <2> DEFINE req == Request(c)
             got == Fetched(Wired(c, req.kind), req.source, req.limit)
             run == [runs[c] EXCEPT !.fetched = Len(got.items), !.partial = got.partial]
             out == [run EXCEPT !.phase = "asking", !.asked = PayloadSize(got.items)]
             found == Normalize(req.source, got.items)
  <2>1. /\ runs[c].phase = "fetching"
        /\ Update(c, IF req.kind = "ingest" THEN Storing(run, found)
                     ELSE IF PayloadSize(got.items) = 0 THEN Ended(run, "no payload")
                     ELSE out)
    BY <1>5 DEF Fetch
  <2>2. runs[c].req \in DOMAIN Requests /\ Fetching(req) /\ req = Requests[runs[c].req]
    BY <1>1, <2>1, MediaAssumption DEF RunInv, Request, HandsIn, Fetching
  <2>3. /\ DOMAIN run = DOMAIN NewRun
        /\ run.req = runs[c].req /\ run.fetched = Len(got.items) /\ run.partial = got.partial
        /\ run.phase = runs[c].phase /\ run.asked = runs[c].asked /\ run.tokens = runs[c].tokens
    BY <1>1 DEF NewRun
  <2>4. /\ DOMAIN out = DOMAIN NewRun
        /\ out.req = runs[c].req /\ out.fetched = Len(got.items) /\ out.partial = got.partial
        /\ out.phase = "asking" /\ out.asked = PayloadSize(got.items) /\ out.tokens = runs[c].tokens
    BY <1>1 DEF NewRun
  <2>5. PayloadSize(got.items) \in Int /\ PayloadSize(got.items) <= PayloadCap
    <3>1. SourceIsTyped(req.source) /\ req.limit \in Int /\ Wired(c, req.kind) \in Wirings
      BY <2>2, SourcesAreTyped, WiredIsAWiring DEF Fetching
    <3> HIDE DEF req
    <3>2. got.items \in Seq(FilesOf(req.source))
      BY <3>1, FetchedFacts
    <3> HIDE DEF got
    <3>3. QED
      BY <3>1, <3>2, PayloadBounded
  <2> HIDE DEF run, out, found
  <2>6. LimitsRun(c, run) /\ Granted(c, run)
    <3>1. run.phase = "fetching" /\ run.asked = 0
      BY <1>1, <2>1, <2>3 DEF LimitsRun
    <3>2. /\ run.req \in DOMAIN Requests /\ Fetching(Requests[run.req])
          /\ req = Requests[run.req]
      BY <2>2, <2>3
    <3>3. /\ run.fetched = Len(got.items) /\ run.partial = got.partial
          /\ got = Fetched(Wired(c, Requests[run.req].kind), Requests[run.req].source, Requests[run.req].limit)
      BY <2>3, <3>2
    <3>4. /\ run.tokens \in Int
          /\ AtServer(c) /\ TokensCap > 0 => run.tokens <= TokensCap
      BY <1>1, <2>3 DEF LimitsRun
    <3> HIDE DEF got, req
    <3>5. LimitsRun(c, run)
      BY CapAssumption, <3>1, <3>2, <3>3, <3>4 DEF LimitsRun
    <3>6. QED
      BY <3>1, <3>5 DEF Granted
  <2>7. req.kind # "ingest" => LimitsRun(c, out)
    <3>1. req.kind # "ingest" => req.kind = "extract"
      BY <2>2 DEF Fetching
    <3>2. QED
      BY <1>1, <2>2, <2>4, <2>5, <3>1 DEF LimitsRun
  <2> HIDE DEF req, got
  <2>8. QED
    BY <1>2, <2>1, <2>3, <2>6, <2>7, EndedIsWithin, StoringIsWithin
<1>6. ASSUME NEW c \in Clients, NEW answer \in Backend, Ask(c, answer) PROVE LimitsInv'
  <2> DEFINE req == Request(c)
             run == [runs[c] EXCEPT !.tokens = Clamped(req.tokens, CapOf(c))]
             out == Completion(answer)
             found == ExtractSpecs(req.source, req.type, out.content)
  <2>1. /\ runs[c].phase = "asking"
        /\ Update(c, IF ~Allowed(req.model, ModelsOf(c)) THEN Ended(runs[c], "model not allowed")
                     ELSE IF out.err # "" THEN Ended(run, out.err)
                     ELSE Storing(run, found))
    BY <1>6 DEF Ask
  <2>2. runs[c].req \in DOMAIN Requests /\ req.kind = "extract" /\ req = Requests[runs[c].req]
    BY <1>1, <2>1 DEF LimitsRun, Request
  <2>3. req.tokens \in Int /\ TokensCap \in Int
    BY <2>2, SourceAssumption, CapAssumption DEF Fetching
  <2> DEFINE granted == Clamped(req.tokens, CapOf(c))
  <2>4. /\ granted \in Int
        /\ AtServer(c) /\ TokensCap > 0 => granted <= TokensCap /\ granted > 0
    BY <2>3 DEF Clamped, CapOf
  <2>5. /\ DOMAIN run = DOMAIN NewRun /\ run.phase = runs[c].phase
        /\ run.req = runs[c].req /\ run.fetched = runs[c].fetched /\ run.partial = runs[c].partial
        /\ run.asked = runs[c].asked /\ run.tokens = granted
    BY <1>1 DEF NewRun
  <2> HIDE DEF run, out, found, granted
  <2>6. LimitsRun(c, run) /\ Granted(c, run)
    BY <1>1, <2>1, <2>2, <2>4, <2>5 DEF LimitsRun, Granted
  <2>7. QED
    BY <1>1, <1>2, <1>3, <2>1, <2>5, <2>6, EndedIsWithin, StoringIsWithin
<1>7. ASSUME NEW c \in Clients, CallFails(c) \/ OffloadFails(c) \/ SaveFails(c) \/ Finish(c) PROVE LimitsInv'
  BY <1>3, <1>7 DEF CallFails, OffloadFails, SaveFails, Finish
<1>8. ASSUME NEW c \in Clients, Offload(c) PROVE LimitsInv'
  <2> DEFINE k   == runs[c].next
             out == [runs[c] EXCEPT !.specs[k] = Rewritten(@)]
  <2>1. UNCHANGED runs \/ Update(c, out)
    BY <1>8 DEF Offload
  <2>2. /\ out.phase = runs[c].phase /\ out.req = runs[c].req
        /\ out.fetched = runs[c].fetched /\ out.partial = runs[c].partial
        /\ out.asked = runs[c].asked /\ out.tokens = runs[c].tokens
    BY <1>1 DEF NewRun
  <2>3. runs[c].phase = "storing"
    BY <1>8 DEF Offload, MustOffload, Busy
  <2> HIDE DEF out
  <2>4. LimitsRun(c, out)
    BY <1>1, <2>2, <2>3, OnwardIsWithin DEF LimitsRun, Granted
  <2>5. UNCHANGED runs => LimitsInv'
    BY DEF LimitsInv
  <2>6. QED
    BY <1>2, <2>1, <2>4, <2>5
<1>9. ASSUME NEW c \in Clients, Skip(c) PROVE LimitsInv'
  <2> DEFINE out == [runs[c] EXCEPT !.next = @ + 1, !.skipped = @ + 1]
  <2>1. Update(c, out) /\ runs[c].phase = "storing"
    BY <1>9 DEF Skip, Busy
  <2>2. /\ out.phase = runs[c].phase /\ out.req = runs[c].req
        /\ out.fetched = runs[c].fetched /\ out.partial = runs[c].partial
        /\ out.asked = runs[c].asked /\ out.tokens = runs[c].tokens
    BY <1>1 DEF NewRun
  <2> HIDE DEF out
  <2>3. QED
    BY <1>1, <1>2, <2>1, <2>2, OnwardIsWithin DEF LimitsRun, Granted
<1>10. ASSUME NEW c \in Clients, Save(c) PROVE LimitsInv'
  <2> DEFINE out == [runs[c] EXCEPT !.next = @ + 1, !.saved = @ + 1]
  <2>1. Update(c, out) /\ runs[c].phase = "storing"
    BY <1>10 DEF Save, Savable, Busy
  <2>2. /\ out.phase = runs[c].phase /\ out.req = runs[c].req
        /\ out.fetched = runs[c].fetched /\ out.partial = runs[c].partial
        /\ out.asked = runs[c].asked /\ out.tokens = runs[c].tokens
    BY <1>1 DEF NewRun
  <2> HIDE DEF out
  <2>3. QED
    BY <1>1, <1>2, <2>1, <2>2, OnwardIsWithin DEF LimitsRun, Granted
<1>11. ASSUME NEW p \in Processes, Crash(p) PROVE LimitsInv'
  <2>1. runs' = [c \in Clients |-> IF ProcessOf[c] = p THEN NewRun ELSE runs[c]]
    BY <1>11 DEF Crash
  <2>2. QED
    BY <1>1, <2>1, NewRunIsWithin DEF LimitsInv
<1>12. CASE UNCHANGED vars
  BY <1>12 DEF vars, LimitsInv
<1>13. QED
  BY <1>4, <1>5, <1>6, <1>7, <1>8, <1>9, <1>10, <1>11, <1>12 DEF Next

-----------------------------------------------------------------------------
(* Specs are listed, each under an id of its own *)

ListedSpecs(specs) ==
    /\ DOMAIN specs = 1..Len(specs) /\ Len(specs) \in Nat
    /\ \A k, l \in DOMAIN specs : specs[k].id = specs[l].id => k = l

(* A codebook with one line for each question.                             *)
LinesOnce(lines) ==
    IsList(lines) /\ \A k, l \in DOMAIN lines : lines[k].name = lines[l].name => k = l

(* Quiz pages that share no question of a subtest.                         *)
PagesApart(raw) ==
    \A m, n \in TextPages(raw) :
        LET page == raw[m].says
            other == raw[n].says
        IN  /\ IsList(page.titles)
            /\ \A k \in DOMAIN page.titles, l \in DOMAIN other.titles :
                  page.code = other.code /\ page.titles[k].q = other.titles[l].q => m = n

LEMMA NothingIsListed == ListedSpecs(<<>>)
<1>1. Len(<<>>) = 0 /\ DOMAIN <<>> = {}
  OBVIOUS
<1>2. QED
  BY <1>1 DEF ListedSpecs

LEMMA FunctionIsListed ==
    ASSUME NEW n \in Nat, NEW specs, specs = [k \in 1..n |-> specs[k]],
           \A k, l \in 1..n : specs[k].id = specs[l].id => k = l
    PROVE  ListedSpecs(specs)
<1>1. specs \in [1..n -> {specs[k] : k \in 1..n}]
  OBVIOUS
<1>2. Len(specs) = n /\ DOMAIN specs = 1..n
  BY <1>1, ListOf
<1>3. QED
  BY <1>2 DEF ListedSpecs

LEMMA EarlierPlace ==
    ASSUME NEW n \in Nat, NEW K \in SUBSET (1..n)
    PROVE  \A k, l \in K : k # l => k \in 1..(l - 1) \/ l \in 1..(k - 1)
<1>1. \A k \in K : k \in Nat /\ k >= 1
  OBVIOUS
<1>2. QED
  BY <1>1

LEMMA ArtifactsArePlaces ==
    ASSUME NEW F, NEW raw \in Seq(F), NEW suffix
    PROVE  Artifacts(raw, suffix) \in SUBSET Nat
<1>1. DOMAIN raw = 1..Len(raw) /\ Len(raw) \in Nat
  BY LenProperties
<1>2. QED
  BY <1>1 DEF Artifacts

LEMMA ViqtIsListed ==
    ASSUME NEW source, NEW F, NEW raw \in Seq(F),
           \A n \in Artifacts(raw, "codebook.txt") : LinesOnce(raw[n].says)
    PROVE  Viqt(source, raw).err = "" => ListedSpecs(Viqt(source, raw).specs)
<1> DEFINE lines   == Book(raw)
           K       == Usable(raw)
           N       == Cardinality(K)
           usable  == Picked(lines, K)
           band(q) == ViqtBand(Cardinality(Right(Table(raw), q)), Cardinality(Responses(Table(raw), q.name)))
           specs == [k \in DOMAIN usable |-> ViqtSpec(source, usable[k], band(usable[k]))]
<1> SUFFICES ASSUME Viqt(source, raw).err = "" PROVE ListedSpecs(Viqt(source, raw).specs)
  OBVIOUS
<1>1. Artifacts(raw, "codebook.txt") # {} /\ Viqt(source, raw) = SomeSpecs(specs)
  <2>1. NoSpecs("viqt data").err # ""
    BY DEF NoSpecs
  <2>2. Viqt(source, raw) = IF \/ Artifacts(raw, "codebook.txt") = {} \/ Artifacts(raw, ".csv") = {}
                               \/ Usable(raw) = {}
                            THEN NoSpecs("viqt data") ELSE SomeSpecs(specs)
    BY DEF Viqt
  <2> HIDE DEF specs
  <2>3. QED
    BY <2>1, <2>2
<1>2. LinesOnce(lines)
  <2>1. Artifacts(raw, "codebook.txt") \in SUBSET Nat
    BY ArtifactsArePlaces
  <2>2. Min(Artifacts(raw, "codebook.txt")) \in Artifacts(raw, "codebook.txt")
    BY <1>1, <2>1, MinIsThere
  <2>3. QED
    BY <2>2 DEF Book, ContentOf
<1>3. lines \in Seq(Range(lines)) /\ K \in SUBSET (DOMAIN lines)
  BY <1>2 DEF LinesOnce, IsList, Usable, Codebook
<1> HIDE DEF lines, K
<1>4. /\ N \in Nat /\ DOMAIN usable = 1..N
      /\ \A n \in 1..N : Place(K, n) \in K /\ usable[n] = lines[Place(K, n)]
  BY <1>3, PickedFacts
<1>5. \A m, n \in 1..N : Place(K, m) = Place(K, n) => m = n
  <2>1. Len(lines) \in Nat /\ K \in SUBSET (1..Len(lines))
    BY <1>3, LenProperties
  <2>2. QED
    BY <2>1, PlaceFacts
<1> HIDE DEF N, usable, band
<1>6. \A n \in 1..N : specs[n].id = <<source.id, lines[Place(K, n)].name>>
  <2>1. \A q, b : ViqtSpec(source, q, b).id = <<source.id, q.name>>
    BY DEF ViqtSpec, ChoiceSpec
  <2>2. QED
    BY <1>4, <2>1
<1>7. specs = [k \in 1..N |-> specs[k]]
  BY <1>4
<1> HIDE DEF specs
<1>8. \A m, n \in 1..N : specs[m].id = specs[n].id => m = n
  <2> SUFFICES ASSUME NEW m \in 1..N, NEW n \in 1..N, specs[m].id = specs[n].id PROVE m = n
    OBVIOUS
  <2>1. lines[Place(K, m)].name = lines[Place(K, n)].name
    <3>1. <<source.id, lines[Place(K, m)].name>> = <<source.id, lines[Place(K, n)].name>>
      BY <1>6, Zenon
    <3>2. QED
      BY <3>1
  <2>2. Place(K, m) = Place(K, n)
    BY <1>2, <1>3, <1>4, <2>1 DEF LinesOnce
  <2>3. QED
    BY <1>5, <2>2
<1>9. ListedSpecs(specs)
  BY <1>4, <1>7, <1>8, FunctionIsListed
<1>10. QED
  <2>1. \A x : SomeSpecs(x).specs = x
    BY DEF SomeSpecs
  <2>2. QED
    BY <1>1, <1>9, <2>1

QuestionsOf(page) == {[page |-> page, q |-> page.titles[k].q] : k \in DOMAIN page.titles}

LEMMA AskedFacts ==
    ASSUME NEW page, IsList(page.titles)
    PROVE  Asked(page) \in Seq(QuestionsOf(page)) /\ IsInjective(Asked(page))
<1> DEFINE titles == page.titles
           K      == {k \in FirstAsked(page) : Askable(page, titles[k].q)}
           N      == Cardinality(K)
           asked  == Picked(titles, K)
           out    == [n \in DOMAIN asked |-> [page |-> page, q |-> asked[n].q]]
<1>1. /\ titles \in Seq(Range(titles)) /\ K \in SUBSET (DOMAIN titles)
      /\ DOMAIN titles = 1..Len(titles) /\ Len(titles) \in Nat
  BY LenProperties DEF IsList, FirstAsked
<1>2. \A k, l \in K : titles[k].q = titles[l].q => k = l
  <2> SUFFICES ASSUME NEW k \in K, NEW l \in K, titles[k].q = titles[l].q, k # l PROVE FALSE
    OBVIOUS
  <2>1. k \in Nat /\ l \in Nat /\ k >= 1 /\ l >= 1
    BY <1>1
  <2>2. k \in 1..(l - 1) \/ l \in 1..(k - 1)
    BY <2>1
  <2>3. /\ \A j \in 1..k-1 : titles[j].q # titles[k].q
        /\ \A j \in 1..l-1 : titles[j].q # titles[l].q
    BY DEF FirstAsked
  <2> HIDE DEF titles, K
  <2>4. QED
    BY <2>2, <2>3
<1>3. Asked(page) = <<>> \/ Asked(page) = out
  BY DEF Asked
<1>4. \A k \in K : [page |-> page, q |-> titles[k].q] \in QuestionsOf(page)
  BY <1>1 DEF QuestionsOf
<1> HIDE DEF titles, K
<1>5. /\ N \in Nat /\ DOMAIN asked = 1..N
      /\ \A n \in 1..N : Place(K, n) \in K /\ asked[n] = titles[Place(K, n)]
  BY <1>1, PickedFacts
<1>6. \A m, n \in 1..N : Place(K, m) = Place(K, n) => m = n
  BY <1>1, PlaceFacts
<1> HIDE DEF N, asked
<1>7. out \in [1..N -> QuestionsOf(page)]
  BY <1>4, <1>5
<1>8. \A n \in 1..N : out[n].q = titles[Place(K, n)].q
  BY <1>5
<1>9. DOMAIN out = 1..N
  BY <1>5
<1> HIDE DEF out
<1>10. out \in Seq(QuestionsOf(page))
  BY <1>5, <1>7, ListOf
<1>11. IsInjective(out)
  <2> SUFFICES ASSUME NEW m \in 1..N, NEW n \in 1..N, out[m] = out[n] PROVE m = n
    BY <1>9 DEF IsInjective
  <2>1. titles[Place(K, m)].q = titles[Place(K, n)].q
    BY <1>8
  <2>2. QED
    BY <1>2, <1>5, <1>6, <2>1
<1>12. <<>> \in Seq(QuestionsOf(page)) /\ IsInjective(<<>>)
  BY DEF IsInjective
<1>13. QED
  BY <1>3, <1>10, <1>11, <1>12

LEMMA AsvabIsListed ==
    ASSUME NEW source, NEW F, NEW raw \in Seq(F), PagesApart(raw)
    PROVE  Asvab(source, raw).err = "" => ListedSpecs(Asvab(source, raw).specs)
<1> DEFINE K     == TextPages(raw)
           P     == Cardinality(K)
           pages == Pages(raw)
           S     == UNION {QuestionsOf(raw[m].says) : m \in K}
           seqs  == [k \in DOMAIN pages |-> Asked(pages[k].says)]
           asked == FlattenSeq(seqs)
           specs == [k \in DOMAIN asked |-> AsvabSpec(source, asked[k].page, asked[k].q)]
<1> SUFFICES ASSUME Asvab(source, raw).err = "" PROVE ListedSpecs(Asvab(source, raw).specs)
  OBVIOUS
<1>1. Asvab(source, raw) = SomeSpecs(specs)
  <2>1. NoSpecs("asvab data").err # ""
    BY DEF NoSpecs
  <2>2. QED
    BY <2>1 DEF Asvab
<1>2. K \in SUBSET (DOMAIN raw) /\ DOMAIN raw = 1..Len(raw) /\ Len(raw) \in Nat
  BY LenProperties DEF TextPages
<1>a. \A m \in K : IsList(raw[m].says.titles)
  BY DEF PagesApart
<1>b. \A m, n \in K : \A x \in QuestionsOf(raw[m].says), y \in QuestionsOf(raw[n].says) :
         /\ x.page = raw[m].says /\ y.page = raw[n].says
         /\ x.page.code = y.page.code /\ x.q = y.q => m = n /\ x = y
  <2> SUFFICES ASSUME NEW m \in K, NEW n \in K,
                      NEW x \in QuestionsOf(raw[m].says), NEW y \in QuestionsOf(raw[n].says)
               PROVE  /\ x.page = raw[m].says /\ y.page = raw[n].says
                      /\ x.page.code = y.page.code /\ x.q = y.q => m = n /\ x = y
    OBVIOUS
  <2> DEFINE page  == raw[m].says
             other == raw[n].says
  <2>1. PICK k \in DOMAIN page.titles : x = [page |-> page, q |-> page.titles[k].q]
    BY DEF QuestionsOf
  <2>2. PICK l \in DOMAIN other.titles : y = [page |-> other, q |-> other.titles[l].q]
    BY DEF QuestionsOf
  <2>3. page.code = other.code /\ page.titles[k].q = other.titles[l].q => m = n
    BY DEF PagesApart
  <2>4. /\ x.page = page /\ x.q = page.titles[k].q
        /\ y.page = other /\ y.q = other.titles[l].q
    BY <2>1, <2>2
  <2>5. m = n => page = other
    OBVIOUS
  <2> HIDE DEF page, other, K
  <2>6. QED
    BY <2>1, <2>2, <2>3, <2>4, <2>5 DEF page, other
<1> HIDE DEF K
<1>3. /\ P \in Nat /\ DOMAIN pages = 1..P
      /\ \A n \in 1..P : Place(K, n) \in K /\ pages[n] = raw[Place(K, n)]
  BY <1>2, PickedFacts DEF Pages, K
<1>4. \A m, n \in 1..P : Place(K, m) = Place(K, n) => m = n
  BY <1>2, PlaceFacts
<1> HIDE DEF P, pages
<1>5. /\ DOMAIN seqs = 1..P
      /\ \A k \in 1..P : /\ seqs[k] = Asked(raw[Place(K, k)].says)
                         /\ seqs[k] \in Seq(QuestionsOf(raw[Place(K, k)].says)) /\ IsInjective(seqs[k])
  <2>1. \A m \in K : /\ Asked(raw[m].says) \in Seq(QuestionsOf(raw[m].says))
                     /\ IsInjective(Asked(raw[m].says))
    BY <1>a, AskedFacts
  <2>2. QED
    BY <1>3, <2>1
<1>6. \A m \in K : QuestionsOf(raw[m].says) \subseteq S
  OBVIOUS
<1>c. seqs = [k \in 1..P |-> seqs[k]]
  BY <1>3
<1> HIDE DEF seqs
<1>7. seqs \in Seq(Seq(S))
  <2> HIDE DEF S
  <2>1. \A k \in 1..P : seqs[k] \in Seq(S)
    BY <1>3, <1>5, <1>6, SeqMonotonic
  <2>2. seqs \in [1..P -> Seq(S)]
    BY <1>c, <2>1
  <2>3. QED
    BY <1>3, <2>2, ListOf
<1>8. IsInjective(asked) /\ asked \in Seq(S)
  <2>1. ASSUME NEW k \in DOMAIN seqs, NEW l \in DOMAIN seqs, NEW i \in DOMAIN seqs[k], NEW j \in DOMAIN seqs[l],
               seqs[k][i] = seqs[l][j]
        PROVE  k = l /\ i = j
    <3>1. k \in 1..P /\ l \in 1..P
      BY <1>5
    <3>2. /\ seqs[k][i] \in QuestionsOf(raw[Place(K, k)].says)
          /\ seqs[l][j] \in QuestionsOf(raw[Place(K, l)].says)
      <4>1. i \in 1..Len(seqs[k]) /\ j \in 1..Len(seqs[l])
        BY <1>5, <3>1, LenProperties
      <4>2. QED
        BY <1>5, <3>1, <4>1, ElementOfSeq
    <3>3. Place(K, k) = Place(K, l)
      BY <1>3, <1>b, <2>1, <3>1, <3>2
    <3>4. k = l
      BY <1>4, <3>1, <3>3
    <3>5. QED
      BY <1>5, <2>1, <3>1, <3>4 DEF IsInjective
  <2> HIDE DEF S
  <2>2. QED
    BY <1>7, <2>1, Flattened
<1> HIDE DEF asked
<1> DEFINE N == Len(asked)
<1>9. /\ N \in Nat /\ DOMAIN asked = 1..N
      /\ \A n \in 1..N : \E m \in K : asked[n] \in QuestionsOf(raw[m].says)
  <2>1. N \in Nat /\ DOMAIN asked = 1..N /\ \A n \in 1..N : asked[n] \in S
    <3> HIDE DEF S
    <3>1. QED
      BY <1>8, LenProperties, ElementOfSeq
  <2>2. QED
    BY <2>1
<1>10. \A n \in 1..N : specs[n].id = <<source.id, asked[n].page.code, asked[n].q>>
  <2>1. \A page, q : AsvabSpec(source, page, q).id = <<source.id, page.code, q>>
    BY DEF AsvabSpec, ChoiceSpec
  <2>2. QED
    BY <1>9, <2>1
<1>11. specs = [k \in 1..N |-> specs[k]]
  BY <1>9
<1> HIDE DEF specs, N, S
<1>12. \A m, n \in 1..N : specs[m].id = specs[n].id => m = n
  <2> SUFFICES ASSUME NEW m \in 1..N, NEW n \in 1..N, specs[m].id = specs[n].id PROVE m = n
    OBVIOUS
  <2>1. asked[m].page.code = asked[n].page.code /\ asked[m].q = asked[n].q
    <3>1. <<source.id, asked[m].page.code, asked[m].q>> = <<source.id, asked[n].page.code, asked[n].q>>
      BY <1>10, Zenon
    <3>2. QED
      BY <3>1
  <2>2. asked[m] = asked[n]
    BY <1>9, <1>b, <2>1
  <2>3. QED
    BY <1>8, <1>9, <2>2 DEF IsInjective
<1>13. ListedSpecs(specs)
  BY <1>9, <1>11, <1>12, FunctionIsListed
<1>14. QED
  <2>1. \A x : SomeSpecs(x).specs = x
    BY DEF SomeSpecs
  <2>2. QED
    BY <1>1, <1>13, <2>1

LEMMA ExtractedIsListed ==
    ASSUME NEW source, NEW type, NEW completion, completion.json => IsList(completion.items)
    PROVE  ExtractSpecs(source, type, completion).err = ""
              => ListedSpecs(ExtractSpecs(source, type, completion).specs)
<1> DEFINE cands == completion.items
           kept  == Fresh(source, cands)
           N     == Cardinality(kept)
           specs == [n \in 1..N |-> ExtractedSpec(source, type, cands, Place(kept, n))]
<1> SUFFICES ASSUME ExtractSpecs(source, type, completion).err = ""
             PROVE  ListedSpecs(ExtractSpecs(source, type, completion).specs)
  OBVIOUS
<1>1. completion.json /\ ExtractSpecs(source, type, completion) = SomeSpecs(specs)
  <2>1. NoSpecs("extract parse").err # ""
    BY DEF NoSpecs
  <2>2. QED
    BY <2>1 DEF ExtractSpecs
<1>2. cands \in Seq(Range(cands))
  BY <1>1 DEF IsList
<1>3. Len(cands) \in Nat /\ DOMAIN cands = 1..Len(cands) /\ kept \in SUBSET (1..Len(cands))
  BY <1>2, LenProperties DEF Fresh
<1>4. \A k, l \in kept : ExtractedId(source, cands, k) = ExtractedId(source, cands, l) => k = l
  <2> SUFFICES ASSUME NEW k \in kept, NEW l \in kept, k # l,
                      ExtractedId(source, cands, k) = ExtractedId(source, cands, l)
               PROVE  FALSE
    OBVIOUS
  <2>1. k \in 1..(l - 1) \/ l \in 1..(k - 1)
    <3> HIDE DEF cands, kept
    <3>1. \A i, j \in kept : i # j => i \in 1..(j - 1) \/ j \in 1..(i - 1)
      BY <1>3, EarlierPlace, Zenon
    <3>2. QED
      BY <3>1, Zenon
  <2>2. /\ \A j \in 1..k-1 : ExtractedId(source, cands, j) # ExtractedId(source, cands, k)
        /\ \A j \in 1..l-1 : ExtractedId(source, cands, j) # ExtractedId(source, cands, l)
    BY DEF Fresh
  <2> HIDE DEF cands, kept
  <2>3. QED
    BY <2>1, <2>2
<1> HIDE DEF cands, kept
<1>5. /\ N \in Nat /\ \A n \in 1..N : Place(kept, n) \in kept
      /\ \A m, n \in 1..N : Place(kept, m) = Place(kept, n) => m = n
  BY <1>3, PlaceFacts
<1> HIDE DEF N
<1>6. \A n \in 1..N : specs[n].id = ExtractedId(source, cands, Place(kept, n))
  BY DEF ExtractedSpec, ChoiceSpec
<1>7. specs = [k \in 1..N |-> specs[k]]
  OBVIOUS
<1> HIDE DEF specs
<1>8. \A m, n \in 1..N : specs[m].id = specs[n].id => m = n
  BY <1>4, <1>5, <1>6
<1>9. ListedSpecs(specs)
  BY <1>5, <1>7, <1>8, FunctionIsListed
<1>10. QED
  <2>1. \A x : SomeSpecs(x).specs = x
    BY DEF SomeSpecs
  <2>2. QED
    BY <1>1, <1>9, <2>1

LEMMA FewerPagesApart ==
    ASSUME NEW raw, NEW all, PagesApart(all),
           \A n \in TextPages(raw) : n \in TextPages(all) /\ raw[n] = all[n]
    PROVE  PagesApart(raw)
<1> SUFFICES ASSUME NEW m \in TextPages(raw), NEW n \in TextPages(raw)
             PROVE  /\ IsList(raw[m].says.titles)
                    /\ \A k \in DOMAIN raw[m].says.titles, l \in DOMAIN raw[n].says.titles :
                          raw[m].says.code = raw[n].says.code /\ raw[m].says.titles[k].q = raw[n].says.titles[l].q => m = n
  BY DEF PagesApart
<1>1. m \in TextPages(all) /\ n \in TextPages(all) /\ raw[m] = all[m] /\ raw[n] = all[n]
  OBVIOUS
<1>2. /\ IsList(all[m].says.titles)
      /\ \A k \in DOMAIN all[m].says.titles : \A l \in DOMAIN all[n].says.titles :
            all[m].says.code = all[n].says.code /\ all[m].says.titles[k].q = all[n].says.titles[l].q => m = n
  <2> DEFINE page == all[m].says
             other == all[n].says
  <2>1. /\ IsList(page.titles)
        /\ \A k \in DOMAIN page.titles, l \in DOMAIN other.titles :
              page.code = other.code /\ page.titles[k].q = other.titles[l].q => m = n
    BY <1>1 DEF PagesApart
  <2>2. QED
    BY <2>1
<1>3. QED
  BY <1>1, <1>2

(* What a fetch brings under a limit is the first of what there is, so     *)
(* what holds of all of it holds of that.                                  *)
LEMMA NormalizedIsListed ==
    ASSUME NEW w \in Wirings, NEW name \in DOMAIN Requests, Requests[name].kind = "ingest",
           Requests[name].source.id \in Registered
    PROVE  LET req   == Requests[name]
               found == Normalize(req.source, Fetched(w, req.source, req.limit).items)
           IN  found.err = "" => ListedSpecs(found.specs)
<1> DEFINE req    == Requests[name]
           source == req.source
           raw    == Fetched(w, source, req.limit).items
           all    == Whole(source)
           F      == FilesOf(source)
<1>1. SourceIsTyped(source) /\ req.limit \in Int
  BY SourcesAreTyped DEF Fetching
<1>2. source \in Sources
  BY DEF Sources
<1>3. /\ raw \in Seq(F) /\ all \in Seq(F) /\ Len(raw) <= Len(all)
      /\ \A n \in 1..Len(raw) : raw[n] = all[n]
  <2> HIDE DEF req
  <2>1. QED
    BY <1>1, BringsTheFirst
<1>4. /\ source.id = "viqt" => \A n \in Artifacts(all, "codebook.txt") : LinesOnce(all[n].says)
      /\ source.id = "asvab" => PagesApart(all)
  <2> HIDE DEF source
  <2>1. Artifacts(all, "codebook.txt") \subseteq {n \in DOMAIN all : all[n].suffix = "codebook.txt"}
    BY DEF Artifacts
  <2>2. TextPages(all) \subseteq DOMAIN all
    BY DEF TextPages
  <2>3. source.id = "viqt" => \A n \in Artifacts(all, "codebook.txt") : LinesOnce(all[n].says)
    BY <1>2, <2>1, OnceAssumption DEF LinesOnce
  <2>4. source.id = "asvab" => PagesApart(all)
    BY <1>2, <2>2, OnceAssumption DEF PagesApart
  <2>5. QED
    BY <2>3, <2>4
<1> HIDE DEF raw, all, F
<1>5. \A n \in DOMAIN raw : n \in DOMAIN all /\ raw[n] = all[n]
  <2>1. Len(raw) \in Nat /\ Len(all) \in Nat /\ DOMAIN raw = 1..Len(raw) /\ DOMAIN all = 1..Len(all)
    BY <1>3, LenProperties
  <2>2. QED
    BY <1>3, <2>1
<1>6. source.id = "viqt" => \A n \in Artifacts(raw, "codebook.txt") : LinesOnce(raw[n].says)
  <2>1. \A n \in Artifacts(raw, "codebook.txt") : n \in Artifacts(all, "codebook.txt") /\ raw[n] = all[n]
    BY <1>5 DEF Artifacts
  <2>2. QED
    BY <1>4, <2>1
<1>7. source.id = "asvab" => PagesApart(raw)
  <2>1. \A n \in TextPages(raw) : n \in TextPages(all) /\ raw[n] = all[n]
    BY <1>5 DEF TextPages
  <2>2. QED
    BY <1>4, <2>1, FewerPagesApart
<1>8. \/ source.id = "viqt" /\ Normalize(source, raw) = Viqt(source, raw)
      \/ source.id = "asvab" /\ Normalize(source, raw) = Asvab(source, raw)
  BY DEF Normalize, Registered
<1> HIDE DEF source
<1>9. Normalize(source, raw).err = "" => ListedSpecs(Normalize(source, raw).specs)
  BY <1>3, <1>6, <1>7, <1>8, ViqtIsListed, AsvabIsListed
<1>10. QED
  BY <1>9 DEF source, raw

-----------------------------------------------------------------------------
(* What is handed in is valid, and stays so *)

(* Every field that a specification, its parts and its options have.       *)
SpecIsWhole(spec) ==
    /\ SpecFields \subseteq DOMAIN spec
    /\ \A k \in DOMAIN spec.stimulus : PartFields \subseteq DOMAIN spec.stimulus[k]
    /\ \A k \in DOMAIN spec.options : PartFields \cup {"id"} \subseteq DOMAIN spec.options[k]

PuzzleKinds == {"", "svg", "grid"}

LEMMA BuiltFacts ==
    ASSUME NEW type \in DOMAIN EngineOf, NEW band \in Int, NEW d
    PROVE  LET puzzle == Build(type, band, d)
           IN  /\ puzzle.key = d.at /\ puzzle.kind \in PuzzleKinds
               /\ puzzle.band \in Int /\ puzzle.band >= 1
<1>1. EngineOf[type] \in {"series", "matrix", "odd"}
  BY DEF EngineOf
<1>2. \A top \in {3, 4} : ClampBand(band, top) \in Int /\ ClampBand(band, top) >= 1
  BY DEF ClampBand
<1>3. Series(band, d).key = d.at /\ Series(band, d).kind = "svg" /\ Series(band, d).band = ClampBand(band, 3)
  BY DEF Series
<1>4. Matrix(band, d).key = d.at /\ Matrix(band, d).kind = "grid" /\ Matrix(band, d).band = ClampBand(band, 3)
  BY DEF Matrix
<1>5. OddOneOut(band, d).key = d.at /\ OddOneOut(band, d).kind = "" /\ OddOneOut(band, d).band = ClampBand(band, 4)
  BY DEF OddOneOut
<1>6. \/ Build(type, band, d) = Series(band, d)
      \/ Build(type, band, d) = Matrix(band, d)
      \/ Build(type, band, d) = OddOneOut(band, d)
  BY <1>1 DEF Build
<1>7. QED
  <2>1. {"svg", "grid", ""} = PuzzleKinds
    BY DEF PuzzleKinds
  <2>2. /\ Series(band, d).kind \in PuzzleKinds /\ Matrix(band, d).kind \in PuzzleKinds
        /\ OddOneOut(band, d).kind \in PuzzleKinds
    BY <1>3, <1>4, <1>5, <2>1
  <2>3. QED
    BY <1>2, <1>3, <1>4, <1>5, <1>6, <2>2

LEMMA DrawnIsWellFormed ==
    ASSUME NEW part, part.kind \in MediaKinds, NEW d, part.ref = DataUri(d)
    PROVE  WellFormed(part)
<1>1. DataUri(d) # NoMedia
  BY DEF DataUri, NoMedia
<1>2. QED
  BY <1>1 DEF WellFormed

LEMMA GeneratedIsValid ==
    ASSUME NEW req, req.type \in DOMAIN EngineOf, NEW i,
           NEW puzzle, Len(puzzle.options) = 5, DOMAIN puzzle.options = 1..5, puzzle.key \in 1..5,
           puzzle.kind \in PuzzleKinds, puzzle.band \in Int, puzzle.band >= 1
    PROVE  LET spec == GeneratedItem(req, puzzle, i)
           IN  ValidItem(spec) /\ SpecIsWhole(spec) /\ spec.id = GeneratedId(req, puzzle, i)
<1> DEFINE spec  == GeneratedItem(req, puzzle, i)
           text  == [text |-> EngineOf[req.type], kind |-> "", ref |-> NoMedia]
           scene == [text |-> "", kind |-> puzzle.kind, ref |-> FigureUri(puzzle.seen)]
           more  == IF puzzle.kind = "" THEN <<>> ELSE <<scene>>
           option(k) == [id |-> OptionIds[k], text |-> "", kind |-> "svg", ref |-> FigureUri(<<puzzle.options[k]>>)]
<1>1. /\ SpecFields \subseteq DOMAIN spec
      /\ spec.id = GeneratedId(req, puzzle, i) /\ spec.source = "rulegen" /\ spec.origin = "generated"
      /\ spec.redist = "yes" /\ spec.type = req.type /\ spec.band = puzzle.band
      /\ spec.format = "multiple-choice"
      /\ spec.stimulus = <<text>> \o more
      /\ spec.options = [k \in 1..5 |-> option(k)]
      /\ spec.key = [BlankKey EXCEPT !.option = OptionIds[puzzle.key]]
  BY DEF GeneratedItem, SpecFields
<1>2. EngineOf[req.type] # "" /\ req.type \in TestTypes
  <2>1. req.type \in {"A1", "A2", "A3", "A4"} /\ EngineOf[req.type] # ""
    <3>1. req.type \in {"A1", "A2", "A3", "A4"} /\ EngineOf[req.type] \in {"series", "matrix", "odd"}
      BY DEF EngineOf
    <3>2. QED
      BY <3>1
  <2>2. "logical" \in Families /\ {"A1", "A2", "A3", "A4"} \subseteq TypesOf["logical"]
    BY DEF Families, TypesOf
  <2>3. QED
    BY <2>1, <2>2 DEF TestTypes
<1>3. GeneratedId(req, puzzle, i) # NoId
  BY BatchAssumption DEF GeneratedId
<1>4. WellFormed(text) /\ (puzzle.kind # "" => WellFormed(scene))
  <2>1. WellFormed(text)
    BY <1>2 DEF WellFormed
  <2>2. puzzle.kind # "" => scene.kind \in MediaKinds /\ scene.ref = FigureUri(puzzle.seen)
    BY DEF MediaKinds, PuzzleKinds
  <2> HIDE DEF scene
  <2>3. QED
    BY <2>1, <2>2, DrawnIsWellFormed DEF FigureUri
<1>5. \A k \in 1..5 : WellFormed(option(k))
  <2> SUFFICES ASSUME NEW k \in 1..5 PROVE WellFormed(option(k))
    OBVIOUS
  <2>1. option(k).kind \in MediaKinds /\ option(k).ref = FigureUri(<<puzzle.options[k]>>)
    BY DEF MediaKinds
  <2> HIDE DEF option
  <2>2. QED
    BY <2>1, DrawnIsWellFormed DEF FigureUri
<1>6. /\ \A k \in 1..5 : OptionIds[k] # ""
      /\ \A k, l \in 1..5 : OptionIds[k] = OptionIds[l] => k = l
  <2>1. /\ OptionIds[1] = "a" /\ OptionIds[2] = "b" /\ OptionIds[3] = "c" /\ OptionIds[4] = "d"
        /\ OptionIds[5] = "e"
    BY DEF OptionIds
  <2>2. \A k \in 1..5 : k = 1 \/ k = 2 \/ k = 3 \/ k = 4 \/ k = 5
    OBVIOUS
  <2>3. QED
    BY <2>1, <2>2
<1>7. /\ PartFields \subseteq DOMAIN text /\ PartFields \subseteq DOMAIN scene
      /\ \A k : PartFields \cup {"id"} \subseteq DOMAIN option(k)
      /\ \A k : option(k).id = OptionIds[k]
  BY DEF PartFields
<1> HIDE DEF spec, text, scene, option
<1>c. more = <<>> \/ (puzzle.kind # "" /\ more = <<scene>>)
  OBVIOUS
<1> DEFINE drawn == puzzle.kind # ""
<1> HIDE DEF more, drawn
<1>8. /\ spec.stimulus # <<>>
      /\ \A k \in DOMAIN spec.stimulus : spec.stimulus[k] = text \/ (drawn /\ spec.stimulus[k] = scene)
  <2> DEFINE S == {x \in {text, scene} : x = text \/ drawn}
  <2>1. <<text>> \in Seq(S) /\ Len(<<text>>) = 1 /\ more \in Seq(S)
    <3>1. text \in S /\ (drawn => scene \in S)
      OBVIOUS
    <3>2. more = <<>> \/ (drawn /\ more = <<scene>>)
      BY <1>c DEF drawn
    <3> HIDE DEF S
    <3>3. <<text>> \in Seq(S) /\ Len(<<text>>) = 1 /\ <<>> \in Seq(S)
      BY <3>1
    <3>4. scene \in S => <<scene>> \in Seq(S)
      OBVIOUS
    <3>5. QED
      BY <3>1, <3>2, <3>3, <3>4
  <2> HIDE DEF S
  <2>2. spec.stimulus \in Seq(S) /\ Len(spec.stimulus) = 1 + Len(more) /\ Len(more) \in Nat
    BY <1>1, <2>1, ConcatProperties, LenProperties
  <2>3. spec.stimulus # <<>> /\ \A k \in DOMAIN spec.stimulus : spec.stimulus[k] \in S
    BY <2>2, LenProperties, ElementOfSeq
  <2>4. QED
    BY <2>3 DEF S
<1>9. SpecIsWhole(spec)
  <2>1. SpecFields \subseteq DOMAIN spec
    BY <1>1
  <2>2. \A k \in DOMAIN spec.stimulus : PartFields \subseteq DOMAIN spec.stimulus[k]
    BY <1>7, <1>8
  <2>3. \A k \in DOMAIN spec.options : PartFields \cup {"id"} \subseteq DOMAIN spec.options[k]
    BY <1>1, <1>7
  <2>4. QED
    BY <2>1, <2>2, <2>3 DEF SpecIsWhole
<1>10. ValidCommon(spec)
  <2>1. \A k \in DOMAIN spec.stimulus : WellFormed(spec.stimulus[k])
    BY <1>4, <1>8 DEF drawn
  <2>2. /\ spec.source # "" /\ spec.origin \in Origins /\ spec.redist \in Redistributable
        /\ spec.format \in Formats
    BY <1>1 DEF Origins, Redistributable, Formats
  <2>3. QED
    BY <1>1, <1>2, <1>3, <1>8, <2>1, <2>2 DEF ValidCommon
<1>11. ValidMultipleChoice(spec)
  <2> DEFINE opts == spec.options
  <2>1. Len(opts) = 5 /\ DOMAIN opts = 1..5 /\ \A k \in 1..5 : opts[k] = option(k)
    <3>1. opts = [k \in 1..5 |-> option(k)]
      BY <1>1
    <3> HIDE DEF opts
    <3>2. DOMAIN opts = 1..5 /\ \A k \in 1..5 : opts[k] = option(k)
      BY <3>1
    <3>3. opts \in [1..5 -> {option(k) : k \in 1..5}]
      BY <3>1
    <3>4. Len(opts) = 5
      BY <3>3, ListOf
    <3>5. QED
      BY <3>2, <3>4
  <2>2. spec.key.option = OptionIds[puzzle.key]
    BY <1>1 DEF BlankKey
  <2>3. spec.key = [BlankKey EXCEPT !.option = spec.key.option]
    BY <1>1, <2>2
  <2>4. Len(opts) \in MinOptions..MaxOptions
    <3> HIDE DEF opts
    <3>1. QED
      BY <2>1 DEF MinOptions, MaxOptions
  <2>5. \A k \in 1..5 : opts[k].id = OptionIds[k] /\ WellFormed(opts[k])
    BY <1>5, <1>7, <2>1
  <2> HIDE DEF opts
  <2>6. /\ \A k \in DOMAIN opts : opts[k].id # "" /\ WellFormed(opts[k])
        /\ \A k, l \in DOMAIN opts : opts[k].id = opts[l].id => k = l
        /\ \E k \in DOMAIN opts : opts[k].id = spec.key.option
    <3>1. \A k, l \in 1..5 : OptionIds[k] = OptionIds[l] => k = l
      BY <1>6
    <3> DEFINE Named(x) == x # ""
    <3>a. \A k \in 1..5 : Named(OptionIds[k])
      BY <1>6
    <3> HIDE DEF Named
    <3>b. \A k \in DOMAIN opts : Named(opts[k].id) /\ WellFormed(opts[k])
      BY <2>1, <2>5, <3>a
    <3>2. \A k \in DOMAIN opts : opts[k].id # "" /\ WellFormed(opts[k])
      BY <3>b DEF Named
    <3>3. \A k, l \in DOMAIN opts : opts[k].id = opts[l].id => k = l
      BY <2>1, <2>5, <3>1
    <3>4. \E k \in DOMAIN opts : opts[k].id = spec.key.option
      BY <2>1, <2>2, <2>5
    <3>5. QED
      BY <3>2, <3>3, <3>4
  <2>7. QED
    BY <2>3, <2>4, <2>6 DEF ValidMultipleChoice, opts
<1>12. QED
  BY <1>1, <1>9, <1>10, <1>11 DEF ValidItem, ValidAnswer, spec

(* A batch: each item valid and under an id of its own.                    *)
LEMMA BatchFacts ==
    ASSUME NEW name \in DOMAIN Requests, Requests[name].kind = "generate", Generable(Requests[name])
    PROVE  LET specs == Generated(Requests[name], Streams[Requests[name].seed])
           IN  /\ ListedSpecs(specs)
               /\ \A k \in DOMAIN specs : ValidItem(specs[k]) /\ SpecIsWhole(specs[k])
<1> DEFINE req    == Requests[name]
           stream == Streams[req.seed]
           n      == req.count
           puzzle(i) == Build(req.type, req.difficulty, stream[i])
           specs  == Generated(req, stream)
<1>1. n \in Nat /\ req.type \in DOMAIN EngineOf /\ req.difficulty \in Int
  <2>1. req.difficulty \in Int
    BY BatchAssumption
  <2>2. n \in 1..1000 /\ req.type \in DOMAIN EngineOf
    BY DEF Generable, MaxCount
  <2> HIDE DEF n, req
  <2>3. QED
    BY <2>1, <2>2
<1>2. \A i \in 1..n : stream[i].wrong \in [1..4 -> Nat] /\ stream[i].at \in 1..5
  BY MediaAssumption
<1>3. specs = [i \in 1..n |-> GeneratedItem(req, puzzle(i), i)]
  BY DEF Generated
<1>4. ASSUME NEW i \in 1..n
      PROVE  /\ ValidItem(GeneratedItem(req, puzzle(i), i)) /\ SpecIsWhole(GeneratedItem(req, puzzle(i), i))
             /\ GeneratedItem(req, puzzle(i), i).id = GeneratedId(req, puzzle(i), i)
  <2>1. Len(puzzle(i).options) = 5 /\ DOMAIN puzzle(i).options = 1..5
    BY <1>1, <1>2, BuiltIsTyped
  <2>2. /\ puzzle(i).key = stream[i].at /\ puzzle(i).kind \in PuzzleKinds
        /\ puzzle(i).band \in Int /\ puzzle(i).band >= 1
    BY <1>1, BuiltFacts
  <2>3. puzzle(i).key \in 1..5
    BY <1>2, <2>2
  <2> HIDE DEF puzzle, req
  <2>4. QED
    BY <1>1, <2>1, <2>2, <2>3, GeneratedIsValid
<1> HIDE DEF puzzle, req, n
<1>5. \A i \in 1..n : /\ specs[i].id = <<"gen", req.type, puzzle(i).band, req.seed, i>>
                      /\ ValidItem(specs[i]) /\ SpecIsWhole(specs[i])
  BY <1>3, <1>4 DEF GeneratedId
<1>6. specs = [i \in 1..n |-> specs[i]]
  BY <1>3
<1> HIDE DEF specs
<1>7. \A i, j \in 1..n : specs[i].id = specs[j].id => i = j
  <2> SUFFICES ASSUME NEW i \in 1..n, NEW j \in 1..n, specs[i].id = specs[j].id PROVE i = j
    OBVIOUS
  <2>1. <<"gen", req.type, puzzle(i).band, req.seed, i>> = <<"gen", req.type, puzzle(j).band, req.seed, j>>
    BY <1>5, Zenon
  <2>2. QED
    BY <2>1
<1>8. ListedSpecs(specs)
  BY <1>1, <1>6, <1>7, FunctionIsListed
<1>9. DOMAIN specs = 1..n
  BY <1>6
<1>10. QED
  BY <1>5, <1>8, <1>9 DEF specs, req

(* The part that is rewritten says what it said, and stays well formed.    *)
LEMMA PartStaysWellFormed ==
    ASSUME NEW parts, PartsAreTyped(parts), InlineParts(parts) # {},
           \A k \in DOMAIN parts : WellFormed(parts[k]) /\ PartFields \subseteq DOMAIN parts[k]
    PROVE  LET new == [parts EXCEPT ![Min(InlineParts(parts))].ref = ContentRef(@)]
           IN  /\ DOMAIN new = DOMAIN parts /\ Len(new) = Len(parts) /\ DOMAIN parts # {}
               /\ \A k \in DOMAIN parts :
                     /\ WellFormed(new[k]) /\ DOMAIN new[k] = DOMAIN parts[k]
                     /\ "id" \in DOMAIN parts[k] => new[k].id = parts[k].id
<1> DEFINE m   == Min(InlineParts(parts))
           new == [parts EXCEPT ![m].ref = ContentRef(@)]
           n   == Len(parts)
           out == [parts[m] EXCEPT !.ref = ContentRef(@)]
<1>1. m \in DOMAIN parts /\ IsInline(parts[m].ref) /\ PartsAreTyped(new) /\ DOMAIN new = DOMAIN parts
  BY OnePartRewritten
<1>2. n \in Nat /\ DOMAIN parts = 1..n /\ Len(new) = n
  BY <1>1 DEF PartsAreTyped
<1> HIDE DEF m, n
<1>3. \A k \in DOMAIN parts : new[k] = IF k = m THEN out ELSE parts[k]
  BY <1>1
<1> HIDE DEF new
<1>4. /\ out.ref = ContentRef(parts[m].ref) /\ out.text = parts[m].text /\ out.kind = parts[m].kind
      /\ DOMAIN out = DOMAIN parts[m]
      /\ "id" \in DOMAIN parts[m] => out.id = parts[m].id
  BY <1>1 DEF PartFields
<1> HIDE DEF out
<1>5. WellFormed(out)
  <2>1. parts[m].ref # NoMedia
    BY <1>1, RefsApart
  <2>2. ContentRef(parts[m].ref) # NoMedia
    BY DEF ContentRef, BlobRef, NoMedia
  <2>3. parts[m].kind \in MediaKinds
    BY <1>1, <2>1 DEF WellFormed
  <2>4. QED
    BY <1>4, <2>2, <2>3 DEF WellFormed
<1>6. \A k \in DOMAIN parts :
         /\ WellFormed(new[k]) /\ DOMAIN new[k] = DOMAIN parts[k]
         /\ "id" \in DOMAIN parts[k] => new[k].id = parts[k].id
  BY <1>3, <1>4, <1>5
<1>7. QED
  BY <1>1, <1>2, <1>6 DEF new, m, n

LEMMA RewrittenIsValid ==
    ASSUME NEW spec, SpecIsTyped(spec), ValidItem(spec), SpecIsWhole(spec),
           InlineParts(spec.stimulus) # {} \/ InlineParts(spec.options) # {}
    PROVE  ValidItem(Rewritten(spec)) /\ SpecIsWhole(Rewritten(spec)) /\ Rewritten(spec).id = spec.id
<1> DEFINE out == Rewritten(spec)
<1>1. /\ PartsAreTyped(spec.stimulus) /\ PartsAreTyped(spec.options)
      /\ SpecFields \subseteq DOMAIN spec
      /\ \A k \in DOMAIN spec.stimulus : PartFields \subseteq DOMAIN spec.stimulus[k]
      /\ \A k \in DOMAIN spec.options : PartFields \subseteq DOMAIN spec.options[k] /\ "id" \in DOMAIN spec.options[k]
  BY DEF SpecIsTyped, SpecIsWhole
<1>2. CASE InlineParts(spec.stimulus) # {}
  <2> DEFINE parts == spec.stimulus
             new   == [parts EXCEPT ![Min(InlineParts(parts))].ref = ContentRef(@)]
  <2>1. out = [spec EXCEPT !.stimulus = new]
    BY <1>2 DEF Rewritten
  <2>2. \A k \in DOMAIN parts : WellFormed(parts[k])
    BY DEF ValidItem, ValidCommon
  <2>3. /\ DOMAIN new = DOMAIN parts /\ DOMAIN parts # {}
        /\ \A k \in DOMAIN parts : WellFormed(new[k]) /\ DOMAIN new[k] = DOMAIN parts[k]
    BY <1>1, <1>2, <2>2, PartStaysWellFormed
  <2> HIDE DEF new, out
  <2>4. /\ DOMAIN out = DOMAIN spec /\ out.stimulus = new
        /\ out.id = spec.id /\ out.source = spec.source /\ out.origin = spec.origin /\ out.redist = spec.redist
        /\ out.type = spec.type /\ out.band = spec.band /\ out.format = spec.format
        /\ out.options = spec.options /\ out.key = spec.key
    BY <1>1, <2>1 DEF SpecFields
  <2>5. new # <<>>
    BY <2>3
  <2>6. ValidCommon(out)
    BY <2>3, <2>4, <2>5 DEF ValidItem, ValidCommon
  <2>7. ValidAnswer(out)
    BY <2>4 DEF ValidItem, ValidAnswer, ValidMultipleChoice, ValidOpenNumeric, ValidTrueFalse
  <2>8. SpecIsWhole(out)
    BY <2>3, <2>4 DEF SpecIsWhole
  <2>9. QED
    BY <2>4, <2>6, <2>7, <2>8 DEF ValidItem, out
<1>3. CASE InlineParts(spec.stimulus) = {}
  <2> DEFINE parts == spec.options
             new   == [parts EXCEPT ![Min(InlineParts(parts))].ref = ContentRef(@)]
  <2>1. out = [spec EXCEPT !.options = new] /\ InlineParts(parts) # {}
    BY <1>3 DEF Rewritten
  <2>2. ValidMultipleChoice(spec) /\ spec.format = "multiple-choice"
    <3>1. parts # <<>>
      BY <2>1 DEF InlineParts
    <3>2. QED
      BY <3>1 DEF ValidItem, ValidAnswer, ValidOpenNumeric, ValidTrueFalse
  <2>3. \A k \in DOMAIN parts : WellFormed(parts[k])
    BY <2>2 DEF ValidMultipleChoice
  <2>4. /\ DOMAIN new = DOMAIN parts /\ Len(new) = Len(parts)
        /\ \A k \in DOMAIN parts : /\ WellFormed(new[k]) /\ DOMAIN new[k] = DOMAIN parts[k]
                                   /\ new[k].id = parts[k].id
    BY <1>1, <2>1, <2>3, PartStaysWellFormed
  <2> HIDE DEF new, out
  <2>5. /\ DOMAIN out = DOMAIN spec /\ out.options = new
        /\ out.id = spec.id /\ out.source = spec.source /\ out.origin = spec.origin /\ out.redist = spec.redist
        /\ out.type = spec.type /\ out.band = spec.band /\ out.format = spec.format
        /\ out.stimulus = spec.stimulus /\ out.key = spec.key
    BY <1>1, <2>1 DEF SpecFields
  <2>6. ValidCommon(out)
    BY <2>5 DEF ValidItem, ValidCommon
  <2>7. ValidMultipleChoice(out)
    BY <2>2, <2>4, <2>5 DEF ValidMultipleChoice
  <2>8. SpecIsWhole(out)
    BY <2>4, <2>5 DEF SpecIsWhole
  <2>9. QED
    BY <2>2, <2>5, <2>6, <2>7, <2>8 DEF ValidItem, ValidAnswer, out
<1>4. QED
  BY <1>2, <1>3

-----------------------------------------------------------------------------
(* The report *)

Kept(run) == {k \in 1..(run.next - 1) : ValidItem(run.specs[k])}

KeptIds(run) == {run.specs[k].id : k \in Kept(run)}

(* A run that ends well with something to save has saved.                  *)
EndsTruthfully(run) == run.phase = "ended" /\ run.err = "" /\ run.specs # <<>> => run.saved > 0

WholeRun(run) == \A k \in DOMAIN run.specs : ValidItem(run.specs[k]) /\ SpecIsWhole(run.specs[k])

(* A run saves the valid ones of a list of specs in their order, each      *)
(* under an id of its own; what was handed in is valid altogether.         *)
ReportRun(banked, run) ==
    /\ ListedSpecs(run.specs)
    /\ run.next \in 1..(Len(run.specs) + 1)
    /\ run.phase \notin {"storing", "ended"} => run.specs = <<>> /\ run.next = 1 /\ run.saved = 0
    /\ run.phase = "storing" /\ HandsIn(Requests[run.req].kind) => WholeRun(run)
    /\ IsFiniteSet(KeptIds(run)) /\ run.saved = Cardinality(KeptIds(run)) /\ KeptIds(run) \subseteq banked
    /\ EndsTruthfully(run)

ReportInv == \A c \in Clients : ReportRun(DOMAIN bank, runs[c])

(* No error comes with the specs. *)
NoErr(found) == found.err = ""

LEMMA NothingKept ==
    ASSUME NEW run, run.next = 1
    PROVE  KeptIds(run) = {} /\ IsFiniteSet(KeptIds(run)) /\ Cardinality(KeptIds(run)) = 0
<1>1. 1..(run.next - 1) = {}
  OBVIOUS
<1>2. KeptIds(run) = {}
  BY <1>1 DEF KeptIds, Kept
<1>3. QED
  BY <1>2, FS_EmptySet

LEMMA FreshReport ==
    ASSUME NEW banked, NEW run, run.specs = <<>>, run.next = 1, run.saved = 0
    PROVE  ReportRun(banked, run)
<1>1. ListedSpecs(run.specs)
  BY NothingIsListed
<1>2. Len(run.specs) = 0 /\ DOMAIN run.specs = {}
  OBVIOUS
<1>3. run.next \in 1..(Len(run.specs) + 1)
  BY <1>2
<1>4. WholeRun(run)
  BY <1>2 DEF WholeRun
<1>5. EndsTruthfully(run)
  BY DEF EndsTruthfully
<1>6. KeptIds(run) = {} /\ IsFiniteSet(KeptIds(run)) /\ Cardinality(KeptIds(run)) = 0
  BY NothingKept
<1>7. QED
  BY <1>1, <1>3, <1>4, <1>5, <1>6 DEF ReportRun

LEMMA OneIsNext == \A n \in Nat : 1 \in 1..(n + 1)
OBVIOUS

LEMMA SomeIsPositive == \A n \in Nat : n # 0 => n > 0
OBVIOUS

LEMMA StoringReport ==
    ASSUME NEW banked, NEW run, DOMAIN run = DOMAIN NewRun, run.specs = <<>>, run.next = 1, run.saved = 0,
           NEW found, found.err = "" => ListedSpecs(found.specs),
           HandsIn(Requests[run.req].kind) => \A k \in DOMAIN found.specs : ValidItem(found.specs[k]) /\ SpecIsWhole(found.specs[k])
    PROVE  ReportRun(banked, Storing(run, found))
<1>1. CASE found.err # ""
  <2> DEFINE out == Ended(run, found.err)
  <2>1. Storing(run, found) = out
    BY <1>1 DEF Storing
  <2>2. out.specs = <<>> /\ out.next = 1 /\ out.saved = 0
    BY DEF Ended, NewRun
  <2> HIDE DEF out
  <2>3. QED
    BY <2>1, <2>2, FreshReport
<1>2. CASE found.err = ""
  <2> DEFINE out == [run EXCEPT !.phase = "storing", !.specs = found.specs]
  <2>1. Storing(run, found) = out
    BY <1>2 DEF Storing
  <2>2. /\ out.specs = found.specs /\ out.next = 1 /\ out.saved = 0
        /\ out.phase = "storing" /\ out.req = run.req
    BY DEF NewRun
  <2> HIDE DEF out
  <2>3. ListedSpecs(out.specs)
    BY <1>2, <2>2
  <2>4. out.next \in 1..(Len(out.specs) + 1)
    <3>1. Len(out.specs) \in Nat
      BY <2>3, Zenon DEF ListedSpecs
    <3>2. QED
      BY <2>2, <3>1, OneIsNext, Zenon
  <2>5. HandsIn(Requests[out.req].kind) => WholeRun(out)
    BY <2>2 DEF WholeRun
  <2>6. EndsTruthfully(out)
    BY <2>2 DEF EndsTruthfully
  <2>7. KeptIds(out) = {} /\ IsFiniteSet(KeptIds(out)) /\ Cardinality(KeptIds(out)) = 0
    BY <2>2, NothingKept
  <2>8. ReportRun(banked, out)
    BY <2>2, <2>3, <2>4, <2>5, <2>6, <2>7 DEF ReportRun
  <2>9. QED
    BY <2>1, <2>8
<1>3. QED
  BY <1>1, <1>2

(* What a run has kept depends on its specs and how far it is.             *)
LEMMA SameKept ==
    ASSUME NEW run, NEW out, out.next = run.next, out.specs = run.specs
    PROVE  KeptIds(out) = KeptIds(run)
BY DEF KeptIds, Kept

LEMMA EndedReport ==
    ASSUME NEW banked, NEW run, ReportRun(banked, run), DOMAIN run = DOMAIN NewRun,
           NEW err, err = "" => run.specs = <<>> \/ run.saved # 0
    PROVE  ReportRun(banked, Ended(run, err))
<1> DEFINE out == Ended(run, err)
<1>1. /\ out.specs = run.specs /\ out.next = run.next /\ out.saved = run.saved
      /\ out.phase = "ended" /\ out.err = err
  BY DEF Ended, NewRun
<1> HIDE DEF out
<1>2. KeptIds(out) = KeptIds(run)
  BY <1>1, SameKept
<1>3. run.saved \in Nat
  <2>1. IsFiniteSet(KeptIds(run)) /\ run.saved = Cardinality(KeptIds(run))
    BY DEF ReportRun
  <2>2. QED
    BY <2>1, FS_CardinalityType
<1>4. EndsTruthfully(out)
  <2>1. run.saved # 0 => run.saved > 0
    BY <1>3, SomeIsPositive, Zenon
  <2>2. QED
    BY <1>1, <2>1, Zenon DEF EndsTruthfully
<1>5. ReportRun(banked, out)
  BY <1>1, <1>2, <1>4 DEF ReportRun
<1>6. QED
  BY <1>5 DEF out

LEMMA ReportKept ==
    ASSUME NEW banked, NEW more, banked \subseteq more, NEW run, ReportRun(banked, run)
    PROVE  ReportRun(more, run)
BY DEF ReportRun

(* The head of the queue is passed.                                        *)
LEMMA OneMoreKept ==
    ASSUME NEW run, ListedSpecs(run.specs), run.next \in DOMAIN run.specs,
           NEW out, out.specs = run.specs, out.next = run.next + 1
    PROVE  LET spec == run.specs[run.next]
           IN  /\ out.next \in 1..(Len(out.specs) + 1)
               /\ ValidItem(spec) => KeptIds(out) = KeptIds(run) \cup {spec.id} /\ spec.id \notin KeptIds(run)
               /\ ~ValidItem(spec) => KeptIds(out) = KeptIds(run)
<1> DEFINE n    == run.next
           spec == run.specs[n]
           L    == Len(run.specs)
<1>1. L \in Nat /\ DOMAIN run.specs = 1..L /\ n \in 1..L
  BY DEF ListedSpecs
<1>2. \A k, l \in 1..L : run.specs[k].id = run.specs[l].id => k = l
  BY <1>1 DEF ListedSpecs
<1> HIDE DEF n, L
<1>3. /\ n + 1 \in 1..(L + 1) /\ 1..((n + 1) - 1) = 1..(n - 1) \cup {n}
      /\ n \notin 1..(n - 1) /\ 1..(n - 1) \subseteq 1..L
  BY <1>1
<1>4. Kept(out) = Kept(run) \cup {k \in {n} : ValidItem(run.specs[k])}
  BY <1>3 DEF Kept, n
<1>5. Kept(run) \subseteq 1..(n - 1)
  BY DEF Kept, n
<1>6. spec.id \notin KeptIds(run)
  BY <1>1, <1>2, <1>3, <1>5 DEF KeptIds
<1>7. ValidItem(spec) => KeptIds(out) = KeptIds(run) \cup {spec.id}
  BY <1>4 DEF KeptIds
<1>8. ~ValidItem(spec) => KeptIds(out) = KeptIds(run)
  BY <1>4 DEF KeptIds
<1>9. out.next \in 1..(Len(out.specs) + 1)
  BY <1>3 DEF n, L
<1>10. QED
  BY <1>6, <1>7, <1>8, <1>9 DEF n

LEMMA SkippedReport ==
    ASSUME NEW banked, NEW run, ReportRun(banked, run), run.phase = "storing",
           run.next \in DOMAIN run.specs, ~ValidItem(run.specs[run.next]),
           NEW out, out.specs = run.specs, out.next = run.next + 1, out.saved = run.saved,
           out.phase = run.phase, out.req = run.req
    PROVE  ReportRun(banked, out)
<1>1. ListedSpecs(run.specs)
  BY Zenon DEF ReportRun
<1>2. out.next \in 1..(Len(out.specs) + 1) /\ KeptIds(out) = KeptIds(run)
  BY <1>1, OneMoreKept
<1>3. EndsTruthfully(out)
  BY DEF EndsTruthfully
<1>4. HandsIn(Requests[out.req].kind) => WholeRun(out)
  BY DEF ReportRun, WholeRun
<1>5. QED
  BY <1>1, <1>2, <1>3, <1>4 DEF ReportRun

LEMMA SavedReport ==
    ASSUME NEW banked, NEW run, ReportRun(banked, run), run.phase = "storing",
           run.next \in DOMAIN run.specs, ValidItem(run.specs[run.next]),
           NEW out, out.specs = run.specs, out.next = run.next + 1, out.saved = run.saved + 1,
           out.phase = run.phase, out.req = run.req
    PROVE  ReportRun(banked \cup {run.specs[run.next].id}, out)
<1> DEFINE id == run.specs[run.next].id
<1>1. ListedSpecs(run.specs)
  BY Zenon DEF ReportRun
<1>2. /\ out.next \in 1..(Len(out.specs) + 1)
      /\ KeptIds(out) = KeptIds(run) \cup {id} /\ id \notin KeptIds(run)
  BY <1>1, OneMoreKept
<1>3. EndsTruthfully(out)
  BY DEF EndsTruthfully
<1>4. HandsIn(Requests[out.req].kind) => WholeRun(out)
  BY DEF ReportRun, WholeRun
<1>5. /\ IsFiniteSet(KeptIds(run)) /\ run.saved = Cardinality(KeptIds(run)) /\ KeptIds(run) \subseteq banked
  BY DEF ReportRun
<1>6. IsFiniteSet(KeptIds(out)) /\ Cardinality(KeptIds(out)) = run.saved + 1
  <2> HIDE DEF id
  <2>1. Cardinality(KeptIds(run) \cup {id}) = Cardinality(KeptIds(run)) + 1
    BY <1>2, <1>5, FS_AddElement
  <2>2. QED
    BY <1>2, <1>5, <2>1, FS_AddElement
<1>7. KeptIds(out) \subseteq banked \cup {id}
  BY <1>2, <1>5
<1>8. QED
  BY <1>1, <1>2, <1>3, <1>4, <1>6, <1>7 DEF ReportRun

(* The item at the head is still to be saved while its media goes: what is *)
(* kept stays what it was.                                                 *)
LEMMA OffloadedReport ==
    ASSUME NEW banked, NEW run, ReportRun(banked, run), DOMAIN run = DOMAIN NewRun, run.phase = "storing",
           HandsIn(Requests[run.req].kind), run.next \in DOMAIN run.specs,
           SpecIsTyped(run.specs[run.next]),
           InlineParts(run.specs[run.next].stimulus) # {} \/ InlineParts(run.specs[run.next].options) # {}
    PROVE  ReportRun(banked, [run EXCEPT !.specs[run.next] = Rewritten(@)])
<1> DEFINE n   == run.next
           new == [run.specs EXCEPT ![n] = Rewritten(@)]
           out == [run EXCEPT !.specs[n] = Rewritten(@)]
           L   == Len(run.specs)
<1>1. /\ out.specs = new /\ out.next = n /\ out.saved = run.saved
      /\ out.phase = "storing" /\ out.req = run.req
  BY DEF NewRun
<1>2. WholeRun(run) /\ ListedSpecs(run.specs)
  BY Zenon DEF ReportRun
<1>3. ValidItem(run.specs[n]) /\ SpecIsWhole(run.specs[n])
  BY <1>2 DEF WholeRun
<1>4. /\ ValidItem(Rewritten(run.specs[n])) /\ SpecIsWhole(Rewritten(run.specs[n]))
      /\ Rewritten(run.specs[n]).id = run.specs[n].id
  BY <1>3, RewrittenIsValid
<1>5. L \in Nat /\ DOMAIN run.specs = 1..L /\ n \in 1..L
  BY <1>2 DEF ListedSpecs
<1>6. /\ new = [k \in 1..L |-> IF k = n THEN Rewritten(run.specs[k]) ELSE run.specs[k]]
      /\ DOMAIN new = 1..L
  BY <1>5
<1>7. \A k \in 1..L : /\ ValidItem(new[k]) /\ SpecIsWhole(new[k]) /\ new[k].id = run.specs[k].id
                      /\ k # n => new[k] = run.specs[k]
  <2> HIDE DEF new
  <2>1. QED
    BY <1>2, <1>4, <1>5, <1>6 DEF WholeRun
<1>a. new = [k \in 1..L |-> new[k]]
  BY <1>6
<1> HIDE DEF out, new
<1>8. ListedSpecs(new)
  <2>1. \A k, l \in 1..L : run.specs[k].id = run.specs[l].id => k = l
    BY <1>2, <1>5 DEF ListedSpecs
  <2>2. \A k, l \in 1..L : new[k].id = new[l].id => k = l
    BY <1>7, <2>1
  <2>3. QED
    BY <1>5, <1>a, <2>2, FunctionIsListed
<1>9. Len(new) = L
  BY <1>5, <1>6, <1>8 DEF ListedSpecs
<1>10. n \notin 1..(n - 1) /\ 1..(n - 1) \subseteq 1..L /\ n \in 1..(L + 1)
  <2> HIDE DEF n, L
  <2>1. QED
    BY <1>5
<1>11. KeptIds(out) = KeptIds(run)
  <2>1. Kept(out) = Kept(run) /\ Kept(run) \subseteq 1..L
    BY <1>1, <1>7, <1>10 DEF Kept
  <2>2. QED
    BY <1>1, <1>7, <2>1 DEF KeptIds
<1>12. EndsTruthfully(out)
  BY <1>1 DEF EndsTruthfully
<1>13. WholeRun(out)
  BY <1>1, <1>6, <1>7 DEF WholeRun
<1>14. /\ IsFiniteSet(KeptIds(run)) /\ run.saved = Cardinality(KeptIds(run)) /\ KeptIds(run) \subseteq banked
  BY DEF ReportRun
<1>15. ReportRun(banked, out)
  BY <1>1, <1>8, <1>9, <1>10, <1>11, <1>12, <1>13, <1>14 DEF ReportRun
<1>16. QED
  BY <1>15 DEF out

LEMMA ReportFollows == ReportInv => ReportIsTruthful
<1> SUFFICES ASSUME ReportInv, NEW c \in Clients
             PROVE  LET run  == runs[c]
                        kept == {k \in 1..run.next - 1 : ValidItem(run.specs[k])}
                    IN  /\ run.saved = Cardinality({run.specs[k].id : k \in kept})
                        /\ \A k \in kept : run.specs[k].id \in DOMAIN bank
                        /\ run.phase = "ended" /\ run.err = "" /\ run.specs # <<>> => run.saved > 0
  BY DEF ReportIsTruthful
<1> DEFINE run == runs[c]
<1>1. ReportRun(DOMAIN bank, run)
  BY DEF ReportInv
<1> HIDE DEF run
<1>2. /\ run.saved = Cardinality(KeptIds(run)) /\ KeptIds(run) \subseteq DOMAIN bank
      /\ EndsTruthfully(run)
  BY <1>1, Zenon DEF ReportRun
<1>3. KeptIds(run) = {run.specs[k].id : k \in Kept(run)}
  BY DEF KeptIds
<1>4. Kept(run) = {k \in 1..run.next - 1 : ValidItem(run.specs[k])}
  BY DEF Kept
<1>5. \A k \in Kept(run) : run.specs[k].id \in DOMAIN bank
  BY <1>2, <1>3
<1>6. QED
  BY <1>2, <1>3, <1>4, <1>5, Zenon DEF EndsTruthfully, run

(* A run that ends with an error makes no claim to have saved anything.    *)
LEMMA FailedReport ==
    ASSUME NEW banked, NEW run, ReportRun(banked, run), DOMAIN run = DOMAIN NewRun, NEW err, err # ""
    PROVE  ReportRun(banked, Ended(run, err))
BY EndedReport

(* What a request hands in is valid and listed, a single item too.         *)
LEMMA HandedInIsReported ==
    ASSUME NEW name \in DOMAIN Requests, HandsIn(Requests[name].kind),
           NEW found,
           \/ /\ Requests[name].kind = "generate" /\ Generable(Requests[name])
              /\ found = SomeSpecs(Generated(Requests[name], Streams[Requests[name].seed]))
           \/ /\ Requests[name].kind = "author" /\ ValidItem(Requests[name].spec)
              /\ found = SomeSpecs(<<Requests[name].spec>>)
    PROVE  /\ ListedSpecs(found.specs)
           /\ \A k \in DOMAIN found.specs : ValidItem(found.specs[k]) /\ SpecIsWhole(found.specs[k])
<1> DEFINE req   == Requests[name]
           batch == Generated(req, Streams[req.seed])
           piece == <<req.spec>>
<1>1. \A x : SomeSpecs(x).specs = x
  BY DEF SomeSpecs
<1>2. CASE req.kind = "generate" /\ Generable(req) /\ found = SomeSpecs(batch)
  <2>1. ListedSpecs(batch) /\ \A k \in DOMAIN batch : ValidItem(batch[k]) /\ SpecIsWhole(batch[k])
    BY <1>2, BatchFacts
  <2>2. found.specs = batch
    BY <1>1, <1>2
  <2> HIDE DEF batch
  <2>3. QED
    BY <2>1, <2>2
<1>3. CASE req.kind = "author" /\ ValidItem(req.spec) /\ found = SomeSpecs(piece)
  <2>1. SpecIsWhole(req.spec)
    BY <1>3, MediaAssumption DEF SpecIsWhole
  <2>2. found.specs = piece
    BY <1>1, <1>3
  <2>3. DOMAIN piece = {1} /\ piece[1] = req.spec
    OBVIOUS
  <2>4. piece = [k \in 1..1 |-> piece[k]] /\ \A k, l \in 1..1 : k = l
    OBVIOUS
  <2> HIDE DEF piece
  <2>5. ListedSpecs(piece)
    BY <2>4, FunctionIsListed
  <2>6. \A k \in DOMAIN piece : ValidItem(piece[k]) /\ SpecIsWhole(piece[k])
    BY <1>3, <2>1, <2>3
  <2>7. QED
    BY <2>2, <2>5, <2>6
<1>4. QED
  BY <1>2, <1>3

LEMMA ReportStep == SourcingInv /\ ReportInv /\ [Next]_vars => ReportInv'
<1> SUFFICES ASSUME SourcingInv, ReportInv, [Next]_vars PROVE ReportInv'
  OBVIOUS
<1>1. /\ DOMAIN runs = Clients
      /\ \A c \in Clients : /\ RunInv(DOMAIN files, runs[c]) /\ DOMAIN runs[c] = DOMAIN NewRun
                            /\ ReportRun(DOMAIN bank, runs[c])
  BY DEF SourcingInv, RunInv, ReportInv
<1>2. ASSUME NEW c \in Clients, NEW out, Update(c, out), DOMAIN bank \subseteq DOMAIN bank',
             ReportRun(DOMAIN bank', out)
      PROVE  ReportInv'
  <2>1. \A d \in Clients : runs'[d] = IF d = c THEN out ELSE runs[d]
    BY <1>1, <1>2 DEF Update
  <2>2. \A d \in Clients : ReportRun(DOMAIN bank', runs'[d])
    BY <1>1, <1>2, <2>1, ReportKept
  <2>3. QED
    BY <2>2 DEF ReportInv
<1>3. ASSUME NEW c \in Clients, NEW out, Update(c, out), UNCHANGED bank, ReportRun(DOMAIN bank, out)
      PROVE  ReportInv'
  <2>1. DOMAIN bank \subseteq DOMAIN bank' /\ ReportRun(DOMAIN bank', out)
    BY <1>3
  <2>2. QED
    BY <1>2, <1>3, <2>1
<1>4. ASSUME NEW c \in Clients, UNCHANGED bank, NEW err, Update(c, Ended(runs[c], err)), err # ""
      PROVE  ReportInv'
  BY <1>1, <1>3, <1>4, FailedReport
<1>5. ASSUME NEW c \in Clients, NEW name \in DOMAIN Requests, Begin(c, name) PROVE ReportInv'
  <2> DEFINE run      == [NewRun EXCEPT !.req = name]
             fetching == [run EXCEPT !.phase = "fetching"]
             req      == Requests[name]
             batch    == SomeSpecs(Generated(req, Streams[req.seed]))
             piece    == SomeSpecs(<<req.spec>>)
  <2>1. /\ DOMAIN run = DOMAIN NewRun /\ run.specs = <<>> /\ run.next = 1 /\ run.saved = 0 /\ run.req = name
        /\ fetching.specs = <<>> /\ fetching.next = 1 /\ fetching.saved = 0
    BY DEF NewRun
  <2>2. req.kind \in {"ingest", "extract", "generate", "author"} /\ UNCHANGED bank
    BY <1>5, MediaAssumption DEF Begin
  <2>3. \/ Update(c, fetching)
        \/ Update(c, Ended(run, "no normalizer")) \/ Update(c, Ended(run, "invalid spec"))
        \/ Update(c, Ended(run, "invalid item"))
        \/ req.kind = "generate" /\ Generable(req) /\ Update(c, Storing(run, batch))
        \/ req.kind = "author" /\ ValidItem(req.spec) /\ Update(c, Storing(run, piece))
    BY <1>5, <2>2 DEF Begin
  <2> HIDE DEF run, fetching, batch, piece
  <2>4. ReportRun(DOMAIN bank, run) /\ ReportRun(DOMAIN bank, fetching)
    BY <2>1, FreshReport
  <2>5. \A err \in {"no normalizer", "invalid spec", "invalid item"} : ReportRun(DOMAIN bank, Ended(run, err))
    BY <2>1, <2>4, FailedReport
  <2>6. ASSUME NEW found,
               \/ req.kind = "generate" /\ Generable(req) /\ found = batch
               \/ req.kind = "author" /\ ValidItem(req.spec) /\ found = piece
        PROVE  ReportRun(DOMAIN bank, Storing(run, found))
    <3>1. HandsIn(req.kind)
      BY <2>6 DEF HandsIn
    <3>2. /\ ListedSpecs(found.specs)
          /\ \A k \in DOMAIN found.specs : ValidItem(found.specs[k]) /\ SpecIsWhole(found.specs[k])
      BY <2>6, <3>1, HandedInIsReported DEF batch, piece
    <3>3. QED
      BY <2>1, <3>2, StoringReport
  <2>7. QED
    BY <1>3, <2>2, <2>3, <2>4, <2>5, <2>6
<1>6. ASSUME NEW c \in Clients, Fetch(c) PROVE ReportInv'
  <2> DEFINE req   == Request(c)
             got   == Fetched(Wired(c, req.kind), req.source, req.limit)
             run   == [runs[c] EXCEPT !.fetched = Len(got.items), !.partial = got.partial]
             out   == [run EXCEPT !.phase = "asking", !.asked = PayloadSize(got.items)]
             found == Normalize(req.source, got.items)
  <2>1. /\ runs[c].phase = "fetching" /\ UNCHANGED bank
        /\ \/ req.kind = "ingest" /\ Update(c, Storing(run, found))
           \/ Update(c, Ended(run, "no payload"))
           \/ Update(c, out)
    BY <1>6 DEF Fetch
  <2>2. /\ runs[c].req \in DOMAIN Requests /\ req = Requests[runs[c].req] /\ ~HandsIn(req.kind)
        /\ req.kind = "ingest" => req.source.id \in Registered
    BY <1>1, <2>1 DEF RunInv, Request
  <2>3. runs[c].specs = <<>> /\ runs[c].next = 1 /\ runs[c].saved = 0
    BY <1>1, <2>1 DEF ReportRun
  <2>4. /\ DOMAIN run = DOMAIN NewRun /\ run.req = runs[c].req
        /\ run.specs = <<>> /\ run.next = 1 /\ run.saved = 0
        /\ out.specs = <<>> /\ out.next = 1 /\ out.saved = 0
    BY <1>1, <2>3 DEF NewRun
  <2>5. ASSUME req.kind = "ingest", NoErr(found) PROVE ListedSpecs(found.specs)
    BY <2>2, <2>5, WiredIsAWiring, NormalizedIsListed DEF NoErr
  <2> HIDE DEF run, out, found
  <2>6. ReportRun(DOMAIN bank, run) /\ ReportRun(DOMAIN bank, out)
    BY <2>4, FreshReport
  <2>7. ReportRun(DOMAIN bank, Ended(run, "no payload"))
    BY <2>4, <2>6, FailedReport
  <2>8. req.kind = "ingest" => ReportRun(DOMAIN bank, Storing(run, found))
    BY <2>2, <2>4, <2>5, StoringReport DEF NoErr
  <2>9. QED
    BY <1>3, <2>1, <2>6, <2>7, <2>8
<1>7. ASSUME NEW c \in Clients, NEW answer \in Backend, Ask(c, answer) PROVE ReportInv'
  <2> DEFINE req   == Request(c)
             run   == [runs[c] EXCEPT !.tokens = Clamped(req.tokens, CapOf(c))]
             out   == Completion(answer)
             found == ExtractSpecs(req.source, req.type, out.content)
  <2>1. /\ runs[c].phase = "asking" /\ UNCHANGED bank
        /\ \/ Update(c, Ended(runs[c], "model not allowed"))
           \/ ~NoErr(out) /\ Update(c, Ended(run, out.err))
           \/ NoErr(out) /\ Update(c, Storing(run, found))
    BY <1>7 DEF Ask, NoErr
  <2>2. req = Requests[runs[c].req] /\ ~HandsIn(req.kind)
    BY <1>1, <2>1 DEF RunInv, Request
  <2>3. runs[c].specs = <<>> /\ runs[c].next = 1 /\ runs[c].saved = 0
    BY <1>1, <2>1 DEF ReportRun
  <2>4. /\ DOMAIN run = DOMAIN NewRun /\ run.req = runs[c].req
        /\ run.specs = <<>> /\ run.next = 1 /\ run.saved = 0
    BY <1>1, <2>3 DEF NewRun
  <2>5. ASSUME NoErr(out), NoErr(found) PROVE ListedSpecs(found.specs)
    <3>1. out.content.json => IsList(out.content.items)
      BY <2>5, AnswerAssumption DEF NoErr
    <3>2. QED
      BY <2>5, <3>1, ExtractedIsListed DEF NoErr
  <2> HIDE DEF run, out, found
  <2>6. ReportRun(DOMAIN bank, run)
    BY <2>4, FreshReport
  <2>7. ~NoErr(out) => ReportRun(DOMAIN bank, Ended(run, out.err))
    BY <2>4, <2>6, FailedReport DEF NoErr
  <2>8. NoErr(out) => ReportRun(DOMAIN bank, Storing(run, found))
    BY <2>2, <2>4, <2>5, StoringReport DEF NoErr
  <2>9. QED
    BY <1>3, <1>4, <2>1, <2>7, <2>8
<1>8. ASSUME NEW c \in Clients, CallFails(c) \/ OffloadFails(c) \/ SaveFails(c) PROVE ReportInv'
  <2>1. UNCHANGED bank /\ (Update(c, Ended(runs[c], "failed")) \/ Update(c, Ended(runs[c], "store")))
    BY <1>8 DEF CallFails, OffloadFails, SaveFails
  <2>2. QED
    BY <1>4, <2>1
<1>9. ASSUME NEW c \in Clients, Finish(c) PROVE ReportInv'
  <2> DEFINE run == runs[c]
             err == IF run.specs # <<>> /\ run.saved = 0 THEN "all rejected" ELSE ""
  <2>1. UNCHANGED bank /\ Update(c, Ended(run, err))
    BY <1>9 DEF Finish
  <2>2. err = "" => run.specs = <<>> \/ run.saved # 0
    OBVIOUS
  <2> HIDE DEF err
  <2>3. ReportRun(DOMAIN bank, Ended(run, err))
    BY <1>1, <2>2, EndedReport
  <2>4. QED
    BY <1>3, <2>1, <2>3
<1>10. ASSUME NEW c \in Clients, Offload(c) PROVE ReportInv'
  <2> DEFINE run  == runs[c]
             spec == run.specs[run.next]
             out  == [run EXCEPT !.specs[run.next] = Rewritten(@)]
  <2>1. /\ UNCHANGED bank /\ (UNCHANGED runs \/ Update(c, out))
        /\ run.phase = "storing" /\ run.next \in DOMAIN run.specs
        /\ HandsIn(Requests[run.req].kind)
        /\ InlineParts(spec.stimulus) # {} \/ InlineParts(spec.options) # {}
    BY <1>10 DEF Offload, MustOffload, Busy, Authoring, Request, HandsIn, Head_
  <2>2. SpecIsTyped(spec)
    BY <1>1, <2>1 DEF RunInv, PendingSpec
  <2>3. ReportRun(DOMAIN bank, out)
    BY <1>1, <2>1, <2>2, OffloadedReport
  <2> HIDE DEF out
  <2>4. QED
    BY <1>1, <1>3, <2>1, <2>3 DEF ReportInv
<1>11. ASSUME NEW c \in Clients, Skip(c) PROVE ReportInv'
  <2> DEFINE run == runs[c]
             out == [run EXCEPT !.next = @ + 1, !.skipped = @ + 1]
  <2>1. /\ UNCHANGED bank /\ Update(c, out)
        /\ run.phase = "storing" /\ run.next \in DOMAIN run.specs /\ ~ValidItem(run.specs[run.next])
    BY <1>11 DEF Skip, Busy, Head_
  <2>2. /\ out.specs = run.specs /\ out.next = run.next + 1 /\ out.saved = run.saved
        /\ out.phase = run.phase /\ out.req = run.req
    BY <1>1 DEF NewRun
  <2> HIDE DEF out
  <2>3. ReportRun(DOMAIN bank, out)
    BY <1>1, <2>1, <2>2, SkippedReport
  <2>4. QED
    BY <1>3, <2>1, <2>3
<1>12. ASSUME NEW c \in Clients, Save(c) PROVE ReportInv'
  <2> DEFINE run  == runs[c]
             spec == run.specs[run.next]
             out  == [run EXCEPT !.next = @ + 1, !.saved = @ + 1]
  <2>1. /\ DOMAIN bank' = DOMAIN bank \cup {spec.id} /\ Update(c, out)
        /\ run.phase = "storing" /\ run.next \in DOMAIN run.specs
        /\ HandsIn(Requests[run.req].kind) \/ ValidItem(spec)
    BY <1>12 DEF Save, Savable, Busy, Authoring, Request, HandsIn, Head_
  <2>2. ValidItem(spec)
    <3>1. HandsIn(Requests[run.req].kind) => WholeRun(run)
      BY <1>1, <2>1 DEF ReportRun
    <3>2. QED
      BY <2>1, <3>1 DEF WholeRun
  <2>3. /\ out.specs = run.specs /\ out.next = run.next + 1 /\ out.saved = run.saved + 1
        /\ out.phase = run.phase /\ out.req = run.req
    BY <1>1 DEF NewRun
  <2> HIDE DEF out
  <2>4. ReportRun(DOMAIN bank \cup {spec.id}, out)
    BY <1>1, <2>1, <2>2, <2>3, SavedReport
  <2>5. QED
    BY <1>2, <2>1, <2>4
<1>13. ASSUME NEW p \in Processes, Crash(p) PROVE ReportInv'
  <2>1. UNCHANGED bank /\ runs' = [c \in Clients |-> IF ProcessOf[c] = p THEN NewRun ELSE runs[c]]
    BY <1>13 DEF Crash
  <2>2. ReportRun(DOMAIN bank, NewRun)
    <3>1. NewRun.specs = <<>> /\ NewRun.next = 1 /\ NewRun.saved = 0
      BY DEF NewRun
    <3>2. QED
      BY <3>1, FreshReport
  <2>3. QED
    BY <1>1, <2>1, <2>2 DEF ReportInv
<1>14. CASE UNCHANGED vars
  BY <1>1, <1>14 DEF vars, ReportInv
<1>15. QED
  BY <1>5, <1>6, <1>7, <1>8, <1>9, <1>10, <1>11, <1>12, <1>13, <1>14 DEF Next

-----------------------------------------------------------------------------
(* An id names its question *)

(* Lists of records, as functions. *)
Solid(parts) ==
    /\ parts = [k \in DOMAIN parts |-> parts[k]]
    /\ \A k \in DOMAIN parts : parts[k] = [x \in DOMAIN parts[k] |-> parts[k][x]] /\ "ref" \in DOMAIN parts[k]

(* The reference that a part ends with. *)
Settled(part) == [part EXCEPT !.ref = IF IsInline(@) THEN ContentRef(@) ELSE @]

(* What becomes of parts when all their media is offloaded.                *)
Carried(parts) == [k \in DOMAIN parts |-> Settled(parts[k])]

LEMMA SettledStays ==
    ASSUME NEW part, part = [x \in DOMAIN part |-> part[x]], "ref" \in DOMAIN part, ~IsInline(part.ref)
    PROVE  Settled(part) = part
<1>1. Settled(part) = [part EXCEPT !.ref = part.ref]
  BY DEF Settled
<1>2. QED
  BY <1>1

LEMMA CarriedStays ==
    ASSUME NEW parts, Solid(parts), \A k \in DOMAIN parts : ~IsInline(parts[k].ref)
    PROVE  Carried(parts) = parts
<1>1. \A k \in DOMAIN parts : Settled(parts[k]) = parts[k]
  BY SettledStays DEF Solid
<1>2. parts = [k \in DOMAIN parts |-> parts[k]]
  BY DEF Solid
<1>3. QED
  BY <1>1, <1>2 DEF Carried

(* One part offloaded is on the way to all of them offloaded.              *)
LEMMA CarriedOn ==
    ASSUME NEW parts, Solid(parts), NEW m \in DOMAIN parts, IsInline(parts[m].ref)
    PROVE  LET new == [parts EXCEPT ![m].ref = ContentRef(@)]
           IN  Solid(new) /\ Carried(new) = Carried(parts)
<1> DEFINE out == [parts[m] EXCEPT !.ref = ContentRef(@)]
           new == [parts EXCEPT ![m] = out]
<1>1. /\ out = [x \in DOMAIN parts[m] |-> IF x = "ref" THEN ContentRef(parts[m].ref) ELSE parts[m][x]]
      /\ DOMAIN out = DOMAIN parts[m] /\ "ref" \in DOMAIN out /\ out.ref = ContentRef(parts[m].ref)
  BY DEF Solid
<1>2. out = [x \in DOMAIN out |-> out[x]]
  BY <1>1
<1>3. Settled(out) = out
  BY <1>1, <1>2, RefsApart, SettledStays
<1>4. Settled(parts[m]) = out
  BY DEF Settled
<1> HIDE DEF out
<1>5. /\ DOMAIN new = DOMAIN parts /\ new = [k \in DOMAIN parts |-> IF k = m THEN out ELSE parts[k]]
      /\ \A k \in DOMAIN parts : new[k] = IF k = m THEN out ELSE parts[k]
  BY DEF Solid
<1>a. new = [k \in DOMAIN new |-> new[k]]
  BY <1>5
<1> HIDE DEF new
<1>6. \A k \in DOMAIN parts : Settled(new[k]) = Settled(parts[k])
  BY <1>3, <1>4, <1>5
<1>7. Carried(new) = Carried(parts)
  BY <1>5, <1>6 DEF Carried
<1>8. Solid(new)
  BY <1>1, <1>2, <1>5, <1>a DEF Solid
<1>9. QED
  BY <1>7, <1>8 DEF new, out

-----------------------------------------------------------------------------
(* What is made *)

(* What an item of one choice reads. *)
Reads(spec, id, stem, options, key) ==
    /\ SpecFields \subseteq DOMAIN spec
    /\ spec.id = id /\ spec.stimulus = <<PlainText(stem)>> /\ spec.options = options
    /\ spec.key.option = key

LEMMA ChoiceFields ==
    ASSUME NEW id, NEW source, NEW origin, NEW type, NEW stem, NEW options, NEW key, NEW band
    PROVE  Reads(ChoiceSpec(id, source, origin, type, stem, options, key, band), id, stem, options, key)
BY DEF Reads, ChoiceSpec, SpecFields, BlankKey

LEMMA StemIsSolid ==
    ASSUME NEW stem
    PROVE  /\ Solid(<<PlainText(stem)>>) /\ \A k \in DOMAIN <<PlainText(stem)>> : ~IsInline(<<PlainText(stem)>>[k].ref)
           /\ <<PlainText(stem)>>[1].text = stem
<1> DEFINE part  == PlainText(stem)
           parts == <<part>>
<1>1. part = [x \in DOMAIN part |-> part[x]] /\ "ref" \in DOMAIN part /\ part.ref = NoMedia /\ part.text = stem
  BY DEF PlainText
<1> HIDE DEF part
<1>2. DOMAIN parts = {1} /\ parts[1] = part /\ parts = [k \in DOMAIN parts |-> parts[k]]
  OBVIOUS
<1> HIDE DEF parts
<1>3. Solid(parts) /\ \A k \in DOMAIN parts : ~IsInline(parts[k].ref)
  BY <1>1, <1>2, RefsApart DEF Solid
<1>4. QED
  BY <1>1, <1>2, <1>3 DEF parts, part

LEMMA OptionsAreSolid ==
    ASSUME NEW n, NEW id, NEW text, NEW options, options = [k \in n |-> PlainOption(id[k], text[k])]
    PROVE  Solid(options) /\ \A k \in DOMAIN options : ~IsInline(options[k].ref)
<1>1. ASSUME NEW i, NEW t PROVE LET part == PlainOption(i, t)
                                IN  part = [x \in DOMAIN part |-> part[x]] /\ "ref" \in DOMAIN part /\ part.ref = NoMedia
  BY DEF PlainOption
<1>2. DOMAIN options = n /\ options = [k \in DOMAIN options |-> options[k]]
  OBVIOUS
<1>3. \A k \in n : options[k] = PlainOption(id[k], text[k])
  OBVIOUS
<1>4. \A k \in n : /\ options[k] = [x \in DOMAIN options[k] |-> options[k][x]] /\ "ref" \in DOMAIN options[k]
                   /\ options[k].ref = NoMedia
  <2> SUFFICES ASSUME NEW k \in n
               PROVE  /\ options[k] = [x \in DOMAIN options[k] |-> options[k][x]] /\ "ref" \in DOMAIN options[k]
                      /\ options[k].ref = NoMedia
    OBVIOUS
  <2> DEFINE part == PlainOption(id[k], text[k])
  <2>1. options[k] = part
    BY <1>3
  <2>2. part = [x \in DOMAIN part |-> part[x]] /\ "ref" \in DOMAIN part /\ part.ref = NoMedia
    BY <1>1
  <2> HIDE DEF part
  <2>3. QED
    BY <2>1, <2>2
<1>5. QED
  BY <1>2, <1>4, RefsApart DEF Solid

(* A question of the codebook of words, one of a quiz page, a candidate of *)
(* a completion and a puzzle, as items to be.                              *)
FromBook(spec) ==
    \E source \in Sources : LET all == Whole(source) IN
        /\ source.id = "viqt"
        /\ \E n \in Artifacts(all, "codebook.txt") : \E k \in Codebook(all[n].says) : \E band :
              spec = ViqtSpec(source, all[n].says[k], band)

AsksOn(page, q) ==
    /\ page.code \in DOMAIN SubtestType /\ AnswerKeys(page) # {} /\ Askable(page, q)
    /\ \E k \in DOMAIN page.titles : page.titles[k].q = q

FromQuiz(spec) ==
    \E source \in Sources : LET all == Whole(source) IN
        /\ source.id = "asvab"
        /\ \E n \in TextPages(all) : \E q :
              AsksOn(all[n].says, q) /\ spec = AsvabSpec(source, all[n].says, q)

(* What the words of a candidate name it by. *)
ModelId(source, stem, options) == <<source, "llm", stem>> \o options

ModelOptions(options) == [n \in DOMAIN options |-> PlainOption("o" \o ToString(n - 1), options[n])]

FromModel(spec) ==
    \E name \in DOMAIN Requests : LET req == Requests[name] IN
        /\ req.kind = "extract"
        /\ \E stem, options, key, band :
              /\ IsList(options)
              /\ spec = ChoiceSpec(ModelId(req.source.id, stem, options), req.source, "generated", req.type, stem,
                                   ModelOptions(options), key, band)

Puzzle(req, i) == Build(req.type, req.difficulty, Streams[req.seed][i])

FromEngine(spec) ==
    \E name \in DOMAIN Requests : LET req == Requests[name] IN
        /\ req.kind = "generate" /\ Generable(req)
        /\ \E i \in 1..req.count : spec = GeneratedItem(req, Puzzle(req, i), i)

MadeItem(spec) == FromBook(spec) \/ FromQuiz(spec) \/ FromModel(spec) \/ FromEngine(spec)

(* A fetch with a limit brings the first of what there is.                 *)
Prefix(raw, all) == \A n \in DOMAIN raw : n \in DOMAIN all /\ raw[n] = all[n]

LEMMA NoSpecsAreNone == ASSUME NEW err PROVE DOMAIN NoSpecs(err).specs = {}
BY DEF NoSpecs

LEMMA ViqtIsMade ==
    ASSUME NEW source \in Sources, source.id = "viqt", NEW F, NEW raw \in Seq(F),
           Prefix(raw, Whole(source))
    PROVE  \A k \in DOMAIN Viqt(source, raw).specs : FromBook(Viqt(source, raw).specs[k])
<1> DEFINE all     == Whole(source)
           lines   == Book(raw)
           K       == Usable(raw)
           N       == Cardinality(K)
           usable  == Picked(lines, K)
           band(q) == ViqtBand(Cardinality(Right(Table(raw), q)), Cardinality(Responses(Table(raw), q.name)))
           specs == [k \in DOMAIN usable |-> ViqtSpec(source, usable[k], band(usable[k]))]
<1>1. \/ Viqt(source, raw) = NoSpecs("viqt data")
      \/ Artifacts(raw, "codebook.txt") # {} /\ Viqt(source, raw) = SomeSpecs(specs)
  BY DEF Viqt
<1>2. CASE Viqt(source, raw) = NoSpecs("viqt data")
  BY <1>2, NoSpecsAreNone
<1>3. CASE Artifacts(raw, "codebook.txt") # {} /\ Viqt(source, raw) = SomeSpecs(specs)
  <2> DEFINE n == Min(Artifacts(raw, "codebook.txt"))
  <2>1. n \in Artifacts(raw, "codebook.txt") /\ n \in DOMAIN raw
    BY <1>3, ArtifactsArePlaces, MinIsThere DEF Artifacts
  <2>2. n \in Artifacts(all, "codebook.txt") /\ lines = all[n].says
    <3>1. n \in DOMAIN all /\ raw[n] = all[n]
      BY <2>1 DEF Prefix
    <3>2. lines = raw[n].says
      BY DEF Book, ContentOf
    <3> HIDE DEF n, all, lines
    <3>3. QED
      BY <2>1, <3>1, <3>2 DEF Artifacts
  <2>3. LinesOnce(lines)
    <3>1. \A m \in Artifacts(all, "codebook.txt") : LinesOnce(all[m].says)
      BY OnceAssumption DEF LinesOnce, Artifacts
    <3>2. QED
      BY <2>2, <3>1
  <2>4. lines \in Seq(Range(lines)) /\ K \in SUBSET (DOMAIN lines) /\ K \subseteq Codebook(lines)
    BY <2>3 DEF LinesOnce, IsList, Usable, Codebook
  <2> HIDE DEF n, all, lines, K
  <2>5. DOMAIN usable = 1..N /\ \A m \in 1..N : Place(K, m) \in K /\ usable[m] = lines[Place(K, m)]
    BY <2>4, PickedFacts
  <2> HIDE DEF usable, N, band
  <2>6. \A m \in 1..N : FromBook(specs[m])
    <3> SUFFICES ASSUME NEW m \in 1..N PROVE FromBook(specs[m])
      OBVIOUS
    <3>1. specs[m] = ViqtSpec(source, all[n].says[Place(K, m)], band(usable[m]))
      BY <2>2, <2>5
    <3>2. Place(K, m) \in Codebook(all[n].says)
      BY <2>2, <2>4, <2>5
    <3>3. QED
      BY <2>2, <3>1, <3>2 DEF FromBook, all
  <2>7. DOMAIN specs = 1..N
    BY <2>5
  <2> HIDE DEF specs
  <2>8. \A x : SomeSpecs(x).specs = x
    BY DEF SomeSpecs
  <2>9. QED
    BY <1>3, <2>6, <2>7, <2>8
<1>4. QED
  BY <1>1, <1>2, <1>3

LEMMA AskedIsAskable ==
    ASSUME NEW page, IsList(page.titles), NEW n \in DOMAIN Asked(page)
    PROVE  LET ask == Asked(page)[n] IN ask.page = page /\ AsksOn(page, ask.q)
<1> DEFINE titles == page.titles
           K      == {k \in FirstAsked(page) : Askable(page, titles[k].q)}
           N      == Cardinality(K)
           asked  == Picked(titles, K)
           out    == [m \in DOMAIN asked |-> [page |-> page, q |-> asked[m].q]]
<1>1. titles \in Seq(Range(titles)) /\ K \in SUBSET (DOMAIN titles) /\ \A k \in K : Askable(page, titles[k].q)
  BY DEF IsList, FirstAsked
<1>2. /\ Asked(page) = out
      /\ page.code \in DOMAIN SubtestType /\ AnswerKeys(page) # {}
  <2>1. DOMAIN <<>> = {}
    OBVIOUS
  <2> HIDE DEF out
  <2>2. QED
    BY <2>1 DEF Asked, out
<1> HIDE DEF K
<1>3. DOMAIN asked = 1..N /\ \A m \in 1..N : Place(K, m) \in K /\ asked[m] = titles[Place(K, m)]
  BY <1>1, PickedFacts
<1> HIDE DEF asked, N
<1>4. DOMAIN out = 1..N /\ out[n].page = page /\ out[n].q = titles[Place(K, n)].q /\ n \in 1..N
  BY <1>2, <1>3
<1>5. Place(K, n) \in DOMAIN titles /\ Askable(page, titles[Place(K, n)].q)
  BY <1>1, <1>3, <1>4
<1> HIDE DEF out
<1>6. QED
  BY <1>2, <1>4, <1>5 DEF AsksOn

LEMMA AsvabIsMade ==
    ASSUME NEW source \in Sources, source.id = "asvab", NEW F, NEW raw \in Seq(F),
           Prefix(raw, Whole(source))
    PROVE  \A k \in DOMAIN Asvab(source, raw).specs : FromQuiz(Asvab(source, raw).specs[k])
<1> DEFINE all   == Whole(source)
           K     == TextPages(raw)
           P     == Cardinality(K)
           pages == Pages(raw)
           S     == UNION {Range(Asked(raw[m].says)) : m \in K}
           seqs  == [k \in DOMAIN pages |-> Asked(pages[k].says)]
           asked == FlattenSeq(seqs)
           specs == [k \in DOMAIN asked |-> AsvabSpec(source, asked[k].page, asked[k].q)]
<1>1. Asvab(source, raw) = NoSpecs("asvab data") \/ Asvab(source, raw) = SomeSpecs(specs)
  BY DEF Asvab
<1>2. K \in SUBSET (DOMAIN raw) /\ DOMAIN raw = 1..Len(raw) /\ Len(raw) \in Nat
  BY LenProperties DEF TextPages
<1>3. \A m \in K : m \in TextPages(all) /\ raw[m] = all[m] /\ IsList(raw[m].says.titles)
  <2>1. \A m \in K : m \in TextPages(all) /\ raw[m] = all[m]
    BY <1>2 DEF TextPages, Prefix
  <2>2. \A m \in TextPages(all) : IsList(all[m].says.titles)
    BY OnceAssumption DEF TextPages
  <2>3. QED
    BY <2>1, <2>2
<1> HIDE DEF K
<1>4. /\ P \in Nat /\ DOMAIN pages = 1..P
      /\ \A n \in 1..P : Place(K, n) \in K /\ pages[n] = raw[Place(K, n)]
  BY <1>2, PickedFacts DEF Pages, K
<1> HIDE DEF P, pages
<1>5. /\ DOMAIN seqs = 1..P /\ seqs = [k \in 1..P |-> seqs[k]]
      /\ \A k \in 1..P : seqs[k] = Asked(raw[Place(K, k)].says)
  BY <1>4
<1>6. \A m \in K : Asked(raw[m].says) \in Seq(S)
  <2>1. \A m \in K : Asked(raw[m].says) \in Seq(QuestionsOf(raw[m].says))
    BY <1>3, AskedFacts
  <2>2. \A m \in K : Asked(raw[m].says) \in Seq(Range(Asked(raw[m].says)))
    BY <2>1, SeqOfRange
  <2>3. \A m \in K : Range(Asked(raw[m].says)) \subseteq S
    OBVIOUS
  <2> HIDE DEF S
  <2>4. QED
    BY <2>2, <2>3, SeqMonotonic
<1> HIDE DEF seqs
<1>7. seqs \in Seq(Seq(S))
  <2> HIDE DEF S
  <2>1. seqs \in [1..P -> Seq(S)]
    BY <1>4, <1>5, <1>6
  <2>2. QED
    BY <1>4, <2>1, ListOf
<1>8. asked \in Seq(S)
  <2> HIDE DEF S
  <2>1. QED
    BY <1>7, Flattened
<1> HIDE DEF asked
<1>9. \A n \in DOMAIN asked : \E m \in K : asked[n] \in Range(Asked(raw[m].says))
  <2>1. \A n \in DOMAIN asked : asked[n] \in S
    <3> HIDE DEF S
    <3>1. QED
      BY <1>8, LenProperties, ElementOfSeq
  <2>2. QED
    BY <2>1
<1> HIDE DEF S
<1>10. \A n \in DOMAIN asked : FromQuiz(specs[n])
  <2> SUFFICES ASSUME NEW n \in DOMAIN asked PROVE FromQuiz(specs[n])
    OBVIOUS
  <2>1. PICK m \in K : asked[n] \in Range(Asked(raw[m].says))
    BY <1>9
  <2>2. PICK k \in DOMAIN Asked(raw[m].says) : asked[n] = Asked(raw[m].says)[k]
    BY <2>1, RangeOf
  <2>3. asked[n].page = raw[m].says /\ AsksOn(raw[m].says, asked[n].q)
    BY <1>3, <2>2, AskedIsAskable
  <2>4. m \in TextPages(all) /\ raw[m] = all[m]
    BY <1>3
  <2>5. specs[n] = AsvabSpec(source, all[m].says, asked[n].q)
    BY <2>3, <2>4
  <2> HIDE DEF specs
  <2>6. QED
    BY <2>3, <2>4, <2>5 DEF FromQuiz
<1>11. DOMAIN specs = DOMAIN asked
  OBVIOUS
<1> HIDE DEF specs
<1>12. \A x : SomeSpecs(x).specs = x
  BY DEF SomeSpecs
<1>13. CASE Asvab(source, raw) = NoSpecs("asvab data")
  BY <1>13, NoSpecsAreNone
<1>14. CASE Asvab(source, raw) = SomeSpecs(specs)
  BY <1>10, <1>11, <1>12, <1>14
<1>15. QED
  BY <1>1, <1>13, <1>14

LEMMA ExtractedIsMade ==
    ASSUME NEW name \in DOMAIN Requests, Requests[name].kind = "extract",
           NEW completion,
           completion.json => IsList(completion.items) /\ \A cand \in Range(completion.items) : IsList(cand.options)
    PROVE  LET req == Requests[name]
               found == ExtractSpecs(req.source, req.type, completion)
           IN  \A k \in DOMAIN found.specs : FromModel(found.specs[k])
<1> DEFINE req   == Requests[name]
           cands == completion.items
           kept  == Fresh(req.source, cands)
           N     == Cardinality(kept)
           specs == [n \in 1..N |-> ExtractedSpec(req.source, req.type, cands, Place(kept, n))]
           found == ExtractSpecs(req.source, req.type, completion)
<1>1. \/ found = NoSpecs("extract parse")
      \/ completion.json /\ found = SomeSpecs(specs)
  BY DEF ExtractSpecs
<1>2. CASE found = NoSpecs("extract parse")
  BY <1>2, NoSpecsAreNone
<1>3. CASE completion.json /\ found = SomeSpecs(specs)
  <2>1. cands \in Seq(Range(cands)) /\ \A cand \in Range(cands) : IsList(cand.options)
    BY <1>3 DEF IsList
  <2>2. Len(cands) \in Nat /\ DOMAIN cands = 1..Len(cands) /\ kept \in SUBSET (1..Len(cands))
    BY <2>1, LenProperties DEF Fresh
  <2>3. \A k \in kept : IsList(cands[k].options)
    BY <2>1, <2>2 DEF Range
  <2> HIDE DEF kept, cands
  <2>4. \A n \in 1..N : Place(kept, n) \in kept
    BY <2>2, PlaceFacts
  <2> HIDE DEF N
  <2>5. \A k \in kept : FromModel(ExtractedSpec(req.source, req.type, cands, k))
    <3> SUFFICES ASSUME NEW k \in kept PROVE FromModel(ExtractedSpec(req.source, req.type, cands, k))
      OBVIOUS
    <3> DEFINE options == cands[k].options
               stem    == cands[k].stem
               key     == "o" \o ToString(cands[k].answer)
    <3>1. ExtractedSpec(req.source, req.type, cands, k) =
             ChoiceSpec(ModelId(req.source.id, stem, options), req.source, "generated", req.type, stem,
                        ModelOptions(options), key, ModelBand(cands[k].difficulty))
      BY DEF ExtractedSpec, ExtractedId, ModelId, ModelOptions
    <3> HIDE DEF options, stem, key
    <3>2. IsList(options)
      BY <2>3 DEF options
    <3>3. QED
      BY <3>1, <3>2, Zenon DEF FromModel
  <2>6. \A n \in 1..N : FromModel(specs[n])
    BY <2>4, <2>5
  <2> HIDE DEF specs
  <2>7. SomeSpecs(specs).specs = specs
    BY DEF SomeSpecs
  <2>8. DOMAIN specs = 1..N
    BY DEF specs
  <2>9. QED
    BY <1>3, <2>6, <2>7, <2>8
<1>4. QED
  BY <1>1, <1>2, <1>3

ViqtOptions(q) ==
    LET others == Picked(<<1, 2, 3, 4, 5>>, 1..5 \ {Min(PairOf(q.code))})
    IN  [k \in 1..4 |-> PlainOption(Places[others[k]], q.words[others[k]])]

LEMMA ViqtFields ==
    ASSUME NEW source, NEW q, NEW band
    PROVE  Reads(ViqtSpec(source, q, band), <<source.id, q.name>>, q.words[Min(PairOf(q.code))], ViqtOptions(q),
                 Places[Max(PairOf(q.code))])
<1>1. ViqtSpec(source, q, band) =
         ChoiceSpec(<<source.id, q.name>>, source, "fetched", "C3", q.words[Min(PairOf(q.code))],
                    ViqtOptions(q), Places[Max(PairOf(q.code))], band)
  BY DEF ViqtSpec, ViqtOptions
<1>2. QED
  BY <1>1, ChoiceFields, Zenon

LEMMA AsvabFields ==
    ASSUME NEW source, NEW page, NEW q
    PROVE  Reads(AsvabSpec(source, page, q), <<source.id, page.code, q>>, TitleOf(page, q), AsvabOptions(page, q),
                 CorrectOption(page, q, AsvabOptions(page, q)))
<1>1. AsvabSpec(source, page, q) =
         ChoiceSpec(<<source.id, page.code, q>>, source, "fetched", SubtestType[page.code],
                    TitleOf(page, q), AsvabOptions(page, q), CorrectOption(page, q, AsvabOptions(page, q)), AsvabBand)
  BY DEF AsvabSpec
<1>2. QED
  BY <1>1, ChoiceFields DEF Reads

(* The part of an item that is its question. *)
SameQuestion(a, b) == a.stimulus = b.stimulus /\ a.options = b.options

LEMMA SourcesAreMakers == \A source \in Sources : source.id \in Makers
<1> SUFFICES ASSUME NEW source \in Sources PROVE source.id \in Makers
  OBVIOUS
<1>1. PICK name \in DOMAIN Requests : Requests[name].kind = "ingest" /\ source = Requests[name].source
  BY DEF Sources
<1>2. QED
  BY <1>1 DEF Makers, Fetching

(* What an id says before it comes to the question. *)
LEMMA IdOfBook ==
    ASSUME NEW spec, FromBook(spec)
    PROVE  Len(spec.id) = 2 /\ spec.id[1] \in Makers
<1>1. PICK source, q, band : source \in Sources /\ spec = ViqtSpec(source, q, band)
  BY DEF FromBook
<1>2. spec.id = <<source.id, q.name>>
  BY <1>1, ViqtFields DEF Reads
<1>3. source.id \in Makers
  BY <1>1, SourcesAreMakers
<1>4. QED
  BY <1>2, <1>3

LEMMA IdOfQuiz ==
    ASSUME NEW spec, FromQuiz(spec)
    PROVE  Len(spec.id) = 3 /\ spec.id[1] \in Makers /\ spec.id[2] \in DOMAIN SubtestType
<1>1. PICK source, page, q : source \in Sources /\ AsksOn(page, q) /\ spec = AsvabSpec(source, page, q)
  BY DEF FromQuiz
<1>2. spec.id = <<source.id, page.code, q>>
  BY <1>1, AsvabFields DEF Reads
<1>3. source.id \in Makers
  BY <1>1, SourcesAreMakers
<1>4. page.code \in DOMAIN SubtestType
  BY <1>1 DEF AsksOn
<1>5. QED
  BY <1>2, <1>3, <1>4

(* The words of an id, and nothing else, are those of the candidate. *)
Spells(id, source, stem, options) ==
    /\ Len(options) \in Nat /\ Len(id) = 3 + Len(options)
    /\ id[1] = source /\ id[2] = "llm" /\ id[3] = stem
    /\ \A k \in 1..Len(options) : options[k] = id[k + 3]
    /\ options = [k \in 1..Len(options) |-> options[k]]

LEMMA JoinedId ==
    ASSUME NEW source, NEW stem, NEW options, IsList(options)
    PROVE  Spells(ModelId(source, stem, options), source, stem, options)
<1> DEFINE S    == Range(options) \cup {source, "llm", stem}
           head == <<source, "llm", stem>>
           id   == ModelId(source, stem, options)
<1>1. head \in Seq(S) /\ Len(head) = 3 /\ head[1] = source /\ head[2] = "llm" /\ head[3] = stem
  OBVIOUS
<1>2. options \in Seq(S)
  <2>1. Range(options) \subseteq S
    OBVIOUS
  <2> HIDE DEF S
  <2>2. QED
    BY <2>1, SeqMonotonic DEF IsList
<1> HIDE DEF S, head
<1>3. Len(options) \in Nat /\ DOMAIN options = 1..Len(options) /\ options = [k \in 1..Len(options) |-> options[k]]
  BY <1>2, LenProperties
<1>a. id = head \o options
  BY DEF ModelId, head
<1> HIDE DEF id
<1>4. /\ Len(id) = 3 + Len(options)
      /\ \A k \in 1..(3 + Len(options)) : id[k] = IF k <= 3 THEN head[k] ELSE options[k - 3]
  <2>1. /\ Len(head \o options) = 3 + Len(options)
        /\ \A k \in 1..(3 + Len(options)) : (head \o options)[k] = IF k <= 3 THEN head[k] ELSE options[k - 3]
    BY <1>1, <1>2, ConcatProperties DEF head
  <2>2. QED
    BY <1>a, <2>1, Zenon
<1>5. \A k \in 1..Len(options) : k + 3 \in 1..(3 + Len(options)) /\ ~(k + 3 <= 3) /\ (k + 3) - 3 = k
  BY <1>3
<1>6. 1 \in 1..(3 + Len(options)) /\ 2 \in 1..(3 + Len(options)) /\ 3 \in 1..(3 + Len(options))
  BY <1>3
<1>7. QED
  BY <1>1, <1>3, <1>4, <1>5, <1>6 DEF Spells, id

LEMMA ModelReads ==
    ASSUME NEW spec, FromModel(spec)
    PROVE  \E source, stem, options, key :
              /\ source \in Makers /\ IsList(options)
              /\ Reads(spec, ModelId(source, stem, options), stem, ModelOptions(options), key)
<1>1. PICK name \in DOMAIN Requests :
         /\ Requests[name].kind = "extract"
         /\ \E stem, options, key, band :
               /\ IsList(options)
               /\ spec = ChoiceSpec(ModelId(Requests[name].source.id, stem, options), Requests[name].source, "generated",
                                    Requests[name].type, stem, ModelOptions(options), key, band)
  BY Zenon DEF FromModel
<1>2. PICK stem, options, key, band :
         /\ IsList(options)
         /\ spec = ChoiceSpec(ModelId(Requests[name].source.id, stem, options), Requests[name].source, "generated",
                              Requests[name].type, stem, ModelOptions(options), key, band)
  BY <1>1, Zenon
<1>3. Reads(spec, ModelId(Requests[name].source.id, stem, options), stem, ModelOptions(options), key)
  BY <1>2, ChoiceFields, Zenon
<1>4. Requests[name].source.id \in Makers
  BY <1>1 DEF Makers, Fetching
<1>5. QED
  BY <1>2, <1>3, <1>4, Zenon

LEMMA IdOfModel ==
    ASSUME NEW spec, FromModel(spec)
    PROVE  Len(spec.id) \in Nat /\ Len(spec.id) >= 3 /\ spec.id[1] \in Makers /\ spec.id[2] = "llm"
<1>1. PICK source, stem, options, key :
         /\ source \in Makers /\ IsList(options)
         /\ Reads(spec, ModelId(source, stem, options), stem, ModelOptions(options), key)
  BY ModelReads, Zenon
<1>2. spec.id = ModelId(source, stem, options)
  BY <1>1, Zenon DEF Reads
<1>3. Spells(spec.id, source, stem, options)
  BY <1>1, <1>2, JoinedId, Zenon
<1>4. QED
  BY <1>1, <1>3 DEF Spells

LEMMA GeneratedFields ==
    ASSUME NEW req, NEW puzzle, NEW i
    PROVE  LET spec == GeneratedItem(req, puzzle, i)
           IN  spec.id = <<"gen", req.type, puzzle.band, req.seed, i>>
BY DEF GeneratedItem, GeneratedId

LEMMA IdOfEngine ==
    ASSUME NEW spec, FromEngine(spec)
    PROVE  Len(spec.id) = 5 /\ spec.id[1] \in Makers /\ spec.id[2] \in DOMAIN EngineOf
<1>1. PICK name, i, puzzle : Generable(Requests[name]) /\ spec = GeneratedItem(Requests[name], puzzle, i)
  BY DEF FromEngine
<1>2. spec.id = <<"gen", Requests[name].type, puzzle.band, Requests[name].seed, i>>
  BY <1>1, GeneratedFields
<1>3. Requests[name].type \in DOMAIN EngineOf /\ "gen" \in Makers
  BY <1>1 DEF Generable, Makers
<1>4. QED
  BY <1>2, <1>3

(* No two makers give one id. *)
LEMMA MakersApart ==
    ASSUME NEW a, NEW b, a.id = b.id
    PROVE  /\ FromBook(a) => ~FromQuiz(b) /\ ~FromModel(b) /\ ~FromEngine(b)
           /\ FromQuiz(a) => ~FromModel(b) /\ ~FromEngine(b)
           /\ FromModel(a) => ~FromEngine(b)
<1>1. "llm" \notin DOMAIN SubtestType /\ "llm" \notin DOMAIN EngineOf
  BY DEF SubtestType, EngineOf
<1>2. FromBook(a) => ~FromQuiz(b) /\ ~FromModel(b) /\ ~FromEngine(b)
  <2> SUFFICES ASSUME FromBook(a) PROVE ~FromQuiz(b) /\ ~FromModel(b) /\ ~FromEngine(b)
    OBVIOUS
  <2>1. Len(b.id) = 2
    BY IdOfBook
  <2>2. FromQuiz(b) => Len(b.id) = 3
    BY IdOfQuiz
  <2>3. FromModel(b) => Len(b.id) >= 3
    BY IdOfModel
  <2>4. FromEngine(b) => Len(b.id) = 5
    BY IdOfEngine
  <2>5. QED
    BY <2>1, <2>2, <2>3, <2>4
<1>3. FromQuiz(a) => ~FromModel(b) /\ ~FromEngine(b)
  <2> SUFFICES ASSUME FromQuiz(a) PROVE ~FromModel(b) /\ ~FromEngine(b)
    OBVIOUS
  <2>1. Len(b.id) = 3 /\ b.id[2] \in DOMAIN SubtestType
    BY IdOfQuiz
  <2>2. FromModel(b) => b.id[2] = "llm"
    BY IdOfModel
  <2>3. FromEngine(b) => Len(b.id) = 5
    BY IdOfEngine
  <2>4. QED
    BY <1>1, <2>1, <2>2, <2>3
<1>4. FromModel(a) => ~FromEngine(b)
  <2>1. FromModel(a) => b.id[2] = "llm"
    BY IdOfModel
  <2>2. FromEngine(b) => b.id[2] \in DOMAIN EngineOf
    BY IdOfEngine
  <2>3. QED
    BY <1>1, <2>1, <2>2
<1>5. QED
  BY <1>2, <1>3, <1>4

LEMMA OneBook ==
    ASSUME NEW source \in Sources, source.id = "viqt", NEW n \in Artifacts(Whole(source), "codebook.txt")
    PROVE  /\ LinesOnce(Whole(source)[n].says)
           /\ \A m \in Artifacts(Whole(source), "codebook.txt") : m = n
<1>1. n \in DOMAIN Whole(source) /\ Whole(source)[n].suffix = "codebook.txt"
  BY DEF Artifacts
<1>2. Artifacts(Whole(source), "codebook.txt") = {n}
  BY <1>1, OnceAssumption
<1>3. LinesOnce(Whole(source)[n].says)
  BY <1>1, OnceAssumption DEF LinesOnce
<1>4. QED
  BY <1>2, <1>3

LEMMA OneBookQuestion ==
    ASSUME NEW a, NEW b, a.id = b.id, FromBook(a), FromBook(b)
    PROVE  SameQuestion(a, b)
<1> DEFINE lines(s, n) == Whole(s)[n].says
<1>1. PICK s, m, k, x :
         /\ s \in Sources /\ m \in Artifacts(Whole(s), "codebook.txt") /\ k \in Codebook(lines(s, m))
         /\ s.id = "viqt" /\ a = ViqtSpec(s, lines(s, m)[k], x)
  BY DEF FromBook
<1>2. PICK t, n, l, y :
         /\ t \in Sources /\ n \in Artifacts(Whole(t), "codebook.txt") /\ l \in Codebook(lines(t, n))
         /\ t.id = "viqt" /\ b = ViqtSpec(t, lines(t, n)[l], y)
  BY DEF FromBook
<1>3. s = t
  BY <1>1, <1>2, NamesAssumption
<1>4. m = n
  <2>1. n \in Artifacts(Whole(s), "codebook.txt")
    BY <1>2, <1>3
  <2>2. QED
    BY <1>1, <2>1, OneBook
<1>5. LinesOnce(lines(s, m))
  BY <1>1, OneBook
<1> DEFINE book == lines(s, m)
<1>6. k \in Codebook(book) /\ l \in Codebook(book)
  BY <1>1, <1>2, <1>3, <1>4
<1>7. a = ViqtSpec(s, book[k], x) /\ b = ViqtSpec(s, book[l], y)
  BY <1>1, <1>2, <1>3, <1>4
<1> HIDE DEF book
<1>b. k \in DOMAIN book /\ l \in DOMAIN book
  BY <1>6 DEF Codebook
<1>8. a.id = <<s.id, book[k].name>> /\ b.id = <<s.id, book[l].name>>
  BY <1>7, ViqtFields DEF Reads
<1>9. book[k].name = book[l].name
  <2>1. <<s.id, book[k].name>> = <<s.id, book[l].name>>
    BY <1>8, Zenon
  <2>2. QED
    BY <2>1
<1>10. k = l
  BY <1>5, <1>b, <1>9 DEF LinesOnce, book
<1>11. QED
  BY <1>7, <1>10, ViqtFields DEF SameQuestion, Reads

LEMMA OneQuizQuestion ==
    ASSUME NEW a, NEW b, a.id = b.id, FromQuiz(a), FromQuiz(b)
    PROVE  SameQuestion(a, b)
<1> DEFINE page(s, n) == Whole(s)[n].says
<1>1. PICK s, m, p :
         /\ s \in Sources /\ m \in TextPages(Whole(s))
         /\ s.id = "asvab" /\ AsksOn(page(s, m), p) /\ a = AsvabSpec(s, page(s, m), p)
  BY DEF FromQuiz
<1>2. PICK t, n, q :
         /\ t \in Sources /\ n \in TextPages(Whole(t))
         /\ t.id = "asvab" /\ AsksOn(page(t, n), q) /\ b = AsvabSpec(t, page(t, n), q)
  BY DEF FromQuiz
<1>3. s = t
  BY <1>1, <1>2, NamesAssumption
<1> DEFINE P == page(s, m)
           Q == page(s, n)
<1>4. AsksOn(P, p) /\ AsksOn(Q, q) /\ a = AsvabSpec(s, P, p) /\ b = AsvabSpec(s, Q, q)
  BY <1>1, <1>2, <1>3
<1>5. P.code = Q.code /\ p = q => m = n
  <2>1. m \in DOMAIN Whole(s) /\ n \in DOMAIN Whole(s)
    BY <1>1, <1>2, <1>3 DEF TextPages
  <2>2. \A k \in DOMAIN P.titles, l \in DOMAIN Q.titles : P.code = Q.code /\ P.titles[k].q = Q.titles[l].q => m = n
    BY <1>1, <2>1, OnceAssumption
  <2> HIDE DEF P, Q
  <2>3. QED
    BY <1>4, <2>2 DEF AsksOn
<1>a. m = n => P = Q
  OBVIOUS
<1> HIDE DEF P, Q
<1>6. a.id = <<s.id, P.code, p>> /\ b.id = <<s.id, Q.code, q>>
  BY <1>4, AsvabFields DEF Reads
<1>7. P.code = Q.code /\ p = q
  <2>1. <<s.id, P.code, p>> = <<s.id, Q.code, q>>
    BY <1>6, Zenon
  <2>2. QED
    BY <2>1
<1>8. m = n
  BY <1>5, <1>7
<1>9. QED
  BY <1>4, <1>7, <1>8, <1>a, AsvabFields DEF SameQuestion, Reads

LEMMA OneCandidate ==
    ASSUME NEW a, NEW b, a.id = b.id, FromModel(a), FromModel(b)
    PROVE  SameQuestion(a, b)
<1>1. PICK source, stem, options, key :
         IsList(options) /\ Reads(a, ModelId(source, stem, options), stem, ModelOptions(options), key)
  BY ModelReads, Zenon
<1>2. PICK source2, stem2, options2, key2 :
         IsList(options2) /\ Reads(b, ModelId(source2, stem2, options2), stem2, ModelOptions(options2), key2)
  BY ModelReads, Zenon
<1>3. a.id = ModelId(source, stem, options) /\ a.stimulus = <<PlainText(stem)>> /\ a.options = ModelOptions(options)
  BY <1>1, Zenon DEF Reads
<1>4. b.id = ModelId(source2, stem2, options2) /\ b.stimulus = <<PlainText(stem2)>> /\ b.options = ModelOptions(options2)
  BY <1>2, Zenon DEF Reads
<1>5. Spells(a.id, source, stem, options)
  BY <1>1, <1>3, JoinedId, Zenon
<1>6. Spells(b.id, source2, stem2, options2)
  BY <1>2, <1>4, JoinedId, Zenon
<1>7. stem = stem2 /\ Len(options) = Len(options2)
  <2>1. Len(options) \in Nat /\ Len(a.id) = 3 + Len(options) /\ a.id[3] = stem
    BY <1>5, Zenon DEF Spells
  <2>2. Len(options2) \in Nat /\ Len(b.id) = 3 + Len(options2) /\ b.id[3] = stem2
    BY <1>6, Zenon DEF Spells
  <2>3. QED
    BY <2>1, <2>2
<1>8. options = options2
  BY <1>5, <1>6, <1>7 DEF Spells
<1>9. QED
  BY <1>3, <1>4, <1>7, <1>8, Zenon DEF SameQuestion

(* Of a difficulty only what its band keeps of it goes into a puzzle. *)
SameBand(b, c, top) == ClampBand(b, top) = ClampBand(c, top)

LEMMA SameSeries ==
    ASSUME NEW b \in Int, NEW c \in Int, b >= 1, c >= 1, SameBand(b, c, 3), NEW d
    PROVE  Series(b, d) = Series(c, d)
<1>1. (b >= 2 <=> c >= 2) /\ (b = 1 <=> c = 1) /\ (b >= 3 <=> c >= 3)
  BY DEF SameBand, ClampBand
<1>2. ASSUME NEW step PROVE SeriesFigure(b, d, step) = SeriesFigure(c, d, step)
  BY <1>1 DEF SeriesFigure
<1>3. (b >= 2) = (c >= 2)
  BY <1>1
<1>4. QED
  BY <1>2, <1>3, Zenon DEF Series, SameBand

LEMMA SameMatrix ==
    ASSUME NEW b \in Int, NEW c \in Int, b >= 1, c >= 1, SameBand(b, c, 3), NEW d
    PROVE  Matrix(b, d) = Matrix(c, d)
<1>1. ASSUME NEW x, NEW y PROVE MatrixCell(b, d, x, y) = MatrixCell(c, d, x, y)
  BY Zenon DEF MatrixCell, SameBand
<1>2. QED
  BY <1>1, Zenon DEF Matrix, SameBand

LEMMA SameOdd ==
    ASSUME NEW b, NEW c, SameBand(b, c, 4), NEW d
    PROVE  OddOneOut(b, d) = OddOneOut(c, d)
BY Zenon DEF OddOneOut, SameBand

LEMMA BandOf ==
    ASSUME NEW b, NEW d
    PROVE  Series(b, d).band = ClampBand(b, 3) /\ Matrix(b, d).band = ClampBand(b, 3) /\ OddOneOut(b, d).band = ClampBand(b, 4)
BY DEF Series, Matrix, OddOneOut

LEMMA SamePuzzle ==
    ASSUME NEW type \in DOMAIN EngineOf, NEW b \in Int, NEW c \in Int, b >= 1, c >= 1, NEW d,
           Build(type, b, d).band = Build(type, c, d).band
    PROVE  Build(type, b, d) = Build(type, c, d)
<1>1. EngineOf[type] \in {"series", "matrix", "odd"}
  BY DEF EngineOf
<1>2. CASE EngineOf[type] = "series"
  <2>1. Build(type, b, d) = Series(b, d) /\ Build(type, c, d) = Series(c, d)
    BY <1>2 DEF Build
  <2>2. SameBand(b, c, 3)
    BY <2>1, BandOf DEF SameBand
  <2>3. QED
    BY <2>1, <2>2, SameSeries
<1>3. CASE EngineOf[type] = "matrix"
  <2>1. Build(type, b, d) = Matrix(b, d) /\ Build(type, c, d) = Matrix(c, d)
    BY <1>3 DEF Build
  <2>2. SameBand(b, c, 3)
    BY <2>1, BandOf DEF SameBand
  <2>3. QED
    BY <2>1, <2>2, SameMatrix
<1>4. CASE EngineOf[type] = "odd"
  <2>1. Build(type, b, d) = OddOneOut(b, d) /\ Build(type, c, d) = OddOneOut(c, d)
    BY <1>4 DEF Build
  <2>2. SameBand(b, c, 4)
    BY <2>1, BandOf DEF SameBand
  <2>3. QED
    BY <2>1, <2>2, SameOdd
<1>5. QED
  BY <1>1, <1>2, <1>3, <1>4

(* What a puzzle is shown as depends on its engine and on nothing else.    *)
LEMMA SameItem ==
    ASSUME NEW req, NEW other, req.type = other.type, NEW puzzle, NEW i, NEW j
    PROVE  SameQuestion(GeneratedItem(req, puzzle, i), GeneratedItem(other, puzzle, j))
BY Zenon DEF SameQuestion, GeneratedItem

LEMMA OnePuzzle ==
    ASSUME NEW a, NEW b, a.id = b.id, FromEngine(a), FromEngine(b)
    PROVE  SameQuestion(a, b)
<1>1. PICK m \in DOMAIN Requests, i \in Nat :
         /\ Requests[m].kind = "generate" /\ Generable(Requests[m])
         /\ a = GeneratedItem(Requests[m], Puzzle(Requests[m], i), i)
  BY DEF FromEngine
<1>2. PICK n \in DOMAIN Requests, j \in Nat :
         /\ Requests[n].kind = "generate" /\ Generable(Requests[n])
         /\ b = GeneratedItem(Requests[n], Puzzle(Requests[n], j), j)
  BY DEF FromEngine
<1> DEFINE req   == Requests[m]
           other == Requests[n]
           p     == Puzzle(req, i)
           q     == Puzzle(other, j)
<1>3. /\ req.difficulty \in Int /\ req.difficulty >= 1 /\ req.type \in DOMAIN EngineOf
      /\ other.difficulty \in Int /\ other.difficulty >= 1
  BY <1>1, <1>2, BatchAssumption DEF Generable
<1>4. /\ p = Build(req.type, req.difficulty, Streams[req.seed][i])
      /\ q = Build(other.type, other.difficulty, Streams[other.seed][j])
  BY DEF Puzzle
<1>5. a = GeneratedItem(req, p, i) /\ b = GeneratedItem(other, q, j)
  BY <1>1, <1>2
<1> HIDE DEF req, other, p, q
<1>6. a.id = <<"gen", req.type, p.band, req.seed, i>> /\ b.id = <<"gen", other.type, q.band, other.seed, j>>
  BY <1>5, GeneratedFields
<1>7. req.type = other.type /\ p.band = q.band /\ req.seed = other.seed /\ i = j
  <2>1. <<"gen", req.type, p.band, req.seed, i>> = <<"gen", other.type, q.band, other.seed, j>>
    BY <1>6, Zenon
  <2>2. QED
    BY <2>1
<1>8. q = Build(req.type, other.difficulty, Streams[req.seed][i])
  BY <1>4, <1>7
<1>9. p = q
  BY <1>3, <1>4, <1>7, <1>8, SamePuzzle
<1>10. QED
  BY <1>5, <1>7, <1>9, SameItem

(* One id, one question, whoever made it and whenever.                     *)
LEMMA OneQuestion ==
    ASSUME NEW a, NEW b, MadeItem(a), MadeItem(b), a.id = b.id
    PROVE  SameQuestion(a, b)
<1>1. CASE FromBook(a)
  BY <1>1, MakersApart, OneBookQuestion DEF MadeItem
<1>2. CASE FromQuiz(a)
  BY <1>2, MakersApart, OneQuizQuestion DEF MadeItem
<1>3. CASE FromModel(a)
  BY <1>3, MakersApart, OneCandidate DEF MadeItem
<1>4. CASE FromEngine(a)
  BY <1>4, MakersApart, OnePuzzle DEF MadeItem
<1>5. QED
  BY <1>1, <1>2, <1>3, <1>4 DEF MadeItem

-----------------------------------------------------------------------------
(* What is made is whole *)

LEMMA ViqtOptionsAreSolid ==
    ASSUME NEW q
    PROVE  Solid(ViqtOptions(q)) /\ \A k \in DOMAIN ViqtOptions(q) : ~IsInline(ViqtOptions(q)[k].ref)
<1> DEFINE others == Picked(<<1, 2, 3, 4, 5>>, 1..5 \ {Min(PairOf(q.code))})
           n      == 1..4
           ids    == [k \in n |-> Places[others[k]]]
           texts  == [k \in n |-> q.words[others[k]]]
<1>1. ViqtOptions(q) = [k \in n |-> PlainOption(Places[others[k]], q.words[others[k]])]
  BY DEF ViqtOptions
<1> HIDE DEF others
<1>2. ViqtOptions(q) = [k \in n |-> PlainOption(ids[k], texts[k])]
  BY <1>1
<1> HIDE DEF ids, texts, n
<1>3. QED
  BY <1>2, OptionsAreSolid

LEMMA AsvabOptionsAreSolid ==
    ASSUME NEW page, NEW q
    PROVE  /\ Solid(AsvabOptions(page, q))
           /\ \A k \in DOMAIN AsvabOptions(page, q) : ~IsInline(AsvabOptions(page, q)[k].ref)
<1> DEFINE labelled == Picked(page.answers,
                              {k \in DOMAIN page.answers : page.answers[k].q = q /\ page.answers[k].text # ""})
           n     == DOMAIN labelled
           ids   == [k \in n |-> labelled[k].a]
           texts == [k \in n |-> labelled[k].text]
<1>1. AsvabOptions(page, q) = [k \in n |-> PlainOption(labelled[k].a, labelled[k].text)]
  BY DEF AsvabOptions
<1> HIDE DEF labelled
<1>2. AsvabOptions(page, q) = [k \in n |-> PlainOption(ids[k], texts[k])]
  BY <1>1
<1> HIDE DEF ids, texts, n
<1>3. QED
  BY <1>2, OptionsAreSolid

LEMMA ModelOptionsAreSolid ==
    ASSUME NEW words
    PROVE  /\ Solid(ModelOptions(words))
           /\ \A k \in DOMAIN ModelOptions(words) : ~IsInline(ModelOptions(words)[k].ref)
<1> DEFINE ids == [n \in DOMAIN words |-> "o" \o ToString(n - 1)]
<1>1. ModelOptions(words) = [n \in DOMAIN words |-> PlainOption(ids[n], words[n])]
  BY Zenon DEF ModelOptions
<1> HIDE DEF ids
<1>2. QED
  BY <1>1, OptionsAreSolid

LEMMA ListIsSolid ==
    ASSUME NEW S, NEW parts \in Seq(S), \A x \in S : x = [f \in DOMAIN x |-> x[f]] /\ "ref" \in DOMAIN x
    PROVE  Solid(parts)
<1>1. DOMAIN parts = 1..Len(parts) /\ parts = [k \in 1..Len(parts) |-> parts[k]]
  BY LenProperties
<1>2. \A k \in DOMAIN parts : parts[k] \in S
  BY <1>1, ElementOfSeq
<1>3. QED
  BY <1>1, <1>2 DEF Solid

LEMMA GeneratedIsSolid ==
    ASSUME NEW req, NEW puzzle, NEW i
    PROVE  LET spec == GeneratedItem(req, puzzle, i)
           IN  SpecFields \subseteq DOMAIN spec /\ Solid(spec.stimulus) /\ Solid(spec.options)
<1> DEFINE spec  == GeneratedItem(req, puzzle, i)
           text  == [text |-> EngineOf[req.type], kind |-> "", ref |-> NoMedia]
           scene == [text |-> "", kind |-> puzzle.kind, ref |-> FigureUri(puzzle.seen)]
           more  == IF puzzle.kind = "" THEN <<>> ELSE <<scene>>
           option(k) == [id |-> OptionIds[k], text |-> "", kind |-> "svg", ref |-> FigureUri(<<puzzle.options[k]>>)]
<1>1. /\ SpecFields \subseteq DOMAIN spec
      /\ spec.stimulus = <<text>> \o more
      /\ spec.options = [k \in DOMAIN puzzle.options |-> option(k)]
  BY DEF GeneratedItem, SpecFields
<1>2. /\ text = [x \in DOMAIN text |-> text[x]] /\ "ref" \in DOMAIN text
      /\ scene = [x \in DOMAIN scene |-> scene[x]] /\ "ref" \in DOMAIN scene
      /\ \A k : option(k) = [x \in DOMAIN option(k) |-> option(k)[x]] /\ "ref" \in DOMAIN option(k)
  OBVIOUS
<1>3. more = <<>> \/ more = <<scene>>
  OBVIOUS
<1> HIDE DEF spec, text, scene, option, more
<1>4. Solid(spec.stimulus)
  <2> DEFINE S == {text, scene}
  <2>1. <<text>> \in Seq(S) /\ more \in Seq(S)
    <3>1. text \in S /\ scene \in S
      OBVIOUS
    <3> HIDE DEF S
    <3>2. <<text>> \in Seq(S) /\ <<scene>> \in Seq(S) /\ <<>> \in Seq(S)
      BY <3>1
    <3>3. QED
      BY <1>3, <3>2
  <2>2. \A x \in S : x = [f \in DOMAIN x |-> x[f]] /\ "ref" \in DOMAIN x
    BY <1>2
  <2> HIDE DEF S
  <2>3. spec.stimulus \in Seq(S)
    BY <1>1, <2>1, ConcatProperties
  <2>4. QED
    BY <2>2, <2>3, ListIsSolid
<1>5. Solid(spec.options)
  <2> DEFINE n == DOMAIN puzzle.options
  <2>1. spec.options = [k \in n |-> option(k)]
    BY <1>1
  <2> HIDE DEF n
  <2>2. DOMAIN spec.options = n /\ \A k \in n : spec.options[k] = option(k)
    BY <2>1
  <2>3. spec.options = [k \in n |-> spec.options[k]]
    BY <2>1
  <2>4. QED
    BY <1>2, <2>2, <2>3 DEF Solid
<1>6. QED
  BY <1>1, <1>4, <1>5 DEF spec

LEMMA MadeIsSolid ==
    ASSUME NEW spec, MadeItem(spec)
    PROVE  SpecFields \subseteq DOMAIN spec /\ Solid(spec.stimulus) /\ Solid(spec.options)
<1>1. ASSUME NEW id, NEW stem, NEW options, NEW key, Reads(spec, id, stem, options, key), Solid(options)
      PROVE  SpecFields \subseteq DOMAIN spec /\ Solid(spec.stimulus) /\ Solid(spec.options)
  BY <1>1, StemIsSolid DEF Reads
<1>2. CASE FromBook(spec)
  <2>1. PICK source, q, band : spec = ViqtSpec(source, q, band)
    BY <1>2 DEF FromBook
  <2>2. QED
    BY <1>1, <2>1, ViqtFields, ViqtOptionsAreSolid
<1>3. CASE FromQuiz(spec)
  <2>1. PICK source, page, q : spec = AsvabSpec(source, page, q)
    BY <1>3 DEF FromQuiz
  <2>2. QED
    BY <1>1, <2>1, AsvabFields, AsvabOptionsAreSolid
<1>4. CASE FromModel(spec)
  BY <1>1, <1>4, ModelReads, ModelOptionsAreSolid
<1>5. CASE FromEngine(spec)
  <2>1. PICK req, puzzle, i : spec = GeneratedItem(req, puzzle, i)
    BY <1>5 DEF FromEngine
  <2>2. QED
    BY <2>1, GeneratedIsSolid
<1>6. QED
  BY <1>2, <1>3, <1>4, <1>5 DEF MadeItem

LEMMA MadeIsNamed == ASSUME NEW spec, MadeItem(spec) PROVE spec.id[1] \in Makers
BY IdOfBook, IdOfQuiz, IdOfModel, IdOfEngine DEF MadeItem

-----------------------------------------------------------------------------
(* What is stored comes of what was made *)

(* An author's own item. *)
Signed(spec) == spec.origin = "authored" /\ spec.id[1] \notin Makers

(* An item to be, on its way through the offload of its media.             *)
ComesOf(spec, made) ==
    /\ Solid(spec.stimulus) /\ Solid(spec.options)
    /\ spec.id = made.id /\ spec.key = made.key
    /\ Carried(spec.stimulus) = Carried(made.stimulus)
    /\ Carried(spec.options) = Carried(made.options)

Original(spec) ==
    /\ SpecFields \subseteq DOMAIN spec
    /\ Signed(spec) \/ \E made : MadeItem(made) /\ ComesOf(spec, made)

LEMMA MadeIsOriginal == ASSUME NEW spec, MadeItem(spec) PROVE Original(spec)
BY MadeIsSolid DEF Original, ComesOf

(* What of an item says where it comes from. *)
LEMMA SameOriginal ==
    ASSUME NEW spec, Original(spec), NEW out, DOMAIN spec \subseteq DOMAIN out,
           out.id = spec.id, out.origin = spec.origin, out.key = spec.key,
           Solid(spec.stimulus) => Solid(out.stimulus) /\ Carried(out.stimulus) = Carried(spec.stimulus),
           Solid(spec.options) => Solid(out.options) /\ Carried(out.options) = Carried(spec.options)
    PROVE  Original(out)
<1>1. SpecFields \subseteq DOMAIN out
  BY DEF Original
<1>2. CASE Signed(spec)
  BY <1>1, <1>2 DEF Original, Signed
<1>3. ASSUME NEW made, MadeItem(made), ComesOf(spec, made) PROVE Original(out)
  <2>1. ComesOf(out, made)
    BY <1>3 DEF ComesOf
  <2>2. QED
    BY <1>1, <1>3, <2>1 DEF Original
<1>4. QED
  BY <1>2, <1>3 DEF Original

LEMMA SnapshotIsOriginal ==
    ASSUME NEW spec, Original(spec)
    PROVE  Original(Snapshot(spec)) /\ Snapshot(spec).id = spec.id
<1> DEFINE out == Snapshot(spec)
<1>1. SpecFields \subseteq DOMAIN spec
  BY DEF Original
<1>2. /\ DOMAIN spec \subseteq DOMAIN out /\ out.id = spec.id /\ out.origin = spec.origin /\ out.key = spec.key
      /\ out.stimulus = spec.stimulus /\ out.options = spec.options
  BY <1>1 DEF Snapshot, SpecFields
<1> HIDE DEF out
<1>3. Original(out)
  BY <1>2, SameOriginal
<1>4. QED
  BY <1>2, <1>3 DEF out

LEMMA RewrittenIsOriginal ==
    ASSUME NEW spec, SpecIsTyped(spec), Original(spec),
           InlineParts(spec.stimulus) # {} \/ InlineParts(spec.options) # {}
    PROVE  Original(Rewritten(spec))
<1> DEFINE out == Rewritten(spec)
<1>1. SpecFields \subseteq DOMAIN spec /\ PartsAreTyped(spec.stimulus) /\ PartsAreTyped(spec.options)
  BY DEF Original, SpecIsTyped
<1>2. ASSUME NEW parts, PartsAreTyped(parts), InlineParts(parts) # {}, Solid(parts)
      PROVE  LET new == [parts EXCEPT ![Min(InlineParts(parts))].ref = ContentRef(@)]
             IN  Solid(new) /\ Carried(new) = Carried(parts)
  <2>1. Min(InlineParts(parts)) \in DOMAIN parts /\ IsInline(parts[Min(InlineParts(parts))].ref)
    BY <1>2, OnePartRewritten
  <2>2. QED
    BY <1>2, <2>1, CarriedOn
<1>3. CASE InlineParts(spec.stimulus) # {}
  <2> DEFINE new == [spec.stimulus EXCEPT ![Min(InlineParts(spec.stimulus))].ref = ContentRef(@)]
  <2>1. out = [spec EXCEPT !.stimulus = new]
    BY <1>3 DEF Rewritten
  <2>2. Solid(spec.stimulus) => Solid(new) /\ Carried(new) = Carried(spec.stimulus)
    BY <1>1, <1>2, <1>3
  <2> HIDE DEF new, out
  <2>3. /\ DOMAIN out = DOMAIN spec /\ out.stimulus = new /\ out.options = spec.options
        /\ out.id = spec.id /\ out.origin = spec.origin /\ out.key = spec.key
    BY <1>1, <2>1 DEF SpecFields
  <2>4. Original(out)
    BY <2>2, <2>3, SameOriginal
  <2>5. QED
    BY <2>4 DEF out
<1>4. CASE InlineParts(spec.stimulus) = {}
  <2> DEFINE new == [spec.options EXCEPT ![Min(InlineParts(spec.options))].ref = ContentRef(@)]
  <2>1. out = [spec EXCEPT !.options = new]
    BY <1>4 DEF Rewritten
  <2>2. Solid(spec.options) => Solid(new) /\ Carried(new) = Carried(spec.options)
    BY <1>1, <1>2, <1>4
  <2> HIDE DEF new, out
  <2>3. /\ DOMAIN out = DOMAIN spec /\ out.options = new /\ out.stimulus = spec.stimulus
        /\ out.id = spec.id /\ out.origin = spec.origin /\ out.key = spec.key
    BY <1>1, <2>1 DEF SpecFields
  <2>4. Original(out)
    BY <2>2, <2>3, SameOriginal
  <2>5. QED
    BY <2>4 DEF out
<1>5. QED
  BY <1>3, <1>4

(* All the media of an item has gone to the store. *)
Stored(snap) ==
    /\ \A k \in DOMAIN snap.stimulus : ~IsInline(snap.stimulus[k].ref)
    /\ \A k \in DOMAIN snap.options : ~IsInline(snap.options[k].ref)

LEMMA SameContent ==
    ASSUME NEW a, NEW b, Original(a), Original(b), a.id = b.id, a.origin # "authored", Stored(a), Stored(b)
    PROVE  SameQuestion(a, b)
<1>1. PICK ma : MadeItem(ma) /\ ComesOf(a, ma)
  BY DEF Original, Signed
<1>2. b.id[1] \in Makers
  BY <1>1, MadeIsNamed DEF ComesOf
<1>3. PICK mb : MadeItem(mb) /\ ComesOf(b, mb)
  BY <1>2 DEF Original, Signed
<1>4. SameQuestion(ma, mb)
  BY <1>1, <1>3, OneQuestion DEF ComesOf
<1>5. /\ Carried(a.stimulus) = a.stimulus /\ Carried(a.options) = a.options
      /\ Carried(b.stimulus) = b.stimulus /\ Carried(b.options) = b.options
  BY <1>1, <1>3, CarriedStays DEF ComesOf, Stored
<1>6. QED
  BY <1>1, <1>3, <1>4, <1>5 DEF ComesOf, SameQuestion

LEMMA NormalizedIsMade ==
    ASSUME NEW w \in Wirings, NEW name \in DOMAIN Requests, Requests[name].kind = "ingest",
           Requests[name].source.id \in Registered
    PROVE  LET req   == Requests[name]
               found == Normalize(req.source, Fetched(w, req.source, req.limit).items)
           IN  \A k \in DOMAIN found.specs : MadeItem(found.specs[k])
<1> DEFINE req    == Requests[name]
           source == req.source
           raw    == Fetched(w, source, req.limit).items
           all    == Whole(source)
           F      == FilesOf(source)
<1>1. SourceIsTyped(source) /\ req.limit \in Int
  BY SourcesAreTyped DEF Fetching
<1>2. source \in Sources
  BY DEF Sources
<1>3. /\ raw \in Seq(F) /\ all \in Seq(F) /\ Len(raw) <= Len(all)
      /\ \A n \in 1..Len(raw) : raw[n] = all[n]
  <2> HIDE DEF req
  <2>1. QED
    BY <1>1, BringsTheFirst
<1> HIDE DEF raw
<1>4. Prefix(raw, all)
  <2> HIDE DEF all, F
  <2>1. Len(raw) \in Nat /\ Len(all) \in Nat /\ DOMAIN raw = 1..Len(raw) /\ DOMAIN all = 1..Len(all)
    BY <1>3, LenProperties
  <2>2. QED
    BY <1>3, <2>1 DEF Prefix
<1>5. \/ source.id = "viqt" /\ Normalize(source, raw) = Viqt(source, raw)
      \/ source.id = "asvab" /\ Normalize(source, raw) = Asvab(source, raw)
  BY DEF Normalize, Registered
<1> HIDE DEF source, F
<1>6. \A k \in DOMAIN Normalize(source, raw).specs : MadeItem(Normalize(source, raw).specs[k])
  BY <1>2, <1>3, <1>4, <1>5, ViqtIsMade, AsvabIsMade DEF MadeItem
<1>7. QED
  BY <1>6 DEF source, raw

LEMMA HandedInIsOriginal ==
    ASSUME NEW name \in DOMAIN Requests, NEW found,
           \/ /\ Requests[name].kind = "generate" /\ Generable(Requests[name])
              /\ found = SomeSpecs(Generated(Requests[name], Streams[Requests[name].seed]))
           \/ /\ Requests[name].kind = "author" /\ ValidItem(Requests[name].spec)
              /\ found = SomeSpecs(<<Requests[name].spec>>)
    PROVE  \A k \in DOMAIN found.specs : Original(found.specs[k])
<1> DEFINE req   == Requests[name]
           batch == Generated(req, Streams[req.seed])
           piece == <<req.spec>>
<1>1. \A x : SomeSpecs(x).specs = x
  BY DEF SomeSpecs
<1>2. CASE req.kind = "generate" /\ Generable(req) /\ found = SomeSpecs(batch)
  <2>1. batch = [i \in 1..req.count |-> GeneratedItem(req, Puzzle(req, i), i)]
    BY DEF Generated, Puzzle
  <2>2. found.specs = batch
    BY <1>1, <1>2
  <2> HIDE DEF batch, req
  <2>3. \A i \in 1..req.count : FromEngine(GeneratedItem(req, Puzzle(req, i), i))
    BY <1>2 DEF FromEngine, req
  <2>4. \A k \in DOMAIN batch : MadeItem(batch[k])
    BY <2>1, <2>3 DEF MadeItem
  <2>5. QED
    BY <2>2, <2>4, MadeIsOriginal
<1>3. CASE req.kind = "author" /\ ValidItem(req.spec) /\ found = SomeSpecs(piece)
  <2>1. SpecFields \subseteq DOMAIN req.spec
    BY <1>3, MediaAssumption
  <2>2. Signed(req.spec)
    BY <1>3, NamesAssumption DEF Signed
  <2>3. found.specs = piece /\ DOMAIN piece = {1} /\ piece[1] = req.spec
    BY <1>1, <1>3
  <2>4. QED
    BY <2>1, <2>2, <2>3 DEF Original
<1>4. QED
  BY <1>2, <1>3

-----------------------------------------------------------------------------
(* Ids and what they name, along every step *)

QuestionsRun(run) ==
    /\ run.phase = "asking" => Requests[run.req].kind = "extract"
    /\ run.phase = "storing" => \A k \in DOMAIN run.specs : Original(run.specs[k])

Banked(stock) == \A id \in DOMAIN stock : stock[id].id = id /\ Original(stock[id])

QuestionsInv == Banked(bank) /\ \A c \in Clients : QuestionsRun(runs[c])

LEMMA EndedQuestions ==
    ASSUME NEW run, NEW err, DOMAIN run = DOMAIN NewRun
    PROVE  QuestionsRun(Ended(run, err))
BY DEF QuestionsRun, Ended, NewRun

LEMMA StoringQuestions ==
    ASSUME NEW run, DOMAIN run = DOMAIN NewRun, NEW found, \A k \in DOMAIN found.specs : Original(found.specs[k])
    PROVE  QuestionsRun(Storing(run, found))
<1>1. CASE found.err # ""
  BY <1>1, EndedQuestions DEF Storing
<1>2. CASE found.err = ""
  <2> DEFINE out == [run EXCEPT !.phase = "storing", !.specs = found.specs]
  <2>1. Storing(run, found) = out
    BY <1>2 DEF Storing
  <2>2. out.phase = "storing" /\ out.specs = found.specs
    BY DEF NewRun
  <2> HIDE DEF out
  <2>3. QED
    BY <2>1, <2>2 DEF QuestionsRun
<1>3. QED
  BY <1>1, <1>2

LEMMA QuestionsInit == Init => QuestionsInv
<1> SUFFICES ASSUME Init PROVE QuestionsInv
  OBVIOUS
<1>1. QuestionsRun(NewRun)
  BY DEF QuestionsRun, NewRun
<1>2. Banked(bank)
  BY DEF Init, Banked
<1>3. QED
  BY <1>1, <1>2 DEF Init, QuestionsInv

LEMMA QuestionsStep == SourcingInv /\ QuestionsInv /\ [Next]_vars => QuestionsInv'
<1> SUFFICES ASSUME SourcingInv, QuestionsInv, [Next]_vars PROVE QuestionsInv'
  OBVIOUS
<1>1. /\ DOMAIN runs = Clients /\ Banked(bank)
      /\ \A c \in Clients : /\ RunInv(DOMAIN files, runs[c]) /\ DOMAIN runs[c] = DOMAIN NewRun
                            /\ QuestionsRun(runs[c])
  BY DEF SourcingInv, RunInv, QuestionsInv
<1>2. ASSUME NEW c \in Clients, NEW out, Update(c, out), Banked(bank'), QuestionsRun(out)
      PROVE  QuestionsInv'
  <2>1. \A d \in Clients : runs'[d] = IF d = c THEN out ELSE runs[d]
    BY <1>1, <1>2 DEF Update
  <2>2. \A d \in Clients : QuestionsRun(runs'[d])
    BY <1>1, <1>2, <2>1
  <2>3. QED
    BY <1>2, <2>2 DEF QuestionsInv
<1>3. ASSUME NEW c \in Clients, NEW out, Update(c, out), UNCHANGED bank, QuestionsRun(out)
      PROVE  QuestionsInv'
  <2>1. Banked(bank')
    BY <1>1, <1>3
  <2>2. QED
    BY <1>2, <1>3, <2>1
<1>4. ASSUME NEW c \in Clients, UNCHANGED bank, NEW err, Update(c, Ended(runs[c], err))
      PROVE  QuestionsInv'
  BY <1>1, <1>3, <1>4, EndedQuestions
<1>5. ASSUME NEW c \in Clients, NEW name \in DOMAIN Requests, Begin(c, name) PROVE QuestionsInv'
  <2> DEFINE run      == [NewRun EXCEPT !.req = name]
             fetching == [run EXCEPT !.phase = "fetching"]
             req      == Requests[name]
             batch    == SomeSpecs(Generated(req, Streams[req.seed]))
             piece    == SomeSpecs(<<req.spec>>)
  <2>1. DOMAIN run = DOMAIN NewRun /\ fetching.phase = "fetching"
    BY DEF NewRun
  <2>2. req.kind \in {"ingest", "extract", "generate", "author"} /\ UNCHANGED bank
    BY <1>5, MediaAssumption DEF Begin
  <2>3. \/ Update(c, fetching)
        \/ Update(c, Ended(run, "no normalizer")) \/ Update(c, Ended(run, "invalid spec"))
        \/ Update(c, Ended(run, "invalid item"))
        \/ req.kind = "generate" /\ Generable(req) /\ Update(c, Storing(run, batch))
        \/ req.kind = "author" /\ ValidItem(req.spec) /\ Update(c, Storing(run, piece))
    BY <1>5, <2>2 DEF Begin
  <2> HIDE DEF run, fetching, batch, piece
  <2>4. QuestionsRun(fetching) /\ \A err : QuestionsRun(Ended(run, err))
    BY <2>1, EndedQuestions DEF QuestionsRun
  <2>5. req.kind = "generate" /\ Generable(req) => QuestionsRun(Storing(run, batch))
    BY <2>1, HandedInIsOriginal, StoringQuestions DEF batch
  <2>6. req.kind = "author" /\ ValidItem(req.spec) => QuestionsRun(Storing(run, piece))
    BY <2>1, HandedInIsOriginal, StoringQuestions DEF piece
  <2>7. QED
    BY <1>3, <2>2, <2>3, <2>4, <2>5, <2>6
<1>6. ASSUME NEW c \in Clients, Fetch(c) PROVE QuestionsInv'
  <2> DEFINE req   == Request(c)
             got   == Fetched(Wired(c, req.kind), req.source, req.limit)
             run   == [runs[c] EXCEPT !.fetched = Len(got.items), !.partial = got.partial]
             out   == [run EXCEPT !.phase = "asking", !.asked = PayloadSize(got.items)]
             found == Normalize(req.source, got.items)
  <2>1. /\ runs[c].phase = "fetching" /\ UNCHANGED bank
        /\ \/ req.kind = "ingest" /\ Update(c, Storing(run, found))
           \/ Update(c, Ended(run, "no payload"))
           \/ req.kind # "ingest" /\ Update(c, out)
    BY <1>6 DEF Fetch
  <2>2. /\ runs[c].req \in DOMAIN Requests /\ req = Requests[runs[c].req]
        /\ req.kind = "ingest" => req.source.id \in Registered
        /\ req.kind \in {"ingest", "extract"}
    BY <1>1, <2>1, MediaAssumption DEF RunInv, Request, HandsIn
  <2>3. DOMAIN run = DOMAIN NewRun /\ out.phase = "asking" /\ out.req = runs[c].req
    BY <1>1 DEF NewRun
  <2>4. ASSUME req.kind = "ingest" PROVE \A k \in DOMAIN found.specs : Original(found.specs[k])
    BY <2>2, <2>4, WiredIsAWiring, NormalizedIsMade, MadeIsOriginal
  <2> HIDE DEF run, out, found
  <2>5. (req.kind # "ingest" => QuestionsRun(out)) /\ QuestionsRun(Ended(run, "no payload"))
    BY <2>2, <2>3, EndedQuestions DEF QuestionsRun
  <2>6. req.kind = "ingest" => QuestionsRun(Storing(run, found))
    BY <2>3, <2>4, StoringQuestions
  <2>7. QED
    BY <1>3, <2>1, <2>5, <2>6
<1>7. ASSUME NEW c \in Clients, NEW answer \in Backend, Ask(c, answer) PROVE QuestionsInv'
  <2> DEFINE req   == Request(c)
             run   == [runs[c] EXCEPT !.tokens = Clamped(req.tokens, CapOf(c))]
             out   == Completion(answer)
             found == ExtractSpecs(req.source, req.type, out.content)
  <2>1. /\ runs[c].phase = "asking" /\ UNCHANGED bank
        /\ \/ Update(c, Ended(runs[c], "model not allowed"))
           \/ ~NoErr(out) /\ Update(c, Ended(run, out.err))
           \/ NoErr(out) /\ Update(c, Storing(run, found))
    BY <1>7 DEF Ask, NoErr
  <2>2. /\ runs[c].req \in DOMAIN Requests /\ req = Requests[runs[c].req] /\ req.kind = "extract"
    BY <1>1, <2>1 DEF RunInv, Request, QuestionsRun
  <2>3. DOMAIN run = DOMAIN NewRun
    BY <1>1 DEF NewRun
  <2>4. ASSUME NoErr(out) PROVE \A k \in DOMAIN found.specs : Original(found.specs[k])
    <3>1. out.content.json =>
             IsList(out.content.items) /\ \A cand \in Range(out.content.items) : IsList(cand.options)
      BY <2>4, AnswerAssumption DEF NoErr
    <3>2. QED
      BY <2>2, <3>1, ExtractedIsMade, MadeIsOriginal DEF MadeItem
  <2> HIDE DEF run, out, found
  <2>5. \A err : QuestionsRun(Ended(run, err))
    BY <2>3, EndedQuestions
  <2>6. NoErr(out) => QuestionsRun(Storing(run, found))
    BY <2>3, <2>4, StoringQuestions
  <2>7. QED
    BY <1>3, <1>4, <2>1, <2>5, <2>6
<1>8. ASSUME NEW c \in Clients, CallFails(c) \/ OffloadFails(c) \/ SaveFails(c) PROVE QuestionsInv'
  <2>1. UNCHANGED bank /\ (Update(c, Ended(runs[c], "failed")) \/ Update(c, Ended(runs[c], "store")))
    BY <1>8 DEF CallFails, OffloadFails, SaveFails
  <2>2. QED
    BY <1>4, <2>1
<1>9. ASSUME NEW c \in Clients, Finish(c) PROVE QuestionsInv'
  BY <1>4, <1>9 DEF Finish
<1>10. ASSUME NEW c \in Clients, Offload(c) PROVE QuestionsInv'
  <2> DEFINE run  == runs[c]
             n    == run.next
             spec == run.specs[n]
             out  == [run EXCEPT !.specs[n] = Rewritten(@)]
  <2>1. /\ UNCHANGED bank /\ (UNCHANGED runs \/ Update(c, out))
        /\ run.phase = "storing" /\ n \in DOMAIN run.specs
        /\ HandsIn(Requests[run.req].kind)
        /\ InlineParts(spec.stimulus) # {} \/ InlineParts(spec.options) # {}
    BY <1>10 DEF Offload, MustOffload, Busy, Authoring, Request, HandsIn, Head_
  <2>2. SpecIsTyped(spec) /\ Original(spec)
    BY <1>1, <2>1 DEF RunInv, PendingSpec, QuestionsRun
  <2>3. Original(Rewritten(spec))
    BY <2>1, <2>2, RewrittenIsOriginal
  <2>4. /\ out.phase = run.phase /\ DOMAIN out.specs = DOMAIN run.specs
        /\ \A k \in DOMAIN run.specs : out.specs[k] = IF k = n THEN Rewritten(spec) ELSE run.specs[k]
    BY <1>1, <2>1 DEF NewRun
  <2> HIDE DEF out, n, spec
  <2>5. QuestionsRun(out)
    BY <1>1, <2>1, <2>3, <2>4 DEF QuestionsRun
  <2>6. QED
    BY <1>1, <1>3, <2>1, <2>5 DEF QuestionsInv
<1>11. ASSUME NEW c \in Clients, Skip(c) PROVE QuestionsInv'
  <2> DEFINE out == [runs[c] EXCEPT !.next = @ + 1, !.skipped = @ + 1]
  <2>1. UNCHANGED bank /\ Update(c, out)
    BY <1>11 DEF Skip
  <2>2. out.specs = runs[c].specs /\ out.phase = runs[c].phase /\ out.req = runs[c].req
    BY <1>1 DEF NewRun
  <2> HIDE DEF out
  <2>3. QuestionsRun(out)
    BY <1>1, <2>2 DEF QuestionsRun
  <2>4. QED
    BY <1>3, <2>1, <2>3
<1>12. ASSUME NEW c \in Clients, Save(c) PROVE QuestionsInv'
  <2> DEFINE run  == runs[c]
             spec == run.specs[run.next]
             out  == [run EXCEPT !.next = @ + 1, !.saved = @ + 1]
  <2>1. /\ bank' = [id \in DOMAIN bank \cup {spec.id} |-> IF id = spec.id THEN Snapshot(spec) ELSE bank[id]]
        /\ Update(c, out) /\ run.phase = "storing" /\ run.next \in DOMAIN run.specs
    BY <1>12 DEF Save, Savable, Busy, Head_
  <2>2. Original(spec)
    BY <1>1, <2>1 DEF QuestionsRun
  <2>3. out.specs = run.specs /\ out.phase = run.phase /\ out.req = run.req
    BY <1>1 DEF NewRun
  <2> HIDE DEF out, spec
  <2>4. QuestionsRun(out)
    BY <1>1, <2>3 DEF QuestionsRun
  <2>5. Banked(bank')
    BY <1>1, <2>1, <2>2, SnapshotIsOriginal DEF Banked
  <2>6. QED
    BY <1>2, <2>1, <2>4, <2>5
<1>13. ASSUME NEW p \in Processes, Crash(p) PROVE QuestionsInv'
  <2>1. UNCHANGED bank /\ runs' = [c \in Clients |-> IF ProcessOf[c] = p THEN NewRun ELSE runs[c]]
    BY <1>13 DEF Crash
  <2>2. QuestionsRun(NewRun)
    BY DEF QuestionsRun, NewRun
  <2>3. QED
    BY <1>1, <2>1, <2>2 DEF QuestionsInv
<1>14. CASE UNCHANGED vars
  BY <1>1, <1>14 DEF vars, QuestionsInv
<1>15. QED
  BY <1>5, <1>6, <1>7, <1>8, <1>9, <1>10, <1>11, <1>12, <1>13, <1>14 DEF Next

(* The bank only grows. *)
LEMMA BankGrows == [Next]_vars => DOMAIN bank \subseteq DOMAIN bank'
<1>1. ASSUME NEW c \in Clients, Save(c) PROVE DOMAIN bank \subseteq DOMAIN bank'
  BY <1>1 DEF Save
<1>2. QED
  BY <1>1 DEF Next, vars, Begin, Fetch, Ask, CallFails, Offload, OffloadFails, Skip, SaveFails, Finish, Crash

LEMMA BankIsStored == ASSUME SourcingInv, NEW id \in DOMAIN bank PROVE Stored(bank[id])
<1>1. \A ref \in MediaOf(bank[id]) : ~IsInline(ref)
  BY DEF SourcingInv, NoDanglingMedia
<1>2. QED
  BY <1>1, MediaOfParts, RefsApart DEF Stored

LEMMA QuestionsStay ==
    SourcingInv /\ SourcingInv' /\ QuestionsInv /\ QuestionsInv' /\ [Next]_vars =>
       \A id \in DOMAIN bank : bank[id].origin # "authored" =>
            /\ id \in DOMAIN bank'
            /\ bank'[id].stimulus = bank[id].stimulus
            /\ bank'[id].options = bank[id].options
<1> SUFFICES ASSUME SourcingInv, SourcingInv', QuestionsInv, QuestionsInv', [Next]_vars,
                    NEW id \in DOMAIN bank, bank[id].origin # "authored"
             PROVE  /\ id \in DOMAIN bank'
                    /\ bank'[id].stimulus = bank[id].stimulus
                    /\ bank'[id].options = bank[id].options
  OBVIOUS
<1>1. id \in DOMAIN bank'
  BY BankGrows
<1>2. Stored(bank[id]) /\ Original(bank[id]) /\ bank[id].id = id
  BY BankIsStored DEF QuestionsInv, Banked
<1>3. Original(bank'[id]) /\ bank'[id].id = id
  BY <1>1 DEF QuestionsInv, Banked
<1>4. Stored(bank'[id])
  <2>1. \A ref \in MediaOf(bank'[id]) : ~IsInline(ref)
    BY <1>1 DEF SourcingInv, NoDanglingMedia
  <2>2. QED
    BY <2>1, MediaOfParts, RefsApart DEF Stored
<1>5. SameQuestion(bank[id], bank'[id])
  BY <1>2, <1>3, <1>4, SameContent
<1>6. QED
  BY <1>1, <1>5 DEF SameQuestion

-----------------------------------------------------------------------------
(* What is marked as the answer *)

LEMMA MaxIsThere ==
    ASSUME NEW N \in Nat, NEW S \in SUBSET (1..N), S # {}
    PROVE  Max(S) \in S
<1> DEFINE T == {n \in 0..N : \E x \in S : n = N - x}
<1>1. T \in SUBSET Nat /\ T # {}
  <2>1. PICK x \in S : x \in 1..N
    OBVIOUS
  <2>2. N - x \in T /\ T \in SUBSET Nat
    BY <2>1
  <2> HIDE DEF T
  <2>3. QED
    BY <2>2
<1>2. Min(T) \in T
  BY <1>1, MinIsThere
<1>3. \A n \in T : Min(T) <= n
  <2>1. \E n \in T : \A m \in T : n <= m
    <3>1. PICK n \in T : \A m \in T : ~(m < n)
      <4>1. \E x \in T : \A y \in T : ~(<<y, x>> \in OpToRel(<, Nat))
        BY <1>1, NatLessThanWellFounded, WFMin
      <4>2. \A x, y \in Nat : y < x => <<y, x>> \in OpToRel(<, Nat)
        BY DEF OpToRel
      <4>3. QED
        BY <1>1, <4>1, <4>2
    <3>2. \A m \in T : n <= m
      BY <1>1, <3>1
    <3>3. QED
      BY <3>2
  <2>2. QED
    BY <2>1 DEF Min
<1> HIDE DEF T
<1>4. PICK x \in S : Min(T) = N - x
  BY <1>2 DEF T
<1>5. \A y \in S : y <= x
  <2> SUFFICES ASSUME NEW y \in S PROVE y <= x
    OBVIOUS
  <2>1. N - y \in T /\ x \in Int /\ y \in Int
    BY DEF T
  <2>2. N - x <= N - y
    BY <1>3, <1>4, <2>1
  <2>3. QED
    BY <2>1, <2>2
<1>6. QED
  BY <1>5 DEF Max

(* The label a quiz keys is one that its configuration calls correct. *)
LEMMA CorrectIsMarked ==
    ASSUME NEW page, IsList(page.answers), IsList(page.configs), NEW q, AsksOn(page, q)
    PROVE  <<q, CorrectOption(page, q, AsvabOptions(page, q))>> \in UNION {g.correct : g \in Range(page.configs)}
<1> DEFINE opts    == AsvabOptions(page, q)
           place   == Min(AnswerKeys(page))
           key     == page.configs[place]
           flagged == {k \in DOMAIN opts : <<q, opts[k].id>> \in key.correct}
           K       == {k \in DOMAIN page.answers : page.answers[k].q = q /\ page.answers[k].text # ""}
           labelled == Picked(page.answers, K)
           N       == Cardinality(K)
           out     == CorrectOption(page, q, opts)
<1>1. place \in DOMAIN page.configs
  <2>1. AnswerKeys(page) # {}
    BY DEF AsksOn
  <2>2. AnswerKeys(page) \in SUBSET Nat
    BY LenProperties DEF IsList, AnswerKeys
  <2>3. place \in AnswerKeys(page)
    BY <2>1, <2>2, MinIsThere
  <2>4. QED
    BY <2>3 DEF AnswerKeys
<1>2. N \in Nat /\ DOMAIN opts = 1..N
  <2>1. opts = [k \in DOMAIN labelled |-> PlainOption(labelled[k].a, labelled[k].text)]
    BY DEF AsvabOptions
  <2>2. page.answers \in Seq(Range(page.answers)) /\ K \in SUBSET (DOMAIN page.answers)
    BY DEF IsList
  <2> HIDE DEF K, opts
  <2>3. N \in Nat /\ DOMAIN labelled = 1..N
    BY <2>2, PickedFacts
  <2>4. QED
    BY <2>1, <2>3
<1>3. out = IF flagged = {} THEN "" ELSE opts[Max(flagged)].id
  BY DEF CorrectOption
<1>4. out # ""
  BY DEF AsksOn, Askable
<1>5. flagged # {} /\ out = opts[Max(flagged)].id
  BY <1>3, <1>4
<1>6. flagged \in SUBSET (1..N)
  BY <1>2
<1>7. Max(flagged) \in flagged
  <2> HIDE DEF flagged, N
  <2>1. QED
    BY <1>2, <1>5, <1>6, MaxIsThere
<1>8. <<q, out>> \in key.correct
  BY <1>5, <1>7
<1>9. key \in Range(page.configs)
  BY <1>1 DEF Range
<1>10. QED
  BY <1>8, <1>9

LEMMA TwoInOrder ==
    ASSUME NEW a \in Nat, NEW b \in Nat, a < b
    PROVE  Min({a, b}) = a /\ Max({a, b}) = b
<1>1. \A x \in {a, b} : (\A y \in {a, b} : x <= y) <=> x = a
  OBVIOUS
<1>2. \A x \in {a, b} : (\A y \in {a, b} : x >= y) <=> x = b
  OBVIOUS
<1>3. Min({a, b}) = a
  BY <1>1 DEF Min
<1>4. Max({a, b}) = b
  BY <1>2 DEF Max
<1>5. QED
  BY <1>3, <1>4

(* The places of the bits of an answer's code. *)
BitsOf(code) == {b \in 1..5 : (code \div (2 ^ (b - 1))) % 2 = 1}

LEMMA BitsOfCodes ==
    /\ BitsOf(3) = {1, 2} /\ BitsOf(5) = {1, 3} /\ BitsOf(6) = {2, 3} /\ BitsOf(9) = {1, 4} /\ BitsOf(10) = {2, 4}
    /\ BitsOf(12) = {3, 4} /\ BitsOf(17) = {1, 5} /\ BitsOf(18) = {2, 5} /\ BitsOf(20) = {3, 5} /\ BitsOf(24) = {4, 5}
<1>1. 2 ^ (1 - 1) = 1 /\ 2 ^ (2 - 1) = 2 /\ 2 ^ (3 - 1) = 4 /\ 2 ^ (4 - 1) = 8 /\ 2 ^ (5 - 1) = 16
  OBVIOUS
<1>2. 1..5 = {1, 2, 3, 4, 5}
  OBVIOUS
<1>3. ASSUME NEW code \in Nat
      PROVE  BitsOf(code) = {b \in {1, 2, 3, 4, 5} :
                \/ b = 1 /\ (code \div 1) % 2 = 1
                \/ b = 2 /\ (code \div 2) % 2 = 1
                \/ b = 3 /\ (code \div 4) % 2 = 1
                \/ b = 4 /\ (code \div 8) % 2 = 1
                \/ b = 5 /\ (code \div 16) % 2 = 1}
  BY <1>1, <1>2 DEF BitsOf
<1>4. QED
  BY <1>3

LEMMA PairFacts ==
    ASSUME NEW code, PairOf(code) # {}
    PROVE  LET first == Min(PairOf(code))
               last  == Max(PairOf(code))
           IN  /\ first \in 1..5 /\ last \in 1..5 /\ first # last
               /\ BitsOf(code) = {first, last}
<1>1. \E a, b \in 1..5 : a < b /\ PairOf(code) = {a, b} /\ BitsOf(code) = {a, b}
  BY BitsOfCodes DEF PairOf
<1>2. QED
  BY <1>1, TwoInOrder

LEMMA PlacesApart == \A k, l \in 1..5 : Places[k] = Places[l] => k = l
<1>1. /\ Places[1] = "o0" /\ Places[2] = "o1" /\ Places[3] = "o2" /\ Places[4] = "o3" /\ Places[5] = "o4"
  BY DEF Places
<1>2. \A k \in 1..5 : k = 1 \/ k = 2 \/ k = 3 \/ k = 4 \/ k = 5
  OBVIOUS
<1>3. QED
  BY <1>1, <1>2

LEMMA FourOfFive ==
    ASSUME NEW f \in 1..5
    PROVE  Cardinality(1..5 \ {f}) = 4
<1> DEFINE S == 1..5
<1>1. IsFiniteSet(S) /\ Cardinality(S) = 5
  <2>1. 1 \in Int /\ 5 \in Int /\ ~(1 > 5) /\ 5 - 1 + 1 = 5
    OBVIOUS
  <2>2. QED
    BY <2>1, FS_Interval, Zenon
<1> HIDE DEF S
<1>2. Cardinality(S \ {f}) = Cardinality(S) - 1
  BY <1>1, FS_RemoveElement DEF S
<1>3. QED
  BY <1>1, <1>2 DEF S

(* What is picked of a row of places are the places picked.                *)
LEMMA PickedFromRow ==
    ASSUME NEW N \in Nat, NEW row \in Seq(1..N), DOMAIN row = 1..N, \A k \in 1..N : row[k] = k,
           NEW K \in SUBSET (1..N), NEW m \in Nat, Cardinality(K) = m
    PROVE  /\ \A k \in 1..m : Picked(row, K)[k] \in K
           /\ \A l \in K : \E k \in 1..m : Picked(row, K)[k] = l
<1>1. K \in SUBSET (DOMAIN row)
  OBVIOUS
<1>2. \A k \in 1..m : Place(K, k) \in K /\ Picked(row, K)[k] = row[Place(K, k)]
  <2> DEFINE S == 1..N
  <2>1. row \in Seq(S)
    OBVIOUS
  <2> HIDE DEF S
  <2>2. \A k \in 1..Cardinality(K) : Place(K, k) \in K /\ Picked(row, K)[k] = row[Place(K, k)]
    BY <1>1, <2>1, PickedFacts
  <2>3. QED
    BY <2>2
<1>3. \A l \in K : \E k \in 1..Cardinality(K) : Place(K, k) = l
  BY PlaceFacts
<1>4. \A k \in 1..m : Picked(row, K)[k] = Place(K, k)
  BY <1>2
<1>5. QED
  BY <1>2, <1>3, <1>4

(* The four words that stay when one of five is taken out.                 *)
LEMMA OtherWords ==
    ASSUME NEW f \in 1..5
    PROVE  LET others == Picked(<<1, 2, 3, 4, 5>>, 1..5 \ {f})
           IN  /\ \A k \in 1..4 : others[k] \in 1..5
               /\ \A l \in 1..5 : l # f => \E k \in 1..4 : others[k] = l
<1> DEFINE N    == 5
           m    == 4
           row  == <<1, 2, 3, 4, 5>>
           K    == 1..5 \ {f}
<1>1. /\ N \in Nat /\ m \in Nat /\ row \in Seq(1..N) /\ DOMAIN row = 1..N
      /\ \A k \in 1..N : row[k] = k
  OBVIOUS
<1>2. K \in SUBSET (1..N) /\ Cardinality(K) = m
  BY FourOfFive
<1> HIDE DEF N, m, row, K
<1>3. /\ \A k \in 1..m : Picked(row, K)[k] \in K
      /\ \A l \in K : \E k \in 1..m : Picked(row, K)[k] = l
  BY <1>1, <1>2, PickedFromRow
<1>4. QED
  BY <1>3 DEF m, row, K

(* The option under the key reads as the second of the words marked; the   *)
(* first is the stem.                                                      *)
LEMMA WordsAreKeyed ==
    ASSUME NEW q, PairOf(q.code) # {}, DOMAIN q.words = 1..5,
           NEW snap, snap.stimulus = <<PlainText(q.words[Min(PairOf(q.code))])>>,
           snap.options = ViqtOptions(q), snap.key.option = Places[Max(PairOf(q.code))]
    PROVE  {q.words[k] : k \in {b \in DOMAIN q.words : (q.code \div (2 ^ (b - 1))) % 2 = 1}} =
              {snap.stimulus[1].text, KeyText(snap)}
<1> DEFINE first  == Min(PairOf(q.code))
           last   == Max(PairOf(q.code))
           five   == <<1, 2, 3, 4, 5>>
           K      == 1..5 \ {first}
           others == Picked(five, K)
           opts   == ViqtOptions(q)
           part(k) == PlainOption(Places[others[k]], q.words[others[k]])
<1>1. first \in 1..5 /\ last \in 1..5 /\ first # last /\ BitsOf(q.code) = {first, last}
  BY PairFacts
<1>2. opts = [k \in 1..4 |-> part(k)]
  BY DEF ViqtOptions
<1> HIDE DEF K, five, first, last, opts
<1>3. /\ \A k \in 1..4 : others[k] \in 1..5
      /\ \E k \in 1..4 : others[k] = last
  BY <1>1, OtherWords DEF five, K
<1> HIDE DEF others
<1>4. \A k \in 1..4 : part(k).id = Places[others[k]] /\ part(k).text = q.words[others[k]]
  BY DEF PlainOption
<1> HIDE DEF part
<1>5. Range(opts) = {part(k) : k \in 1..4}
  BY <1>2 DEF Range
<1>6. /\ \E o \in Range(opts) : o.id = Places[last]
      /\ \A o \in Range(opts) : o.id = Places[last] => o.text = q.words[last]
  BY <1>1, <1>3, <1>4, <1>5, PlacesApart
<1>7. KeyText(snap) = q.words[last]
  BY <1>6 DEF KeyText, opts, last
<1>8. snap.stimulus[1].text = q.words[first]
  BY StemIsSolid DEF first
<1>9. {b \in DOMAIN q.words : (q.code \div (2 ^ (b - 1))) % 2 = 1} = {first, last}
  BY <1>1 DEF BitsOf
<1>10. QED
  BY <1>7, <1>8, <1>9

(* What an item of the bank that came from a codebook or a quiz is.        *)
LEMMA BankedAsMade ==
    ASSUME SourcingInv, QuestionsInv, NEW id \in DOMAIN bank, id[1] \in Makers
    PROVE  \E made : /\ MadeItem(made) /\ made.id = id /\ made.key = bank[id].key
                     /\ Carried(made.stimulus) = bank[id].stimulus /\ Carried(made.options) = bank[id].options
<1>1. bank[id].id = id /\ Original(bank[id]) /\ Stored(bank[id])
  BY BankIsStored DEF QuestionsInv, Banked
<1>2. PICK made : MadeItem(made) /\ ComesOf(bank[id], made)
  BY <1>1 DEF Original, Signed
<1>3. Carried(bank[id].stimulus) = bank[id].stimulus /\ Carried(bank[id].options) = bank[id].options
  BY <1>1, <1>2, CarriedStays DEF ComesOf, Stored
<1>4. QED
  BY <1>1, <1>2, <1>3 DEF ComesOf

(* Text stays what it was. *)
LEMMA TextStays ==
    ASSUME NEW id, NEW stem, NEW options, NEW key, NEW made, Reads(made, id, stem, options, key),
           Solid(options), \A k \in DOMAIN options : ~IsInline(options[k].ref)
    PROVE  Carried(made.stimulus) = <<PlainText(stem)>> /\ Carried(made.options) = options
<1>1. made.stimulus = <<PlainText(stem)>> /\ made.options = options
  BY DEF Reads
<1>2. Carried(<<PlainText(stem)>>) = <<PlainText(stem)>>
  BY StemIsSolid, CarriedStays
<1>3. Carried(options) = options
  BY CarriedStays
<1>4. QED
  BY <1>1, <1>2, <1>3, Zenon

LEMMA BookIsKeyed ==
    ASSUME SourcingInv, QuestionsInv, NEW source \in Sources, source.id = "viqt",
           NEW raw \in Range(Whole(source)), raw.suffix = "codebook.txt",
           NEW q \in Range(raw.says), <<source.id, q.name>> \in DOMAIN bank
    PROVE  LET snap == bank[<<source.id, q.name>>]
           IN  {q.words[k] : k \in {b \in DOMAIN q.words : (q.code \div (2 ^ (b - 1))) % 2 = 1}} =
                  {snap.stimulus[1].text, KeyText(snap)}
<1> DEFINE id   == <<source.id, q.name>>
           snap == bank[id]
           all  == Whole(source)
<1>1. id[1] \in Makers /\ Len(id) = 2
  BY SourcesAreMakers
<1> HIDE DEF id
<1>2. PICK made : /\ MadeItem(made) /\ made.id = id /\ made.key = snap.key
                  /\ Carried(made.stimulus) = snap.stimulus /\ Carried(made.options) = snap.options
  BY <1>1, BankedAsMade DEF id
<1>3. FromBook(made)
  <2>1. FromQuiz(made) => Len(id) = 3
    BY <1>2, IdOfQuiz
  <2>2. FromModel(made) => Len(id) >= 3
    BY <1>2, IdOfModel
  <2>3. FromEngine(made) => Len(id) = 5
    BY <1>2, IdOfEngine
  <2>4. QED
    BY <1>1, <1>2, <2>1, <2>2, <2>3 DEF MadeItem
<1>4. PICK s, m, k, band :
         /\ s \in Sources /\ m \in Artifacts(Whole(s), "codebook.txt")
         /\ k \in Codebook(Whole(s)[m].says)
         /\ s.id = "viqt" /\ made = ViqtSpec(s, Whole(s)[m].says[k], band)
  BY <1>3 DEF FromBook
<1>5. s = source
  BY <1>4, NamesAssumption
<1>6. PICK n \in DOMAIN all : raw = all[n]
  BY RangeOf
<1>7. /\ m = n /\ LinesOnce(all[n].says)
      /\ \A l \in DOMAIN all[n].says : IsList(all[n].says[l].words)
  <2>1. Artifacts(all, "codebook.txt") = {n}
    BY <1>6, OnceAssumption
  <2>2. m \in Artifacts(all, "codebook.txt")
    BY <1>4, <1>5
  <2>3. \A l \in DOMAIN all[n].says : IsList(all[n].says[l].words)
    BY <1>6, OnceAssumption
  <2>4. QED
    BY <2>1, <2>2, <2>3, OneBook
<1> DEFINE lines == all[n].says
<1>8. /\ k \in Codebook(lines) /\ made = ViqtSpec(source, lines[k], band) /\ LinesOnce(lines) /\ raw.says = lines
      /\ \A l \in DOMAIN lines : IsList(lines[l].words)
  BY <1>4, <1>5, <1>6, <1>7
<1> HIDE DEF all, lines, snap
<1>9. PICK l \in DOMAIN lines : q = lines[l]
  BY <1>8, RangeOf
<1>10. Reads(made, <<source.id, lines[k].name>>, lines[k].words[Min(PairOf(lines[k].code))], ViqtOptions(lines[k]),
             Places[Max(PairOf(lines[k].code))])
  BY <1>8, ViqtFields, Zenon
<1>11. lines[k] = q
  <2>1. <<source.id, lines[k].name>> = <<source.id, q.name>>
    BY <1>2, <1>10, Zenon DEF Reads, id
  <2>2. lines[k].name = lines[l].name
    BY <1>9, <2>1
  <2>3. k \in DOMAIN lines
    BY <1>8 DEF Codebook
  <2>4. QED
    BY <1>8, <1>9, <2>2, <2>3 DEF LinesOnce
<1>12. /\ snap.stimulus = <<PlainText(q.words[Min(PairOf(q.code))])>> /\ snap.options = ViqtOptions(q)
       /\ snap.key.option = Places[Max(PairOf(q.code))]
  <2>1. Reads(made, <<source.id, q.name>>, q.words[Min(PairOf(q.code))], ViqtOptions(q), Places[Max(PairOf(q.code))])
    BY <1>10, <1>11
  <2>2. Carried(made.stimulus) = <<PlainText(q.words[Min(PairOf(q.code))])>> /\ Carried(made.options) = ViqtOptions(q)
    BY <2>1, TextStays, ViqtOptionsAreSolid
  <2>3. made.key.option = Places[Max(PairOf(q.code))]
    BY <2>1 DEF Reads
  <2>4. QED
    BY <1>2, <2>2, <2>3
<1>13. PairOf(q.code) # {} /\ DOMAIN q.words = 1..5
  <2>1. PairOf(q.code) # {} /\ Len(q.words) = 5 /\ k \in DOMAIN lines
    BY <1>8, <1>11 DEF Codebook
  <2>2. IsList(q.words)
    BY <1>8, <1>11, <2>1
  <2>3. DOMAIN q.words = 1..Len(q.words)
    BY <2>2, LenProperties DEF IsList
  <2>4. QED
    BY <2>1, <2>3
<1>14. QED
  BY <1>12, <1>13, WordsAreKeyed DEF snap, id

LEMMA QuizIsKeyed ==
    ASSUME SourcingInv, QuestionsInv, NEW source \in Sources, source.id = "asvab",
           NEW raw \in Range(Whole(source)),
           NEW q \in {t.q : t \in Range(raw.says.titles)}, <<source.id, raw.says.code, q>> \in DOMAIN bank
    PROVE  <<q, bank[<<source.id, raw.says.code, q>>].key.option>> \in UNION {g.correct : g \in Range(raw.says.configs)}
<1> DEFINE id   == <<source.id, raw.says.code, q>>
           snap == bank[id]
           all  == Whole(source)
<1>1. id[1] \in Makers /\ Len(id) = 3 /\ id[2] = raw.says.code
  BY SourcesAreMakers
<1> HIDE DEF id
<1>2. PICK made : MadeItem(made) /\ made.id = id /\ made.key = snap.key
  BY <1>1, BankedAsMade DEF id
<1>3. PICK n \in DOMAIN all : raw = all[n]
  BY RangeOf
<1>4. FromQuiz(made)
  <2>1. FromBook(made) => Len(id) = 2
    BY <1>2, IdOfBook
  <2>2. FromModel(made) => id[2] = "llm"
    BY <1>2, IdOfModel
  <2>3. FromEngine(made) => Len(id) = 5
    BY <1>2, IdOfEngine
  <2>4. raw.says.code # "llm"
    BY <1>3, OnceAssumption
  <2>5. QED
    BY <1>1, <1>2, <2>1, <2>2, <2>3, <2>4 DEF MadeItem
<1>5. PICK s, m, p :
         /\ s \in Sources /\ m \in TextPages(Whole(s)) /\ s.id = "asvab"
         /\ AsksOn(Whole(s)[m].says, p) /\ made = AsvabSpec(s, Whole(s)[m].says, p)
  BY <1>4 DEF FromQuiz
<1>6. s = source
  BY <1>5, NamesAssumption
<1> DEFINE page == all[m].says
<1>7. AsksOn(page, p) /\ made = AsvabSpec(source, page, p) /\ m \in DOMAIN all
  BY <1>5, <1>6 DEF TextPages
<1>8. IsList(page.answers) /\ IsList(page.configs)
  BY <1>7, OnceAssumption
<1>9. \A k \in DOMAIN page.titles, l \in DOMAIN raw.says.titles :
         page.code = raw.says.code /\ page.titles[k].q = raw.says.titles[l].q => m = n
  BY <1>3, <1>7, OnceAssumption
<1>a. m = n => page = raw.says
  BY <1>3
<1> HIDE DEF all, page, snap
<1>10. Reads(made, <<source.id, page.code, p>>, TitleOf(page, p), AsvabOptions(page, p),
             CorrectOption(page, p, AsvabOptions(page, p)))
  BY <1>7, AsvabFields, Zenon
<1>11. page.code = raw.says.code /\ p = q
  <2>1. <<source.id, page.code, p>> = <<source.id, raw.says.code, q>>
    BY <1>2, <1>10, Zenon DEF Reads, id
  <2>2. QED
    BY <2>1
<1>12. page = raw.says
  <2>1. PICK k \in DOMAIN page.titles : page.titles[k].q = p
    BY <1>7 DEF AsksOn
  <2>2. PICK l \in DOMAIN raw.says.titles : q = raw.says.titles[l].q
    BY DEF Range
  <2>3. QED
    BY <1>9, <1>11, <1>a, <2>1, <2>2
<1>13. snap.key.option = CorrectOption(page, q, AsvabOptions(page, q))
  BY <1>2, <1>10, <1>11 DEF Reads
<1>14. <<q, CorrectOption(page, q, AsvabOptions(page, q))>> \in UNION {g.correct : g \in Range(page.configs)}
  BY <1>7, <1>8, <1>11, CorrectIsMarked
<1>15. QED
  BY <1>12, <1>13, <1>14 DEF snap, id

LEMMA KeysFollow == SourcingInv /\ QuestionsInv => KeyedAsMarked
BY BookIsKeyed, QuizIsKeyed DEF KeyedAsMarked

-----------------------------------------------------------------------------
(* A puzzle has one answer                                                 *)

Kinds   == {"circle", "square", "triangle", "pentagon"}
Turns   == {0, 90, 180, 270}
Figures == [shape : Kinds, count : Int, turn : Int, filled : BOOLEAN]

LEMMA LooksOf ==
    ASSUME NEW f \in Figures
    PROVE  /\ Looks(f) \in Figures
           /\ Looks(f).shape = f.shape /\ Looks(f).count = f.count /\ Looks(f).filled = f.filled
           /\ Looks(f).turn = IF f.shape \in {"circle", "square"} THEN 0 ELSE f.turn % 360
           /\ Looks(f).turn \in 0..359
<1>1. f.turn \in Int /\ f.turn % 360 \in 0..359
  <2>1. f.turn \in Int
    BY DEF Figures
  <2>2. QED
    BY <2>1
<1>2. QED
  BY <1>1 DEF Looks, Figures

LEMMA SameLooks ==
    ASSUME NEW f \in Figures, NEW g \in Figures
    PROVE  Looks(f) = Looks(g) <=> /\ f.shape = g.shape /\ f.count = g.count /\ f.filled = g.filled
                                   /\ Looks(f).turn = Looks(g).turn
<1>1. /\ Looks(f) \in Figures /\ Looks(g) \in Figures
      /\ Looks(f).shape = f.shape /\ Looks(f).count = f.count /\ Looks(f).filled = f.filled
      /\ Looks(g).shape = g.shape /\ Looks(g).count = g.count /\ Looks(g).filled = g.filled
  BY LooksOf
<1>2. \A x, y \in Figures : x.shape = y.shape /\ x.count = y.count /\ x.filled = y.filled /\ x.turn = y.turn => x = y
  BY DEF Figures
<1>3. QED
  BY <1>1, <1>2

(* Figures that look like neither the base nor each other.                 *)
Apart(base, figs) ==
    /\ figs \in Seq(Figures)
    /\ \A k \in DOMAIN figs : Looks(figs[k]) # Looks(base)
    /\ \A k, l \in DOMAIN figs : Looks(figs[k]) = Looks(figs[l]) => k = l

(* The figures of u are those of s and of t.                               *)
JoinOf(u, s, t) ==
    /\ Len(u) = Len(s) + Len(t)
    /\ \A k \in DOMAIN u : (\E l \in DOMAIN s : u[k] = s[l]) \/ (\E l \in DOMAIN t : u[k] = t[l])

LEMMA ApartJoin ==
    ASSUME NEW base, NEW s, NEW t, Apart(base, s), Apart(base, t),
           \A k \in DOMAIN s, l \in DOMAIN t : Looks(s[k]) # Looks(t[l])
    PROVE  Apart(base, s \o t) /\ JoinOf(s \o t, s, t)
<1> DEFINE u == s \o t
           m == Len(s)
           n == Len(t)
<1>1. s \in Seq(Figures) /\ t \in Seq(Figures)
  BY DEF Apart
<1>2. /\ u \in Seq(Figures) /\ Len(u) = m + n /\ m \in Nat /\ n \in Nat
      /\ \A k \in 1..(m + n) : u[k] = IF k <= m THEN s[k] ELSE t[k - m]
      /\ DOMAIN s = 1..m /\ DOMAIN t = 1..n /\ DOMAIN u = 1..(m + n)
  <2> HIDE DEF m, n, u
  <2>1. /\ u \in Seq(Figures) /\ Len(u) = m + n
        /\ \A k \in 1..(m + n) : u[k] = IF k <= m THEN s[k] ELSE t[k - m]
    BY <1>1, ConcatProperties DEF u, m, n
  <2>2. m \in Nat /\ n \in Nat /\ DOMAIN s = 1..m /\ DOMAIN t = 1..n /\ DOMAIN u = 1..Len(u)
    BY <1>1, <2>1, LenProperties DEF m, n
  <2>3. QED
    BY <2>1, <2>2
<1> HIDE DEF u, m, n
<1>3. \A k \in DOMAIN u : \/ k \in DOMAIN s /\ u[k] = s[k]
                          \/ k \notin DOMAIN s /\ k - m \in DOMAIN t /\ u[k] = t[k - m]
  BY <1>2
<1>4. \A k \in DOMAIN u : Looks(u[k]) # Looks(base)
  BY <1>3 DEF Apart
<1>5. ASSUME NEW k \in DOMAIN u, NEW l \in DOMAIN u, Looks(u[k]) = Looks(u[l]) PROVE k = l
  <2>1. CASE k \in DOMAIN s /\ l \in DOMAIN s
    BY <1>3, <1>5, <2>1 DEF Apart
  <2>2. CASE k \notin DOMAIN s /\ l \notin DOMAIN s
    <3>1. k - m = l - m
      BY <1>3, <1>5, <2>2 DEF Apart
    <3>2. QED
      BY <1>2, <3>1
  <2>3. QED
    BY <1>3, <1>5, <2>1, <2>2
<1>6. Apart(base, u)
  BY <1>2, <1>4, <1>5 DEF Apart
<1>7. JoinOf(u, s, t)
  BY <1>2, <1>3 DEF JoinOf, m, n
<1>8. QED
  BY <1>6, <1>7 DEF u

(* Three of four values are left when one is taken out.                    *)
LEMMA OthersThan ==
    ASSUME NEW S, NEW vals \in Seq(S), Len(vals) = 4, \A k, l \in 1..4 : vals[k] = vals[l] => k = l,
           NEW f \in 1..4, NEW v, v = vals[f]
    PROVE  /\ Others(vals, v) \in Seq(S) /\ Len(Others(vals, v)) = 3 /\ DOMAIN Others(vals, v) = 1..3
           /\ \A n \in 1..3 : Others(vals, v)[n] \in S /\ Others(vals, v)[n] # v
           /\ \A m, n \in 1..3 : Others(vals, v)[m] = Others(vals, v)[n] => m = n
<1> DEFINE K    == {k \in DOMAIN vals : vals[k] # v}
           left == Picked(vals, K)
<1>1. DOMAIN vals = 1..4 /\ \A k \in 1..4 : vals[k] \in S
  BY LenProperties, ElementOfSeq
<1>2. K = 1..4 \ {f}
  BY <1>1
<1>3. Cardinality(K) = 3
  <2> DEFINE R == 1..4
  <2>1. IsFiniteSet(R) /\ Cardinality(R) = 4
    <3>1. 1 \in Int /\ 4 \in Int /\ ~(1 > 4) /\ 4 - 1 + 1 = 4
      OBVIOUS
    <3>2. QED
      BY <3>1, FS_Interval, Zenon
  <2>2. f \in R /\ K = R \ {f}
    BY <1>2
  <2> HIDE DEF R
  <2>3. Cardinality(R \ {f}) = Cardinality(R) - 1
    BY <2>1, <2>2, FS_RemoveElement
  <2>4. Cardinality(K) = Cardinality(R) - 1
    BY <2>2, <2>3
  <2>5. QED
    BY <2>1, <2>4
<1>4. K \in SUBSET (DOMAIN vals) /\ \A k \in K : vals[k] # v
  OBVIOUS
<1> HIDE DEF K
<1>5. /\ left \in Seq(S) /\ Len(left) = 3 /\ DOMAIN left = 1..3
      /\ \A n \in 1..3 : Place(K, n) \in K /\ left[n] = vals[Place(K, n)]
  <2>1. /\ left \in Seq(S) /\ Len(left) = Cardinality(K) /\ DOMAIN left = 1..Cardinality(K)
        /\ \A n \in 1..Cardinality(K) : Place(K, n) \in K /\ left[n] = vals[Place(K, n)]
    BY <1>4, PickedFacts
  <2>2. QED
    BY <1>3, <2>1
<1>6. \A m, n \in 1..3 : Place(K, m) = Place(K, n) => m = n
  <2> DEFINE N == 4
  <2>1. N \in Nat /\ K \in SUBSET (1..N)
    BY <1>1, <1>4
  <2> HIDE DEF N
  <2>2. \A m, n \in 1..Cardinality(K) : Place(K, m) = Place(K, n) => m = n
    BY <2>1, PlaceFacts
  <2>3. QED
    BY <1>3, <2>2
<1> HIDE DEF left
<1>7. /\ left \in Seq(S) /\ Len(left) = 3 /\ DOMAIN left = 1..3
      /\ \A n \in 1..3 : left[n] \in S /\ left[n] # v
      /\ \A m, n \in 1..3 : left[m] = left[n] => m = n
  BY <1>1, <1>4, <1>5, <1>6
<1>8. left = Others(vals, v)
  BY DEF left, K, Others
<1>9. QED
  BY <1>7, <1>8

LEMMA Drawers ==
    /\ Shapes \in Seq(Kinds) /\ Len(Shapes) = 4 /\ \A k, l \in 1..4 : Shapes[k] = Shapes[l] => k = l
    /\ \A x \in Kinds : \E f \in 1..4 : Shapes[f] = x
    /\ Counts \in Seq(1..4) /\ Len(Counts) = 4 /\ \A k \in 1..4 : Counts[k] = k
    /\ Orientations \in Seq(Turns) /\ Len(Orientations) = 4
    /\ \A k, l \in 1..4 : Orientations[k] = Orientations[l] => k = l
    /\ \A x \in Turns : \E f \in 1..4 : Orientations[f] = x
<1>1. \A k \in 1..4 : k = 1 \/ k = 2 \/ k = 3 \/ k = 4
  OBVIOUS
<1>2. /\ Shapes \in Seq(Kinds) /\ Len(Shapes) = 4
      /\ Shapes[1] = "circle" /\ Shapes[2] = "square" /\ Shapes[3] = "triangle" /\ Shapes[4] = "pentagon"
  BY DEF Shapes, Kinds
<1>3. /\ Orientations \in Seq(Turns) /\ Len(Orientations) = 4
      /\ Orientations[1] = 0 /\ Orientations[2] = 90 /\ Orientations[3] = 180 /\ Orientations[4] = 270
  BY DEF Orientations, Turns
<1>4. Counts \in Seq(1..4) /\ Len(Counts) = 4 /\ \A k \in 1..4 : Counts[k] = k
  BY DEF Counts
<1>5. \A k, l \in 1..4 : Shapes[k] = Shapes[l] => k = l
  BY <1>1, <1>2
<1>6. \A x \in Kinds : \E f \in 1..4 : Shapes[f] = x
  BY <1>2 DEF Kinds
<1>7. \A k, l \in 1..4 : Orientations[k] = Orientations[l] => k = l
  BY <1>1, <1>3
<1>8. \A x \in Turns : \E f \in 1..4 : Orientations[f] = x
  BY <1>3 DEF Turns
<1>9. QED
  BY <1>2, <1>3, <1>4, <1>5, <1>6, <1>7, <1>8

(* The figures a base turns into when one attribute of it changes.         *)
Turned(base, turn) == [base EXCEPT !.turn = turn]
Shaped(base, shape) == [base EXCEPT !.shape = shape]
Counted(base, count) == [base EXCEPT !.count = count]
ShapeChanges(base) == [k \in DOMAIN Others(Shapes, base.shape) |-> Shaped(base, Others(Shapes, base.shape)[k])]
CountChanges(base) == [k \in DOMAIN Others(Counts, base.count) |-> Counted(base, Others(Counts, base.count)[k])]
TurnChanges(base)  == [k \in DOMAIN Others(Orientations, base.turn) |-> Turned(base, Others(Orientations, base.turn)[k])]

LEMMA ThreeFigures ==
    ASSUME NEW base, NEW figs \in [1..3 -> Figures],
           \A k \in 1..3 : Looks(figs[k]) # Looks(base),
           \A k, l \in 1..3 : Looks(figs[k]) = Looks(figs[l]) => k = l
    PROVE  Apart(base, figs) /\ Len(figs) = 3 /\ DOMAIN figs = 1..3
<1>1. figs \in Seq(Figures) /\ Len(figs) = 3 /\ DOMAIN figs = 1..3
  <2> DEFINE N == 3
  <2>1. N \in Nat /\ figs \in [1..N -> Figures]
    OBVIOUS
  <2> HIDE DEF N
  <2>2. figs \in Seq(Figures) /\ Len(figs) = N /\ DOMAIN figs = 1..N
    BY <2>1, ListOf
  <2>3. QED
    BY <2>2 DEF N
<1>2. QED
  BY <1>1 DEF Apart

LEMMA ShapesChange ==
    ASSUME NEW base \in Figures
    PROVE  /\ Apart(base, ShapeChanges(base)) /\ Len(ShapeChanges(base)) = 3
           /\ \A k \in DOMAIN ShapeChanges(base) :
                 ShapeChanges(base)[k] \in Figures /\ ShapeChanges(base)[k].shape # base.shape
<1> DEFINE figs == ShapeChanges(base)
           shapes == Others(Shapes, base.shape)
<1>1. PICK f \in 1..4 : Shapes[f] = base.shape
  BY Drawers DEF Figures
<1>2. /\ DOMAIN shapes = 1..3
      /\ \A n \in 1..3 : shapes[n] \in Kinds /\ shapes[n] # base.shape
      /\ \A m, n \in 1..3 : shapes[m] = shapes[n] => m = n
  <2> DEFINE v == base.shape
  <2>1. /\ Shapes \in Seq(Kinds) /\ Len(Shapes) = 4 /\ \A k, l \in 1..4 : Shapes[k] = Shapes[l] => k = l
        /\ v = Shapes[f]
    BY <1>1, Drawers
  <2> HIDE DEF v
  <2>2. /\ Others(Shapes, v) \in Seq(Kinds) /\ Len(Others(Shapes, v)) = 3 /\ DOMAIN Others(Shapes, v) = 1..3
        /\ \A n \in 1..3 : Others(Shapes, v)[n] \in Kinds /\ Others(Shapes, v)[n] # v
        /\ \A m, n \in 1..3 : Others(Shapes, v)[m] = Others(Shapes, v)[n] => m = n
    BY <2>1, OthersThan
  <2>3. QED
    BY <2>2 DEF v
<1>3. figs = [k \in DOMAIN shapes |-> Shaped(base, shapes[k])]
  BY DEF ShapeChanges
<1> HIDE DEF shapes, figs
<1>4. \A v \in Kinds : Shaped(base, v) \in Figures /\ Shaped(base, v).shape = v
  BY DEF Figures, Shaped
<1>5. figs \in [1..3 -> Figures] /\ \A k \in 1..3 : figs[k] \in Figures /\ figs[k].shape = shapes[k]
  BY <1>2, <1>3, <1>4
<1>6. \A k \in 1..3 : Looks(figs[k]) # Looks(base)
  BY <1>2, <1>5, SameLooks
<1>7. \A k, l \in 1..3 : Looks(figs[k]) = Looks(figs[l]) => k = l
  BY <1>2, <1>5, SameLooks
<1>8. Apart(base, figs) /\ Len(figs) = 3 /\ DOMAIN figs = 1..3
  BY <1>5, <1>6, <1>7, ThreeFigures
<1>9. QED
  BY <1>2, <1>5, <1>8 DEF figs

LEMMA CountsChange ==
    ASSUME NEW base \in Figures, base.count \in 1..4
    PROVE  /\ Apart(base, CountChanges(base)) /\ Len(CountChanges(base)) = 3
           /\ \A k \in DOMAIN CountChanges(base) : LET fig == CountChanges(base)[k] IN
                 fig \in Figures /\ fig.shape = base.shape /\ fig.count # base.count
<1> DEFINE figs == CountChanges(base)
           v == base.count
           counts == Others(Counts, v)
<1>2. /\ DOMAIN counts = 1..3
      /\ \A n \in 1..3 : counts[n] \in Int /\ counts[n] # v
      /\ \A m, n \in 1..3 : counts[m] = counts[n] => m = n
  <2> DEFINE S == 1..4
  <2>a. PICK f \in 1..4 : v = Counts[f]
    BY Drawers
  <2>1. Counts \in Seq(S) /\ Len(Counts) = 4
    BY Drawers
  <2>b. \A k, l \in 1..4 : Counts[k] = Counts[l] => k = l
    BY Drawers
  <2>c. \A n \in S : n \in Int
    OBVIOUS
  <2> HIDE DEF v, S, counts
  <2>2. /\ Others(Counts, v) \in Seq(S) /\ Len(Others(Counts, v)) = 3 /\ DOMAIN Others(Counts, v) = 1..3
        /\ \A n \in 1..3 : Others(Counts, v)[n] \in S /\ Others(Counts, v)[n] # v
        /\ \A m, n \in 1..3 : Others(Counts, v)[m] = Others(Counts, v)[n] => m = n
    BY <2>1, <2>a, <2>b, OthersThan
  <2>3. QED
    BY <2>c, <2>2 DEF counts
<1>3. figs = [k \in DOMAIN counts |-> Counted(base, counts[k])]
  BY DEF CountChanges
<1> HIDE DEF counts, figs
<1>4. \A n \in Int : Counted(base, n) \in Figures /\ Counted(base, n).count = n /\ Counted(base, n).shape = base.shape
  BY DEF Figures, Counted
<1>5. /\ figs \in [1..3 -> Figures]
      /\ \A k \in 1..3 : figs[k] \in Figures /\ figs[k].count = counts[k] /\ figs[k].shape = base.shape
  BY <1>2, <1>3, <1>4
<1>6. \A k \in 1..3 : Looks(figs[k]) # Looks(base)
  BY <1>2, <1>5, SameLooks
<1>7. \A k, l \in 1..3 : Looks(figs[k]) = Looks(figs[l]) => k = l
  BY <1>2, <1>5, SameLooks
<1>8. Apart(base, figs) /\ Len(figs) = 3 /\ DOMAIN figs = 1..3
  BY <1>5, <1>6, <1>7, ThreeFigures
<1>9. QED
  BY <1>2, <1>5, <1>8 DEF figs

LEMMA TurnsChange ==
    ASSUME NEW base \in Figures, base.turn \in Turns, base.shape \in {"triangle", "pentagon"}
    PROVE  /\ Apart(base, TurnChanges(base)) /\ Len(TurnChanges(base)) = 3
           /\ \A k \in DOMAIN TurnChanges(base) : LET fig == TurnChanges(base)[k] IN
                 fig \in Figures /\ fig.shape = base.shape /\ fig.count = base.count /\ fig.filled = base.filled
<1> DEFINE figs == TurnChanges(base)
           v == base.turn
           turns == Others(Orientations, v)
<1>2. /\ DOMAIN turns = 1..3
      /\ \A n \in 1..3 : turns[n] \in Turns /\ turns[n] # v
      /\ \A m, n \in 1..3 : turns[m] = turns[n] => m = n
  <2>1. PICK f \in 1..4 : Orientations[f] = v
    BY Drawers
  <2>2. /\ Orientations \in Seq(Turns) /\ Len(Orientations) = 4
        /\ \A k, l \in 1..4 : Orientations[k] = Orientations[l] => k = l /\ v = Orientations[f]
    BY <2>1, Drawers
  <2>a. v = Orientations[f]
    BY <2>1
  <2> HIDE DEF v, turns
  <2>3. /\ Others(Orientations, v) \in Seq(Turns) /\ Len(Others(Orientations, v)) = 3
        /\ DOMAIN Others(Orientations, v) = 1..3
        /\ \A n \in 1..3 : Others(Orientations, v)[n] \in Turns /\ Others(Orientations, v)[n] # v
        /\ \A m, n \in 1..3 : Others(Orientations, v)[m] = Others(Orientations, v)[n] => m = n
    BY <2>2, <2>a, OthersThan
  <2>4. QED
    BY <2>3 DEF turns
<1>3. figs = [k \in DOMAIN turns |-> Turned(base, turns[k])]
  BY DEF TurnChanges
<1> HIDE DEF turns, figs
<1>4. \A n \in Turns : /\ Turned(base, n) \in Figures /\ Turned(base, n).turn = n /\ Turned(base, n).shape = base.shape
                       /\ Turned(base, n).count = base.count /\ Turned(base, n).filled = base.filled
  BY DEF Figures, Turned, Turns
<1>5. /\ figs \in [1..3 -> Figures]
      /\ \A k \in 1..3 : /\ figs[k] \in Figures /\ figs[k].turn = turns[k] /\ figs[k].shape = base.shape
                         /\ figs[k].count = base.count /\ figs[k].filled = base.filled
  BY <1>2, <1>3, <1>4
<1>a. \A f \in Figures : f.shape \in {"triangle", "pentagon"} /\ f.turn \in Turns => Looks(f).turn = f.turn
  BY LooksOf DEF Turns
<1>b. \A k \in 1..3 : Looks(figs[k]).turn = turns[k]
  BY <1>2, <1>5, <1>a
<1>c. Looks(base).turn = v
  BY <1>a
<1>6. \A k \in 1..3 : Looks(figs[k]) # Looks(base)
  BY <1>2, <1>b, <1>c
<1>7. \A k, l \in 1..3 : Looks(figs[k]) = Looks(figs[l]) => k = l
  BY <1>2, <1>b
<1>8. Apart(base, figs) /\ Len(figs) = 3 /\ DOMAIN figs = 1..3
  BY <1>5, <1>6, <1>7, ThreeFigures
<1>9. QED
  BY <1>2, <1>5, <1>8 DEF figs

Flipped(base) == [base EXCEPT !.filled = ~@]

LEMMA FillChanges ==
    ASSUME NEW base \in Figures
    PROVE  /\ Apart(base, <<Flipped(base)>>) /\ Len(<<Flipped(base)>>) = 1 /\ DOMAIN <<Flipped(base)>> = {1}
           /\ <<Flipped(base)>>[1] = Flipped(base)
           /\ LET fig == Flipped(base) IN
                 fig \in Figures /\ fig.shape = base.shape /\ fig.count = base.count /\ fig.filled # base.filled
<1> DEFINE fig == Flipped(base)
<1>1. fig \in Figures /\ fig.shape = base.shape /\ fig.count = base.count /\ fig.filled = ~base.filled
  BY DEF Flipped, Figures
<1>2. fig.filled # base.filled
  BY <1>1 DEF Figures
<1>3. Looks(fig) # Looks(base)
  BY <1>1, <1>2, SameLooks
<1> HIDE DEF fig
<1>4. <<fig>> \in Seq(Figures) /\ Len(<<fig>>) = 1 /\ DOMAIN <<fig>> = {1} /\ <<fig>>[1] = fig
  BY <1>1
<1>5. Apart(base, <<fig>>)
  BY <1>3, <1>4 DEF Apart
<1>6. QED
  BY <1>1, <1>2, <1>4, <1>5 DEF fig

Turnable(base, turnable) ==
    /\ base \in Figures /\ base.count \in 1..4 /\ turnable \in BOOLEAN
    /\ turnable => base.shape \in {"triangle", "pentagon"} /\ base.turn \in Turns

LEMMA ChangedApart ==
    ASSUME NEW base, NEW turnable, Turnable(base, turnable)
    PROVE  /\ Apart(base, Changed(base, turnable))
           /\ Len(Changed(base, turnable)) = IF turnable THEN 10 ELSE 7
<1> DEFINE a == ShapeChanges(base)
           b == CountChanges(base)
           c == <<Flipped(base)>>
           d == IF turnable THEN TurnChanges(base) ELSE <<>>
<1>1. Changed(base, turnable) = a \o b \o c \o d
  <2> DEFINE turns == IF turnable THEN Others(Orientations, base.turn) ELSE <<>>
             tail  == [k \in DOMAIN turns |-> Turned(base, turns[k])]
  <2>1. Changed(base, turnable) = a \o b \o c \o tail
    BY Zenon DEF Changed, ShapeChanges, CountChanges, Shaped, Counted, Turned, Flipped
  <2>2. CASE turnable
    <3>1. tail = d
      BY <2>2 DEF TurnChanges
    <3> HIDE DEF tail, d
    <3>2. QED
      BY <2>1, <3>1
  <2>3. CASE ~turnable
    <3>1. turns = <<>> /\ d = <<>>
      BY <2>3
    <3> HIDE DEF turns
    <3>2. DOMAIN turns = {} /\ DOMAIN tail = {}
      BY <3>1
    <3>3. tail = [k \in {} |-> Turned(base, turns[k])]
      BY <3>2
    <3>4. tail = <<>>
      BY <3>3
    <3> HIDE DEF tail, d
    <3>5. QED
      BY <2>1, <3>1, <3>4
  <2>4. QED
    BY <2>2, <2>3 DEF Turnable
<1>2. /\ base \in Figures /\ base.count \in 1..4 /\ turnable \in BOOLEAN
      /\ turnable => base.shape \in {"triangle", "pentagon"} /\ base.turn \in Turns
  BY DEF Turnable
<1>3. /\ Apart(base, a) /\ Len(a) = 3
      /\ \A k \in DOMAIN a : a[k] \in Figures /\ a[k].shape # base.shape
  BY <1>2, ShapesChange
<1>4. /\ Apart(base, b) /\ Len(b) = 3
      /\ \A k \in DOMAIN b : b[k] \in Figures /\ b[k].shape = base.shape /\ b[k].count # base.count
  BY <1>2, CountsChange
<1>5. /\ Apart(base, c) /\ Len(c) = 1
      /\ \A k \in DOMAIN c : /\ c[k] \in Figures /\ c[k].shape = base.shape /\ c[k].count = base.count
                             /\ c[k].filled # base.filled
  BY <1>2, FillChanges
<1>6. /\ Apart(base, d) /\ Len(d) = IF turnable THEN 3 ELSE 0
      /\ \A k \in DOMAIN d : /\ d[k] \in Figures /\ d[k].shape = base.shape /\ d[k].count = base.count
                             /\ d[k].filled = base.filled
  <2>1. CASE turnable
    BY <1>2, <2>1, TurnsChange
  <2>2. CASE ~turnable
    <3>1. d = <<>>
      BY <2>2
    <3> HIDE DEF d
    <3>2. d \in Seq(Figures) /\ Len(d) = 0 /\ DOMAIN d = {}
      BY <3>1
    <3>3. QED
      BY <2>2, <3>2 DEF Apart
  <2>3. QED
    BY <1>2, <2>1, <2>2
<1> HIDE DEF a, b, c, d
<1>7. \A k \in DOMAIN a, l \in DOMAIN b : Looks(a[k]) # Looks(b[l])
  BY <1>3, <1>4, SameLooks
<1> DEFINE ab == a \o b
<1>8. Apart(base, ab) /\ JoinOf(ab, a, b)
  BY <1>3, <1>4, <1>7, ApartJoin, Zenon
<1> HIDE DEF ab
<1>d. Apart(base, ab) /\ Len(ab) = 6
  BY <1>3, <1>4, <1>8 DEF JoinOf
<1>e. \A k \in DOMAIN ab, l \in DOMAIN c : Looks(ab[k]) # Looks(c[l])
  BY <1>3, <1>4, <1>5, <1>8, SameLooks DEF JoinOf
<1> DEFINE abc == ab \o c
<1>10. Apart(base, abc) /\ JoinOf(abc, ab, c)
  BY <1>5, <1>d, <1>e, ApartJoin, Zenon
<1>11. \A k \in DOMAIN ab, l \in DOMAIN d : Looks(ab[k]) # Looks(d[l])
  BY <1>3, <1>4, <1>6, <1>8, SameLooks DEF JoinOf
<1>12. \A k \in DOMAIN c, l \in DOMAIN d : Looks(c[k]) # Looks(d[l])
  BY <1>5, <1>6, SameLooks
<1> HIDE DEF abc
<1>13. \A k \in DOMAIN abc, l \in DOMAIN d : Looks(abc[k]) # Looks(d[l])
  BY <1>10, <1>11, <1>12 DEF JoinOf
<1>a. Apart(base, abc) /\ Len(abc) = 7
  BY <1>5, <1>d, <1>10 DEF JoinOf
<1>14. Apart(base, abc \o d) /\ JoinOf(abc \o d, abc, d)
  BY <1>a, <1>6, <1>13, ApartJoin, Zenon
<1>15. Changed(base, turnable) = abc \o d
  BY <1>1 DEF abc, ab
<1>16. QED
  BY <1>2, <1>a, <1>6, <1>14, <1>15 DEF JoinOf

(* Nothing of that is left out: a base has seven neighbours, or ten.       *)
LEMMA NeighborsApart ==
    ASSUME NEW base, NEW turnable, Turnable(base, turnable)
    PROVE  /\ Apart(base, Neighbors(base, turnable))
           /\ DOMAIN Neighbors(base, turnable) = 1..(IF turnable THEN 10 ELSE 7)
<1> DEFINE all   == Changed(base, turnable)
           n     == IF turnable THEN 10 ELSE 7
           looks == [k \in DOMAIN all |-> Looks(all[k])]
           K     == {k \in DOMAIN all : looks[k] # Looks(base) /\ \A l \in 1..(k - 1) : looks[l] # looks[k]}
           seq   == Picked(all, K)
<1>1. Apart(base, all) /\ Len(all) = n /\ n \in Nat
  BY ChangedApart DEF Turnable
<1>2. Neighbors(base, turnable) = seq
  BY DEF Neighbors
<1> HIDE DEF all, n
<1>3. all \in Seq(Figures) /\ DOMAIN all = 1..n
  BY <1>1, LenProperties DEF Apart
<1>4. K = 1..n
  <2>1. \A k \in 1..n : looks[k] = Looks(all[k]) /\ looks[k] # Looks(base)
    BY <1>1, <1>3 DEF Apart
  <2>2. \A k \in 1..n : \A l \in 1..(k - 1) : l \in 1..n /\ l # k
    BY <1>1
  <2>3. \A k \in 1..n : \A l \in 1..(k - 1) : looks[l] # looks[k]
    BY <1>1, <1>3, <2>1, <2>2 DEF Apart
  <2> HIDE DEF looks
  <2>4. QED
    BY <1>3, <2>1, <2>3
<1> HIDE DEF looks, K
<1>5. Cardinality(K) = n
  <2>1. 1 \in Int /\ n \in Int /\ (1 > n => n = 0) /\ n - 1 + 1 = n
    BY <1>1
  <2>2. Cardinality(1..n) = IF 1 > n THEN 0 ELSE n - 1 + 1
    BY <2>1, FS_Interval
  <2>3. QED
    BY <1>4, <2>1, <2>2
<1>6. /\ seq \in Seq(Figures) /\ DOMAIN seq = 1..Cardinality(K)
      /\ \A k \in 1..Cardinality(K) : Place(K, k) \in K /\ seq[k] = all[Place(K, k)]
  <2>1. K \in SUBSET (DOMAIN all)
    BY <1>3, <1>4
  <2>2. QED
    BY <1>3, <2>1, PickedFacts
<1>7. \A k, l \in 1..Cardinality(K) : Place(K, k) = Place(K, l) => k = l
  <2>1. K \in SUBSET (1..n)
    BY <1>4
  <2>2. QED
    BY <1>1, <2>1, PlaceFacts
<1> HIDE DEF seq
<1>8. \A k \in 1..n : Looks(seq[k]) # Looks(base)
  BY <1>1, <1>3, <1>4, <1>5, <1>6 DEF Apart
<1>9. \A k, l \in 1..n : Looks(seq[k]) = Looks(seq[l]) => k = l
  BY <1>1, <1>3, <1>4, <1>5, <1>6, <1>7 DEF Apart
<1>10. Apart(base, seq) /\ DOMAIN seq = 1..n
  BY <1>5, <1>6, <1>8, <1>9 DEF Apart
<1>11. QED
  BY <1>2, <1>10 DEF n

(* Four of them, in whatever order they are drawn.                         *)
LEMMA DrawnApart ==
    ASSUME NEW base, NEW turnable, Turnable(base, turnable),
           NEW drawn \in [1..4 -> 1..(IF turnable THEN 10 ELSE 7)],
           \A k, l \in 1..4 : drawn[k] = drawn[l] => k = l
    PROVE  LET wrong == DistinctNeighbors(base, turnable, drawn)
           IN  Apart(base, wrong) /\ Len(wrong) = 4 /\ DOMAIN wrong = 1..4
<1> DEFINE uniq  == Neighbors(base, turnable)
           wrong == DistinctNeighbors(base, turnable, drawn)
<1>1. wrong = [k \in 1..4 |-> uniq[drawn[k]]]
  BY DEF DistinctNeighbors
<1>2. Apart(base, uniq) /\ \A k \in 1..4 : drawn[k] \in DOMAIN uniq
  BY NeighborsApart
<1> HIDE DEF uniq, wrong
<1>3. \A k \in 1..4 : uniq[drawn[k]] \in Figures
  BY <1>2, ElementOfSeq, LenProperties DEF Apart
<1>4. wrong \in [1..4 -> Figures]
  BY <1>1, <1>3
<1>5. wrong \in Seq(Figures) /\ Len(wrong) = 4 /\ DOMAIN wrong = 1..4
  <2> DEFINE n == 4
  <2>1. n \in Nat /\ wrong \in [1..n -> Figures]
    BY <1>4
  <2> HIDE DEF n
  <2>2. wrong \in Seq(Figures) /\ Len(wrong) = n /\ DOMAIN wrong = 1..n
    BY <2>1, ListOf
  <2>3. QED
    BY <2>2 DEF n
<1>6. Apart(base, wrong)
  BY <1>1, <1>2, <1>5 DEF Apart
<1>7. QED
  BY <1>5, <1>6 DEF wrong

LEMMA CutOut ==
    ASSUME NEW S, NEW s \in Seq(S), NEW m \in Int, NEW n \in Int, 1 <= m, m <= n + 1, n <= Len(s)
    PROVE  /\ SubSeq(s, m, n) \in Seq(S) /\ Len(SubSeq(s, m, n)) = n - m + 1
           /\ \A k \in 1..(n - m + 1) : SubSeq(s, m, n)[k] = s[m + k - 1]
<1>1. Len(s) \in Nat /\ \A i \in 1..Len(s) : s[i] \in S
  BY LenProperties, ElementOfSeq
<1>2. \A i \in m..n : s[i] \in S
  BY <1>1
<1>3. /\ SubSeq(s, m, n) \in Seq(S) /\ Len(SubSeq(s, m, n)) = IF m <= n THEN n - m + 1 ELSE 0
      /\ \A k \in 1..(n - m + 1) : SubSeq(s, m, n)[k] = s[m + k - 1]
  BY <1>2, SubSeqProperties
<1>4. (IF m <= n THEN n - m + 1 ELSE 0) = n - m + 1
  OBVIOUS
<1>5. QED
  BY <1>3, <1>4

(* The right figure is at its place, the wrong ones are at the others.     *)
LEMMA AssembledAt ==
    ASSUME NEW right \in Figures, NEW wrong \in Seq(Figures), Len(wrong) = 4, NEW at \in 1..5
    PROVE  LET options == Assemble(right, wrong, at)
           IN  /\ options \in Seq(Figures) /\ DOMAIN options = 1..5
               /\ \A k \in 1..5 : options[k] = IF k < at THEN wrong[k] ELSE IF k = at THEN right ELSE wrong[k - 1]
<1> DEFINE one    == 1
           below  == at - 1
           top    == Len(wrong)
           before == SubSeq(wrong, one, below)
           mid    == <<right>>
           after  == SubSeq(wrong, at, top)
<1>a. /\ one \in Int /\ below \in Int /\ one = 1 /\ below = at - 1 /\ at \in Int /\ top = 4 /\ top \in Int
      /\ 1 <= one /\ one <= below + 1 /\ below <= top /\ 1 <= at /\ at <= top + 1
  OBVIOUS
<1>4. Assemble(right, wrong, at) = (before \o mid) \o after
  BY DEF Assemble
<1>3. mid \in Seq(Figures) /\ Len(mid) = 1 /\ mid[1] = right
  OBVIOUS
<1> HIDE DEF one, below, mid
<1>b. top = Len(wrong)
  OBVIOUS
<1> HIDE DEF top
<1>1. before \in Seq(Figures) /\ Len(before) = at - 1 /\ \A k \in 1..(at - 1) : before[k] = wrong[k]
  <2>0. one <= below + 1 /\ below <= Len(wrong) /\ 1 <= one /\ one \in Int /\ below \in Int
    BY <1>a, <1>b
  <2>1. /\ SubSeq(wrong, one, below) \in Seq(Figures) /\ Len(SubSeq(wrong, one, below)) = below - one + 1
        /\ \A k \in 1..(below - one + 1) : SubSeq(wrong, one, below)[k] = wrong[one + k - 1]
    BY <2>0, CutOut, Zenon
  <2>a. /\ before \in Seq(Figures) /\ Len(before) = below - one + 1
        /\ \A k \in 1..(below - one + 1) : before[k] = wrong[one + k - 1]
    BY <2>1, Zenon
  <2> HIDE DEF before
  <2>2. below - one + 1 = at - 1 /\ \A k \in 1..(at - 1) : one + k - 1 = k
    BY <1>a
  <2>3. QED
    BY <2>a, <2>2
<1>2. after \in Seq(Figures) /\ Len(after) = 5 - at /\ \A k \in 1..(5 - at) : after[k] = wrong[at + k - 1]
  <2>0. at <= top + 1 /\ top <= Len(wrong) /\ 1 <= at /\ at \in Int /\ top \in Int
    BY <1>a, <1>b
  <2>1. /\ SubSeq(wrong, at, top) \in Seq(Figures) /\ Len(SubSeq(wrong, at, top)) = top - at + 1
        /\ \A k \in 1..(top - at + 1) : SubSeq(wrong, at, top)[k] = wrong[at + k - 1]
    BY <2>0, CutOut, Zenon
  <2>a. /\ after \in Seq(Figures) /\ Len(after) = top - at + 1
        /\ \A k \in 1..(top - at + 1) : after[k] = wrong[at + k - 1]
    BY <2>1, Zenon
  <2> HIDE DEF after
  <2>2. top - at + 1 = 5 - at
    BY <1>a
  <2>3. QED
    BY <2>a, <2>2
<1> HIDE DEF before, after
<1> DEFINE bm == before \o mid
           options == bm \o after
<1>5. bm \in Seq(Figures) /\ Len(bm) = at /\ \A k \in 1..at : bm[k] = IF k < at THEN wrong[k] ELSE right
  <2>1. /\ bm \in Seq(Figures) /\ Len(bm) = Len(before) + Len(mid)
        /\ \A k \in 1..(Len(before) + Len(mid)) :
               bm[k] = IF k <= Len(before) THEN before[k] ELSE mid[k - Len(before)]
    BY <1>1, <1>3, ConcatProperties
  <2> HIDE DEF bm
  <2>2. Len(before) + Len(mid) = at
    BY <1>1, <1>3
  <2>3. \A k \in 1..at : k < at => k \in 1..(at - 1) /\ k <= Len(before)
    BY <1>1
  <2>4. ~(at <= Len(before)) /\ at - Len(before) = 1 /\ at \in 1..at
    BY <1>1
  <2>5. bm[at] = right
    BY <1>3, <2>1, <2>2, <2>4
  <2>6. \A k \in 1..at : k < at => bm[k] = wrong[k]
    BY <1>1, <2>1, <2>2, <2>3
  <2>7. \A k \in 1..at : k < at \/ k = at
    BY <1>a
  <2>8. QED
    BY <2>1, <2>2, <2>5, <2>6, <2>7
<1> HIDE DEF bm
<1>6. /\ options \in Seq(Figures) /\ Len(options) = 5
      /\ \A k \in 1..5 : options[k] = IF k <= at THEN bm[k] ELSE after[k - at]
  <2>1. /\ options \in Seq(Figures) /\ Len(options) = Len(bm) + Len(after)
        /\ \A k \in 1..(Len(bm) + Len(after)) :
               options[k] = IF k <= Len(bm) THEN bm[k] ELSE after[k - Len(bm)]
    BY <1>2, <1>5, ConcatProperties
  <2> HIDE DEF options
  <2>2. QED
    BY <1>2, <1>5, <2>1
<1> HIDE DEF options
<1>7. DOMAIN options = 1..5
  BY <1>6, LenProperties
<1>8. \A k \in 1..5 : options[k] = IF k < at THEN wrong[k] ELSE IF k = at THEN right ELSE wrong[k - 1]
  <2>1. \A k \in 1..5 : k <= at => k \in 1..at
    BY <1>a
  <2>2. \A k \in 1..5 : ~(k <= at) => k - at \in 1..(5 - at) /\ at + (k - at) - 1 = k - 1 /\ ~(k < at) /\ k # at
    BY <1>a
  <2>3. \A k \in 1..5 : ~(k <= at) => options[k] = wrong[k - 1]
    BY <1>2, <1>6, <2>2
  <2>4. \A k \in 1..5 : k <= at => options[k] = IF k < at THEN wrong[k] ELSE right
    BY <1>5, <1>6, <2>1
  <2>5. \A k \in 1..5 : k <= at => k < at \/ k = at
    BY <1>a
  <2>6. QED
    BY <2>2, <2>3, <2>4, <2>5
<1>9. QED
  BY <1>4, <1>6, <1>7, <1>8 DEF options, bm

(* A puzzle has one answer when what its rule lets through is what looks   *)
(* like the right figure.                                                  *)
LEMMA OneFits ==
    ASSUME NEW puzzle, NEW right \in Figures, NEW wrong, Apart(right, wrong), Len(wrong) = 4, DOMAIN wrong = 1..4,
           puzzle.key \in 1..5, puzzle.options = Assemble(right, wrong, puzzle.key),
           NEW A, Accepted(puzzle) = {k \in DOMAIN puzzle.options : Looks(puzzle.options[k]) \in A},
           \A g \in Figures : Looks(g) \in A <=> Looks(g) = Looks(right)
    PROVE  HasOneAnswer(puzzle)
<1> DEFINE at   == puzzle.key
           opts == puzzle.options
<1>1. wrong \in Seq(Figures) /\ \A k \in 1..4 : wrong[k] \in Figures
  BY ElementOfSeq DEF Apart
<1>2. /\ DOMAIN opts = 1..5
      /\ \A k \in 1..5 : opts[k] = IF k < at THEN wrong[k] ELSE IF k = at THEN right ELSE wrong[k - 1]
  <2>1. puzzle.key \in 1..5
    OBVIOUS
  <2>2. LET options == Assemble(right, wrong, puzzle.key)
        IN  /\ options \in Seq(Figures) /\ DOMAIN options = 1..5
            /\ \A k \in 1..5 : options[k] = IF k < puzzle.key THEN wrong[k]
                                            ELSE IF k = puzzle.key THEN right ELSE wrong[k - 1]
    BY <1>1, <2>1, AssembledAt
  <2>3. QED
    BY <2>2
<1> HIDE DEF opts
<1>3. at \in 1..5
  OBVIOUS
<1>4. Accepted(puzzle) = {k \in DOMAIN opts : Looks(opts[k]) \in A}
  BY DEF opts
<1> HIDE DEF at
<1>5. \A k \in 1..5 : k < at \/ k = at \/ k > at
  BY <1>3
<1>6. /\ opts[at] = right
      /\ \A k \in 1..5 : k < at => k \in 1..4 /\ opts[k] = wrong[k]
      /\ \A k \in 1..5 : k > at => k - 1 \in 1..4 /\ opts[k] = wrong[k - 1]
  BY <1>2, <1>3
<1>7. \A k \in 1..4 : Looks(wrong[k]) # Looks(right)
  BY DEF Apart
<1>8. \A k \in 1..5 : Looks(opts[k]) \in A <=> k = at
  BY <1>1, <1>3, <1>5, <1>6, <1>7
<1>9. Accepted(puzzle) = {at}
  BY <1>2, <1>3, <1>4, <1>8
<1>10. \A k, l \in 1..4 : Looks(wrong[k]) = Looks(wrong[l]) => k = l
  BY DEF Apart
<1>11. ASSUME NEW k \in 1..5, NEW l \in 1..5, Looks(opts[k]) = Looks(opts[l]) PROVE k = l
  <2>1. CASE k = at \/ l = at
    BY <1>3, <1>5, <1>6, <1>7, <1>11, <2>1
  <2>2. CASE k < at /\ l < at
    BY <1>6, <1>10, <1>11, <2>2
  <2>3. CASE k > at /\ l > at
    <3>1. k - 1 = l - 1
      BY <1>6, <1>10, <1>11, <2>3
    <3>2. QED
      BY <3>1
  <2>4. CASE k < at /\ l > at
    <3>1. k = l - 1
      BY <1>6, <1>10, <1>11, <2>4
    <3>2. QED
      BY <3>1, <1>3, <2>4
  <2>5. CASE k > at /\ l < at
    <3>1. k - 1 = l
      BY <1>6, <1>10, <1>11, <2>5
    <3>2. QED
      BY <3>1, <1>3, <2>5
  <2>6. QED
    BY <1>5, <2>1, <2>2, <2>3, <2>4, <2>5
<1>12. QED
  BY <1>2, <1>9, <1>11 DEF HasOneAnswer, opts, at

-----------------------------------------------------------------------------
(* Series *)

SeriesDraw(band, d) ==
    /\ d.shape \in 1..4 /\ d.asym \in 1..2 /\ d.fill \in BOOLEAN /\ d.at \in 1..5
    /\ d.wrong \in [1..4 -> 1..(IF band >= 2 THEN 10 ELSE 7)]
    /\ \A k, l \in 1..4 : d.wrong[k] = d.wrong[l] => k = l

LEMMA SeriesRuns ==
    ASSUME NEW band \in Int, band >= 1, NEW d, SeriesDraw(band, d), NEW i \in 0..3
    PROVE  LET f == SeriesFigure(band, d, i)
           IN  /\ f \in Figures /\ Looks(f) \in Figures
               /\ f.count \in 1..4 /\ f.turn \in Turns
               /\ band >= 2 => f.shape \in {"triangle", "pentagon"}
               /\ Looks(f).shape = IF band >= 2 THEN Asymmetric[d.asym] ELSE Shapes[d.shape]
               /\ Looks(f).filled = d.fill
               /\ Looks(f).count = IF band = 1 \/ band >= 3 THEN i + 1 ELSE 1
               /\ Looks(f).turn = IF band >= 2 THEN i * 90 ELSE 0
<1> DEFINE f == SeriesFigure(band, d, i)
<1>1. /\ i = 0 \/ i = 1 \/ i = 2 \/ i = 3
      /\ d.fill \in BOOLEAN
  BY DEF SeriesDraw
<1>2. Asymmetric[d.asym] \in {"triangle", "pentagon"}
  <2>1. d.asym = 1 \/ d.asym = 2
    BY DEF SeriesDraw
  <2>2. QED
    BY <2>1 DEF Asymmetric
<1>3. Shapes[d.shape] \in Kinds
  <2>1. d.shape = 1 \/ d.shape = 2 \/ d.shape = 3 \/ d.shape = 4
    BY DEF SeriesDraw
  <2>2. QED
    BY <2>1 DEF Shapes, Kinds
<1>4. /\ f.shape = IF band >= 2 THEN Asymmetric[d.asym] ELSE Shapes[d.shape]
      /\ f.filled = d.fill
      /\ f.count = IF band = 1 \/ band >= 3 THEN i + 1 ELSE 1
      /\ f.turn = IF band >= 2 THEN i * 90 ELSE 0
      /\ f = [shape |-> f.shape, count |-> f.count, turn |-> f.turn, filled |-> f.filled]
  BY DEF SeriesFigure, Figure
<1> HIDE DEF f
<1>5. f.shape \in Kinds /\ f.count \in 1..4 /\ f.turn \in Turns /\ f.filled \in BOOLEAN
  BY <1>1, <1>2, <1>3, <1>4 DEF Kinds, Turns
<1>6. f \in Figures
  BY <1>4, <1>5 DEF Figures, Turns
<1>7. /\ Looks(f) \in Figures
      /\ Looks(f).shape = f.shape /\ Looks(f).count = f.count /\ Looks(f).filled = f.filled
      /\ Looks(f).turn = IF f.shape \in {"circle", "square"} THEN 0 ELSE f.turn % 360
  BY <1>6, LooksOf
<1>8. f.turn % 360 = f.turn
  BY <1>5 DEF Turns
<1>9. Looks(f).turn = IF band >= 2 THEN i * 90 ELSE 0
  <2>1. CASE band >= 2
    BY <1>2, <1>4, <1>7, <1>8, <2>1
  <2>2. CASE ~(band >= 2)
    BY <1>4, <1>7, <1>8, <2>2
  <2>3. QED
    BY <2>1, <2>2
<1>10. QED
  BY <1>2, <1>4, <1>5, <1>6, <1>7, <1>9 DEF f

(* Whatever continues a series looks like its next figure.                 *)
SeriesStep(f, g) == <<f.shape = g.shape, f.filled = g.filled, g.count - f.count, (g.turn - f.turn) % 360>>

LEMMA SameStep ==
    ASSUME NEW f, NEW g, NEW x, NEW y
    PROVE  SeriesStep(f, g) = SeriesStep(x, y) <=>
              /\ ((f.shape = g.shape) <=> (x.shape = y.shape)) /\ ((f.filled = g.filled) <=> (x.filled = y.filled))
              /\ g.count - f.count = y.count - x.count /\ (g.turn - f.turn) % 360 = (y.turn - x.turn) % 360
BY Zenon DEF SeriesStep

LEMMA SeriesGoesOn ==
    ASSUME NEW band \in Int, band >= 1, NEW d, SeriesDraw(band, d),
           NEW seen, DOMAIN seen = 1..3, seen = [k \in 1..3 |-> seen[k]],
           \A k \in 1..3 : seen[k] = Looks(SeriesFigure(band, d, k - 1)),
           NEW g \in Figures
    PROVE  Continues(seen, Looks(g)) <=> Looks(g) = Looks(SeriesFigure(band, d, 3))
<1> DEFINE s(i) == Looks(SeriesFigure(band, d, i))
           fig  == Looks(g)
           next == Append(seen, fig)
           K    == IF band >= 2 THEN Asymmetric[d.asym] ELSE Shapes[d.shape]
           c    == IF band = 1 \/ band >= 3 THEN 1 ELSE 0
           t    == IF band >= 2 THEN 90 ELSE 0
<1>1. \A i \in 0..3 : /\ s(i) \in Figures /\ s(i).shape = K /\ s(i).filled = d.fill
                      /\ s(i).count = 1 + c * i /\ s(i).turn = t * i
  <2>1. ASSUME NEW i \in 0..3
        PROVE  /\ s(i) \in Figures /\ s(i).shape = K /\ s(i).filled = d.fill
               /\ s(i).count = IF band = 1 \/ band >= 3 THEN i + 1 ELSE 1
               /\ s(i).turn = IF band >= 2 THEN i * 90 ELSE 0
    BY SeriesRuns
  <2> HIDE DEF s, K
  <2>2. QED
    BY <2>1
<1>2. /\ fig \in Figures /\ fig.turn \in 0..359 /\ fig.count \in Int
  BY LooksOf DEF Figures
<1>3. next[1] = s(0) /\ next[2] = s(1) /\ next[3] = s(2) /\ next[4] = fig
  <2> DEFINE S == {seen[k] : k \in 1..3} \cup {fig}
  <2>1. seen \in [1..3 -> S] /\ fig \in S
    OBVIOUS
  <2> HIDE DEF S, fig
  <2>2. seen \in Seq(S) /\ Len(seen) = 3
    <3> DEFINE n == 3
    <3>1. n \in Nat /\ seen \in [1..n -> S]
      BY <2>1
    <3> HIDE DEF n
    <3>2. seen \in Seq(S) /\ Len(seen) = n
      BY <3>1, ListOf
    <3>3. QED
      BY <3>2 DEF n
  <2>3. next[4] = fig /\ \A k \in 1..3 : next[k] = seen[k]
    BY <2>1, <2>2
  <2>4. seen[1] = s(0) /\ seen[2] = s(1) /\ seen[3] = s(2)
    <3>1. 1 - 1 = 0 /\ 2 - 1 = 1 /\ 3 - 1 = 2
      OBVIOUS
    <3>2. QED
      BY <3>1
  <2>5. QED
    BY <2>3, <2>4
<1>4. Continues(seen, fig) <=>
         \A k \in 2..3 : SeriesStep(next[k], next[k + 1]) = SeriesStep(next[1], next[2])
  BY Zenon DEF Continues, SeriesStep
<1>5. (\A k \in 2..3 : SeriesStep(next[k], next[k + 1]) = SeriesStep(next[1], next[2])) <=>
         /\ SeriesStep(next[2], next[3]) = SeriesStep(next[1], next[2])
         /\ SeriesStep(next[3], next[4]) = SeriesStep(next[1], next[2])
  <2> HIDE DEF next
  <2>1. 2 + 1 = 3 /\ 3 + 1 = 4 /\ 2 \in 2..3 /\ 3 \in 2..3 /\ \A k \in 2..3 : k = 2 \/ k = 3
    OBVIOUS
  <2>2. QED
    BY <2>1
<1> HIDE DEF next
<1> HIDE DEF s, fig
<1>6. Continues(seen, fig) <=> /\ SeriesStep(s(1), s(2)) = SeriesStep(s(0), s(1))
                               /\ SeriesStep(s(2), fig) = SeriesStep(s(0), s(1))
  BY <1>3, <1>4, <1>5, Zenon
<1> HIDE DEF K, c, t
<1>a. (c = 0 \/ c = 1) /\ (t = 0 \/ t = 90)
  BY DEF c, t
<1>8. /\ s(0).shape = K /\ s(1).shape = K /\ s(2).shape = K /\ s(3).shape = K
      /\ s(0).filled = d.fill /\ s(1).filled = d.fill /\ s(2).filled = d.fill /\ s(3).filled = d.fill
      /\ s(0).count = 1 /\ s(1).count = 1 + c /\ s(2).count = 1 + 2 * c /\ s(3).count = 1 + 3 * c
      /\ s(0).turn = 0 /\ s(1).turn = t /\ s(2).turn = 2 * t /\ s(3).turn = 3 * t
  BY <1>1, <1>a
<1>9. SeriesStep(s(1), s(2)) = SeriesStep(s(0), s(1))
  <2>1. s(2).count - s(1).count = s(1).count - s(0).count /\ s(2).turn - s(1).turn = s(1).turn - s(0).turn
    BY <1>8, <1>a
  <2>2. /\ (s(1).shape = s(2).shape) <=> (s(0).shape = s(1).shape)
        /\ (s(1).filled = s(2).filled) <=> (s(0).filled = s(1).filled)
    BY <1>8
  <2>3. QED
    BY <2>1, <2>2, SameStep
<1>10. SeriesStep(s(2), fig) = SeriesStep(s(0), s(1)) <=>
          /\ fig.shape = K /\ fig.filled = d.fill /\ fig.count = 1 + 3 * c /\ fig.turn = 3 * t
  <2>1. ((s(2).shape = fig.shape) <=> (s(0).shape = s(1).shape)) <=> fig.shape = K
    BY <1>8
  <2>2. ((s(2).filled = fig.filled) <=> (s(0).filled = s(1).filled)) <=> fig.filled = d.fill
    BY <1>8
  <2>3. fig.count - s(2).count = s(1).count - s(0).count <=> fig.count = 1 + 3 * c
    BY <1>2, <1>8, <1>a
  <2>4. (fig.turn - s(2).turn) % 360 = (s(1).turn - s(0).turn) % 360 <=> fig.turn = 3 * t
    <3>1. \A v \in 0..359 : (v - 2 * t) % 360 = (t - 0) % 360 <=> v = 3 * t
      <4>1. \A v \in 0..359 : (v - 180) % 360 = 90 % 360 <=> v = 270
        OBVIOUS
      <4>2. \A v \in 0..359 : (v - 0) % 360 = 0 % 360 <=> v = 0
        OBVIOUS
      <4>3. CASE t = 90
        BY <4>1, <4>3
      <4>4. CASE t = 0
        BY <4>2, <4>4
      <4>5. QED
        BY <1>a, <4>3, <4>4
    <3>2. QED
      BY <1>2, <1>8, <3>1
  <2>5. QED
    BY <2>1, <2>2, <2>3, <2>4, SameStep
<1>11. fig = s(3) <=> fig.shape = K /\ fig.filled = d.fill /\ fig.count = 1 + 3 * c /\ fig.turn = 3 * t
  <2>1. \A x, y \in Figures : x.shape = y.shape /\ x.count = y.count /\ x.filled = y.filled /\ x.turn = y.turn => x = y
    BY DEF Figures
  <2>2. s(3) \in Figures
    BY <1>1
  <2>3. QED
    BY <1>2, <1>8, <2>1, <2>2
<1>12. Continues(seen, fig) <=> fig = s(3)
  BY <1>6, <1>9, <1>10, <1>11
<1>13. QED
  BY <1>12 DEF fig, s

LEMMA FiguresOfOptions ==
    ASSUME NEW right \in Figures, NEW wrong, Apart(right, wrong), Len(wrong) = 4, NEW at \in 1..5,
           NEW k \in DOMAIN Assemble(right, wrong, at)
    PROVE  Assemble(right, wrong, at)[k] \in Figures /\ Looks(Assemble(right, wrong, at)[k]) \in Figures
<1> DEFINE options == Assemble(right, wrong, at)
<1>1. options \in Seq(Figures)
  BY AssembledAt DEF Apart
<1> HIDE DEF options
<1>2. k \in DOMAIN options
  BY DEF options
<1>3. options[k] \in Figures
  BY <1>1, <1>2, ElementOfSeq, LenProperties
<1>4. QED
  BY <1>3, LooksOf DEF options

(* A series, whatever is drawn for it, has one answer.                     *)
LEMMA SeriesHasOneAnswer ==
    ASSUME NEW band \in Int, band >= 1, NEW d, SeriesDraw(band, d)
    PROVE  HasOneAnswer(Series(band, d))
<1> DEFINE puzzle   == Series(band, d)
           right    == SeriesFigure(band, d, 3)
           turnable == band >= 2
           wrong    == DistinctNeighbors(right, turnable, d.wrong)
           opts     == puzzle.options
           looks    == [k \in DOMAIN opts |-> Looks(opts[k])]
           seen     == [k \in DOMAIN puzzle.seen |-> Looks(puzzle.seen[k])]
           A        == {g \in Figures : Continues(seen, g)}
<1>1. /\ right \in Figures /\ right.count \in 1..4 /\ right.turn \in Turns
      /\ turnable => right.shape \in {"triangle", "pentagon"}
  BY SeriesRuns
<1>2. Turnable(right, turnable)
  BY <1>1 DEF Turnable
<1>3. /\ d.wrong \in [1..4 -> 1..(IF turnable THEN 10 ELSE 7)]
      /\ \A k, l \in 1..4 : d.wrong[k] = d.wrong[l] => k = l
      /\ d.at \in 1..5
  BY DEF SeriesDraw
<1>4. /\ puzzle.options = Assemble(right, wrong, d.at) /\ puzzle.key = d.at /\ puzzle.kind = "svg"
      /\ puzzle.seen = [k \in 1..3 |-> SeriesFigure(band, d, k - 1)]
  BY DEF Series
<1>5. /\ DOMAIN seen = 1..3 /\ seen = [k \in 1..3 |-> seen[k]]
      /\ \A k \in 1..3 : seen[k] = Looks(SeriesFigure(band, d, k - 1))
  BY <1>4
<1> HIDE DEF right, turnable, puzzle
<1>6. Apart(right, wrong) /\ Len(wrong) = 4 /\ DOMAIN wrong = 1..4
  BY <1>2, <1>3, DrawnApart
<1> HIDE DEF wrong, seen
<1>7. Accepted(puzzle) = {k \in DOMAIN looks : Continues(seen, looks[k])}
  BY <1>4 DEF Accepted, seen
<1>8. \A k \in DOMAIN opts : Looks(opts[k]) \in Figures
  BY <1>1, <1>3, <1>4, <1>6, FiguresOfOptions
<1>9. Accepted(puzzle) = {k \in DOMAIN opts : Looks(opts[k]) \in A}
  BY <1>7, <1>8
<1>10. \A g \in Figures : Looks(g) \in A <=> Looks(g) = Looks(right)
  BY <1>5, SeriesGoesOn, LooksOf DEF right
<1> HIDE DEF A
<1>11. QED
  BY <1>1, <1>3, <1>4, <1>6, <1>9, <1>10, OneFits DEF puzzle

-----------------------------------------------------------------------------
(* Matrices *)

(* Nine values that follow the rows, the columns or the checkerboard.      *)
Follows(v) ==
    \/ v[1] = v[2] /\ v[2] = v[3] /\ v[4] = v[5] /\ v[5] = v[6] /\ v[7] = v[8] /\ v[8] = v[9]
    \/ v[1] = v[4] /\ v[4] = v[7] /\ v[2] = v[5] /\ v[5] = v[8] /\ v[3] = v[6] /\ v[6] = v[9]
    \/ v[1] = v[3] /\ v[3] = v[5] /\ v[5] = v[7] /\ v[7] = v[9] /\ v[2] = v[4] /\ v[4] = v[6] /\ v[6] = v[8]

LEMMA LinesFollow ==
    ASSUME NEW v
    PROVE  (\/ \A k, l \in 1..9 : (k - 1) \div 3 = (l - 1) \div 3 => v[k] = v[l]
            \/ \A k, l \in 1..9 : (k - 1) % 3 = (l - 1) % 3 => v[k] = v[l]
            \/ \A k, l \in 1..9 : k % 2 = l % 2 => v[k] = v[l]) <=> Follows(v)
<1>1. \A k \in 1..9 : k = 1 \/ k = 2 \/ k = 3 \/ k = 4 \/ k = 5 \/ k = 6 \/ k = 7 \/ k = 8 \/ k = 9
  OBVIOUS
<1>2. (\A k, l \in 1..9 : (k - 1) \div 3 = (l - 1) \div 3 => v[k] = v[l]) <=>
         v[1] = v[2] /\ v[2] = v[3] /\ v[4] = v[5] /\ v[5] = v[6] /\ v[7] = v[8] /\ v[8] = v[9]
  BY <1>1
<1>3. (\A k, l \in 1..9 : (k - 1) % 3 = (l - 1) % 3 => v[k] = v[l]) <=>
         v[1] = v[4] /\ v[4] = v[7] /\ v[2] = v[5] /\ v[5] = v[8] /\ v[3] = v[6] /\ v[6] = v[9]
  BY <1>1
<1>4. (\A k, l \in 1..9 : k % 2 = l % 2 => v[k] = v[l]) <=>
         v[1] = v[3] /\ v[3] = v[5] /\ v[5] = v[7] /\ v[7] = v[9] /\ v[2] = v[4] /\ v[4] = v[6] /\ v[6] = v[8]
  BY <1>1
<1>5. QED
  BY <1>2, <1>3, <1>4 DEF Follows

Row(cells, a) == [k \in 1..9 |-> cells[k][a]]

LEMMA AllAttributesFollow ==
    ASSUME NEW seen, NEW fig
    PROVE  Completes(seen, fig) <=> \A a \in Attributes : Follows(Row(Append(seen, fig), a))
<1> DEFINE cells == Append(seen, fig)
           lines(a) == \/ \A k, l \in 1..9 : (k - 1) \div 3 = (l - 1) \div 3 => cells[k][a] = cells[l][a]
                       \/ \A k, l \in 1..9 : (k - 1) % 3 = (l - 1) % 3 => cells[k][a] = cells[l][a]
                       \/ \A k, l \in 1..9 : k % 2 = l % 2 => cells[k][a] = cells[l][a]
<1>1. Completes(seen, fig) <=> \A a \in Attributes : lines(a)
  BY Zenon DEF Completes
<1> HIDE DEF cells
<1>2. ASSUME NEW a PROVE Follows(Row(cells, a)) <=> lines(a)
  <2> DEFINE v == Row(cells, a)
  <2>1. \A k \in 1..9 : v[k] = cells[k][a]
    BY DEF Row
  <2> HIDE DEF v
  <2>a. \A k, l \in 1..9 : v[k] = v[l] <=> cells[k][a] = cells[l][a]
    BY <2>1
  <2>b. (\A k, l \in 1..9 : (k - 1) \div 3 = (l - 1) \div 3 => v[k] = v[l]) <=>
          (\A k, l \in 1..9 : (k - 1) \div 3 = (l - 1) \div 3 => cells[k][a] = cells[l][a])
    BY <2>a, Zenon
  <2>c. (\A k, l \in 1..9 : (k - 1) % 3 = (l - 1) % 3 => v[k] = v[l]) <=>
          (\A k, l \in 1..9 : (k - 1) % 3 = (l - 1) % 3 => cells[k][a] = cells[l][a])
    BY <2>a, Zenon
  <2>d. (\A k, l \in 1..9 : k % 2 = l % 2 => v[k] = v[l]) <=>
          (\A k, l \in 1..9 : k % 2 = l % 2 => cells[k][a] = cells[l][a])
    BY <2>a, Zenon
  <2>2. (\/ \A k, l \in 1..9 : (k - 1) \div 3 = (l - 1) \div 3 => v[k] = v[l]
         \/ \A k, l \in 1..9 : (k - 1) % 3 = (l - 1) % 3 => v[k] = v[l]
         \/ \A k, l \in 1..9 : k % 2 = l % 2 => v[k] = v[l]) <=> lines(a)
    BY <2>b, <2>c, <2>d, Zenon
  <2>3. Follows(v) <=> lines(a)
    BY <2>2, LinesFollow, Zenon
  <2>4. QED
    BY <2>3 DEF v
<1> HIDE DEF lines
<1>3. QED
  BY <1>1, <1>2, Zenon DEF cells

MatrixDraw(d) ==
    /\ d.shape \in 1..4 /\ d.fill \in BOOLEAN /\ d.at \in 1..5
    /\ d.rows \in [1..3 -> 1..4] /\ d.rows[1] # d.rows[2] /\ d.rows[1] # d.rows[3] /\ d.rows[2] # d.rows[3]
    /\ d.wrong \in [1..4 -> 1..7] /\ \A k, l \in 1..4 : d.wrong[k] = d.wrong[l] => k = l

LEMMA MatrixCells ==
    ASSUME NEW band \in Int, NEW d, MatrixDraw(d), NEW r \in 1..3, NEW c \in 1..3
    PROVE  LET f == MatrixCell(band, d, r, c)
           IN  /\ f \in Figures /\ Looks(f) \in Figures /\ f.count \in 1..4
               /\ Looks(f).shape = IF band >= 2 THEN Shapes[d.rows[r]] ELSE Shapes[d.shape]
               /\ Looks(f).filled = IF band >= 3 THEN (r + c) % 2 = 0 ELSE d.fill
               /\ Looks(f).count = c /\ Looks(f).turn = 0
<1> DEFINE f == MatrixCell(band, d, r, c)
<1>1. (ClampBand(band, 3) >= 2 <=> band >= 2) /\ (ClampBand(band, 3) >= 3 <=> band >= 3)
  BY DEF ClampBand
<1>2. \A k \in 1..4 : Shapes[k] \in Kinds
  <2>1. \A k \in 1..4 : k = 1 \/ k = 2 \/ k = 3 \/ k = 4
    OBVIOUS
  <2>2. QED
    BY <2>1 DEF Shapes, Kinds
<1>3. /\ f.shape = IF band >= 2 THEN Shapes[d.rows[r]] ELSE Shapes[d.shape]
      /\ f.filled = IF band >= 3 THEN (r + c) % 2 = 0 ELSE d.fill
      /\ f.count = c /\ f.turn = 0
      /\ f = [shape |-> f.shape, count |-> f.count, turn |-> f.turn, filled |-> f.filled]
  BY <1>1 DEF MatrixCell, Figure
<1> HIDE DEF f
<1>4. f.shape \in Kinds /\ f.count \in 1..4 /\ f.filled \in BOOLEAN
  <2>1. d.shape \in 1..4 /\ d.rows[r] \in 1..4 /\ d.fill \in BOOLEAN
    BY DEF MatrixDraw
  <2>2. ((r + c) % 2 = 0) \in BOOLEAN
    OBVIOUS
  <2>3. f.filled \in BOOLEAN
    BY <1>3, <2>1, <2>2, Zenon
  <2>4. QED
    BY <1>2, <1>3, <2>1, <2>3
<1>5. f \in Figures
  BY <1>3, <1>4 DEF Figures
<1>6. /\ Looks(f) \in Figures
      /\ Looks(f).shape = f.shape /\ Looks(f).count = f.count /\ Looks(f).filled = f.filled
      /\ Looks(f).turn = IF f.shape \in {"circle", "square"} THEN 0 ELSE f.turn % 360
  BY <1>5, LooksOf
<1>7. Looks(f).turn = 0
  BY <1>3, <1>6
<1>8. QED
  BY <1>3, <1>4, <1>5, <1>6, <1>7 DEF f

(* What is appended to a list is its last.                                 *)
LEMMA Appended ==
    ASSUME NEW n \in Nat, NEW seq, DOMAIN seq = 1..n, seq = [k \in 1..n |-> seq[k]], NEW x
    PROVE  /\ \A k \in 1..n : Append(seq, x)[k] = seq[k]
           /\ Append(seq, x)[n + 1] = x
<1> DEFINE S == {seq[k] : k \in 1..n} \cup {x}
<1>1. seq \in [1..n -> S] /\ x \in S
  OBVIOUS
<1> HIDE DEF S
<1>2. seq \in Seq(S) /\ Len(seq) = n
  BY <1>1, ListOf
<1>3. QED
  BY <1>1, <1>2

(* Whatever completes a matrix looks like its last figure.                 *)
LEMMA MatrixGoesOn ==
    ASSUME NEW band \in Int, NEW d, MatrixDraw(d),
           NEW seen, DOMAIN seen = 1..8, seen = [k \in 1..8 |-> seen[k]],
           \A k \in 1..8 : seen[k] = Looks(MatrixCell(band, d, 1 + ((k - 1) \div 3), 1 + ((k - 1) % 3))),
           NEW g \in Figures
    PROVE  Completes(seen, Looks(g)) <=> Looks(g) = Looks(MatrixCell(band, d, 3, 3))
<1> DEFINE m(r, c)  == Looks(MatrixCell(band, d, r, c))
           fig      == Looks(g)
           cells    == Append(seen, fig)
           shape(r) == IF band >= 2 THEN Shapes[d.rows[r]] ELSE Shapes[d.shape]
           X        == shape(3)
           F        == IF band >= 3 THEN TRUE ELSE d.fill
<1>1. fig \in Figures
  BY LooksOf
<1>2. \A r, c \in 1..3 : /\ m(r, c) \in Figures /\ m(r, c).shape = shape(r) /\ m(r, c).count = c /\ m(r, c).turn = 0
                         /\ m(r, c).filled = IF band >= 3 THEN (r + c) % 2 = 0 ELSE d.fill
  BY MatrixCells
<1>3. /\ cells[1] = m(1, 1) /\ cells[2] = m(1, 2) /\ cells[3] = m(1, 3)
      /\ cells[4] = m(2, 1) /\ cells[5] = m(2, 2) /\ cells[6] = m(2, 3)
      /\ cells[7] = m(3, 1) /\ cells[8] = m(3, 2) /\ cells[9] = fig
  <2> HIDE DEF fig
  <2>1. (\A k \in 1..8 : cells[k] = seen[k]) /\ cells[9] = fig
    <3> DEFINE n == 8
    <3>1. n \in Nat /\ DOMAIN seen = 1..n /\ seen = [k \in 1..n |-> seen[k]] /\ n + 1 = 9
      OBVIOUS
    <3> HIDE DEF n
    <3>2. (\A k \in 1..n : cells[k] = seen[k]) /\ cells[n + 1] = fig
      BY <3>1, Appended
    <3> HIDE DEF cells
    <3>3. QED
      BY <3>1, <3>2 DEF n
  <2> HIDE DEF cells
  <2>2. /\ seen[1] = m(1 + (0 \div 3), 1 + (0 % 3)) /\ seen[2] = m(1 + (1 \div 3), 1 + (1 % 3))
        /\ seen[3] = m(1 + (2 \div 3), 1 + (2 % 3)) /\ seen[4] = m(1 + (3 \div 3), 1 + (3 % 3))
        /\ seen[5] = m(1 + (4 \div 3), 1 + (4 % 3)) /\ seen[6] = m(1 + (5 \div 3), 1 + (5 % 3))
        /\ seen[7] = m(1 + (6 \div 3), 1 + (6 % 3)) /\ seen[8] = m(1 + (7 \div 3), 1 + (7 % 3))
    OBVIOUS
  <2>3. /\ 1 + (0 \div 3) = 1 /\ 1 + (1 \div 3) = 1 /\ 1 + (2 \div 3) = 1 /\ 1 + (3 \div 3) = 2
        /\ 1 + (4 \div 3) = 2 /\ 1 + (5 \div 3) = 2 /\ 1 + (6 \div 3) = 3 /\ 1 + (7 \div 3) = 3
        /\ 1 + (0 % 3) = 1 /\ 1 + (1 % 3) = 2 /\ 1 + (2 % 3) = 3 /\ 1 + (3 % 3) = 1
        /\ 1 + (4 % 3) = 2 /\ 1 + (5 % 3) = 3 /\ 1 + (6 % 3) = 1 /\ 1 + (7 % 3) = 2
    OBVIOUS
  <2> HIDE DEF m
  <2>4. QED
    BY <2>1, <2>2, <2>3
<1> HIDE DEF m, fig, cells
<1>4. Follows(Row(cells, "count")) <=> fig.count = 3
  <2> DEFINE v == Row(cells, "count")
  <2>1. /\ v[1] = 1 /\ v[2] = 2 /\ v[3] = 3 /\ v[4] = 1 /\ v[5] = 2 /\ v[6] = 3 /\ v[7] = 1 /\ v[8] = 2
        /\ v[9] = fig.count
    BY <1>2, <1>3 DEF Row
  <2> HIDE DEF v
  <2>2. Follows(v) <=> fig.count = 3
    BY <2>1 DEF Follows
  <2>3. QED
    BY <2>2 DEF v
<1>5. Follows(Row(cells, "turn")) <=> fig.turn = 0
  <2> DEFINE v == Row(cells, "turn")
  <2>1. /\ v[1] = 0 /\ v[2] = 0 /\ v[3] = 0 /\ v[4] = 0 /\ v[5] = 0 /\ v[6] = 0 /\ v[7] = 0 /\ v[8] = 0
        /\ v[9] = fig.turn
    BY <1>2, <1>3 DEF Row
  <2> HIDE DEF v
  <2>2. Follows(v) <=> fig.turn = 0
    BY <2>1 DEF Follows
  <2>3. QED
    BY <2>2 DEF v
<1>6. Follows(Row(cells, "shape")) <=> fig.shape = X
  <2> DEFINE v == Row(cells, "shape")
  <2> HIDE DEF shape
  <2>1. /\ v[1] = shape(1) /\ v[2] = shape(1) /\ v[3] = shape(1) /\ v[4] = shape(2) /\ v[5] = shape(2)
        /\ v[6] = shape(2) /\ v[7] = shape(3) /\ v[8] = shape(3) /\ v[9] = fig.shape
    BY <1>2, <1>3 DEF Row
  <2> HIDE DEF v
  <2>2. \/ shape(1) = shape(2) /\ shape(2) = shape(3)
        \/ shape(1) # shape(2) /\ shape(1) # shape(3) /\ shape(2) # shape(3)
    <3>1. CASE band >= 2
      <4>1. \A k, l \in 1..4 : Shapes[k] = Shapes[l] => k = l
        BY Drawers
      <4>2. /\ d.rows[1] \in 1..4 /\ d.rows[2] \in 1..4 /\ d.rows[3] \in 1..4
            /\ d.rows[1] # d.rows[2] /\ d.rows[1] # d.rows[3] /\ d.rows[2] # d.rows[3]
        BY DEF MatrixDraw
      <4>3. QED
        BY <3>1, <4>1, <4>2 DEF shape
    <3>2. CASE ~(band >= 2)
      BY <3>2 DEF shape
    <3>3. QED
      BY <3>1, <3>2
  <2>3. Follows(v) <=> fig.shape = X
    BY <2>1, <2>2 DEF Follows
  <2>4. QED
    BY <2>3 DEF v
<1>7. Follows(Row(cells, "filled")) <=> fig.filled = F
  <2> DEFINE v == Row(cells, "filled")
  <2>1. CASE band >= 3
    <3>1. /\ m(1, 1).filled = TRUE /\ m(1, 2).filled = FALSE /\ m(1, 3).filled = TRUE
          /\ m(2, 1).filled = FALSE /\ m(2, 2).filled = TRUE /\ m(2, 3).filled = FALSE
          /\ m(3, 1).filled = TRUE /\ m(3, 2).filled = FALSE
      <4>1. \A r, c \in 1..3 : m(r, c).filled = ((r + c) % 2 = 0)
        BY <1>2, <2>1
      <4>2. 1 \in 1..3 /\ 2 \in 1..3 /\ 3 \in 1..3
        OBVIOUS
      <4>3. /\ (1 + 1) % 2 = 0 /\ (1 + 2) % 2 # 0 /\ (1 + 3) % 2 = 0 /\ (2 + 1) % 2 # 0 /\ (2 + 2) % 2 = 0
            /\ (2 + 3) % 2 # 0 /\ (3 + 1) % 2 = 0 /\ (3 + 2) % 2 # 0
        OBVIOUS
      <4>4. \A r, c \in 1..3 : /\ (r + c) % 2 = 0 => m(r, c).filled = TRUE
                               /\ (r + c) % 2 # 0 => m(r, c).filled = FALSE
        BY <4>1, Zenon
      <4>5. QED
        BY <4>2, <4>3, <4>4, Zenon
    <3>2. /\ v[1] = TRUE /\ v[2] = FALSE /\ v[3] = TRUE /\ v[4] = FALSE /\ v[5] = TRUE /\ v[6] = FALSE
          /\ v[7] = TRUE /\ v[8] = FALSE /\ v[9] = fig.filled
      BY <1>3, <3>1 DEF Row
    <3> HIDE DEF v
    <3>3. Follows(v) <=> fig.filled = TRUE
      BY <3>2 DEF Follows
    <3>4. QED
      BY <2>1, <3>3 DEF v
  <2>2. CASE ~(band >= 3)
    <3>1. \A r, c \in 1..3 : m(r, c).filled = d.fill
      BY <1>2, <2>2
    <3>2. /\ v[1] = d.fill /\ v[2] = d.fill /\ v[3] = d.fill /\ v[4] = d.fill /\ v[5] = d.fill /\ v[6] = d.fill
          /\ v[7] = d.fill /\ v[8] = d.fill /\ v[9] = fig.filled
      BY <1>3, <3>1 DEF Row
    <3> HIDE DEF v
    <3>3. Follows(v) <=> fig.filled = d.fill
      BY <3>2 DEF Follows
    <3>4. QED
      BY <2>2, <3>3 DEF v
  <2>3. QED
    BY <2>1, <2>2
<1>8. Completes(seen, fig) <=> /\ fig.shape = X /\ fig.count = 3 /\ fig.turn = 0 /\ fig.filled = F
  <2>1. Completes(seen, fig) <=> \A a \in Attributes : Follows(Row(cells, a))
    BY AllAttributesFollow DEF cells
  <2>2. QED
    BY <1>4, <1>5, <1>6, <1>7, <2>1 DEF Attributes
<1>9. /\ m(3, 3) \in Figures /\ m(3, 3).shape = X /\ m(3, 3).count = 3 /\ m(3, 3).turn = 0 /\ m(3, 3).filled = F
  <2>1. (3 + 3) % 2 = 0 /\ 3 \in 1..3
    OBVIOUS
  <2>2. m(3, 3).filled = IF band >= 3 THEN (3 + 3) % 2 = 0 ELSE d.fill
    BY <1>2, <2>1, Zenon
  <2>3. m(3, 3).filled = F
    BY <2>1, <2>2, Zenon
  <2> HIDE DEF X, F
  <2>4. m(3, 3) \in Figures /\ m(3, 3).shape = shape(3) /\ m(3, 3).count = 3 /\ m(3, 3).turn = 0
    BY <1>2, <2>1, Zenon
  <2>5. QED
    BY <2>3, <2>4 DEF X
<1>10. \A x, y \in Figures : x.shape = y.shape /\ x.count = y.count /\ x.filled = y.filled /\ x.turn = y.turn => x = y
  BY DEF Figures
<1> HIDE DEF X, F
<1>11. Completes(seen, fig) <=> fig = m(3, 3)
  BY <1>1, <1>8, <1>9, <1>10
<1>12. QED
  BY <1>11 DEF fig, m

(* A matrix, whatever is drawn for it, has one answer.                     *)
LEMMA MatrixHasOneAnswer ==
    ASSUME NEW band \in Int, NEW d, MatrixDraw(d)
    PROVE  HasOneAnswer(Matrix(band, d))
<1> DEFINE puzzle   == Matrix(band, d)
           right    == MatrixCell(band, d, 3, 3)
           turnable == FALSE
           wrong    == DistinctNeighbors(right, turnable, d.wrong)
           opts     == puzzle.options
           looks    == [k \in DOMAIN opts |-> Looks(opts[k])]
           seen     == [k \in DOMAIN puzzle.seen |-> Looks(puzzle.seen[k])]
           A        == {g \in Figures : Completes(seen, g)}
<1>1. right \in Figures /\ right.count \in 1..4
  BY MatrixCells
<1>2. Turnable(right, turnable)
  BY <1>1 DEF Turnable
<1>3. /\ d.wrong \in [1..4 -> 1..(IF turnable THEN 10 ELSE 7)]
      /\ \A k, l \in 1..4 : d.wrong[k] = d.wrong[l] => k = l
      /\ d.at \in 1..5
  BY DEF MatrixDraw
<1>4. /\ puzzle.options = Assemble(right, wrong, d.at) /\ puzzle.key = d.at /\ puzzle.kind = "grid"
      /\ puzzle.seen = [k \in 1..8 |-> MatrixCell(band, d, 1 + ((k - 1) \div 3), 1 + ((k - 1) % 3))]
  BY DEF Matrix
<1>5. /\ DOMAIN seen = 1..8 /\ seen = [k \in 1..8 |-> seen[k]]
      /\ \A k \in 1..8 : seen[k] = Looks(MatrixCell(band, d, 1 + ((k - 1) \div 3), 1 + ((k - 1) % 3)))
  BY <1>4
<1> HIDE DEF right, turnable, puzzle
<1>6. Apart(right, wrong) /\ Len(wrong) = 4 /\ DOMAIN wrong = 1..4
  BY <1>2, <1>3, DrawnApart
<1> HIDE DEF wrong, seen
<1>7. Accepted(puzzle) = {k \in DOMAIN looks : Completes(seen, looks[k])}
  BY <1>4 DEF Accepted, seen
<1>8. \A k \in DOMAIN opts : Looks(opts[k]) \in Figures
  BY <1>1, <1>3, <1>4, <1>6, FiguresOfOptions
<1>9. Accepted(puzzle) = {k \in DOMAIN opts : Looks(opts[k]) \in A}
  BY <1>7, <1>8
<1>10. \A g \in Figures : Looks(g) \in A <=> Looks(g) = Looks(right)
  BY <1>5, MatrixGoesOn, LooksOf DEF right
<1> HIDE DEF A
<1>11. QED
  BY <1>1, <1>3, <1>4, <1>6, <1>9, <1>10, OneFits DEF puzzle

-----------------------------------------------------------------------------
(* The odd one out *)

(* Five figures of which four agree in one attribute that the fifth breaks,*)
(* while no three of the four agree in another that is not shared by all.  *)
OneAgainstFour(opts, at, a, b) ==
    /\ DOMAIN opts = 1..5 /\ at \in 1..5 /\ a \in Attributes /\ b \in Attributes /\ a # b
    /\ \A k, l \in 1..5 \ {at} : opts[k][a] = opts[l][a] /\ opts[at][a] # opts[k][a]
    /\ \A k, l \in 1..5 \ {at} : opts[k][b] = opts[l][b] => k = l
    /\ \A x \in Attributes \ {a, b} : \A k, l \in 1..5 : opts[k][x] = opts[l][x]

LEMMA OneIsOdd ==
    ASSUME NEW opts, NEW at, NEW a, NEW b, OneAgainstFour(opts, at, a, b)
    PROVE  /\ {k \in DOMAIN opts : Odd(opts, k)} = {at}
           /\ \A k, l \in 1..5 : opts[k] = opts[l] => k = l
<1> USE DEF OneAgainstFour
<1>1. Odd(opts, at)
  BY Zenon DEF Odd
<1>2. ASSUME NEW k \in 1..5, k # at, Odd(opts, k) PROVE FALSE
  <2>0. PICK x \in Attributes : \A l, m \in DOMAIN opts \ {k} : opts[l][x] = opts[m][x] /\ opts[k][x] # opts[l][x]
    BY <1>2, Zenon DEF Odd
  <2>1. \A l, m \in 1..5 \ {k} : opts[l][x] = opts[m][x] /\ opts[k][x] # opts[l][x]
    BY <2>0
  <2>2. PICK l, m \in 1..5 \ {k, at} : l # m
    <3>1. \E l, m \in 1..5 : l # m /\ l # k /\ l # at /\ m # k /\ m # at
      <4>1. \/ 1 # k /\ 1 # at /\ 2 # k /\ 2 # at
            \/ 1 # k /\ 1 # at /\ 3 # k /\ 3 # at
            \/ 2 # k /\ 2 # at /\ 3 # k /\ 3 # at
            \/ 3 # k /\ 3 # at /\ 4 # k /\ 4 # at
            \/ 4 # k /\ 4 # at /\ 5 # k /\ 5 # at
        OBVIOUS
      <4>2. QED
        BY <4>1
    <3>2. QED
      BY <3>1
  <2>3. CASE x = a
    BY <1>2, <2>1, <2>2, <2>3
  <2>4. CASE x = b
    BY <1>2, <2>1, <2>2, <2>4
  <2>5. CASE x # a /\ x # b
    BY <1>2, <2>1, <2>2, <2>5
  <2>6. QED
    BY <2>3, <2>4, <2>5
<1>3. {k \in DOMAIN opts : Odd(opts, k)} = {at}
  BY <1>1, <1>2
<1>4. ASSUME NEW k \in 1..5, NEW l \in 1..5, opts[k] = opts[l] PROVE k = l
  <2>1. CASE k = at \/ l = at
    BY <1>4, <2>1
  <2>2. CASE k # at /\ l # at
    BY <1>4, <2>2
  <2>3. QED
    BY <2>1, <2>2
<1>5. QED
  BY <1>3, <1>4

OddDraw(band, d) ==
    /\ d.shape \in 1..4 /\ d.asym \in 1..2 /\ d.fill \in BOOLEAN /\ d.count \in 1..4 /\ d.at \in 1..5
    /\ d.other \in 1..4 /\ d.other # (IF ClampBand(band, 4) = 3 THEN d.count ELSE d.shape)
    /\ d.decoy \in 1..4 /\ d.turn \in 2..4

Shows(fig, shape, count, turn, filled) ==
    fig \in Figures /\ fig.shape = shape /\ fig.count = count /\ fig.turn = turn /\ fig.filled = filled

LooksLike(fig, shape, count, turn, filled) ==
    /\ fig \in Figures
    /\ Looks(fig).shape = shape /\ Looks(fig).count = count /\ Looks(fig).turn = turn /\ Looks(fig).filled = filled

LEMMA LooksAsShown ==
    ASSUME NEW fig, NEW shape, NEW count, NEW turn \in Turns, NEW filled, Shows(fig, shape, count, turn, filled),
           turn # 0 => shape \in {"triangle", "pentagon"}
    PROVE  LooksLike(fig, shape, count, turn, filled)
<1>1. fig \in Figures /\ fig.shape = shape /\ fig.count = count /\ fig.turn = turn /\ fig.filled = filled
  BY DEF Shows
<1>2. /\ Looks(fig).shape = fig.shape /\ Looks(fig).count = fig.count /\ Looks(fig).filled = fig.filled
      /\ Looks(fig).turn = IF fig.shape \in {"circle", "square"} THEN 0 ELSE fig.turn % 360
  BY <1>1, LooksOf
<1>3. turn % 360 = turn
  BY DEF Turns
<1>4. Looks(fig).turn = turn
  BY <1>1, <1>2, <1>3
<1>5. QED
  BY <1>1, <1>2, <1>4 DEF LooksLike

LEMMA ShownChanged ==
    ASSUME NEW f \in Figures, NEW x \in Kinds, NEW n \in Int, NEW t \in Int
    PROVE  /\ Shows([f EXCEPT !.shape = x], x, f.count, f.turn, f.filled)
           /\ Shows([f EXCEPT !.count = n], f.shape, n, f.turn, f.filled)
           /\ Shows([f EXCEPT !.shape = x, !.count = n], x, n, f.turn, f.filled)
           /\ Shows([f EXCEPT !.count = n, !.shape = x], x, n, f.turn, f.filled)
           /\ Shows([f EXCEPT !.turn = t, !.count = n], f.shape, n, t, f.filled)
  BY DEF Shows, Figures

LEMMA ShownFlipped ==
    ASSUME NEW f \in Figures, NEW n \in Int
    PROVE  LET fig == [f EXCEPT !.filled = ~@, !.count = n]
           IN  Shows(fig, f.shape, n, f.turn, fig.filled) /\ fig.filled # f.filled
<1> DEFINE fig == [f EXCEPT !.filled = ~@, !.count = n]
<1>1. fig \in Figures /\ fig.shape = f.shape /\ fig.count = n /\ fig.turn = f.turn /\ fig.filled = ~f.filled
  BY DEF Figures
<1>2. fig.filled # f.filled
  BY <1>1 DEF Figures
<1>3. QED
  BY <1>1, <1>2 DEF Shows

(* What the options look like.                                             *)
LooksIn(opts) == [k \in DOMAIN opts |-> Looks(opts[k])]

(* Four that agree in a and differ in b, and one that breaks a.            *)
LeftOut(odd, four, a, b) ==
    /\ odd \in Figures /\ four \in Seq(Figures) /\ Len(four) = 4
    /\ a \in Attributes /\ b \in Attributes /\ a # b
    /\ \A i, j \in 1..4 : Looks(four[i])[a] = Looks(four[j])[a] /\ Looks(odd)[a] # Looks(four[i])[a]
    /\ \A i, j \in 1..4 : Looks(four[i])[b] = Looks(four[j])[b] => i = j
    /\ \A x \in Attributes \ {a, b} : \A i \in 1..4 : Looks(four[i])[x] = Looks(odd)[x]

LEMMA OneIsOddAmong ==
    ASSUME NEW odd, NEW four, NEW at \in 1..5, NEW a, NEW b, LeftOut(odd, four, a, b)
    PROVE  /\ {k \in DOMAIN LooksIn(Assemble(odd, four, at)) : Odd(LooksIn(Assemble(odd, four, at)), k)} = {at}
           /\ \A k, l \in DOMAIN LooksIn(Assemble(odd, four, at)) :
                 LooksIn(Assemble(odd, four, at))[k] = LooksIn(Assemble(odd, four, at))[l] => k = l
<1> DEFINE opts  == Assemble(odd, four, at)
           looks == LooksIn(opts)
           p(k)  == IF k < at THEN k ELSE k - 1
<1> USE DEF LeftOut
<1>1. /\ DOMAIN opts = 1..5
      /\ \A k \in 1..5 : opts[k] = IF k < at THEN four[k] ELSE IF k = at THEN odd ELSE four[k - 1]
  BY AssembledAt
<1> HIDE DEF opts
<1>3. \A k \in 1..5 : k # at => p(k) \in 1..4
  OBVIOUS
<1>4. \A k, l \in 1..5 : k # at /\ l # at /\ p(k) = p(l) => k = l
  OBVIOUS
<1>5. DOMAIN looks = 1..5 /\ \A k \in 1..5 : looks[k] = Looks(opts[k])
  BY <1>1 DEF LooksIn
<1>6. looks[at] = Looks(odd) /\ \A k \in 1..5 : k # at => looks[k] = Looks(four[p(k)])
  <2>1. opts[at] = odd /\ \A k \in 1..5 : k # at => opts[k] = four[p(k)]
    BY <1>1
  <2> HIDE DEF p, looks
  <2>2. QED
    BY <1>5, <2>1
<1> HIDE DEF looks, p
<1>7. \A k, l \in 1..5 \ {at} : looks[k][a] = looks[l][a] /\ looks[at][a] # looks[k][a]
  BY <1>3, <1>6
<1>8. \A k, l \in 1..5 \ {at} : looks[k][b] = looks[l][b] => k = l
  BY <1>3, <1>4, <1>6
<1>9. \A x \in Attributes \ {a, b} : \A k, l \in 1..5 : looks[k][x] = looks[l][x]
  <2>1. \A x \in Attributes \ {a, b} : \A k \in 1..5 : looks[k][x] = Looks(odd)[x]
    BY <1>3, <1>6
  <2>2. QED
    BY <2>1
<1>10. /\ {k \in DOMAIN looks : Odd(looks, k)} = {at}
       /\ \A k, l \in 1..5 : looks[k] = looks[l] => k = l
  <2>1. OneAgainstFour(looks, at, a, b)
    BY <1>5, <1>7, <1>8, <1>9 DEF OneAgainstFour
  <2>2. QED
    BY <2>1, OneIsOdd
<1>11. QED
  BY <1>5, <1>10 DEF looks, opts

LEMMA OddFits ==
    ASSUME NEW puzzle, puzzle.kind = "", NEW opts, puzzle.options = opts, NEW at, puzzle.key = at,
           {k \in DOMAIN LooksIn(opts) : Odd(LooksIn(opts), k)} = {at},
           \A k, l \in DOMAIN LooksIn(opts) : LooksIn(opts)[k] = LooksIn(opts)[l] => k = l
    PROVE  HasOneAnswer(puzzle)
<1> DEFINE looks == LooksIn(puzzle.options)
           seen == [k \in DOMAIN puzzle.seen |-> Looks(puzzle.seen[k])]
<1>1. looks = [k \in DOMAIN puzzle.options |-> Looks(puzzle.options[k])]
  BY Zenon DEF LooksIn
<1>2. Accepted(puzzle) = {k \in DOMAIN looks : CASE puzzle.kind = ""     -> Odd(looks, k)
                                                [] puzzle.kind = "svg"  -> Continues(seen, looks[k])
                                                [] puzzle.kind = "grid" -> Completes(seen, looks[k])}
  BY Zenon DEF Accepted, LooksIn
<1>3. \A k, l \in DOMAIN puzzle.options : Looks(puzzle.options[k]) = Looks(puzzle.options[l]) => k = l
  <2>1. \A k, l \in DOMAIN looks : looks[k] = looks[l] => k = l
    BY Zenon
  <2> HIDE DEF looks
  <2>2. DOMAIN looks = DOMAIN puzzle.options /\ \A k \in DOMAIN puzzle.options : looks[k] = Looks(puzzle.options[k])
    BY <1>1
  <2>3. QED
    BY <2>1, <2>2
<1>4. {k \in DOMAIN looks : Odd(looks, k)} = {puzzle.key}
  BY Zenon
<1> HIDE DEF looks, seen
<1>5. {k \in DOMAIN looks : CASE puzzle.kind = ""     -> Odd(looks, k)
                               [] puzzle.kind = "svg"  -> Continues(seen, looks[k])
                               [] puzzle.kind = "grid" -> Completes(seen, looks[k])} =
      {k \in DOMAIN looks : Odd(looks, k)}
  BY Zenon
<1>6. QED
  BY <1>2, <1>3, <1>4, <1>5, Zenon DEF HasOneAnswer

(* An odd one out, whatever is drawn for it, has one answer.               *)
LEMMA OddHasOneAnswer ==
    ASSUME NEW band \in Int, NEW d, OddDraw(band, d)
    PROVE  HasOneAnswer(OddOneOut(band, d))
<1> DEFINE puzzle == OddOneOut(band, d)
           attr   == ClampBand(band, 4)
           base   == OddBase(attr, d)
           four   == [k \in 1..4 |-> IF attr = 3 THEN [base EXCEPT !.shape = Shapes[k]]
                                     ELSE [base EXCEPT !.count = Counts[k]]]
           odd    == CASE attr = 1 -> [base EXCEPT !.shape = Shapes[d.other], !.count = Counts[d.decoy]]
                       [] attr = 2 -> [base EXCEPT !.filled = ~@, !.count = Counts[d.decoy]]
                       [] attr = 3 -> [base EXCEPT !.count = Counts[d.other], !.shape = Shapes[d.decoy]]
                       [] attr = 4 -> [base EXCEPT !.turn = Orientations[d.turn], !.count = Counts[d.decoy]]
           S      == IF attr = 4 THEN Asymmetric[d.asym] ELSE Shapes[d.shape]
<1>1. attr = 1 \/ attr = 2 \/ attr = 3 \/ attr = 4
  BY DEF ClampBand
<1>2. puzzle.options = Assemble(odd, four, d.at) /\ puzzle.key = d.at /\ puzzle.kind = ""
  BY Zenon DEF OddOneOut
<1>4. /\ d.fill \in BOOLEAN /\ d.count \in 1..4 /\ d.at \in 1..5 /\ d.other \in 1..4 /\ d.decoy \in 1..4
      /\ d.shape \in 1..4 /\ d.turn \in 2..4
      /\ attr = 3 => d.other # d.count
      /\ attr # 3 => d.other # d.shape
  BY DEF OddDraw
<1>5. \A k \in 1..4 : Shapes[k] \in Kinds
  <2>1. \A k \in 1..4 : k = 1 \/ k = 2 \/ k = 3 \/ k = 4
    OBVIOUS
  <2>2. QED
    BY <2>1 DEF Shapes, Kinds
<1>6. S \in Kinds /\ (attr = 4 => S \in {"triangle", "pentagon"})
  <2>1. d.asym = 1 \/ d.asym = 2
    BY DEF OddDraw
  <2>2. Asymmetric[d.asym] \in {"triangle", "pentagon"}
    BY <2>1 DEF Asymmetric
  <2>3. QED
    BY <1>4, <1>5, <2>2 DEF Kinds
<1>7. Orientations[d.turn] \in Turns /\ Orientations[d.turn] # 0 /\ 0 \in Turns /\ 0 \in Int
  <2>1. d.turn = 2 \/ d.turn = 3 \/ d.turn = 4
    BY <1>4
  <2>2. QED
    BY <2>1 DEF Orientations, Turns
<1>8. Orientations[d.turn] \in Int
  BY <1>7 DEF Turns
<1>9. Counts[d.decoy] = d.decoy /\ Counts[d.other] = d.other /\ Counts[d.count] = d.count /\ \A k \in 1..4 : Counts[k] = k
  BY <1>4, Drawers
<1>10. base \in Figures /\ base.shape = S /\ base.count = d.count /\ base.turn = 0 /\ base.filled = d.fill
  <2>1. base = [shape |-> S, count |-> d.count, turn |-> 0, filled |-> d.fill]
    BY <1>9 DEF OddBase, Figure
  <2> HIDE DEF base, S
  <2>2. QED
    BY <1>4, <1>6, <1>7, <2>1 DEF Figures
<1>11. \A k \in 1..4 : four[k] = IF attr = 3 THEN [base EXCEPT !.shape = Shapes[k]] ELSE [base EXCEPT !.count = k]
  BY <1>9
<1>12. DOMAIN four = 1..4
  OBVIOUS
<1>13. /\ attr = 1 => odd = [base EXCEPT !.shape = Shapes[d.other], !.count = d.decoy]
       /\ attr = 3 => odd = [base EXCEPT !.count = d.other, !.shape = Shapes[d.decoy]]
       /\ attr = 4 => odd = [base EXCEPT !.turn = Orientations[d.turn], !.count = d.decoy]
  BY <1>9
<1>14. attr = 2 => odd = [base EXCEPT !.filled = ~@, !.count = d.decoy]
  BY <1>9
<1>15. \A k, l \in 1..4 : Shapes[k] = Shapes[l] => k = l
  BY Drawers
<1>16. S = Shapes[d.shape] \/ attr = 4
  OBVIOUS
<1>17. \A k \in 1..4 : k \in Int
  OBVIOUS
<1> HIDE DEF puzzle, attr, S, base, four, odd
<1>18. \A k \in 1..4 : LooksLike(four[k], IF attr = 3 THEN Shapes[k] ELSE S, IF attr = 3 THEN d.count ELSE k, 0, d.fill)
  <2>1. ASSUME NEW k \in 1..4
        PROVE  Shows(four[k], IF attr = 3 THEN Shapes[k] ELSE S, IF attr = 3 THEN d.count ELSE k, 0, d.fill)
    <3>1. /\ Shows([base EXCEPT !.shape = Shapes[k]], Shapes[k], d.count, 0, d.fill)
          /\ Shows([base EXCEPT !.count = k], S, k, 0, d.fill)
      BY <1>5, <1>7, <1>10, <1>17, ShownChanged
    <3>2. CASE attr = 3
      BY <1>11, <3>1, <3>2
    <3>3. CASE attr # 3
      BY <1>11, <3>1, <3>3
    <3>4. QED
      BY <3>2, <3>3
  <2>2. QED
    BY <1>7, <2>1, LooksAsShown
<1>19. \A k \in 1..4 : /\ four[k] \in Figures
                       /\ Looks(four[k])["shape"] = IF attr = 3 THEN Shapes[k] ELSE S
                       /\ Looks(four[k])["count"] = IF attr = 3 THEN d.count ELSE k
                       /\ Looks(four[k])["turn"] = 0 /\ Looks(four[k])["filled"] = d.fill
  BY <1>18 DEF LooksLike
<1>20. four \in Seq(Figures) /\ Len(four) = 4
  <2> DEFINE n == 4
  <2>1. four \in [1..n -> Figures] /\ n \in Nat
    BY <1>12, <1>19 DEF four
  <2> HIDE DEF n
  <2>2. four \in Seq(Figures) /\ Len(four) = n
    BY <2>1, ListOf
  <2>3. QED
    BY <2>2 DEF n
<1>21. ASSUME attr = 1 PROVE \E a, b : LeftOut(odd, four, a, b)
  <2>1. Shows(odd, Shapes[d.other], d.decoy, 0, d.fill)
    <3>1. Shapes[d.other] \in Kinds /\ d.decoy \in Int
      BY <1>4, <1>5
    <3>2. Shows([base EXCEPT !.shape = Shapes[d.other], !.count = d.decoy], Shapes[d.other], d.decoy, base.turn, base.filled)
      BY <1>7, <1>10, <3>1, ShownChanged, Zenon
    <3>3. QED
      BY <1>10, <1>13, <1>21, <3>2
  <2>2. LooksLike(odd, Shapes[d.other], d.decoy, 0, d.fill)
    BY <1>7, <2>1, LooksAsShown
  <2>3. Shapes[d.other] # S
    BY <1>4, <1>15, <1>16, <1>21
  <2>4. LeftOut(odd, four, "shape", "count")
    BY <1>19, <1>20, <1>21, <2>2, <2>3 DEF LeftOut, LooksLike, Attributes
  <2>5. QED
    BY <2>4
<1>22. ASSUME attr = 2 PROVE \E a, b : LeftOut(odd, four, a, b)
  <2>1. Shows(odd, S, d.decoy, 0, odd.filled) /\ odd.filled # d.fill
    BY <1>4, <1>7, <1>10, <1>14, <1>17, <1>22, ShownFlipped
  <2>2. LooksLike(odd, S, d.decoy, 0, odd.filled)
    BY <1>7, <2>1, LooksAsShown
  <2>3. LeftOut(odd, four, "filled", "count")
    BY <1>19, <1>20, <1>22, <2>1, <2>2 DEF LeftOut, LooksLike, Attributes
  <2>4. QED
    BY <2>3
<1>23. ASSUME attr = 3 PROVE \E a, b : LeftOut(odd, four, a, b)
  <2>1. Shows(odd, Shapes[d.decoy], d.other, 0, d.fill)
    <3>1. Shapes[d.decoy] \in Kinds /\ d.other \in Int
      BY <1>4, <1>5
    <3>2. Shows([base EXCEPT !.count = d.other, !.shape = Shapes[d.decoy]], Shapes[d.decoy], d.other, base.turn, base.filled)
      BY <1>7, <1>10, <3>1, ShownChanged, Zenon
    <3>3. QED
      BY <1>10, <1>13, <1>23, <3>2
  <2>2. LooksLike(odd, Shapes[d.decoy], d.other, 0, d.fill)
    BY <1>7, <2>1, LooksAsShown
  <2>3. LeftOut(odd, four, "count", "shape")
    BY <1>4, <1>15, <1>19, <1>20, <1>23, <2>2 DEF LeftOut, LooksLike, Attributes
  <2>4. QED
    BY <2>3
<1>24. ASSUME attr = 4 PROVE \E a, b : LeftOut(odd, four, a, b)
  <2>1. Shows(odd, S, d.decoy, Orientations[d.turn], d.fill)
    <3>1. d.decoy \in Int
      BY <1>4
    <3>2. Shows([base EXCEPT !.turn = Orientations[d.turn], !.count = d.decoy], base.shape, d.decoy, Orientations[d.turn], base.filled)
      BY <1>6, <1>8, <1>10, <3>1, ShownChanged, Zenon
    <3>3. QED
      BY <1>10, <1>13, <1>24, <3>2
  <2>2. LooksLike(odd, S, d.decoy, Orientations[d.turn], d.fill)
    BY <1>6, <1>7, <1>24, <2>1, LooksAsShown
  <2>3. LeftOut(odd, four, "turn", "count")
    BY <1>7, <1>19, <1>20, <1>24, <2>2 DEF LeftOut, LooksLike, Attributes
  <2>4. QED
    BY <2>3
<1>25. PICK a, b : LeftOut(odd, four, a, b)
  BY <1>1, <1>21, <1>22, <1>23, <1>24
<1>26. /\ {k \in DOMAIN LooksIn(Assemble(odd, four, d.at)) : Odd(LooksIn(Assemble(odd, four, d.at)), k)} = {d.at}
       /\ \A k, l \in DOMAIN LooksIn(Assemble(odd, four, d.at)) :
             LooksIn(Assemble(odd, four, d.at))[k] = LooksIn(Assemble(odd, four, d.at))[l] => k = l
  <2>1. d.at \in 1..5
    BY <1>4
  <2>2. QED
    BY <1>25, <2>1, OneIsOddAmong, Zenon
<1>27. HasOneAnswer(puzzle)
  BY <1>2, <1>26, OddFits, Zenon
<1>28. QED
  BY <1>27, Zenon DEF puzzle

-----------------------------------------------------------------------------
(* What an engine may draw: Draws, with the wrong figures in any order and *)
(* the right one in any place.                                             *)
Drawn(type, band, d) ==
    /\ EngineOf[type] = "series" => SeriesDraw(band, d)
    /\ EngineOf[type] = "matrix" => MatrixDraw(d)
    /\ EngineOf[type] = "odd"    => OddDraw(band, d)

LEMMA WrongsDiffer ==
    ASSUME NEW n \in Nat, NEW w \in Wrongs(n)
    PROVE  w \in [1..4 -> 1..n] /\ \A k, l \in 1..4 : w[k] = w[l] => k = l
<1>1. w \in [1..4 -> 1..n] /\ w[1] < w[2] /\ w[2] < w[3] /\ w[3] < w[4]
  BY DEF Wrongs
<1>2. w[1] \in Int /\ w[2] \in Int /\ w[3] \in Int /\ w[4] \in Int
  BY <1>1
<1>3. \A k \in 1..4 : k = 1 \/ k = 2 \/ k = 3 \/ k = 4
  OBVIOUS
<1>4. QED
  BY <1>1, <1>2, <1>3

LEMMA DrawsAreDrawn ==
    ASSUME NEW type \in DOMAIN EngineOf, NEW band \in Int, NEW d \in Draws(type, band)
    PROVE  Drawn(type, band, d)
<1>1. EngineOf[type] \in {"series", "matrix", "odd"}
  BY DEF EngineOf
<1>2. CASE EngineOf[type] = "matrix"
  <2>1. d \in MatrixDraws
    BY <1>2 DEF Draws
  <2>2. d.wrong \in Wrongs(7)
    BY <2>1 DEF MatrixDraws
  <2>3. d.wrong \in [1..4 -> 1..7] /\ \A k, l \in 1..4 : d.wrong[k] = d.wrong[l] => k = l
    BY <2>2, WrongsDiffer
  <2>4. MatrixDraw(d)
    BY <2>1, <2>3 DEF MatrixDraws, MatrixDraw
  <2>5. QED
    BY <1>2, <2>4 DEF Drawn
<1>3. CASE EngineOf[type] = "series"
  <2> DEFINE n == IF band >= 2 THEN 10 ELSE 7
  <2>1. d \in SeriesDraws(band)
    BY <1>3 DEF Draws
  <2>2. d.wrong \in Wrongs(n) /\ n \in Nat
    BY <2>1 DEF SeriesDraws
  <2>3. d.wrong \in [1..4 -> 1..n] /\ \A k, l \in 1..4 : d.wrong[k] = d.wrong[l] => k = l
    <3> HIDE DEF n
    <3>1. QED
      BY <2>2, WrongsDiffer
  <2>4. SeriesDraw(band, d)
    BY <2>1, <2>3 DEF SeriesDraws, SeriesDraw
  <2>5. QED
    BY <1>3, <2>4 DEF Drawn
<1>4. CASE EngineOf[type] = "odd"
  <2>1. d \in OddDraws(band)
    BY <1>4 DEF Draws
  <2>2. OddDraw(band, d)
    BY <2>1 DEF OddDraws, OddDraw
  <2>3. QED
    BY <1>4, <2>2 DEF Drawn
<1>5. QED
  BY <1>1, <1>2, <1>3, <1>4

(* Whatever a request asks for and its stream brings, the right figure in  *)
(* whatever place and the wrong ones drawn in whatever order, the puzzle   *)
(* has one answer: a solver who knows only what is shown accepts the       *)
(* option of the key and no other, and no two options look alike.          *)
THEOREM AnyPuzzleHasOneAnswer ==
    ASSUME NEW type \in DOMAIN EngineOf, NEW band \in Int, band >= 1, NEW d, Drawn(type, band, d)
    PROVE  HasOneAnswer(Build(type, band, d))
<1>1. CASE EngineOf[type] = "series"
  BY <1>1, SeriesHasOneAnswer DEF Build, Drawn
<1>2. CASE EngineOf[type] = "matrix"
  BY <1>2, MatrixHasOneAnswer DEF Build, Drawn
<1>3. CASE EngineOf[type] = "odd"
  BY <1>3, OddHasOneAnswer DEF Build, Drawn
<1>4. EngineOf[type] \in {"series", "matrix", "odd"}
  BY DEF EngineOf
<1>5. QED
  BY <1>1, <1>2, <1>3, <1>4

LEMMA EveryPuzzleHas == EveryPuzzleHasOneAnswer
<1>1. {"A1", "A2", "A4"} \subseteq DOMAIN EngineOf
  BY DEF EngineOf
<1>2. \A band \in 1..4 : band \in Int /\ band >= 1
  OBVIOUS
<1>3. QED
  BY <1>1, <1>2, DrawsAreDrawn, AnyPuzzleHasOneAnswer DEF EveryPuzzleHasOneAnswer

-----------------------------------------------------------------------------
(* The theorems of Sourcing *)

(* The types of the variables, and the phases a run can be in.             *)
THEOREM SourcingTyped == Spec => []TypeOK
<1>1. SourcingInv => TypeOK
  BY DEF SourcingInv, BlobInv, RunInv, TypeOK
<1>2. QED
  BY <1>1, SourcingInvInit, SourcingInvStep, PTL DEF Spec

(* An item is saved only when every picture of it is stored: whatever      *)
(* fails, whoever crashes and whoever else puts the same picture, no item  *)
(* of the bank refers to a blob that is missing or torn, or carries one.   *)
THEOREM NoMediaDangles == Spec => []NoDanglingMedia
<1>1. SourcingInv => NoDanglingMedia
  BY DEF SourcingInv
<1>2. QED
  BY <1>1, SourcingInvInit, SourcingInvStep, PTL DEF Spec

(* Requests, their failures and the crashes of their processes use the     *)
(* blob store only as the store's own specification allows, so under them  *)
(* too it is the map a blob store promises.                                *)
THEOREM SourcingKeepsThePromise == Spec => BlobsKeepTheirPromise
<1>1. Init => BlobInit
  BY DEF Init
<1>2. Spec => BlobSpec
  BY <1>1, SourcingInvInit, SourcingInvStep, DrivesTheStore, PTL DEF Spec, BlobSpec
<1>3. QED
  BY <1>2, FileStoreImplementsBlobs

(* A fetch never brings more than its limit nor leaves anything behind     *)
(* without saying so, no question outgrows the payload cap, and none that  *)
(* a server asks is granted more tokens than the server's cap.             *)
THEOREM LimitsAlwaysHold == Spec => []LimitsHold
<1>1. Init => LimitsInv
  BY NewRunIsWithin DEF Init, LimitsInv
<1>2. QED
  BY <1>1, SourcingInvInit, SourcingInvStep, LimitsStep, LimitsFollow, PTL DEF Spec

(* A report never counts an item that is not in the bank, nor one twice,   *)
(* and a run whose specs were all refused does not end as a success,       *)
(* whatever fails, whoever crashes and whoever else saves the same items.  *)
THEOREM ReportsAreTruthful == Spec => []ReportIsTruthful
<1>1. Init => ReportInv
  <2>1. NewRun.specs = <<>> /\ NewRun.next = 1 /\ NewRun.saved = 0
    BY DEF NewRun
  <2>2. \A banked : ReportRun(banked, NewRun)
    BY <2>1, FreshReport
  <2>3. QED
    BY <2>2 DEF Init, ReportInv
<1>2. QED
  BY <1>1, SourcingInvInit, SourcingInvStep, ReportStep, ReportFollows, PTL DEF Spec

(* Once an id names a question, no later ingest, extraction, generation or *)
(* crash of one makes it name another: what an author did not write keeps  *)
(* its stimulus and its options for good.                                  *)
THEOREM IdsNameTheirContent == Spec => IdNamesContent
<1>1. SourcingInv /\ SourcingInv' /\ QuestionsInv /\ QuestionsInv' /\ [Next]_vars =>
         [\A id \in DOMAIN bank : bank[id].origin # "authored" =>
            /\ id \in DOMAIN bank'
            /\ bank'[id].stimulus = bank[id].stimulus
            /\ bank'[id].options = bank[id].options]_vars
  BY QuestionsStay
<1>2. QED
  BY <1>1, SourcingInvInit, SourcingInvStep, QuestionsInit, QuestionsStep, PTL DEF Spec, IdNamesContent

(* However the runs that fetch a codebook or a quiz interleave with the    *)
(* others, an item of theirs in the bank has the words its source marks as *)
(* alike for stem and key, or the label its source calls correct.          *)
THEOREM KeysAreAsMarked == Spec => []KeyedAsMarked
<1>1. QED
  BY SourcingInvInit, SourcingInvStep, QuestionsInit, QuestionsStep, KeysFollow, PTL DEF Spec

(* What a generator leaves in the bank has one answer: so has every puzzle *)
(* an engine can draw.                                                     *)
THEOREM PuzzlesHaveOneAnswer == Spec => []GeneratedHasOneAnswer
<1>1. GeneratedHasOneAnswer
  BY EveryPuzzleHas DEF GeneratedHasOneAnswer
<1>2. QED
  BY <1>1, PTL
=============================================================================
