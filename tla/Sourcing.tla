------------------------------ MODULE Sourcing ------------------------------
(***************************************************************************)
(* How items come into the bank: ingest (fetch, normalize, save), LLM      *)
(* extraction (fetch, join, complete, save), generation and manual         *)
(* authoring (media offloaded part by part, then the item saved). Requests *)
(* run concurrently, in a server and beside it in command-line processes   *)
(* that share the database and the blob directory, and any process may     *)
(* die between two steps.                                                  *)
(*                                                                         *)
(* An operator named ...Bug is a plausible slip in the one it precedes,    *)
(* used only to show which property notices.                               *)
(***************************************************************************)
EXTENDS Normalizers, Fetching, Rulegen, BlobStore

CONSTANTS
    Requests,       \* name of a request -> its parameters
    MayAsk,         \* client -> the names of the requests it may make
    Backend,        \* what the LLM backend may answer: a set of HTTP answers
    Streams,        \* seed -> the draws of its random stream
    Servers,        \* the processes that serve; any other is a run of the command line
    TokensCap,      \* MaxTokensCap of the server's configuration
    AllowedModels   \* its AllowedModels

(* Base64, with something in it; any other data URI is as good as a URL.   *)
IsInline(ref) == ref[1] = "data"

(* A hash of content type and bytes: one name for one content.             *)
ContentRef(ref) == BlobRef(ref[2])

MediaOf(snap) == {part.ref : part \in Range(snap.stimulus) \cup Range(snap.options)} \ {NoMedia}

(* What a request hands in complete. *)
HandedIn(req) ==
    CASE req.kind = "author"   -> {req.spec}
      [] req.kind = "generate" -> IF Generable(req) THEN Range(Generated(req, Streams[req.seed])) ELSE {}
      [] OTHER                 -> {}

SpecFields == {"id", "source", "origin", "redist", "type", "band", "stimulus", "format", "options", "key"}
PartFields == {"text", "kind", "ref"}

(* An author hands in parts with pictures in them or links. A reference to *)
(* stored bytes would pass unchecked, but no caller hands one in. An       *)
(* engine draws four wrong options and a place among five. Refs is all     *)
(* that may be put.                                                        *)
ASSUME MediaAssumption ==
    \A name \in DOMAIN Requests : LET req == Requests[name] IN
        /\ req.kind \in {"ingest", "extract", "generate", "author"}
        /\ req.kind = "author" =>
              /\ SpecFields \subseteq DOMAIN req.spec
              /\ \A parts \in {req.spec.stimulus, req.spec.options} :
                    /\ DOMAIN parts = 1..Len(parts) /\ Len(parts) \in Nat
                    /\ \A k \in DOMAIN parts : PartFields \subseteq DOMAIN parts[k]
              /\ \A k \in DOMAIN req.spec.options : "id" \in DOMAIN req.spec.options[k]
        /\ req.kind = "generate" /\ Generable(req) =>
              \A i \in 1..req.count : LET draw == Streams[req.seed][i]
                                     IN  draw.wrong \in [1..4 -> Nat] /\ draw.at \in 1..5
        /\ \A spec \in HandedIn(req) : \A ref \in MediaOf(spec) :
              /\ IsInline(ref) => ContentRef(ref) \in Refs
              /\ req.kind = "author" /\ ~IsInline(ref) => ref \notin Refs

IsList(seq) == seq \in Seq(Range(seq))

Fetching(req) == req.kind \in {"ingest", "extract"}

(* What is asked of a source: its URLs, their files and the limits are of  *)
(* their types, and every character has a width.                           *)
ASSUME SourceAssumption ==
    \A name \in DOMAIN Requests : LET req == Requests[name] IN
        Fetching(req) =>
            /\ req.limit \in Int
            /\ req.kind = "extract" => req.tokens \in Int
            /\ IsList(req.source.urls)
            /\ \A k \in DOMAIN req.source.urls : LET brings == req.source.urls[k].files IN
                  /\ IsList(brings)
                  /\ \A n \in DOMAIN brings : brings[n].size \in Nat /\ brings[n].width \in Nat \ {0}

(* All of a source: what the server's fetchers bring when no limit is set. *)
Whole(source) == Fetched(ServerFetchers, source, 0).items

ASSUME CapAssumption == PayloadCap \in Nat /\ TokensCap \in Int

Sources == {Requests[r].source : r \in {n \in DOMAIN Requests : Requests[n].kind = "ingest"}}

(* A source asks each of its questions once: it has one codebook of words, *)
(* with one line for each, and no two quiz pages of one subtest share any. *)
(* A subtest's code is two letters.                                        *)
ASSUME OnceAssumption ==
    \A source \in Sources : LET all == Whole(source) IN
        /\ source.id = "viqt" => \A n \in DOMAIN all : all[n].suffix = "codebook.txt" =>
              LET lines == all[n].says
              IN  /\ Artifacts(all, "codebook.txt") = {n}
                  /\ IsList(lines) /\ \A k \in DOMAIN lines : IsList(lines[k].words)
                  /\ \A k, l \in DOMAIN lines : lines[k].name = lines[l].name => k = l
        /\ source.id = "asvab" => \A m, n \in DOMAIN all :
              LET page == all[m].says
                  other == all[n].says
              IN  /\ IsList(page.titles) /\ IsList(page.answers) /\ IsList(page.configs)
                  /\ page.code # "llm"
                  /\ \A k \in DOMAIN page.titles, l \in DOMAIN other.titles :
                        page.code = other.code /\ page.titles[k].q = other.titles[l].q => m = n

(* A completion that parses carries a list of candidates, each of which    *)
(* has a list of options.                                                  *)
ASSUME AnswerAssumption ==
    \A answer \in Backend : LET out == Completion(answer) IN
        out.err = "" /\ out.content.json =>
            IsList(out.content.items) /\ \A cand \in Range(out.content.items) : IsList(cand.options)

(* The difficulty asked of a generator is a number; no id is that of none. *)
ASSUME BatchAssumption ==
    /\ \A name \in DOMAIN Requests : Requests[name].kind = "generate" => Requests[name].difficulty \in Int
    /\ NoId = <<>>

(* An id begins with the source it is from, or the generator's name. What  *)
(* is made under those names is made by the code; an author signs his own  *)
(* items and gives them other names. The sources of one name are one.      *)
Makers == {"gen"} \cup {Requests[r].source.id : r \in {n \in DOMAIN Requests : Fetching(Requests[n])}}

ASSUME NamesAssumption ==
    /\ \A source, other \in Sources : source.id = other.id => source = other
    /\ \A name \in DOMAIN Requests : LET req == Requests[name] IN
          req.kind = "author" => req.spec.origin = "authored" /\ req.spec.id[1] \notin Makers

VARIABLES
    bank,       \* item id -> snapshot: the repository of items
    runs,       \* client -> its request and how far it has come
    crashed     \* processes that have died (bound: each dies once at most)

vars == <<files, temps, mutex, bank, runs, crashed>>

NewRun == [req |-> "", phase |-> "idle", specs |-> <<>>, next |-> 1, fetched |-> 0, partial |-> FALSE,
           saved |-> 0, skipped |-> 0, asked |-> 0, tokens |-> 0, err |-> ""]

Init ==
    /\ BlobInit
    /\ bank = [id \in {} |-> NewRun]
    /\ runs = [c \in Clients |-> NewRun]
    /\ crashed = {}

Request(c) == Requests[runs[c].req]
Authoring(c) == Request(c).kind \in {"generate", "author"}

AtServer(c) == ProcessOf[c] \in Servers

(* What the composition root gave the services a request runs in: the      *)
(* command line has the fewer fetchers and no clamp hook.                  *)
Wired(c, kind) == IF AtServer(c) THEN ServerFetchers ELSE CommandFetchers[kind]
CapOf(c)       == IF AtServer(c) THEN TokensCap ELSE 0
ModelsOf(c)    == IF AtServer(c) THEN AllowedModels ELSE {}

Update(c, run) == runs' = [runs EXCEPT ![c] = run]

Ended(run, err) == [run EXCEPT !.phase = "ended", !.err = err]

(* Specs to save, or the error that ends the run.                          *)
Storing(run, found) ==
    IF found.err # "" THEN Ended(run, found.err) ELSE [run EXCEPT !.phase = "storing", !.specs = found.specs]

-----------------------------------------------------------------------------
(* A request arrives. The normalizer is looked up before anything is       *)
(* fetched; a generated batch and an authored item are complete at once.   *)
Begin(c, name) ==
    LET req == Requests[name]
        run == [NewRun EXCEPT !.req = name]
    IN  /\ runs[c].phase = "idle" /\ ProcessOf[c] \notin crashed
        /\ name \in MayAsk[c]
        /\ Update(c,
             CASE req.kind = "ingest" ->
                    IF req.source.id \in Registered THEN [run EXCEPT !.phase = "fetching"]
                    ELSE Ended(run, "no normalizer")
               [] req.kind = "extract" -> [run EXCEPT !.phase = "fetching"]
               [] req.kind = "generate" ->
                    IF Generable(req)
                    THEN Storing(run, SomeSpecs(Generated(req, Streams[req.seed])))
                    ELSE Ended(run, "invalid spec")
               [] req.kind = "author" ->
                    IF ValidItem(req.spec) THEN Storing(run, SomeSpecs(<<req.spec>>))
                    ELSE Ended(run, "invalid item"))
        /\ UNCHANGED <<blobVars, bank, crashed>>

(* The fetcher answers; what it brought is normalized, or joined into the  *)
(* payload of one question.                                                *)
Fetch(c) ==
    LET req == Request(c)
        got == Fetched(Wired(c, req.kind), req.source, req.limit)
        run == [runs[c] EXCEPT !.fetched = Len(got.items), !.partial = got.partial]
    IN  /\ runs[c].phase = "fetching"
        /\ Update(c,
             IF req.kind = "ingest" THEN Storing(run, Normalize(req.source, got.items))
             ELSE IF PayloadSize(got.items) = 0 THEN Ended(run, "no payload")
             ELSE [run EXCEPT !.phase = "asking", !.asked = PayloadSize(got.items)])
        /\ UNCHANGED <<blobVars, bank, crashed>>

(* The stored prompt is rendered, a clamp hook runs, the backend answers.  *)
Ask(c, answer) ==
    LET req == Request(c)
        run == [runs[c] EXCEPT !.tokens = Clamped(req.tokens, CapOf(c))]
        out == Completion(answer)
    IN  /\ runs[c].phase = "asking"
        /\ Update(c,
             IF ~Allowed(req.model, ModelsOf(c)) THEN Ended(runs[c], "model not allowed")
             ELSE IF out.err # "" THEN Ended(run, out.err)
             ELSE Storing(run, ExtractSpecs(req.source, req.type, out.content)))
        /\ UNCHANGED <<blobVars, bank, crashed>>

(* A URL does not answer, no prompt is stored for the purpose, the context *)
(* ends: nothing was stored and the run is over.                           *)
CallFails(c) ==
    /\ runs[c].phase \in {"fetching", "asking"}
    /\ Update(c, Ended(runs[c], "failed"))
    /\ UNCHANGED <<blobVars, bank, crashed>>

-----------------------------------------------------------------------------
(* The spec at the head of the queue.                                      *)

Head_(c) == runs[c].specs[runs[c].next]
Busy(c) == runs[c].phase = "storing" /\ runs[c].next \in DOMAIN runs[c].specs

(* Media goes stimulus first, then options, each in order.                 *)
InlineParts(parts) == {k \in DOMAIN parts : IsInline(parts[k].ref)}

NextInline(spec) ==
    IF InlineParts(spec.stimulus) # {} THEN spec.stimulus[Min(InlineParts(spec.stimulus))].ref
    ELSE spec.options[Min(InlineParts(spec.options))].ref

MustOffload(c) ==
    Busy(c) /\ Authoring(c) /\ (InlineParts(Head_(c).stimulus) # {} \/ InlineParts(Head_(c).options) # {})

(* The part's reference becomes the content reference.                     *)
Rewritten(spec) ==
    LET parts == IF InlineParts(spec.stimulus) # {} THEN spec.stimulus ELSE spec.options
        new == [parts EXCEPT ![Min(InlineParts(parts))].ref = ContentRef(@)]
    IN  IF InlineParts(spec.stimulus) # {} THEN [spec EXCEPT !.stimulus = new] ELSE [spec EXCEPT !.options = new]

Offload(c) ==
    LET ref == ContentRef(NextInline(Head_(c)))
        done == Update(c, [runs[c] EXCEPT !.specs[runs[c].next] = Rewritten(@)])
    IN  /\ MustOffload(c)
        /\ \/ PutKnown(c, ref) /\ done
           \/ PutCreate(c, ref) /\ UNCHANGED runs
           \/ PutWrite(c, ref) /\ UNCHANGED runs
           \/ PutRename(c, ref) /\ done
        /\ UNCHANGED <<bank, crashed>>

(* A system call of the blob store fails: the run ends at this item.       *)
OffloadFails(c) ==
    /\ MustOffload(c)
    /\ PutFails(c)
    /\ Update(c, Ended(runs[c], "store"))
    /\ UNCHANGED <<bank, crashed>>

(* NewItem rejects a spec that was fetched or extracted: it is skipped.    *)
Skip(c) ==
    /\ Busy(c) /\ ~Authoring(c) /\ ~ValidItem(Head_(c))
    /\ Update(c, [runs[c] EXCEPT !.next = @ + 1, !.skipped = @ + 1])
    /\ UNCHANGED <<blobVars, bank, crashed>>

(* Media is left for later. *)
SavableBug(c) == Busy(c) /\ (Authoring(c) \/ ValidItem(Head_(c)))

Savable(c) == Busy(c) /\ ~MustOffload(c) /\ (Authoring(c) \/ ValidItem(Head_(c)))

Save(c) ==
    LET spec == Head_(c)
    IN  /\ Savable(c)
        /\ bank' = [id \in DOMAIN bank \cup {spec.id} |->
                        IF id = spec.id THEN Snapshot(spec) ELSE bank[id]]
        /\ Update(c, [runs[c] EXCEPT !.next = @ + 1, !.saved = @ + 1])
        /\ UNCHANGED <<blobVars, crashed>>

(* The repository fails, or the context ends between two saves.            *)
SaveFails(c) ==
    /\ Savable(c)
    /\ Update(c, Ended(runs[c], "store"))
    /\ UNCHANGED <<blobVars, bank, crashed>>

(* A run of which nothing survived is an error.                            *)
FinishBug(c) ==
    /\ runs[c].phase = "storing" /\ runs[c].next > Len(runs[c].specs)
    /\ Update(c, Ended(runs[c], ""))
    /\ UNCHANGED <<blobVars, bank, crashed>>

Finish(c) ==
    LET run == runs[c]
    IN  /\ run.phase = "storing" /\ run.next > Len(run.specs)
        /\ Update(c, Ended(run, IF run.specs # <<>> /\ run.saved = 0 THEN "all rejected" ELSE ""))
        /\ UNCHANGED <<blobVars, bank, crashed>>

(* A process dies: what it held in memory is gone, the rest stays.         *)
Crash(p) ==
    /\ p \notin crashed
    /\ crashed' = crashed \cup {p}
    /\ LoseProcess(p)
    /\ runs' = [c \in Clients |-> IF ProcessOf[c] = p THEN NewRun ELSE runs[c]]
    /\ UNCHANGED bank

Next ==
    \/ \E c \in Clients :
        \/ \E name \in DOMAIN Requests : Begin(c, name)
        \/ Fetch(c)
        \/ \E answer \in Backend : Ask(c, answer)
        \/ CallFails(c)
        \/ Offload(c) \/ OffloadFails(c)
        \/ Skip(c) \/ Save(c) \/ SaveFails(c) \/ Finish(c)
    \/ \E p \in Processes : Crash(p)

Spec == Init /\ [][Next]_vars
-----------------------------------------------------------------------------
(* Properties.                                                             *)

(* The types of the variables. *)
TypeOK ==
    /\ \A ref \in DOMAIN files : files[ref] \in {"torn", "whole"}
    /\ \A c \in Clients : runs[c].phase \in {"idle", "fetching", "asking", "storing", "ended"}
    /\ \A p \in Processes : mutex[p] \in Clients \cup {NoOne}
    /\ crashed \subseteq Processes

(* Media is stored part by part before the item that refers to it, with    *)
(* failures and crashes in between: an item of the bank never refers to a  *)
(* blob that is missing or cut short, and none of the generator's or an    *)
(* author's keeps its media inline.                                        *)
NoDanglingMedia ==
    \A id \in DOMAIN bank : \A ref \in MediaOf(bank[id]) :
        /\ ref \in Refs => ref \in DOMAIN files /\ files[ref] = "whole"
        /\ ~IsInline(ref)

(* While runs interleave and fail half way, what a report counts as saved  *)
(* is that many different items, all of them in the bank, and a run that   *)
(* produced specs and saved none is no success (ErrAllRejected).           *)
ReportIsTruthful ==
    \A c \in Clients :
        LET run  == runs[c]
            kept == {k \in 1..run.next - 1 : ValidItem(run.specs[k])}
        IN  /\ run.saved = Cardinality({run.specs[k].id : k \in kept})
            /\ \A k \in kept : run.specs[k].id \in DOMAIN bank
            /\ run.phase = "ended" /\ run.err = "" /\ run.specs # <<>> => run.saved > 0

(* An id says what the item asks: re-extracting, re-generating and         *)
(* re-ingesting, by whichever process, may grade an item anew but never    *)
(* turns it into another question under the same id.                       *)
IdNamesContent ==
    [][\A id \in DOMAIN bank : bank[id].origin # "authored" =>
            /\ id \in DOMAIN bank'
            /\ bank'[id].stimulus = bank[id].stimulus
            /\ bank'[id].options = bank[id].options]_vars

KeyText(snap) == (CHOOSE o \in Range(snap.options) : o.id = snap.key.option).text

(* What the source marks as the answer is what the item is keyed with: the *)
(* two words whose bits a codebook's answer sets are the stem and the key, *)
(* and the keyed label of a quiz is one its configuration calls correct.   *)
KeyedAsMarked ==
    \A source \in Sources : \A raw \in Range(Whole(source)) :
        /\ source.id = "viqt" /\ raw.suffix = "codebook.txt" => \A q \in Range(raw.says) :
              LET id == <<source.id, q.name>>
                  marked == {q.words[k] : k \in {b \in DOMAIN q.words : (q.code \div (2 ^ (b - 1))) % 2 = 1}}
              IN  id \in DOMAIN bank => marked = {bank[id].stimulus[1].text, KeyText(bank[id])}
        /\ source.id = "asvab" => \A q \in {t.q : t \in Range(raw.says.titles)} :
              LET id == <<source.id, raw.says.code, q>>
              IN  id \in DOMAIN bank => <<q, bank[id].key.option>> \in UNION {g.correct : g \in Range(raw.says.configs)}

(* Limits at their edges: a fetch never brings more than was asked for and *)
(* leaves nothing behind without saying so; a question to the model is     *)
(* within the payload cap and, asked by a server, its answer within the    *)
(* server's token cap, even if the request named none; the command line    *)
(* asks with no cap at all (main.go:592).                                  *)
LimitsHold ==
    \A c \in Clients : runs[c].fetched > 0 =>
        LET all == Len(Fetched(Wired(c, Request(c).kind), Request(c).source, 0).items)
        IN  /\ Request(c).limit > 0 => runs[c].fetched <= Request(c).limit
            /\ runs[c].partial \/ runs[c].fetched = all
            /\ runs[c].asked <= PayloadCap
            /\ AtServer(c) /\ TokensCap > 0 =>
                  /\ runs[c].tokens <= TokensCap
                  /\ runs[c].phase = "storing" /\ runs[c].asked > 0 => runs[c].tokens > 0

(* Whatever the stream of a generator brings, the puzzle it stores has one *)
(* answer, found by a solver that knows only what the puzzle shows.        *)
GeneratedHasOneAnswer ==
    (\E id \in DOMAIN bank : bank[id].source = "rulegen") => EveryPuzzleHasOneAnswer
=============================================================================
