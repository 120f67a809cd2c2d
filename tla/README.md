# testmaker, verified

A TLA+ development kept beside [testmaker](../src/README.md), a Go server (with a
React console and player) that builds a bank of aptitude-test items from public
sources, composes tests from it, administers attempts and scores them. It states
what the code promises where several actors meet, checks it with TLC on small
instances, and proves the most important of it with TLAPS for every instance.

- [The system](#the-system)
- [Modules](#modules)
- [What the runs show](#what-the-runs-show)
- [What is proved](#what-is-proved)
- [Where code and documentation part](#where-code-and-documentation-part)
- [What is not modelled](#what-is-not-modelled)

## The system

One process (`cmd/testmaker`) serves HTTP; everything below it is packages behind
ports. State lives in a test database (sqlite, or memory), a blob store, prompt
files, a catalogue file with its mirror in memory, and in the process itself (job
registry, semaphore, rate-limit buckets).

| Component | State | Operations | Hard part |
|---|---|---|---|
| session aggregate, `domain/session` | one attempt: state, presented item, responses, version | Begin, Record, Complete, Abandon; next item fixed-increasing or by staircase | order and uniqueness of items, budget, ended attempts |
| execution service, `app/execution` | none; between load and save a copy of the attempt | Start, Answer, Complete | optimistic concurrency, the live bank, the clock |
| test database, `memorytestdb`, `sqlitetestdb` | items, tests, sessions; the schema version of a file | Save, Get, List, Delete; open and migrate | two back ends that must decide alike, processes that migrate one file |
| player page, `web/src/player` | item on screen, working answer, countdown, one request in flight | start, submit, complete | lost and late requests, callbacks with stale values |
| async ingest, `cmd/testmaker` jobs and semaphore | registry, slots, one goroutine per job | create, poll, list; acquire, release | panics, deadlines, pruning, starvation |
| rate limiter, `cmd/testmaker` | a token bucket per client address | allow, sweep | cap, refill, a clock set back |
| catalogue, `app/catalog` | file, in-memory repository | upload, sync, get | uploads and syncs that overlap, crash while writing |
| ingest pipeline, `app/ingest`, fetchers, LLM client | none; writes the bank | Ingest, IngestLLM | partial failure, repetition, limits, ids |
| authoring, `app/authoring`, `domain/testset`, `domain/item` | none; writes bank, blobs, tests | Generate, Author, Compose | media stored before its item, a bank that moves |
| generator, `rulegen` | none (a seed) | Generate | one answer for every draw |
| blob stores, `fsblob`, `memoryblob` | content-addressed files | Put, Get | crash, several processes on one directory |
| scoring, `app/scoring`, `domain/scoring` | none; reads attempts and bank | Score | staircase estimate, bank edited since |
| auth, invites and configuration, `cmd/testmaker` | `config.json`; signed tokens are kept by their holders | load, save, mint, verify, require | restarts, races of two first starts, expiry |
| prompt stores, `fileprompts`, `memoryprompts` | YAML files | Put, Get, List, Delete, ByPurpose | files edited under a reader |

**How they interact.** The player calls the HTTP surface, which calls Execution;
Execution reads the bank and reads and writes sessions. The operator's console
edits the bank under running attempts, uploads catalogues and starts ingests
that write the bank. Scoring reads a finished attempt and the bank as it is
then. Nothing sends messages in the background except ingest runners, and the
only locks are inside stores, the registry and the limiter: every sequence of
two store calls can be interleaved with another request.

**What makes each correct.** An attempt: no item twice, sections in order, nothing
past the budget, answers never rewritten, every race equal to some sequence of
atomic requests. The player: what it submits is what the taker chose for that
item, and it gets to the end. Jobs: polls tell the truth, slots balance, runs
stay bounded, all settle. The limiter: no window above burst plus refill. The
catalogue: the file is always one upload in full, and a sync that runs alone mirrors it. The bank: both stores answer
alike, a stored test can be run, an old file is brought up to date once. Sourcing:
no item refers to media that is not there, an id never changes its question, a
report says what was done. A generated puzzle has one answer. A score is frozen
with the attempt and its feedback is true to the bank as far as that still is what
was answered. Takers keep to their invites, and tokens outlive restarts.
`PROJECT.json` lists each hazard at its line, with the properties that watch it.

## Modules

```
Session        pure transitions of the aggregate, no variables
 `- Attempt        abstract: the persisted attempt, one atomic step per request
      |- Execution    concurrent requests; implements Attempt   (Atomic == INSTANCE Attempt)
      |- TakePlayer   the page and the network over it          (EXTENDS Attempt)
      `- Scoring      the score of it, over a bank that changes  (EXTENDS Attempt)

Items, Testset         what NewItem and NewTest let through; pure
 `- Schema, TestDb        an old database file; the two stores side by side
      `- Composition        composing tests, paging listings
Items
 `- Normalizers, Fetching, Rulegen    what a source, a model or a seed becomes; pure
      `- Sourcing             ingest, extraction, generation, authoring
           `- BlobStore          the files of media; implements Blobs (Promise == INSTANCE Blobs)

IngestJobs     RateLimiter     CatalogSync     Access

Lists          loops over a slice: what is kept of it, what it adds up to; pure
```

Each `MC...` module gives TLC the constants of one component; the `...Proofs` modules
hold the theorems. `SessionProofs` has the lemmas on the pure operators that
`AttemptProofs` and the two that extend it share: `ExecutionProofs`, and
`DeliveryProofs` about `TakePlayer` and `Scoring`; `ListProofs` has those on loops over
lists; `ServerProofs` is about `IngestJobs`, `Access` and `RateLimiter`, `StorageProofs` about
`CatalogSync`, `Schema`, `TestDb` and `Composition`, `SourcingProofs` about
`BlobStore` and `Sourcing`: their definitions have names of their own so that one
module can extend several of them. Operators named `...Bug` are plausible slips of the
operator they precede. Nothing uses them: each property has one, named under "mutants"
in `PROJECT.json`, that breaks it.

**Session.** A session value is a record; a Go method is a guard (`CanRecord`)
and an effect (`Record`). `SelectNext` is `selectNext` with both policies. A
response keeps the fields a property tells apart. Content, titles, families and
per-item deadlines (advisory: they change no state) are left out. Instants are
naturals, 0 is Go's zero time; a numeric answer that is not finite (`NonFinite`) is
refused, as `Record` does. *The plan a Start hands over* is assumed valid
(`validateSpec`), as is each constant the configuration validates.

**Attempt.** The variable is the persisted row. `Start`, `Answer`, `Complete`
and `Abandon` apply a transition to the row and bump its version: what the
service and store promise together.

**Execution.** `call[h]` is the goroutine of one request; a step ends wherever
another request may run: `AnswerCall` and `CompleteCall` are `load`, `ReadClock`
is `clock.Now`, `Grade`, `Close`, `Abandon` and `Reject` are the transition or
its error return, `Fetch` and `FetchFails` are the content read of
`persistAndDeliver`, `Commit` and `Conflict` are `SaveSession` with the guard of
the chosen back end. A request may die anywhere (`Drop`); the operator may
replace or delete items (`EditBank`); the clock moves (`MoveClock`), backwards if
`Hazards` says so. Snapshots strip Go's monotonic reading, so a clock set back is
visible to the guards.

**TakePlayer.** `phase`, `shown`, `work`, `fired` and `req` are the hook's and the
view's React state; `req.status # "none"` is the `inFlight` lock. `Accept` and
`Refuse` are the server, `Fault` a request that fails, is lost, loses its reply or
is given up on but may still be served (`ServeStray`). The grade is the bank's to give
and may be either: a blank number travels as 0, which can be the key. `ShowNext` has the two
outcomes of one render: the working answer reset in time, or an expired countdown
that runs first and submits the old one. A reload or second tab starts an attempt
of its own, so one tab is modelled.

**IngestJobs.** Registry operations are one step each (one mutex). A runner is a
phase per job; the channel semaphore is a count and the queue of blocked senders,
a release handing its slot to the first of them as Go's runtime does. `Release` is
the deferred call: after the outcome is recorded, but before it when the run
panicked. Deadlines (`Expire`) may pass at any phase.

**RateLimiter.** `Allow` and `Refuse` are the two verdicts of `allow`, each with
the opening (and sweep) and refill before it. Tokens are exact multiples of
1/`Unit`, where the code has float64. `admitted`, `since` and `stepped` are
observers: `Observe` begins a new window at any request, so the invariant speaks of
every window; `stepped` remembers that the wall clock was set back.

**CatalogSync.** A request is one upload or sync. `Upload` (which creates the
temporary file, torn until it is written), `WriteTemp` and `Rename` are the system
calls of `atomicWrite`, `WriteFails` its error returns with their deferred `Remove`;
each store call of `Sync` is a step. `temps` are the temporary files: `Restart` loses
requests and rebuilds the mirror, but leaves those where they are.

**Items, Testset, TestDb, Schema, Composition.** `ValidItem` and `ValidTest` are the
constructors, `Matches` the in-memory filter. Every write and read of `TestDb` is
served by both stores at once, so that a difference is a violated invariant: the
maps of snapshots, and rows whose document must survive JSON and is found by
generated columns. `Schema` opens a file of any earlier build from several
processes, one transaction per migration, any of which may fail or be the
process's last. `Composition` composes section by section over a bank that moves,
opens the file first, and cuts pages with the width of an int.

**Fetching, Normalizers, Rulegen.** Pure. A URL is what it would answer; a file is
its suffix, its size and what its text says. A random stream is the sequence of
draws a puzzle pulls from it; a drawing is the name of what it shows, and the
solver of `EveryPuzzleHasOneAnswer` sees only that.

**Sourcing.** A run holds the specs it has yet to save. `Fetch`, `Ask`, one system
call of a media file (`Offload`), `Save` and `Skip` are steps, each of which may
fail instead; `Crash` ends a process and all its runs. What a run is wired
with depends on its process: a server has all fetchers and the clamp hook, the command
line fewer fetchers and no hook (`Wired`, `CapOf`, `ModelsOf`). `BlobStore` has the state of
`fsblob`: files, temporary files and a mutex per process; its operators are called
from `Offload`. `Blobs` is what both blob stores promise, and all `memoryblob` is.

**Scoring.** `AskScore` freezes the aggregate part; `ReadItem` adds one line of
feedback from the live bank, which `EditBank` may have changed. `stale` remembers
the items touched since they were answered. A fraction stands for a float64.

**Access.** `phase` and `mem` are an instance's start and the config it then keeps;
`file` is `config.json`. `TruncateConfig` and `WriteConfig` are the two halves of
`os.WriteFile`. A token is a record with the secret it was signed with, and is
believed by whoever holds that secret; `held` says who was given it. Minting refuses
to sign with an empty secret, verifying does not refuse to compare with one, so tokens
signed with it (`Unkeyed`) may be presented by anybody. `Guarded` is an instance that
enforces its mode and has a secret to do so. The gates are
the `Require...` operators, the verbs behind them that change what Access sees are
`HandleMintInvite`, `HandleStartSession` and `HandleInviteStart`; the verbs on an
attempt are in Execution. `asked` and `raced` are observers: what each invite was
asked for, and whether two first starts made a secret each.

## What the runs show

| Run | Instance | Shows |
|---|---|---|
| `attempt` | 5 items: a section of 4 with a repeated band, bands out of order and a gap, then a single; budget 2; instants 1, 3, 4, in any order; one edit of the bank | every property of one attempt and of its score; the estimate stays within what was delivered, feedback is true |
| `execution_faults` | 2 requests, 2 items, sqlite, budget 1, dying requests, bank edits, clock set back | every interleaving is an atomic attempt; conflicts are real |
| `execution_progress` | 2 tabs, 2 items, memory, untimed, no faults, an answer that is not finite | a taker who keeps answering exhausts the plan |
| `take` | 2 items, 2 faults, item deadlines and a budget | no answer graded for another item, no early end, acknowledged is recorded; undisturbed takers finish |
| `jobs` | 3 jobs, registry of 2, 2 slots, a recurring sync caller | slots, bounds, truthful polls, eviction order; every job settles |
| `rate_limit` | 3 clients, map of 2, burst 2, clock up to 3 that may be set back | the limit in every window; Retry-After |
| `catalog_sync` | 3 sources, 3 catalogues, 2 requests, failures and restarts between any two system calls | an upload replaces the file whole or not at all; a lone sync mirrors; an agreed source stays |
| `bank` | 3 item ids, 13 items to save (two of them with numbers JSON has no word for), 4 test requests, 2 processes opening a file of any earlier build | the stores agree, stored tests can be run and hold the easiest, pages cover the listing, migrations run once and lose nothing |
| `sourcing` | 21 requests by two clients of a server and one command line, crashes included | no dangling media, ids keep their question, reports and limits hold, keys are as marked, puzzles have one answer, the files are the abstract store |
| `access` | 2 instances, 2 takers, 2 attempts, 4 secrets, 5 files a first start may find, invites for 0, 1 and far too many seconds | at an instance with a secret, takers keep to their invites and attempts; tokens verify everywhere unless two first starts overlapped |
| `execution_wedge`, `take_overtime` | as `execution_faults` and `take` | the [findings](#where-code-and-documentation-part): these two expect a violation |

**Bounds.** Two requests suffice for every pairwise race of an optimistic write; the
theorems lift it to any number. `Time` is a set of instants rather than a counter:
with a budget of one or two it holds instants before, at and after the deadline. The
fixed-increasing policy and the memory store are what `take` and `execution_progress`
run on, the staircase and sqlite what `attempt` and `execution_faults` do; the
theorems cover both of each. Two items, in one section or two, let a stale request
name an answered, the presented or no item. `MaxFaults` is 2: one request served late
while its retry is lost. Three jobs over a registry of two make pruning choose between
two outcomes, or between an outcome and a running job; with the sync caller there are
four contenders for two slots. In `bank` the file is opened while nothing else is
going on (`Unused`) and requests come when every process has it open (`Up`):
migrations touch no row a request could see in between, because a server serves only
after its own opening. `EditsBound` is 1 in `attempt`, one item replaced or removed
for each report. `crashed` lets each process of `sourcing` die once; what survives a
crash is only files and rows, and a second death finds nothing a first does not leave.
In `access`, four secrets are two first starts that overlap; a duration is 4 bits
wide, so that 5 seconds come out negative and 9 come round to one; one invite is
minted, to either taker, and the clock runs past its end in each case. `MaxClock`
bounds the limiter's clock at the time a drained bucket takes to refill a token and a
half, enough to be refused, to be let in again and to be refused anew. Symmetry is
used for safety only, on model values no definition tells apart. Deadlock checking is
off everywhere: attempts end, id sets and clocks run out, and a config file torn by a
crash stops every later start. Evaluating `EveryPuzzleHasOneAnswer`, a constant, takes
TLC some 15 seconds before it starts.

**Fairness.** `Execution`: weak on `Serve`, as Go runs its goroutines, and strong on
the taker's answering. It must be strong because the other tab can, between two
of the taker's chances, keep the handler busy or the attempt between items. It
says a taker who is again and again shown an item answers again and again.
`TakePlayer`: weak on the server, the page's callbacks and timers, and a present
taker's submission; none on faults or the clock. `IngestJobs`: weak on each runner
and on a sync request's return, because fetch and model clients have timeouts; none
on callers or deadlines. Weak fairness of a blocked runner is enough because the
channel's queue is first come, first served.

## What is proved

All modelled components have proofs for *every* value of the constants: any plan,
budget, set of instants, number of concurrent requests, back end, hazards, network
faults, clients, rate, burst, jobs, callers, slots, catalogues, instances, takers,
secrets, processes, items, filters, test requests, page parameters, sources and
answers of a model. The proofs rest on the named ASSUMEs of those modules only. Most
of these bound a parameter the way the code or its configuration does. The others say
what reaches the model from code outside it:

- `NumberAssumption` (Session): an answer that is not finite is an answer;
  `PlayerAssumption` (TakePlayer): JSON carries none. The
  bank's keys are of the others.
- `NormAssumption` (Scoring): the mean and the deviation of a norm table are whole
  numbers, the deviation above 0 (`Valid`).
- `ContentAssumption` (Scoring): the bank holds what `NewItem` let through, each key
  with a value in the field of its format, and different numbers print differently
  (`ToString`).
- `RequestAssumption` and `PageAssumption` (Composition): a request decodes to numbers
  and ids of their types, and a listing and a page together are shorter than the
  largest int.
- `MediaAssumption` (Sourcing): an author hands in pictures as data URIs or links,
  never the reference of bytes stored for something else, which the code would let
  through unchecked (`offload.go:55-60`) and no caller hands in; an engine draws what
  its lists have.
- `SourceAssumption`, `AnswerAssumption` and `BatchAssumption` (Sourcing): what a
  source answers and what a parsed completion holds are lists where the code reads
  slices, a difficulty is an int. `CapAssumption`: the caps are numbers, as their Go
  types say.
- `OnceAssumption` (Sourcing): a source asks each question once. It has one codebook
  with one line per question, two quiz pages of one subtest share none, and a subtest
  is two letters, which is what `asvabTitleCode` captures (`asvab.go:38`). The code
  does not check the first two: a second line of one name would overwrite the first.
- `NamesAssumption` (Sourcing): sources of one id are one, as the catalogue is keyed
  by id, and an author's item is marked as authored and named apart from what the code
  names itself. The code prefixes each id it makes with the source's or "gen"
  (`viqt.go:230`, `asvab.go:266`, `extract.go:168`, `rulegen.go:106`), but nothing
  keeps an author from the same names; `Author` has no caller yet.

**Attempt** (`AttemptProofs`). `IInv` is `TypeOK`, `NoItemTwice` and `WithinBudget`
with `Begun`: a row has a start instant and a version. Without `Begun` a row with
start 0 would have no deadline (the code's zero-time test) and `WithinBudget` would
not be inductive. From it: `TypeCorrect`, `NoItemIsAnsweredTwice`,
`BudgetIsAHardStop`, and the action property `AnswersAreNeverRewritten`. The lemmas of
`SessionProofs` say that what `SelectNext` picks is undelivered and in the plan, which
is the heart of `NoItemTwice`, for both policies. `EveryInstantIsAccounted` carries
the line of clock readings along (`OnLine`): an answer adds its reading to it, which
`CanRecord` takes only if it is not before the last. `StaircaseIsMonotone` compares
two candidates of `PickInSection`: with the last answer right the target is higher, so
the nearest undelivered band is no lower, whatever the clamping and the ties; it needs
`Placed`, that what is delivered is of a section of the plan.

**Execution** (`ExecutionProofs`). `IInv` is `TypeOK`, `Versioned` (a stored row has a
version above 0) and, for each request, `CallInv`: the copy it holds is an old
version of the row, and if the versions are equal the copy *is* the row; a
request past its transition holds exactly what the atomic transition makes of
that copy at an instant of `Time`. That is why the version guard is enough: an
accepted save has the stored version, so the stored row is the copy, so the step
is `Attempt!Next`. From it: `ExecutionImplementsAttempt` (the refinement),
`BackendParity` (memory and sqlite guards agree on all saves that occur, the first
version of a row included; proved only, no run asks it) and `ConflictsAreNeverSpurious`.

**TakePlayer** (`DeliveryProofs`). `TakeInv` follows two things through the
network. A selection: what is on the page, in the request and in every request given
up on is blank or was chosen for its item (`SelectionsAreHonest`), hence
`AnswersKeepTheirItem`. The end: an attempt that shows no item has none left
(`ShowsWhatIsLeft`), so a reply without an item means all is answered or the attempt
abandoned (`RepliesHold`), so a completion, asked for after such a reply, on time or
late, finds nothing left (`CompletionsAreDue`), hence `NoTestEndsEarly`. `RepliesHold`
also says that a reply in hand is of a row that has the answer it acknowledges:
`AcknowledgedIsRecorded`. `PageTakesAnAttempt` maps each step to one of `Attempt` or
a stutter, so that what is proved of `Attempt` is proved below the page.

**Scoring** (`DeliveryProofs`). `ScoringTakesAnAttempt` is the same for scoring.
`GradedByBank` says that an item not touched since it was answered is still what
graded it, `LinesAreOfResponses` that the k-th line of a report is about the k-th
answer: `FeedbackAddsUp`, by counting line by line. A score is asked for only of a
completed attempt, whose answers no step changes: `ScoreNeverDrifts`.
`AbilityIsWithinDelivered` is about arithmetic: an average of bands, weighted by the
answers of its section, lies within the bands averaged (`StaircaseWithinBands` for one
section, over the reversals or the whole run; `FractionsCompare` for all); that the
weights of the sections add up to the number of answers regroups one sum into a sum of
sums (`BySections`, one answer at a time), and an IQ rises with what it is computed
from because a deviation is above 0 (`ScaledIQRises`).

**Lists** (`ListProofs`). The provers cannot use the library's theorems on recursive
functions and induction, whose parameters are operators. Two lemmas of first order
take their place: `Rounds` (a set that has 0 and, with each number below n, the next
has all up to n) and `LoopExists` (a value chosen to satisfy a recurrence up to a
length does satisfy it). A set in the sense of `Rounds` is the hypothesis of an
induction. So what a loop that adds up computes is proved for every list:
`TotalsCompare`, `TotalsAdd`, `TotalScales`, `TotalBounds`, `FractionsCompare`.

**RateLimiter** (`ServerProofs`). The invariant bounds each client's admitted
requests plus what its bucket still holds by burst plus refill since the window
began, and says that a client not in the map has been admitted nothing: the map
only grows. From it: `LimitIsKept`, `RetryAfterSuffices`, and
`NoBucketIsEverSwept`, the general form of the finding below.

**IngestJobs** (`ServerProofs`). Three invariants. `Gate` is `SlotsAccounted` with
"no more slots are used than there are": a slot given back either shrinks the set
of holders and the count together, or moves to the head of the queue, who held
none. `Polls` ties the phase of a job's goroutine to what its poll may read
(`Told`); pruning respects it because it takes outcomes only, which is all that is
used of `Evicted` so far. From them: `SlotsBalance`, `GateHolds`, `PollsNeverLie` and
`JobsOnlyMoveForward`. `Registry` says that the order lists registered jobs, each
once. A place is `Due` when the outcomes up to it, counted, and the capacity fit into
the length of the order: the outcomes before a due one are due (`OlderIsDueFirst`),
above capacity the oldest outcome is due (`TheOldestGoes`), and the due ones are no
more than there are too many (`EnoughStay`), hence `TheOldestAreForgotten`. What
pruning leaves is written by rank (`Picked`), not with `SelectSeq`: that each rank
belongs to exactly one of the places kept is a bijection (`RankedOnce`), no induction.
The lemmas on `Append`, `Tail` and `RemoveAt` say what each
does to the set and the distinctness of the queue's members.

**CatalogSync** (`StorageProofs`). `SyncPlans`: what a request loaded is an uploaded
catalogue, it puts what that holds and deletes nothing of it; that alone keeps an
agreed source (`AgreedSourceStays`). `LoneInv`: beside a request that is alone
nobody is in flight, and the repository differs from the file only where the
request has yet to delete or put; at its end nothing is left to do, hence
`SyncMirrors`. `WritesInv`: the temporary file of a request that is writing is torn or
holds, in full, what that request had validated, whatever a dead server left there
before.
Hence `FileIsAlwaysWhole`: the file is an uploaded catalogue always, and changes only
into what the upload that renames over it validated.

**Access** (`ServerProofs`). `TakersConfined` rests on `Entitled`: an invite in
somebody's hands was asked for them and ends no later than asked, and a session
token was given to the one who started the attempt. Where an instance has a secret, a
token without one does not pass, so that `Unkeyed` adds nothing there; where it has
none the theorem claims nothing (see below). `LifetimeBounded` says that the
width of a duration can only shorten an invite. `TokensOutliveRestarts` rests on
`Agreement`: without an overlap, every instance that loaded holds one secret, the
file has that secret or is torn, and every token carries it; a torn file starts
nobody, so nobody replaces it.

**BlobStore** (`SourcingProofs`). The invariant says that no file under the name of
a reference is torn; a `PutRename` is then a `Put` of `Blobs` and every other step a
stutter: `FileStoreImplementsBlobs`. `OneWriterAProcess` is the mutex.

**Sourcing** (`SourcingProofs`). `SourcingInv` follows a picture from the request to the
bank: what is still to be saved of a batch or an author's item is `Pending`, a picture
whose reference may be put, or a reference already in the directory, or none of the
store's; what was fetched or extracted is text. The lemmas on the operators say that
both normalizers, the extraction and the three engines deliver such items, whatever
they are given, and that one step of the offload (`OffloadStep`) takes the first inline
part, which is there by `MinIsThere`, and leaves an item that is pending again once
that picture is stored. What is saved has no inline part left, hence
`NoMediaDangles`. `DrivesTheStore`: each step of a run is one of the store's or a
stutter, a crash in the middle of a put included, hence `SourcingKeepsThePromise`.
`SourcingTyped` is `TypeOK`.

Three more invariants are carried along it. `LimitsInv`: what a run has fetched is what
`Fetched` gives at its limit, and each step of `joinPayload` ends at the cap or where it
was (`JoinStep`, over the lemmas on `FlattenSeq` for the lengths), and a run of a server
asked with no more tokens than its cap: `LimitsAlwaysHold`. Of the tokens of a
command-line run nothing is claimed.
`ReportInv`: the specs of a run are listed each under an id of its own (`ListedSpecs`:
the four makers number them, hash them or leave repeated ones out), a valid spec is
still valid when its media is offloaded (`RewrittenIsValid`), and the ids counted as
saved so far are that many and all in the bank, which never loses one:
`ReportsAreTruthful`. `QuestionsInv` says where every spec on its way and every item of
the bank comes from: an author signed it, or it comes of an item one of the makers
makes, with none, some or all of its pictures replaced by their references
(`ComesOf`). `OneQuestion` is the heart: two made items of one id have one stimulus and
one set of options, for each pair of the four makers, because an id holds the maker,
and then the line of the codebook, the subtest and number, the hash of stem and
options, or the seed and index. An item in the bank has no picture inline any more
(`NoDanglingMedia`), so it is what its made item is with *all* references
replaced (`Carried`), and two saves under one id save one question:
`IdsNameTheirContent`. The same origin gives `KeysAreAsMarked`: the item of an id was
made of some line of some codebook, `OnceAssumption` makes it the line the id names,
and `PairFacts` and `OtherWords` follow the two marked words through the four options;
for a quiz `CorrectIsMarked` does.

**Rulegen** (`SourcingProofs`). Two options of a puzzle that look alike are one option:
the neighbours of a figure are ten if turning it shows and seven if not, no two looking
alike and none like the figure (`NeighborsApart`, over `PickedFacts` for what a filter
leaves). What the solver of a series or a matrix accepts looks like the right figure in
every attribute (`SeriesGoesOn`, `MatrixGoesOn`: rows, columns and checkerboard each
leave one value for the ninth cell), and so is that option (`OneFits`). Of five figures
of which four agree in an attribute that the fifth breaks, while no two of the four agree
in the one that varies, only the fifth stands out (`OneIsOdd`). Hence
`AnyPuzzleHasOneAnswer`, for every type and every difficulty from 1, the right figure
in any place and the neighbours in any order. TLC evaluates the same claim for the
difficulties up to 4, in one place and order (`EveryPuzzleHasOneAnswer`), and
`PuzzlesHaveOneAnswer` follows from it.

**Schema** (`StorageProofs`). A file's version determines its tables (`Layout`), and
whoever is migrating will apply, next, a migration at most one past the version:
`SchemaInv`, over which the second migration cannot meet document tables.
`OpenMeansMigrated` and `RowsSurviveMigration` follow, and `BankFileIsUpToDate` says
that the requests of `Composition` leave the file alone.

**TestDb and Composition** (`StorageProofs`). `BankInv` says that the rows are the
snapshots, under their own ids; that alone makes gets and lists agree, as the columns
a listing reads are computed from the same document: `TheStoresAgree`. The listings
rest on a lemma about `InOrder`: a finite set can be put in a strict order
(`EnumerationExists`: a subset with no enumeration and none smaller would have one;
that the subsets of a finite set are well founded is a library theorem without an
operator parameter), so that `Listing` speaks of every matching item once. `EasiestOf`
says what taking the first of a list ordered by band leaves out, `ComposeInv` that a
request whose bank stood still holds, for each section read, what `SelectRefs` would
read now: `TheEasiestAreTaken`. `PlanInv`, that every stored test has passed
`ValidTest`, needs `ComposeInv`, because the sections a request holds must be of the
types `ValidTest` counts on: `StoredTestsRun`; that no item is placed twice is a
bijection between places and items. `PageIsAWindow` shows that the sum in `paginate`
never leaves the width of an int, the offset being clamped first:
`PagesWalkTheListing`.

Only model-checked: all liveness (TLAPS 1.4.5 does not do fairness):
`TakerGetsThrough`, `JobsSettle`, `UndisturbedTakerFinishes`. Every other property of
a passing run is stated by a theorem.

## Where code and documentation part

| Run | Finding |
|---|---|
| `execution_wedge` | content is fetched, then the attempt is saved: an item deleted between the two is presented and cannot be answered (`app/execution/service.go:135`) |
| `take_overtime` | an answer past the budget abandons the attempt, the page asks to complete it and is stuck (`useTakeSession.ts:64`) |

More behaviours of the models part from what the repository says, or come near it,
and have no run of their own:

- The rate limiter's sweep never frees a bucket: it compares tokens as stored, which
  are always below the burst (`ratelimit.go:68`). `NoBucketIsEverSwept` is proved.
- Overlapping uploads can leave a mixture of two catalogues in the repository until
  the next sync, not one of them (`server_catalog.go:36-44`); that is why
  `LoneSyncMirrors` speaks of a sync that ran alone.
- An item that arrives expired is submitted with the previous answer, refused, and
  not submitted again (`Take.tsx:27`, `ShowNext` of TakePlayer): an unattended taker
  does not finish.
- Two first starts on one home each make a secret, and the one that saved first
  serves with a secret the file does not hold: its tokens verify nowhere else, against
  `auth.go:25-27` ("any instance verifies any token"). `raced` marks it.
- A crash between the two halves of `os.WriteFile` leaves a config file no later
  start accepts; the start is refused, as `config.go:141` says it must be.
- `auth.go:224-226` says that in mode "none" there is no secret, so an invite verb
  "simply 401s". It does not refuse every token: `verify` (`auth.go:85-98`) compares with
  the empty secret, which only minting refuses to sign with (`auth.go:101`, `136`).
- Nor is there no secret always: with `-auth none` over a config that
  has secrets, invites are minted and accepted, and the attempts they start get no
  token (`Serve`, `StartAndRespond`).
- With `-auth token` over a config of mode "none" the mode is enforced without a
  secret: session tokens and invites that nobody minted pass there as well, so
  `TakersKeepToTheirOwn` speaks of instances that have one.
- Extraction from the command line runs without the clamp hook (`main.go:592`): no
  token cap and no list of models there, which `LimitsHold` excepts.
- In mode "token" with an operator token and no secret (`-auth token` over a config
  of mode "none"), a direct start saves an attempt and then fails to sign its token.
- The key of the presented item can change before its answer is graded
  (`EditBank` between `Fetch` and `Grade`). The comment at `service.go:156-159`
  says there is no delete; `ports/repositories.go:24` declares one.
- A completion past the budget abandons the attempt and is still answered 200: the
  page takes it for a completion and asks for a report that cannot be had
  (`useTakeSession.ts:65`, `Completed` after `Abandon`).
- One lost reply (`Fault` in status "done") leaves the page resubmitting an item
  the attempt has left, for ever: no verb presents the current item again.
  `UndisturbedTakerFinishes` excepts it.
- A right last answer can lower an adaptive estimate: 1 right, 2 right, 3 wrong, 2
  wrong, 1 right gives 2, wrong at the end gives 3 (`scoring.go:205-233`): the
  reversals decide, not the count. `AbilityWithinDelivered` states what does hold.
- The answer a report shows as given is read in the format of the live item, which
  may not be the one it was given in (`givenAnswer`, `app/scoring/service.go:202`);
  `FeedbackIsHonest` excepts items touched since.

## What is not modelled

Components: the prompt stores and the LLM service, which the running server only
reads (no verb writes a prompt; files change under an editor, and a prompt is an
input of `Ask`); the command line, a sequential front end to the same services, but
for what differs in it and is modelled: its `-auth` override, its fewer fetchers and its
missing clamp; `domain/source`, a pure validation whose records are
payloads of CatalogSync; the shared kernel; the console's pages and static files.

Inside what is modelled:

- *Scoring*: `phi` and `Percentile`, floating-point; fractions are exact.
- *Sourcing*: the regular expressions that read a page, the HTTP exchange, prompts,
  SVG geometry, the order of wrong options, `WikimediaFigures` (command line only),
  a server without a blob store, `ErrNoFetcher` (the stub serves every source).
  Hashes do not collide.
  Items are not deleted meanwhile: `TestDb` and `Scoring` do that.
- *BlobStore*, *CatalogSync*: a machine crash (the code does not sync to disk). A configuration
  with a sqlite bank and blobs in memory loses the media of its items at a restart,
  by choice of whoever configures it.
- *Schema*: what a migration computes inside its transaction is sqlite's.
- *Access*: a signature needs its secret, except the empty one, which is everybody's;
  tokens are not copied from one person to
  another, nobody asks for an invite of negative length, and a test is never deleted
  between two requests (no verb does). `whoami` and the preview only read.
- *Player*: the preview query, and a second click on Start, which opens another
  attempt.
- *Session*: per-item and per-section caps are advisory and change no state.
- *HTTP surface*: decoding, error classes, headers, logging.
