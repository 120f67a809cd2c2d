---------------------------- MODULE CatalogSync ----------------------------
(***************************************************************************)
(* The source catalogue: the file on disk, the in-memory repository that   *)
(* mirrors it, and the operator requests that upload a catalogue and then  *)
(* sync, or only sync. An upload creates a temporary file, writes it and   *)
(* renames it over the catalogue. Sync is not one critical section: it     *)
(* reads the file, lists the repository, deletes what the file no longer   *)
(* has and puts what it has. Each is a system call or a call on the store, *)
(* with no lock around them, and the server may die between any two.       *)
(*                                                                         *)
(* A catalogue is a function from source ids to what the source says. The  *)
(* restart of the server is one step: its sync runs before it serves.      *)
(*                                                                         *)
(* An operator named ...Bug is a plausible slip in the one it precedes,    *)
(* used only to show which property notices.                               *)
(***************************************************************************)
EXTENDS Integers, FiniteSets

CONSTANTS
    Ids,        \* source ids, ordered as List orders them
    Payload,    \* what a record may say about a source
    NoSource,   \* an id the catalogue does not hold
    Catalogs,   \* the catalogues operators upload
    Requests,   \* operator requests in flight at once
    Torn,       \* a file written in part
    NoFile      \* there is no such file

Catalog == [Ids -> Payload \cup {NoSource}]

ASSUME CatalogAssumption ==
    /\ Ids \subseteq Nat /\ IsFiniteSet(Ids)
    /\ NoSource \notin Payload
    /\ Catalogs \subseteq Catalog /\ Catalogs # {}
    /\ {Torn, NoFile} \cap Catalogs = {} /\ Torn # NoFile

VARIABLES
    file,       \* what the catalogue file says
    temps,      \* what each temporary file says
    repo,       \* the in-memory repository
    req         \* req[r] is where request r stands

catalogVars == <<file, temps, repo, req>>

Held(cat) == {i \in Ids : cat[i] # NoSource}

Nowhere == [i \in Ids |-> NoSource]

(* snaps is what it uploads, then what it loaded. alone is an observer: no *)
(* other request was in flight since r began.                              *)
Request == [pc : {"idle", "writing", "reading", "loaded", "storing"}, snaps : Catalog,
            prune : SUBSET Ids, puts : SUBSET Ids, alone : BOOLEAN]

NoRequest == [pc |-> "idle", snaps |-> Nowhere, prune |-> {}, puts |-> {}, alone |-> FALSE]

CatalogInit ==
    /\ file \in Catalogs
    /\ temps = [r \in Requests |-> NoFile]
    /\ repo = file
    /\ req = [r \in Requests |-> NoRequest]

-----------------------------------------------------------------------------
Begins(r, pc, body) ==
    LET others == {q \in Requests \ {r} : req[q].pc # "idle"} IN
    /\ req[r].pc = "idle"
    /\ req' = [q \in Requests |->
                 IF q = r THEN [NoRequest EXCEPT !.pc = pc, !.snaps = body, !.alone = (others = {})]
                 ELSE [req[q] EXCEPT !.alone = FALSE]]
    /\ UNCHANGED <<file, repo>>

(* One name for all of them. *)
TempBug(r) == CHOOSE q \in Requests : TRUE

(* os.CreateTemp finds a name nobody has. What a dead server left under it *)
(* is read by no one.                                                      *)
Temp(r) == r

(* handleUploadCatalog: the body is validated first. *)
Upload(r, cat) ==
    /\ Begins(r, "writing", cat)
    /\ temps' = [temps EXCEPT ![Temp(r)] = Torn]

(* Write and Close. *)
WriteTemp(r) ==
    /\ req[r].pc = "writing" /\ temps[Temp(r)] = Torn
    /\ temps' = [temps EXCEPT ![Temp(r)] = req[r].snaps]
    /\ UNCHANGED <<file, repo, req>>

(* os.Rename replaces the catalogue in one step. *)
Rename(r) ==
    /\ req[r].pc = "writing" /\ temps[Temp(r)] \notin {Torn, NoFile}
    /\ file' = temps[Temp(r)]
    /\ temps' = [temps EXCEPT ![Temp(r)] = NoFile]
    /\ req' = [req EXCEPT ![r].pc = "reading"]
    /\ UNCHANGED repo

(* Write, Close or Rename fails: the deferred Remove runs.                 *)
WriteFails(r) ==
    /\ req[r].pc = "writing"
    /\ temps' = [temps EXCEPT ![Temp(r)] = NoFile]
    /\ req' = [req EXCEPT ![r] = NoRequest]
    /\ UNCHANGED <<file, repo>>

(* handleSyncCatalog. *)
Resync(r) == Begins(r, "reading", Nowhere) /\ UNCHANGED temps

Load(r) ==
    /\ req[r].pc = "reading" /\ file # Torn
    /\ req' = [req EXCEPT ![r].pc = "loaded", ![r].snaps = file]
    /\ UNCHANGED <<file, temps, repo>>

(* The file cannot be read, or does not parse.                             *)
LoadFails(r) ==
    /\ req[r].pc = "reading"
    /\ req' = [req EXCEPT ![r] = NoRequest]
    /\ UNCHANGED <<file, temps, repo>>

(* Sync forgets to compare with what it loaded and clears the repository.  *)
ListRepoBug(r) ==
    /\ req[r].pc = "loaded"
    /\ req' = [req EXCEPT ![r].pc = "storing", ![r].prune = Held(repo), ![r].puts = Held(req[r].snaps)]
    /\ UNCHANGED <<file, temps, repo>>

(* Sync only upserts. *)
ListRepoUpsertBug(r) ==
    /\ req[r].pc = "loaded"
    /\ req' = [req EXCEPT ![r].pc = "storing", ![r].puts = Held(req[r].snaps)]
    /\ UNCHANGED <<file, temps, repo>>

(* What the repository holds and the loaded catalogue does not is to go.   *)
ListRepo(r) ==
    /\ req[r].pc = "loaded"
    /\ req' = [req EXCEPT ![r].pc = "storing",
                          ![r].prune = Held(repo) \ Held(req[r].snaps),
                          ![r].puts = Held(req[r].snaps)]
    /\ UNCHANGED <<file, temps, repo>>

(* In the order of the listing. *)
Delete(r, i) ==
    /\ req[r].pc = "storing" /\ i \in req[r].prune
    /\ \A j \in req[r].prune : i <= j
    /\ repo' = [repo EXCEPT ![i] = NoSource]
    /\ req' = [req EXCEPT ![r].prune = req[r].prune \ {i}]
    /\ UNCHANGED <<file, temps>>

(* Puts follow the order of the file, which may be any. *)
PutSource(r, i) ==
    /\ req[r].pc = "storing" /\ req[r].prune = {} /\ i \in req[r].puts
    /\ repo' = [repo EXCEPT ![i] = req[r].snaps[i]]
    /\ req' = [req EXCEPT ![r].puts = req[r].puts \ {i}]
    /\ UNCHANGED <<file, temps>>

Finish(r) ==
    /\ req[r].pc = "storing" /\ req[r].prune = {} /\ req[r].puts = {}
    /\ req' = [req EXCEPT ![r] = NoRequest]
    /\ UNCHANGED <<file, temps, repo>>

(* The server stops at any point and comes back, if the catalogue parses:  *)
(* requests are lost, temporary files stay, the repository is rebuilt from *)
(* the file.                                                               *)
Restart ==
    /\ file # Torn
    /\ repo' = file
    /\ req' = [r \in Requests |-> NoRequest]
    /\ UNCHANGED <<file, temps>>

CatalogNext ==
    \/ \E r \in Requests :
          \/ \E cat \in Catalogs : Upload(r, cat)
          \/ WriteTemp(r) \/ Rename(r) \/ WriteFails(r)
          \/ Resync(r) \/ Load(r) \/ LoadFails(r) \/ ListRepo(r) \/ Finish(r)
          \/ \E i \in Ids : Delete(r, i) \/ PutSource(r, i)
    \/ Restart

CatalogSpec == CatalogInit /\ [][CatalogNext]_catalogVars

-----------------------------------------------------------------------------
(* Values and shapes. *)
CatalogTypeOK ==
    /\ file \in Catalogs \cup {Torn}
    /\ temps \in [Requests -> Catalogs \cup {Torn, NoFile}]
    /\ repo \in Catalog
    /\ req \in [Requests -> Request]

(* "A crashed or concurrent write never leaves a half-written catalogue on *)
(* disk": whatever uploads overlap and wherever the server dies, the file  *)
(* changes only into the whole of what the upload that replaces it had     *)
(* validated, not into a part of it nor into another's body.               *)
UploadsAreWhole ==
    [][ file' # file => \E r \in Requests :
            /\ req[r].pc = "writing" /\ req'[r].pc = "reading"
            /\ file' = req[r].snaps ]_catalogVars

(* "Sync mirrors the catalogue authoritatively rather than only upserting": *)
(* a sync that ran alone leaves the repository equal to the file, whatever *)
(* mixture earlier overlapping syncs or uploads had left it in.            *)
LoneSyncMirrors == [][ \A r \in Requests : Finish(r) /\ req[r].alone => repo = file ]_catalogVars

(* A source that the file and every sync in flight agree on never vanishes *)
(* from the repository meanwhile, nor does one that no catalogue ever      *)
(* leaves out: an ingest of it cannot be told unknown.                     *)
SharedSourceStays ==
    [][ \A i \in Held(repo) :
          \/ \A cat \in Catalogs : i \in Held(cat)
          \/ /\ i \in Held(file)
             /\ \A r \in Requests : req[r].pc \in {"loaded", "storing"} => i \in Held(req[r].snaps)
          => i \in Held(repo') ]_catalogVars
=============================================================================
