---------------------------- MODULE StorageProofs ----------------------------
(***************************************************************************)
(* What the stores promise, for any contents, requests and processes: a    *)
(* sync of the catalogue mirrors its file, a database file is up to date   *)
(* once it is open, nothing a caller asks tells the two item banks apart,  *)
(* and a test composed from a bank at rest takes the easiest items of it.  *)
(***************************************************************************)
EXTENDS CatalogSync, Composition,
        FiniteSetTheorems, SequenceTheorems, WellFoundedInduction, TLAPS

-----------------------------------------------------------------------------
(* CatalogSync                                                             *)

(* The catalogue is a whole one. What an upload has written of its own     *)
(* temporary file is nothing to be relied on, or the whole of its body.    *)
WritesInv ==
    /\ file \in Catalogs
    /\ \A r \in Requests : req[r].pc = "writing" =>
         req[r].snaps \in Catalogs /\ temps[r] \in {Torn, req[r].snaps}

(* What a request loaded is a catalogue somebody uploaded; it puts what    *)
(* that holds and deletes nothing of it.                                   *)
SyncPlans == \A r \in Requests : req[r].pc \in {"loaded", "storing"} =>
    /\ req[r].snaps \in Catalogs
    /\ req[r].pc = "storing" => /\ req[r].puts \subseteq Held(req[r].snaps)
                                /\ req[r].prune \cap Held(req[r].snaps) = {}

(* Nobody else is in flight beside a request that is alone, the file is as *)
(* it loaded it, and the repository differs from the file only in what the *)
(* request has yet to do.                                                  *)
Undisturbed(r) ==
    /\ \A q \in Requests \ {r} : req[q].pc = "idle"
    /\ req[r].pc \in {"loaded", "storing"} => req[r].snaps = file
    /\ req[r].pc = "storing" =>
         \A i \in Ids \ (req[r].prune \cup req[r].puts) : repo[i] = file[i]

LoneInv == \A r \in Requests : req[r].pc # "idle" /\ req[r].alone => Undisturbed(r)

-----------------------------------------------------------------------------
LEMMA Shapes ==
    /\ Nowhere \in Catalog /\ NoRequest \in Request
    /\ \A cat \in Catalogs : cat \in Catalog /\ Held(cat) \subseteq Ids
BY CatalogAssumption DEF Nowhere, NoRequest, Request, Catalog, Held

LEMMA TypeInit == CatalogInit => CatalogTypeOK
BY Shapes DEF CatalogInit, CatalogTypeOK

LEMMA TypeStep == CatalogTypeOK /\ WritesInv /\ [CatalogNext]_catalogVars => CatalogTypeOK'
<1> SUFFICES ASSUME CatalogTypeOK, WritesInv, [CatalogNext]_catalogVars PROVE CatalogTypeOK'
  OBVIOUS
<1> USE DEF CatalogTypeOK
<1>1. ASSUME NEW r \in Requests, NEW pc \in {"writing", "reading"}, NEW body \in Catalog, Begins(r, pc, body),
             temps' \in [Requests -> Catalogs \cup {Torn, NoFile}]
      PROVE  CatalogTypeOK'
  <2>1. \A q \in Requests : [req[q] EXCEPT !.alone = FALSE] \in Request
    BY DEF Request
  <2>2. [NoRequest EXCEPT !.pc = pc, !.snaps = body,
                     !.alone = ({q \in Requests \ {r} : req[q].pc # "idle"} = {})] \in Request
    BY Shapes DEF Request, NoRequest
  <2> QED  BY <1>1, <2>1, <2>2 DEF Begins
<1>2. ASSUME NEW r \in Requests, Load(r) PROVE CatalogTypeOK'
  <2>1. file \in Catalog
    BY <1>2, Shapes DEF Load
  <2>2. [req[r] EXCEPT !.pc = "loaded", !.snaps = file] \in Request
    BY <2>1 DEF Request
  <2> QED  BY <1>2, <2>2 DEF Load
<1>3. ASSUME NEW r \in Requests, ListRepo(r) PROVE CatalogTypeOK'
  <2>1. [req[r] EXCEPT !.pc = "storing", !.prune = Held(repo) \ Held(req[r].snaps),
                       !.puts = Held(req[r].snaps)] \in Request
    BY DEF Request, Held
  <2> QED  BY <1>3, <2>1 DEF ListRepo
<1>4. ASSUME NEW r \in Requests, NEW i \in Ids, Delete(r, i) PROVE CatalogTypeOK'
  <2>1. [req[r] EXCEPT !.prune = req[r].prune \ {i}] \in Request
    BY DEF Request
  <2> QED  BY <1>4, <2>1 DEF Delete, Catalog
<1>5. ASSUME NEW r \in Requests, NEW i \in Ids, PutSource(r, i) PROVE CatalogTypeOK'
  <2>1. [req[r] EXCEPT !.puts = req[r].puts \ {i}] \in Request
    BY DEF Request
  <2>2. req[r].snaps[i] \in Payload \cup {NoSource}
    BY DEF Request, Catalog
  <2> QED  BY <1>5, <2>1, <2>2 DEF PutSource, Catalog
<1>6. ASSUME NEW r \in Requests, Finish(r) PROVE CatalogTypeOK'
  BY <1>6, Shapes DEF Finish
<1>7. CASE Restart
  BY <1>7, Shapes DEF Restart
<1>8. ASSUME NEW r \in Requests, NEW cat \in Catalogs, Upload(r, cat) PROVE CatalogTypeOK'
  BY <1>1, <1>8, Shapes DEF Upload
<1>9. ASSUME NEW r \in Requests, Resync(r) PROVE CatalogTypeOK'
  BY <1>1, <1>9, Shapes DEF Resync
<1>10. ASSUME NEW r \in Requests, WriteTemp(r) \/ Rename(r) \/ WriteFails(r) PROVE CatalogTypeOK'
  <2>1. [req[r] EXCEPT !.pc = "reading"] \in Request
    BY DEF Request
  <2>2. CASE WriteTemp(r)
    BY <2>2 DEF WriteTemp, WritesInv
  <2>3. CASE Rename(r)
    BY <2>1, <2>3 DEF Rename, Temp
  <2>4. CASE WriteFails(r)
    BY <2>4, Shapes DEF WriteFails
  <2> QED  BY <1>10, <2>2, <2>3, <2>4
<1>11. ASSUME NEW r \in Requests, LoadFails(r) PROVE CatalogTypeOK'
  BY <1>11, Shapes DEF LoadFails
<1>12. CASE UNCHANGED catalogVars
  BY <1>12 DEF catalogVars
<1> QED  BY <1>2, <1>3, <1>4, <1>5, <1>6, <1>7, <1>8, <1>9, <1>10, <1>11, <1>12 DEF CatalogNext

-----------------------------------------------------------------------------
(* What a step does to the request that takes it, as facts on its fields.  *)
LEMMA LoadFields ==
  ASSUME CatalogTypeOK, NEW r \in Requests, Load(r)
  PROVE  /\ req'[r].pc = "loaded" /\ req'[r].snaps = file /\ req'[r].alone = req[r].alone
         /\ req[r].pc = "reading" /\ file # Torn /\ file' = file /\ repo' = repo /\ temps' = temps
         /\ \A q \in Requests \ {r} : req'[q] = req[q]
BY DEF CatalogTypeOK, Load, Request

LEMMA ListFields ==
  ASSUME CatalogTypeOK, NEW r \in Requests, ListRepo(r)
  PROVE  /\ req'[r].pc = "storing" /\ req'[r].snaps = req[r].snaps /\ req'[r].alone = req[r].alone
         /\ req'[r].prune = Held(repo) \ Held(req[r].snaps) /\ req'[r].puts = Held(req[r].snaps)
         /\ req[r].pc = "loaded" /\ file' = file /\ repo' = repo /\ temps' = temps
         /\ \A q \in Requests \ {r} : req'[q] = req[q]
BY DEF CatalogTypeOK, ListRepo, Request

LEMMA DeleteFields ==
  ASSUME CatalogTypeOK, NEW r \in Requests, NEW i \in Ids, Delete(r, i)
  PROVE  /\ req'[r].pc = "storing" /\ req'[r].snaps = req[r].snaps /\ req'[r].alone = req[r].alone
         /\ req'[r].prune = req[r].prune \ {i} /\ req'[r].puts = req[r].puts
         /\ req[r].pc = "storing" /\ i \in req[r].prune /\ file' = file /\ temps' = temps
         /\ repo'[i] = NoSource /\ \A j \in Ids \ {i} : repo'[j] = repo[j]
         /\ \A q \in Requests \ {r} : req'[q] = req[q]
BY DEF CatalogTypeOK, Delete, Request, Catalog

LEMMA PutFields ==
  ASSUME CatalogTypeOK, NEW r \in Requests, NEW i \in Ids, PutSource(r, i)
  PROVE  /\ req'[r].pc = "storing" /\ req'[r].snaps = req[r].snaps /\ req'[r].alone = req[r].alone
         /\ req'[r].prune = req[r].prune /\ req'[r].puts = req[r].puts \ {i}
         /\ req[r].pc = "storing" /\ i \in req[r].puts /\ req[r].prune = {} /\ file' = file /\ temps' = temps
         /\ repo'[i] = req[r].snaps[i] /\ \A j \in Ids \ {i} : repo'[j] = repo[j]
         /\ \A q \in Requests \ {r} : req'[q] = req[q]
BY DEF CatalogTypeOK, PutSource, Request, Catalog

LEMMA BeginFields ==
  ASSUME CatalogTypeOK, NEW r \in Requests, NEW pc, NEW body, Begins(r, pc, body)
  PROVE  /\ req'[r].pc = pc /\ req'[r].snaps = body /\ req[r].pc = "idle"
         /\ file' = file /\ repo' = repo
         /\ req'[r].alone => \A q \in Requests \ {r} : req[q].pc = "idle"
         /\ \A q \in Requests \ {r} :
              /\ req'[q].pc = req[q].pc /\ req'[q].snaps = req[q].snaps
              /\ req'[q].prune = req[q].prune /\ req'[q].puts = req[q].puts
              /\ ~req'[q].alone
<1>1. \A q \in Requests : req'[q] = IF q = r
                          THEN [NoRequest EXCEPT !.pc = pc, !.snaps = body,
                                  !.alone = ({p \in Requests \ {r} : req[p].pc # "idle"} = {})]
                          ELSE [req[q] EXCEPT !.alone = FALSE]
  BY DEF Begins
<1>2. /\ req'[r].pc = pc /\ req'[r].snaps = body
      /\ req'[r].alone = ({p \in Requests \ {r} : req[p].pc # "idle"} = {})
  BY <1>1 DEF NoRequest
<1>3. \A q \in Requests \ {r} : req[q] \in Request /\ req'[q] = [req[q] EXCEPT !.alone = FALSE]
  BY <1>1 DEF CatalogTypeOK
<1> QED  BY <1>2, <1>3 DEF Begins, Request

LEMMA WriteFields ==
  ASSUME CatalogTypeOK, NEW r \in Requests, WriteTemp(r)
  PROVE  /\ req[r].pc = "writing" /\ temps'[r] = req[r].snaps
         /\ file' = file /\ repo' = repo /\ req' = req
         /\ \A q \in Requests \ {r} : temps'[q] = temps[q]
BY DEF CatalogTypeOK, WriteTemp, Temp

LEMMA RenameFields ==
  ASSUME CatalogTypeOK, NEW r \in Requests, Rename(r)
  PROVE  /\ req[r].pc = "writing" /\ temps[r] \notin {Torn, NoFile}
         /\ file' = temps[r] /\ repo' = repo
         /\ req'[r].pc = "reading" /\ req'[r].alone = req[r].alone
         /\ \A q \in Requests \ {r} : req'[q] = req[q] /\ temps'[q] = temps[q]
BY DEF CatalogTypeOK, Rename, Temp, Request

LEMMA WriteFailsFields ==
  ASSUME CatalogTypeOK, NEW r \in Requests, WriteFails(r)
  PROVE  /\ req[r].pc = "writing" /\ file' = file /\ repo' = repo /\ req'[r] = NoRequest
         /\ \A q \in Requests \ {r} : req'[q] = req[q] /\ temps'[q] = temps[q]
BY DEF CatalogTypeOK, WriteFails, Temp

LEMMA LoadFailsFields ==
  ASSUME CatalogTypeOK, NEW r \in Requests, LoadFails(r)
  PROVE  /\ req[r].pc = "reading" /\ req'[r] = NoRequest
         /\ UNCHANGED <<file, temps, repo>>
         /\ \A q \in Requests \ {r} : req'[q] = req[q]
BY DEF CatalogTypeOK, LoadFails

LEMMA IdleFields ==
  ASSUME NEW r \in Requests, req'[r] = NoRequest
  PROVE  req'[r].pc = "idle"
BY DEF NoRequest

-----------------------------------------------------------------------------
-----------------------------------------------------------------------------
LEMMA WritesInit == CatalogInit => WritesInv
BY DEF CatalogInit, WritesInv, NoRequest

LEMMA WritesStep == CatalogTypeOK /\ WritesInv /\ [CatalogNext]_catalogVars => WritesInv'
<1> SUFFICES ASSUME CatalogTypeOK, WritesInv, [CatalogNext]_catalogVars PROVE WritesInv'
  OBVIOUS
<1>1. ASSUME NEW r \in Requests, NEW cat \in Catalogs, Upload(r, cat) PROVE WritesInv'
  <2>1. temps'[r] = Torn /\ \A q \in Requests \ {r} : temps'[q] = temps[q]
    BY <1>1 DEF CatalogTypeOK, Upload, Temp
  <2>2. Begins(r, "writing", cat)
    BY <1>1 DEF Upload
  <2> QED  BY <2>1, <2>2, BeginFields DEF WritesInv
<1>2. ASSUME NEW r \in Requests, Resync(r) PROVE WritesInv'
  <2>1. Begins(r, "reading", Nowhere) /\ temps' = temps
    BY <1>2 DEF Resync
  <2> QED  BY <2>1, BeginFields DEF WritesInv
<1>3. ASSUME NEW r \in Requests, WriteTemp(r) PROVE WritesInv'
  BY <1>3, WriteFields DEF WritesInv
<1>4. ASSUME NEW r \in Requests, Rename(r) PROVE WritesInv'
  BY <1>4, RenameFields DEF WritesInv
<1>5. ASSUME NEW r \in Requests, WriteFails(r) PROVE WritesInv'
  BY <1>5, WriteFailsFields, IdleFields DEF WritesInv
<1>6. ASSUME NEW r \in Requests, Load(r) PROVE WritesInv'
  BY <1>6, LoadFields DEF WritesInv
<1>7. ASSUME NEW r \in Requests, LoadFails(r) PROVE WritesInv'
  BY <1>7, LoadFailsFields, IdleFields DEF WritesInv
<1>8. ASSUME NEW r \in Requests, ListRepo(r) PROVE WritesInv'
  BY <1>8, ListFields DEF WritesInv
<1>9. ASSUME NEW r \in Requests, NEW i \in Ids, Delete(r, i) PROVE WritesInv'
  BY <1>9, DeleteFields DEF WritesInv
<1>10. ASSUME NEW r \in Requests, NEW i \in Ids, PutSource(r, i) PROVE WritesInv'
  BY <1>10, PutFields DEF WritesInv
<1>11. ASSUME NEW r \in Requests, Finish(r) PROVE WritesInv'
  <2>1. req'[r] = NoRequest /\ \A q \in Requests \ {r} : req'[q] = req[q]
    BY <1>11 DEF Finish, CatalogTypeOK
  <2> QED  BY <1>11, <2>1, IdleFields DEF WritesInv, Finish
<1>12. CASE Restart
  <2>1. \A r \in Requests : req'[r].pc = "idle"
    BY <1>12 DEF Restart, NoRequest
  <2> QED  BY <1>12, <2>1 DEF WritesInv, Restart
<1>13. CASE UNCHANGED catalogVars
  BY <1>13 DEF catalogVars, WritesInv
<1> QED  BY <1>1, <1>2, <1>3, <1>4, <1>5, <1>6, <1>7, <1>8, <1>9, <1>10, <1>11, <1>12, <1>13 DEF CatalogNext

(* However many uploads overlap, fail half way or die with the server, the *)
(* catalogue on disk is one that was uploaded, in full, and it changes     *)
(* only into the body of the upload whose renaming changes it.             *)
THEOREM FileIsAlwaysWhole == CatalogSpec => [](file \in Catalogs) /\ UploadsAreWhole
<1> DEFINE Whole == file' # file => \E r \in Requests :
                       /\ req[r].pc = "writing" /\ req'[r].pc = "reading"
                       /\ file' = req[r].snaps
<1>1. CatalogTypeOK /\ WritesInv /\ CatalogNext => Whole
  <2> SUFFICES ASSUME CatalogTypeOK, WritesInv, CatalogNext, file' # file
               PROVE  \E r \in Requests : /\ req[r].pc = "writing" /\ req'[r].pc = "reading"
                                         /\ file' = req[r].snaps
    OBVIOUS
  <2>1. PICK r \in Requests : Rename(r)
    BY DEF CatalogNext, Upload, Resync, Begins, WriteTemp, WriteFails, Load, LoadFails,
           ListRepo, Delete, PutSource, Finish, Restart
  <2>2. file' = req[r].snaps
    BY <2>1, RenameFields DEF WritesInv
  <2> QED  BY <2>1, <2>2, RenameFields
<1>2. CatalogTypeOK /\ WritesInv /\ [CatalogNext]_catalogVars => [Whole]_catalogVars
  BY <1>1
<1>3. CatalogInit => CatalogTypeOK /\ WritesInv
  BY TypeInit, WritesInit
<1>4. CatalogTypeOK /\ WritesInv /\ [CatalogNext]_catalogVars => (CatalogTypeOK /\ WritesInv)'
  BY TypeStep, WritesStep
<1>5. WritesInv => file \in Catalogs
  BY DEF WritesInv
<1> QED  BY <1>2, <1>3, <1>4, <1>5, PTL DEF CatalogSpec, UploadsAreWhole

-----------------------------------------------------------------------------
LEMMA PlansInit == CatalogInit => SyncPlans
BY DEF CatalogInit, SyncPlans, NoRequest

LEMMA PlansStep == CatalogTypeOK /\ WritesInv /\ SyncPlans /\ [CatalogNext]_catalogVars => SyncPlans'
<1> SUFFICES ASSUME CatalogTypeOK, WritesInv, SyncPlans, [CatalogNext]_catalogVars PROVE SyncPlans'
  OBVIOUS
<1>1. ASSUME NEW r \in Requests, NEW pc \in {"writing", "reading"}, NEW body, Begins(r, pc, body) PROVE SyncPlans'
  BY <1>1, BeginFields DEF SyncPlans
<1>2. ASSUME NEW r \in Requests, Load(r) PROVE SyncPlans'
  BY <1>2, LoadFields DEF SyncPlans, WritesInv
<1>3. ASSUME NEW r \in Requests, ListRepo(r) PROVE SyncPlans'
  BY <1>3, ListFields DEF SyncPlans
<1>4. ASSUME NEW r \in Requests, NEW i \in Ids, Delete(r, i) PROVE SyncPlans'
  BY <1>4, DeleteFields DEF SyncPlans
<1>5. ASSUME NEW r \in Requests, NEW i \in Ids, PutSource(r, i) PROVE SyncPlans'
  BY <1>5, PutFields DEF SyncPlans
<1>6. ASSUME NEW r \in Requests, Finish(r) PROVE SyncPlans'
  <2>1. req'[r] = NoRequest /\ \A q \in Requests \ {r} : req'[q] = req[q]
    BY <1>6 DEF Finish, CatalogTypeOK
  <2> QED  BY <2>1, IdleFields DEF SyncPlans
<1>7. CASE Restart
  <2>1. \A r \in Requests : req'[r].pc = "idle"
    BY <1>7 DEF Restart, NoRequest
  <2> QED  BY <2>1 DEF SyncPlans
<1>8. CASE UNCHANGED catalogVars
  BY <1>8 DEF catalogVars, SyncPlans
<1>9. ASSUME NEW r \in Requests, WriteTemp(r) \/ Rename(r) PROVE SyncPlans'
  BY <1>9, WriteFields, RenameFields DEF SyncPlans
<1>10. ASSUME NEW r \in Requests, WriteFails(r) \/ LoadFails(r) PROVE SyncPlans'
  BY <1>10, WriteFailsFields, LoadFailsFields, IdleFields DEF SyncPlans
<1> QED  BY <1>1, <1>2, <1>3, <1>4, <1>5, <1>6, <1>7, <1>8, <1>9, <1>10 DEF CatalogNext, Upload, Resync

LEMMA LoneInit == CatalogInit => LoneInv
BY DEF CatalogInit, LoneInv, NoRequest

LEMMA LoneStep == CatalogTypeOK /\ SyncPlans /\ LoneInv /\ [CatalogNext]_catalogVars => LoneInv'
<1> SUFFICES ASSUME CatalogTypeOK, SyncPlans, LoneInv, [CatalogNext]_catalogVars,
                    NEW s \in Requests, req'[s].pc # "idle", req'[s].alone
             PROVE  Undisturbed(s)'
  BY DEF LoneInv
<1>1. ASSUME NEW r \in Requests, NEW pc \in {"writing", "reading"}, NEW body, Begins(r, pc, body) PROVE Undisturbed(s)'
  <2>1. s = r
    BY <1>1, BeginFields
  <2> QED  BY <1>1, <2>1, BeginFields DEF Undisturbed
<1>2. ASSUME NEW r \in Requests, req[r].pc # "idle", req'[r].pc # "idle",
             req'[r].alone = req[r].alone, \A q \in Requests \ {r} : req'[q] = req[q]
      PROVE  s = r /\ Undisturbed(r) /\ \A q \in Requests \ {r} : req'[q].pc = "idle"
  <2>1. s = r
    BY <1>2 DEF LoneInv, Undisturbed
  <2> QED  BY <1>2, <2>1 DEF LoneInv, Undisturbed
<1>3. ASSUME NEW r \in Requests, Load(r) PROVE Undisturbed(s)'
  BY <1>2, <1>3, LoadFields DEF Undisturbed
<1>4. ASSUME NEW r \in Requests, ListRepo(r) PROVE Undisturbed(s)'
  <2>1. s = r /\ Undisturbed(r) /\ \A q \in Requests \ {r} : req'[q].pc = "idle"
    BY <1>2, <1>4, ListFields
  <2>2. \A i \in Ids \ (req'[r].prune \cup req'[r].puts) : repo[i] = file[i]
    BY <1>4, <2>1, ListFields DEF Undisturbed, Held
  <2> QED  BY <1>4, <2>1, <2>2, ListFields DEF Undisturbed
<1>5. ASSUME NEW r \in Requests, NEW i \in Ids, Delete(r, i) PROVE Undisturbed(s)'
  <2>1. s = r /\ Undisturbed(r) /\ \A q \in Requests \ {r} : req'[q].pc = "idle"
    BY <1>2, <1>5, DeleteFields
  <2>2. i \notin Held(file)
    BY <1>5, <2>1, DeleteFields DEF Undisturbed, SyncPlans
  <2>3. \A j \in Ids \ (req'[r].prune \cup req'[r].puts) : repo'[j] = file[j]
    BY <1>5, <2>1, <2>2, DeleteFields DEF Undisturbed, Held
  <2> QED  BY <1>5, <2>1, <2>3, DeleteFields DEF Undisturbed
<1>6. ASSUME NEW r \in Requests, NEW i \in Ids, PutSource(r, i) PROVE Undisturbed(s)'
  <2>1. s = r /\ Undisturbed(r) /\ \A q \in Requests \ {r} : req'[q].pc = "idle"
    BY <1>2, <1>6, PutFields
  <2>2. \A j \in Ids \ (req'[r].prune \cup req'[r].puts) : repo'[j] = file[j]
    BY <1>6, <2>1, PutFields DEF Undisturbed
  <2> QED  BY <1>6, <2>1, <2>2, PutFields DEF Undisturbed
<1>7. ASSUME NEW r \in Requests, Finish(r) PROVE Undisturbed(s)'
  <2>1. req'[r] = NoRequest /\ \A q \in Requests \ {r} : req'[q] = req[q]
    BY <1>7 DEF Finish, CatalogTypeOK
  <2>2. s # r /\ req[r].pc = "storing"
    BY <1>7, <2>1, IdleFields DEF Finish
  <2> QED  BY <2>1, <2>2 DEF LoneInv, Undisturbed
<1>8. CASE Restart
  BY <1>8 DEF Restart, NoRequest
<1>9. CASE UNCHANGED catalogVars
  BY <1>9 DEF catalogVars, LoneInv, Undisturbed
<1>10. ASSUME NEW r \in Requests, WriteTemp(r) PROVE Undisturbed(s)'
  BY <1>10, WriteFields DEF LoneInv, Undisturbed
<1>11. ASSUME NEW r \in Requests, Rename(r) PROVE Undisturbed(s)'
  BY <1>2, <1>11, RenameFields DEF Undisturbed
<1>12. ASSUME NEW r \in Requests, WriteFails(r) \/ LoadFails(r) PROVE Undisturbed(s)'
  <2>1. /\ req[r].pc # "idle" /\ req'[r] = NoRequest /\ file' = file /\ repo' = repo
        /\ \A q \in Requests \ {r} : req'[q] = req[q]
    BY <1>12, WriteFailsFields, LoadFailsFields
  <2>2. s # r
    BY <2>1, IdleFields
  <2> QED  BY <2>1, <2>2 DEF LoneInv, Undisturbed
<1> QED  BY <1>1, <1>3, <1>4, <1>5, <1>6, <1>7, <1>8, <1>9, <1>10, <1>11, <1>12 DEF CatalogNext, Upload, Resync

(* A sync that no other request overlapped leaves the repository equal to  *)
(* the file, whatever earlier ones had left it in.                         *)
THEOREM SyncMirrors == CatalogSpec => LoneSyncMirrors
<1> DEFINE Mirrors == \A r \in Requests : Finish(r) /\ req[r].alone => repo = file
<1>1. CatalogTypeOK /\ WritesInv /\ LoneInv => Mirrors
  <2> SUFFICES ASSUME CatalogTypeOK, WritesInv, LoneInv, NEW r \in Requests, Finish(r), req[r].alone
               PROVE  repo = file
    OBVIOUS
  <2>1. \A i \in Ids : repo[i] = file[i]
    BY DEF LoneInv, Undisturbed, Finish
  <2>2. repo \in Catalog /\ file \in Catalog
    BY Shapes DEF CatalogTypeOK, WritesInv
  <2> QED  BY <2>1, <2>2 DEF Catalog
<1>2. CatalogInit => CatalogTypeOK /\ WritesInv /\ SyncPlans /\ LoneInv
  BY TypeInit, WritesInit, PlansInit, LoneInit
<1>3. CatalogTypeOK /\ WritesInv /\ SyncPlans /\ LoneInv /\ [CatalogNext]_catalogVars => (CatalogTypeOK /\ WritesInv /\ SyncPlans /\ LoneInv)'
  BY TypeStep, WritesStep, PlansStep, LoneStep
<1>4. CatalogTypeOK /\ WritesInv /\ LoneInv /\ [CatalogNext]_catalogVars => [Mirrors]_catalogVars
  BY <1>1
<1> QED  BY <1>2, <1>3, <1>4, PTL DEF CatalogSpec, LoneSyncMirrors

-----------------------------------------------------------------------------
(* No step makes a source vanish that every catalogue has, nor one that    *)
(* the file and every sync that has loaded it agree on.                    *)
THEOREM AgreedSourceStays == CatalogSpec => SharedSourceStays
<1> DEFINE Agreed(i) ==
      \/ \A cat \in Catalogs : i \in Held(cat)
      \/ /\ i \in Held(file)
         /\ \A r \in Requests : req[r].pc \in {"loaded", "storing"} => i \in Held(req[r].snaps)
    Stays == \A i \in Held(repo) : Agreed(i) => i \in Held(repo')
<1>1. CatalogTypeOK /\ WritesInv /\ SyncPlans /\ CatalogNext => Stays
  <2> SUFFICES ASSUME CatalogTypeOK, WritesInv, SyncPlans, CatalogNext, NEW i \in Held(repo), Agreed(i)
               PROVE  i \in Held(repo')
    OBVIOUS
  <2>1. i \in Ids /\ repo[i] # NoSource
    BY DEF Held
  <2>2. CASE repo' = repo
    BY <2>1, <2>2 DEF Held
  <2>3. ASSUME NEW r \in Requests, NEW j \in Ids, Delete(r, j) PROVE i \in Held(repo')
    <3>1. i \in Held(req[r].snaps)
      BY <2>3, DeleteFields DEF SyncPlans
    <3>2. i # j
      BY <2>3, <3>1, DeleteFields DEF SyncPlans
    <3> QED  BY <2>1, <2>3, <3>2, DeleteFields DEF Held
  <2>4. ASSUME NEW r \in Requests, NEW j \in Ids, PutSource(r, j) PROVE i \in Held(repo')
    <3>1. req[r].snaps[j] # NoSource
      BY <2>4, PutFields DEF SyncPlans, Held
    <3> QED  BY <2>1, <2>4, <3>1, PutFields DEF Held
  <2>5. CASE Restart
    <3>1. i \in Held(file)
      BY DEF WritesInv
    <3> QED  BY <2>5, <3>1 DEF Restart
  <2> QED  BY <2>2, <2>3, <2>4, <2>5
           DEF CatalogNext, Upload, Resync, Begins, WriteTemp, Rename, WriteFails, Load, LoadFails, ListRepo, Finish
<1>2. CatalogTypeOK /\ WritesInv /\ SyncPlans /\ [CatalogNext]_catalogVars => [Stays]_catalogVars
  BY <1>1
<1>3. CatalogInit => CatalogTypeOK /\ WritesInv /\ SyncPlans
  BY TypeInit, WritesInit, PlansInit
<1>4. CatalogTypeOK /\ WritesInv /\ SyncPlans /\ [CatalogNext]_catalogVars => (CatalogTypeOK /\ WritesInv /\ SyncPlans)'
  BY TypeStep, WritesStep, PlansStep
<1> QED  BY <1>2, <1>3, <1>4, PTL DEF CatalogSpec, SharedSourceStays

-----------------------------------------------------------------------------
(* Schema                                                                  *)

(* A file has the layout of its version, and nobody is about to apply a    *)
(* migration further than the next one.                                    *)
SchemaInv ==
    /\ DOMAIN schema = {"version", "tables", "columns", "scaffoldRows", "unversioned"}
    /\ schema.version \in 0..Migrations + 1
    /\ schema.tables = [t \in Tables |-> Layout(schema.version, t)]
    /\ schema.columns <=> schema.version >= 3
    /\ schema.version >= Migrations => ~schema.unversioned
    /\ DOMAIN opener = Openers
    /\ \A o \in Openers :
          /\ DOMAIN opener[o] = {"at", "next"}
          /\ opener[o].at = "migrating" =>
                /\ schema.version <= Migrations
                /\ opener[o].next \in 1..schema.version + 1
          /\ opener[o].at = "open" => schema.version = Migrations

LEMMA SchemaInitially == SchemaInit => SchemaInv
<1> SUFFICES ASSUME SchemaInit PROVE SchemaInv
  OBVIOUS
<1>1. /\ DOMAIN opener = Openers
      /\ \A o \in Openers : DOMAIN opener[o] = {"at", "next"} /\ opener[o].at = "closed"
  BY DEF SchemaInit
<1>2. CASE schema = FileAt(0, {}, FALSE)
  <2>1. /\ DOMAIN schema = {"version", "tables", "columns", "scaffoldRows", "unversioned"}
        /\ schema.version = 0
        /\ schema.tables = [t \in Tables |-> Layout(0, t)]
        /\ ~schema.unversioned
    BY <1>2 DEF FileAt
  <2>2. schema.columns <=> 0 >= 3
    BY <1>2 DEF FileAt
  <2>3. QED
    BY <1>1, <2>1, <2>2 DEF SchemaInv, Migrations
<1>3. ASSUME NEW v \in 1..Migrations, schema = FileAt(v, Tables, v = 5) PROVE SchemaInv
  <2>1. /\ DOMAIN schema = {"version", "tables", "columns", "scaffoldRows", "unversioned"}
        /\ schema.version = v
        /\ schema.tables = [t \in Tables |-> Layout(v, t)]
        /\ schema.columns <=> v >= 3
        /\ schema.unversioned <=> v = 5
    BY <1>3 DEF FileAt
  <2>2. QED
    BY <1>1, <2>1 DEF SchemaInv, Migrations
<1>4. CASE schema = [FileAt(Migrations, {}, FALSE) EXCEPT !.version = Migrations + 1]
  <2> DEFINE newest == FileAt(6, {}, FALSE)
  <2>1. /\ DOMAIN newest = {"version", "tables", "columns", "scaffoldRows", "unversioned"}
        /\ newest.tables = [t \in Tables |-> Layout(6, t)]
        /\ ~newest.unversioned
    BY DEF FileAt
  <2>2. newest.columns <=> 6 >= 3
    BY DEF FileAt
  <2>3. schema = [newest EXCEPT !.version = 7]
    BY <1>4 DEF Migrations
  <2> HIDE DEF newest
  <2>4. /\ schema.version = 7 /\ schema.columns /\ ~schema.unversioned
        /\ DOMAIN schema = {"version", "tables", "columns", "scaffoldRows", "unversioned"}
        /\ schema.tables = [t \in Tables |-> Layout(6, t)]
    BY <2>1, <2>2, <2>3
  <2>5. \A t \in Tables : Layout(6, t) = Layout(7, t)
    BY DEF Layout, Tables
  <2>6. QED
    BY <1>1, <2>4, <2>5 DEF SchemaInv, Migrations
<1>5. QED
  BY <1>2, <1>3, <1>4 DEF SchemaInit

(* A migration that applies is the next one, or the back-fill once more.   *)
LEMMA AppliesInTurn ==
    ASSUME SchemaInv, NEW o \in Openers, opener[o].at = "migrating", opener[o].next <= Migrations,
           Applies(opener[o].next)
    PROVE  opener[o].next = schema.version + 1 \/ (opener[o].next = 6 /\ schema.version = 6)
<1> DEFINE n == opener[o].next
           v == schema.version
<1>1. n \in 1..6 /\ v \in 0..6 /\ n <= v + 1
  BY DEF SchemaInv, Migrations
<1>2. schema.tables = [t \in Tables |-> Layout(v, t)] /\ (schema.columns <=> v >= 3)
  BY DEF SchemaInv
<1>3. /\ schema.tables["items"] = IF v = 0 THEN "none" ELSE IF v < 2 THEN "scaffold" ELSE "document"
      /\ schema.tables["tests"] = IF v = 0 THEN "none" ELSE IF v < 4 THEN "scaffold" ELSE "document"
      /\ schema.tables["sessions"] = IF v = 0 THEN "none" ELSE IF v < 5 THEN "scaffold" ELSE "document"
  BY <1>2 DEF Tables, Layout
<1> HIDE DEF n, v
<1>4. Applies(n)
  BY DEF n
<1>5. CASE n = 1
  BY <1>1, <1>3, <1>4, <1>5 DEF Applies, Tables, v, n
<1>6. CASE n = 2
  BY <1>1, <1>3, <1>4, <1>6 DEF Applies, v, n
<1>7. CASE n = 3
  BY <1>1, <1>2, <1>4, <1>7 DEF Applies, v, n
<1>8. CASE n = 4
  BY <1>1, <1>3, <1>4, <1>8 DEF Applies, v, n
<1>9. CASE n = 5
  BY <1>1, <1>3, <1>4, <1>9 DEF Applies, v, n
<1>10. CASE n = 6
  BY <1>1, <1>3, <1>4, <1>10 DEF Applies, v, n
<1>11. QED
  BY <1>1, <1>5, <1>6, <1>7, <1>8, <1>9, <1>10

(* What the statements of a migration make of a file of version v.         *)
LEMMA AppliedOutcome ==
    ASSUME NEW n \in 1..Migrations, NEW v \in 0..Migrations, schema.version = v,
           n = v + 1 \/ (n = 6 /\ v = 6),
           DOMAIN schema = {"version", "tables", "columns", "scaffoldRows", "unversioned"},
           schema.tables = [t \in Tables |-> Layout(v, t)], schema.columns <=> v >= 3
    PROVE  /\ DOMAIN Applied(n) = DOMAIN schema
           /\ Applied(n).tables = [t \in Tables |-> Layout(n, t)]
           /\ Applied(n).columns <=> n >= 3
           /\ Applied(n).scaffoldRows = schema.scaffoldRows
           /\ n = 6 => ~Applied(n).unversioned
<1> DEFINE Outcome == /\ DOMAIN Applied(n) = DOMAIN schema
                      /\ Applied(n).tables = [t \in Tables |-> Layout(n, t)]
                      /\ Applied(n).columns <=> n >= 3
                      /\ Applied(n).scaffoldRows = schema.scaffoldRows
                      /\ n = 6 => ~Applied(n).unversioned
<1> SUFFICES Outcome
  OBVIOUS
<1>1. CASE n = 1
  <2>1. Applied(n) = [schema EXCEPT !.tables = [t \in Tables |-> "scaffold"]]
    BY <1>1 DEF Applied
  <2>2. \A t \in Tables : Layout(n, t) = "scaffold"
    BY <1>1 DEF Tables, Layout
  <2>3. Applied(n).tables = [t \in Tables |-> Layout(n, t)]
    BY <2>1, <2>2
  <2>4. v = 0
    BY <1>1 DEF Migrations
  <2> HIDE DEF Layout
  <2>5. QED
    BY <1>1, <2>1, <2>3, <2>4
<1>2. ASSUME NEW name \in Tables, Applied(n) = Quarantine(name), n # 6,
             \A t \in Tables : Layout(n, t) = IF t = name THEN "document" ELSE Layout(v, t),
             n >= 3 <=> v >= 3
      PROVE  Outcome
  <2>1. Applied(n) = [schema EXCEPT !.tables = [schema.tables EXCEPT ![name] = "document"]]
    BY <1>2 DEF Quarantine
  <2>2. [schema.tables EXCEPT ![name] = "document"] = [t \in Tables |-> Layout(n, t)]
    BY <1>2
  <2>3. QED
    BY <1>2, <2>1, <2>2
<1>3. CASE n = 2
  <2>1. Applied(n) = Quarantine("items")
    BY <1>3 DEF Applied
  <2>2. v = 1
    BY <1>3 DEF Migrations
  <2>3. \A t \in Tables : Layout(n, t) = IF t = "items" THEN "document" ELSE Layout(v, t)
    BY <1>3, <2>2 DEF Tables, Layout
  <2>4. "items" \in Tables /\ n # 6 /\ (n >= 3 <=> v >= 3)
    BY <1>3, <2>2 DEF Tables
  <2>5. QED
    BY <1>2, <2>1, <2>3, <2>4
<1>4. CASE n = 3
  <2>1. Applied(n) = [schema EXCEPT !.columns = TRUE] /\ v = 2
    BY <1>4 DEF Applied, Migrations
  <2>2. \A t \in Tables : Layout(v, t) = Layout(n, t)
    BY <1>4, <2>1 DEF Tables, Layout
  <2>3. Applied(n).tables = [t \in Tables |-> Layout(n, t)]
    BY <2>1, <2>2
  <2>4. QED
    BY <1>4, <2>1, <2>3
<1>5. CASE n = 4
  <2>1. Applied(n) = Quarantine("tests")
    BY <1>5 DEF Applied
  <2>2. v = 3
    BY <1>5 DEF Migrations
  <2>3. \A t \in Tables : Layout(n, t) = IF t = "tests" THEN "document" ELSE Layout(v, t)
    BY <1>5, <2>2 DEF Tables, Layout
  <2>4. "tests" \in Tables /\ n # 6 /\ (n >= 3 <=> v >= 3)
    BY <1>5, <2>2 DEF Tables
  <2>5. QED
    BY <1>2, <2>1, <2>3, <2>4
<1>6. CASE n = 5
  <2>1. Applied(n) = Quarantine("sessions")
    BY <1>6 DEF Applied
  <2>2. v = 4
    BY <1>6 DEF Migrations
  <2>3. \A t \in Tables : Layout(n, t) = IF t = "sessions" THEN "document" ELSE Layout(v, t)
    BY <1>6, <2>2 DEF Tables, Layout
  <2>4. "sessions" \in Tables /\ n # 6 /\ (n >= 3 <=> v >= 3)
    BY <1>6, <2>2 DEF Tables
  <2>5. QED
    BY <1>2, <2>1, <2>3, <2>4
<1>7. CASE n = 6
  <2>1. Applied(n) = [schema EXCEPT !.unversioned = FALSE] /\ v \in {5, 6}
    BY <1>7 DEF Applied, Migrations
  <2>2. \A t \in Tables : Layout(v, t) = Layout(n, t)
    BY <1>7, <2>1 DEF Tables, Layout
  <2>3. Applied(n).tables = [t \in Tables |-> Layout(n, t)]
    BY <2>1, <2>2
  <2>4. QED
    BY <1>7, <2>1, <2>3
<1>8. n = 1 \/ n = 2 \/ n = 3 \/ n = 4 \/ n = 5 \/ n = 6
  BY DEF Migrations
<1> HIDE DEF Outcome
<1>9. QED
  BY <1>1, <1>3, <1>4, <1>5, <1>6, <1>7, <1>8

(* What a migration leaves has the layout of the version it brings.        *)
LEMMA MigrateOutcome ==
    ASSUME SchemaInv, NEW o \in Openers, Migrate(o)
    PROVE  LET n == opener[o].next
           IN  /\ n \in 1..6 /\ schema.version \in 0..6
               /\ schema.version \in {n - 1, n}
               /\ schema'.version = n
               /\ schema'.scaffoldRows = schema.scaffoldRows
               /\ DOMAIN schema' = DOMAIN schema
               /\ schema'.tables = [t \in Tables |-> Layout(n, t)]
               /\ schema'.columns <=> n >= 3
               /\ n = 6 => ~schema'.unversioned
<1> DEFINE n == opener[o].next
           v == schema.version
           S == Applied(n)
<1>1. n \in 1..6 /\ v \in 0..6
  BY DEF SchemaInv, Migrations, Migrate
<1>2. n = v + 1 \/ (n = 6 /\ v = 6)
  BY AppliesInTurn DEF Migrate
<1>3. /\ schema.tables = [t \in Tables |-> Layout(v, t)] /\ (schema.columns <=> v >= 3)
      /\ DOMAIN schema = {"version", "tables", "columns", "scaffoldRows", "unversioned"}
  BY DEF SchemaInv
<1>4. schema' = [S EXCEPT !.version = n]
  BY DEF Migrate
<1> HIDE DEF n, v, S
<1>5. /\ DOMAIN S = DOMAIN schema
      /\ S.tables = [t \in Tables |-> Layout(n, t)]
      /\ S.columns <=> n >= 3
      /\ S.scaffoldRows = schema.scaffoldRows
      /\ n = 6 => ~S.unversioned
  BY <1>1, <1>2, <1>3, AppliedOutcome DEF v, S, Migrations
<1>6. v \in {n - 1, n}
  BY <1>1, <1>2
<1>7. QED
  BY <1>1, <1>3, <1>4, <1>5, <1>6 DEF n, v

LEMMA SchemaStep == SchemaInv /\ [SchemaNext]_schemaVars => SchemaInv'
<1> SUFFICES ASSUME SchemaInv, [SchemaNext]_schemaVars PROVE SchemaInv'
  OBVIOUS
<1>1. ASSUME NEW o \in Openers, Migrate(o) PROVE SchemaInv'
  <2> DEFINE n == opener[o].next
  <2>1. /\ n \in 1..6 /\ schema.version \in 0..6
        /\ schema.version \in {n - 1, n}
        /\ schema'.version = n
        /\ DOMAIN schema' = DOMAIN schema
        /\ schema'.tables = [t \in Tables |-> Layout(n, t)]
        /\ schema'.columns <=> n >= 3
        /\ n = 6 => ~schema'.unversioned
    BY <1>1, MigrateOutcome
  <2>2. opener' = [opener EXCEPT ![o].next = n + 1]
    BY <1>1 DEF Migrate
  <2>3. ASSUME NEW q \in Openers
        PROVE  /\ DOMAIN opener'[q] = {"at", "next"}
               /\ opener'[q].at = opener[q].at
               /\ opener'[q].next = IF q = o THEN n + 1 ELSE opener[q].next
    BY <2>2 DEF SchemaInv
  <2>4. ASSUME NEW q \in Openers
        PROVE  /\ opener'[q].at = "migrating" =>
                     schema'.version <= 6 /\ opener'[q].next \in 1..schema'.version + 1
               /\ opener'[q].at = "open" => schema'.version = 6
    <3>1. opener[q].at = "migrating" => opener[q].next \in 1..schema.version + 1
      BY DEF SchemaInv
    <3>2. opener[q].at = "open" => schema.version = 6
      BY DEF SchemaInv, Migrations
    <3> HIDE DEF n
    <3>3. opener[q].at = "open" => schema'.version = 6
      BY <2>1, <3>2
    <3>4. QED
      BY <2>1, <2>3, <3>1, <3>3
  <2>5. DOMAIN opener' = Openers
    BY <2>2 DEF SchemaInv
  <2> HIDE DEF n
  <2>6. QED
    BY <2>1, <2>3, <2>4, <2>5 DEF SchemaInv, Migrations
<1>2. ASSUME NEW o \in Openers, ReadVersion(o) PROVE SchemaInv'
  BY <1>2 DEF SchemaInv, ReadVersion, Migrations
<1>3. ASSUME NEW o \in Openers, Opened(o) PROVE SchemaInv'
  BY <1>3 DEF SchemaInv, Opened, Migrations
<1>4. ASSUME NEW o \in Openers, MigrateFails(o) \/ Reopen(o) PROVE SchemaInv'
  BY <1>4 DEF SchemaInv, MigrateFails, Reopen
<1>5. CASE UNCHANGED schemaVars
  BY <1>5 DEF SchemaInv, schemaVars
<1>6. QED
  BY <1>1, <1>2, <1>3, <1>4, <1>5 DEF SchemaNext

LEMMA SchemaInvariance == SchemaSpec => []SchemaInv
BY SchemaInitially, SchemaStep, PTL DEF SchemaSpec

(* However many processes open an old file at once, and wherever they die  *)
(* or fail, one that got it open finds the schema it was built for.        *)
THEOREM OpenMeansMigrated == SchemaSpec => []OpenIsUpToDate
<1>1. SchemaInv => OpenIsUpToDate
  <2> SUFFICES ASSUME SchemaInv, NEW o \in Openers, opener[o].at = "open"
               PROVE  /\ schema.version = Migrations
                      /\ \A t \in Tables : schema.tables[t] = "document"
                      /\ schema.columns /\ ~schema.unversioned
    BY DEF OpenIsUpToDate
  <2>1. schema.version = 6 /\ Migrations = 6
    BY DEF SchemaInv, Migrations
  <2>2. \A t \in Tables : Layout(6, t) = "document"
    BY DEF Tables, Layout
  <2>3. QED
    BY <2>1, <2>2 DEF SchemaInv
<1>2. QED
  BY <1>1, SchemaInvariance, PTL

(* No migration, raced or repeated, drops the rows of an earlier build or  *)
(* takes the version back.                                                 *)
THEOREM RowsSurviveMigration == SchemaSpec => MigrationsKeepData
<1> DEFINE Keeps == schema'.scaffoldRows = schema.scaffoldRows /\ schema'.version >= schema.version
<1>1. SchemaInv /\ [SchemaNext]_schemaVars => [Keeps]_schema
  <2> SUFFICES ASSUME SchemaInv, SchemaNext, schema' # schema PROVE Keeps
    BY DEF schemaVars
  <2>1. PICK o \in Openers : Migrate(o)
    BY DEF SchemaNext, ReadVersion, MigrateFails, Opened, Reopen
  <2>2. LET n == opener[o].next
        IN  /\ n \in 1..6 /\ schema.version \in {n - 1, n} /\ schema'.version = n
            /\ schema'.scaffoldRows = schema.scaffoldRows
    BY <2>1, MigrateOutcome
  <2>3. QED
    BY <2>2
<1>2. [][Keeps]_schema => MigrationsKeepData
  BY DEF MigrationsKeepData
<1>3. QED
  BY <1>1, <1>2, SchemaInvariance, PTL DEF SchemaSpec

-----------------------------------------------------------------------------
(* Sorting: a finite set has an enumeration along any strict total order.  *)

StrictOrder(R, S) ==
    /\ \A x, y \in S : <<x, y>> \in R => <<y, x>> \notin R
    /\ \A x, y, z \in S : <<x, y>> \in R /\ <<y, z>> \in R => <<x, z>> \in R
    /\ \A x, y \in S : x = y \/ <<x, y>> \in R \/ <<y, x>> \in R

Enumerations(R, T) ==
    {f \in SetToSeqs(T) : \A k, l \in DOMAIN f : k < l => <<f[k], f[l]>> \in R}

LEMMA LastExists ==
    ASSUME NEW R, NEW S, IsFiniteSet(S), StrictOrder(R, S), S # {}
    PROVE  \E x \in S : \A y \in S \ {x} : <<y, x>> \in R
<1> DEFINE Above(x) == {y \in S : <<x, y>> \in R}
           T == {Above(x) : x \in S}
<1>1. IsWellFoundedOn(StrictSubsetOrdering(S), SUBSET S)
  BY FS_StrictSubsetOrderingWellFounded, FS_FiniteSubsetsOfFinite
<1>2. T \subseteq SUBSET S /\ T # {}
  OBVIOUS
<1>3. PICK U \in T : \A V \in T : <<V, U>> \notin StrictSubsetOrdering(S)
  BY <1>1, <1>2, WFMin, Zenon
<1>4. PICK x \in S : U = Above(x)
  BY <1>3
<1>5. ASSUME NEW y \in S, <<x, y>> \in R PROVE FALSE
  <2>1. y \in Above(x) /\ y \notin Above(y)
    BY <1>5 DEF StrictOrder
  <2>2. Above(y) \subseteq Above(x)
    BY <1>5 DEF StrictOrder
  <2>3. <<Above(y), Above(x)>> \in StrictSubsetOrdering(S)
    BY <2>1, <2>2 DEF StrictSubsetOrdering
  <2>4. QED
    BY <1>3, <1>4, <2>3
<1>6. QED
  BY <1>5 DEF StrictOrder

LEMMA EnumerationExists ==
    ASSUME NEW R, NEW S, IsFiniteSet(S), StrictOrder(R, S)
    PROVE  Enumerations(R, S) # {}
<1> SUFFICES ASSUME Enumerations(R, S) = {} PROVE FALSE
  OBVIOUS
<1> DEFINE Bad == {T \in SUBSET S : Enumerations(R, T) = {}}
<1>1. IsWellFoundedOn(StrictSubsetOrdering(S), SUBSET S)
  BY FS_StrictSubsetOrderingWellFounded, FS_FiniteSubsetsOfFinite
<1>2. Bad \subseteq SUBSET S /\ Bad # {}
  OBVIOUS
<1>3. PICK T \in Bad : \A V \in Bad : <<V, T>> \notin StrictSubsetOrdering(S)
  BY <1>1, <1>2, WFMin, Zenon
<1>4. T \subseteq S /\ IsFiniteSet(T) /\ StrictOrder(R, T)
  BY <1>3, FS_Subset DEF StrictOrder
<1>5. CASE T = {}
  <2>1. Cardinality(T) = 0
    BY <1>5, FS_EmptySet
  <2>2. 1..Cardinality(T) = {}
    BY <2>1
  <2>3. [k \in {} |-> k] \in Enumerations(R, T)
    BY <1>5, <2>2 DEF Enumerations, SetToSeqs
  <2>4. QED
    BY <1>3, <2>3
<1>6. CASE T # {}
  <2>1. PICK last \in T : \A y \in T \ {last} : <<y, last>> \in R
    BY <1>4, <1>6, LastExists
  <2> DEFINE U == T \ {last}
             n == Cardinality(T)
  <2>2. n \in Nat /\ n # 0 /\ Cardinality(U) = n - 1
    BY <1>4, <1>6, FS_CardinalityType, FS_EmptySet, FS_RemoveElement
  <2>3. <<U, T>> \in StrictSubsetOrdering(S)
    BY <1>4, <2>1 DEF StrictSubsetOrdering
  <2>4. U \in SUBSET S /\ U \notin Bad
    BY <1>3, <1>4, <2>3
  <2>5. PICK g : g \in Enumerations(R, U)
    BY <2>4
  <2> HIDE DEF n
  <2>6. /\ g \in [1..n - 1 -> U]
        /\ \A i, j \in 1..n - 1 : i # j => g[i] # g[j]
        /\ \A k, l \in 1..n - 1 : k < l => <<g[k], g[l]>> \in R
    BY <2>2, <2>5 DEF Enumerations, SetToSeqs
  <2> DEFINE f == [k \in 1..n |-> IF k = n THEN last ELSE g[k]]
  <2>7. \A k \in 1..n : k # n => k \in 1..n - 1
    BY <2>2
  <2>8. /\ f \in [1..n -> T] /\ DOMAIN f = 1..n
        /\ f[n] = last
        /\ \A k \in 1..n - 1 : f[k] = g[k] /\ f[k] \in U
    BY <2>1, <2>2, <2>6, <2>7
  <2> HIDE DEF f
  <2>9. \A k, l \in 1..n : k < l => <<f[k], f[l]>> \in R
    <3> SUFFICES ASSUME NEW k \in 1..n, NEW l \in 1..n, k < l PROVE <<f[k], f[l]>> \in R
      OBVIOUS
    <3>1. k \in 1..n - 1
      BY <2>2
    <3>2. CASE l = n
      BY <2>1, <2>8, <3>1, <3>2
    <3>3. CASE l # n
      BY <2>6, <2>7, <2>8, <3>1, <3>3
    <3>4. QED
      BY <3>2, <3>3
  <2>10. \A i, j \in 1..n : i # j => f[i] # f[j]
    <3> SUFFICES ASSUME NEW i \in 1..n, NEW j \in 1..n, i < j PROVE f[i] # f[j]
      BY <2>2
    <3>1. <<f[i], f[j]>> \in R /\ f[i] \in S /\ f[j] \in S
      BY <1>4, <2>8, <2>9
    <3>2. QED
      BY <3>1 DEF StrictOrder
  <2>11. f \in Enumerations(R, T)
    BY <2>8, <2>9, <2>10 DEF Enumerations, SetToSeqs, n
  <2>12. QED
    BY <1>3, <2>11
<1>7. QED
  BY <1>5, <1>6

LEMMA ListedById ==
    ASSUME NEW T \in SUBSET Int, IsFiniteSet(T)
    PROVE  /\ InIdOrder(T) \in [1..Cardinality(T) -> T]
           /\ \A k, l \in 1..Cardinality(T) : k # l => InIdOrder(T)[k] # InIdOrder(T)[l]
           /\ \A x \in T : \E k \in 1..Cardinality(T) : InIdOrder(T)[k] = x
<1> DEFINE R == {p \in T \X T : p[1] < p[2]}
           Listing(s) == \A k, l \in DOMAIN s : k < l => s[k] < s[l]
           n == Cardinality(T)
<1>1. StrictOrder(R, T)
  BY DEF StrictOrder
<1>2. PICK f : f \in Enumerations(R, T)
  BY <1>1, EnumerationExists
<1>3. \A s \in SetToSeqs(T) : DOMAIN s = 1..n /\ s \in [1..n -> T]
  BY DEF SetToSeqs
<1>4. f \in SetToSeqs(T) /\ Listing(f)
  BY <1>2 DEF Enumerations
<1>5. InIdOrder(T) = CHOOSE s \in SetToSeqs(T) : Listing(s)
  BY DEF InIdOrder, InOrder
<1> HIDE DEF Listing
<1>6. InIdOrder(T) \in SetToSeqs(T) /\ Listing(InIdOrder(T))
  BY <1>4, <1>5
<1> DEFINE s == InIdOrder(T)
<1> HIDE DEF s
<1>7. s \in [1..n -> T] /\ \A k, l \in 1..n : k # l => s[k] # s[l]
  BY <1>6 DEF SetToSeqs, s
<1>8. s \in Injection(1..n, T)
  BY <1>7 DEF Injection, IsInjective
<1>9. n \in Nat /\ IsFiniteSet(1..n) /\ Cardinality(1..n) = n
  BY FS_CardinalityType, FS_Interval
<1>10. s \in Surjection(1..n, T)
  BY <1>8, <1>9, FS_Injection
<1>11. \A x \in T : \E k \in 1..n : s[k] = x
  BY <1>10 DEF Surjection
<1>12. QED
  BY <1>7, <1>11 DEF s

-----------------------------------------------------------------------------
(* The two banks                                                           *)

(* They hold the same, and every entry is under its own id.                *)
BankInv ==
    /\ itemRows = items /\ testRows = tests
    /\ IsFiniteSet(DOMAIN items) /\ DOMAIN items \subseteq ItemIds
    /\ \A i \in DOMAIN items : items[i].id = i /\ items[i].band \in Nat \ {0}
    /\ \A t \in DOMAIN tests : tests[t].id = t

LEMMA BankInitially == DbInit => BankInv
<1> SUFFICES ASSUME DbInit PROVE BankInv
  OBVIOUS
<1>1. DOMAIN items = {} /\ DOMAIN tests = {} /\ itemRows = items /\ testRows = tests
  BY DEF DbInit, Empty
<1>2. QED
  BY <1>1, FS_EmptySet DEF BankInv

(* What NewItem lets through can be stored in either bank.                 *)
LEMMA ValidSnapshot ==
    ASSUME NEW spec \in ItemSpecs, ValidItem(spec)
    PROVE  LET snap == Snapshot(spec)
           IN  snap.id \in ItemIds /\ snap.band \in Nat \ {0} /\ Marshals(snap)
<1> DEFINE snap == Snapshot(spec)
<1>1. /\ {"id", "band", "format", "key"} \subseteq DOMAIN spec
      /\ spec.id \in ItemIds \cup {NoId} /\ spec.band \in Int
  BY RequestAssumption
<1>2. snap.id = spec.id /\ snap.band = spec.band /\ snap.key = spec.key
  BY <1>1 DEF Snapshot
<1>3. spec.id # NoId /\ spec.band >= 1
  BY DEF ValidItem, ValidCommon
<1>4. Finite(spec.key.numeric) /\ Finite(spec.key.tolerance)
  <2>1. CASE ValidOpenNumeric(spec)
    BY <2>1 DEF ValidOpenNumeric
  <2>2. ASSUME spec.key = [BlankKey EXCEPT !.option = spec.key.option]
               \/ spec.key = [BlankKey EXCEPT !.verdict = spec.key.verdict]
        PROVE  Finite(spec.key.numeric) /\ Finite(spec.key.tolerance)
    <3>1. spec.key.numeric = "0" /\ spec.key.tolerance = "0"
      BY <2>2 DEF BlankKey
    <3>2. QED
      BY <3>1 DEF Finite
  <2>3. QED
    BY <2>1, <2>2 DEF ValidItem, ValidAnswer, ValidMultipleChoice, ValidTrueFalse
<1> HIDE DEF snap
<1>5. QED
  BY <1>1, <1>2, <1>3, <1>4 DEF Marshals, snap

LEMMA EditStep == ASSUME BankInv, EditItems PROVE BankInv'
<1>1. ASSUME NEW spec \in ItemSpecs, ValidItem(spec), SaveItem(Snapshot(spec)) PROVE BankInv'
  <2> DEFINE snap == Snapshot(spec)
  <2>1. snap.id \in ItemIds /\ snap.band \in Nat \ {0} /\ Marshals(snap)
    BY <1>1, ValidSnapshot
  <2>2. /\ items' = Put(items, snap.id, snap) /\ itemRows' = items'
        /\ UNCHANGED <<tests, testRows>>
    BY <1>1, <2>1 DEF SaveItem, SaveItemRow, BankInv
  <2> HIDE DEF snap
  <2>3. /\ DOMAIN items' = DOMAIN items \cup {snap.id}
        /\ \A i \in DOMAIN items' : items'[i] = IF i = snap.id THEN snap ELSE items[i]
    BY <2>2 DEF Put
  <2>4. IsFiniteSet(DOMAIN items')
    BY <2>3, FS_AddElement DEF BankInv
  <2>5. QED
    BY <2>1, <2>2, <2>3, <2>4 DEF BankInv
<1>2. ASSUME NEW id \in DOMAIN items, DeleteItem(id) PROVE BankInv'
  <2>1. items' = Drop(items, id) /\ itemRows' = items' /\ UNCHANGED <<tests, testRows>>
    BY <1>2 DEF DeleteItem, DeleteItemRow, BankInv
  <2>2. /\ DOMAIN items' = DOMAIN items \ {id}
        /\ \A i \in DOMAIN items' : items'[i] = items[i]
    BY <2>1 DEF Drop
  <2>3. IsFiniteSet(DOMAIN items')
    BY <2>2, FS_RemoveElement DEF BankInv
  <2>4. QED
    BY <2>1, <2>2, <2>3 DEF BankInv
<1>3. QED
  BY <1>1, <1>2 DEF EditItems

LEMMA TestStep ==
    ASSUME BankInv, NEW id, \/ DeleteTest(id) \/ \E test : test.id = id /\ SaveTest(id, test)
    PROVE  BankInv'
<1>1. CASE DeleteTest(id)
  <2>1. tests' = Drop(tests, id) /\ testRows' = tests' /\ UNCHANGED <<items, itemRows>>
    BY <1>1 DEF DeleteTest, DeleteTestRow, BankInv
  <2>2. \A t \in DOMAIN tests' : t \in DOMAIN tests /\ tests'[t] = tests[t]
    BY <2>1 DEF Drop
  <2>3. QED
    BY <2>1, <2>2 DEF BankInv
<1>2. ASSUME NEW test, test.id = id, SaveTest(id, test) PROVE BankInv'
  <2>1. tests' = Put(tests, id, test) /\ testRows' = tests' /\ UNCHANGED <<items, itemRows>>
    BY <1>2 DEF SaveTest, SaveTestRow, BankInv
  <2>2. \A t \in DOMAIN tests' : tests'[t] = IF t = id THEN test ELSE tests[t]
    BY <2>1 DEF Put
  <2>3. \A t \in DOMAIN tests' : t = id \/ t \in DOMAIN tests
    BY <2>1 DEF Put
  <2>4. QED
    BY <1>2, <2>1, <2>2, <2>3 DEF BankInv
<1>3. QED
  BY <1>1, <1>2

(* The SELECT picks what the filter matches.                               *)
LEMMA WhereMatches == ASSUME NEW f, NEW snap PROVE Where(f, Columns(snap)) <=> Matches(f, snap)
<1> DEFINE col == Columns(snap)
<1>1. /\ col.family = snap.family /\ col.test_type = snap.type /\ col.origin = snap.origin
      /\ col.redistributable = snap.redist /\ col.difficulty_band = snap.band
  BY DEF Columns
<1> HIDE DEF col
<1>2. Where(f, col) <=> Matches(f, snap)
  BY <1>1 DEF Where, Matches, Narrows
<1>3. QED
  BY <1>2 DEF col

(* A listing holds each matching item once.                                *)
LEMMA Listing ==
    ASSUME BankInv, NEW f
    PROVE  LET T == {i \in DOMAIN items : Matches(f, items[i])}
               ids == InIdOrder(T)
               n == Cardinality(T)
           IN  /\ n \in Nat /\ IsFiniteSet(T)
               /\ ids \in [1..n -> T]
               /\ \A k, l \in 1..n : k # l => ids[k] # ids[l]
               /\ \A x \in T : \E k \in 1..n : ids[k] = x
               /\ ListItems(f) = [k \in 1..n |-> items[ids[k]]]
<1> DEFINE T == {i \in DOMAIN items : Matches(f, items[i])}
<1>1. T \in SUBSET Int /\ T \in SUBSET DOMAIN items
  <2>1. \A i \in ItemIds : i \in Int
    BY IdAssumption
  <2>2. DOMAIN items \subseteq ItemIds
    BY DEF BankInv
  <2>3. QED
    BY <2>1, <2>2
<1>2. IsFiniteSet(T)
  BY <1>1, FS_Subset DEF BankInv
<1>3. ListItems(f) = [k \in DOMAIN InIdOrder(T) |-> items[InIdOrder(T)[k]]]
  BY DEF ListItems
<1> HIDE DEF T
<1>4. Cardinality(T) \in Nat
  BY <1>2, FS_CardinalityType
<1> DEFINE ids == InIdOrder(T)
           n == Cardinality(T)
<1>5. /\ ids \in [1..n -> T]
      /\ \A k, l \in 1..n : k # l => ids[k] # ids[l]
      /\ \A x \in T : \E k \in 1..n : ids[k] = x
  BY <1>1, <1>2, ListedById
<1>6. ListItems(f) = [k \in DOMAIN ids |-> items[ids[k]]]
  BY <1>3
<1> HIDE DEF ids, n
<1>7. ListItems(f) = [k \in 1..n |-> items[ids[k]]]
  BY <1>5, <1>6
<1>8. QED
  BY <1>2, <1>4, <1>5, <1>7 DEF T, ids, n

LEMMA SameAnswers == BankInv => StoresAgree
<1> SUFFICES ASSUME BankInv PROVE StoresAgree
  OBVIOUS
<1>1. \A id : GetItem(id) = GetItemRow(id)
  BY DEF BankInv, GetItem, GetItemRow, Unmarshal
<1>2. \A id : GetTest(id) = GetTestRow(id)
  BY DEF BankInv, GetTest, GetTestRow, UnmarshalTest
<1>3. ASSUME NEW f \in Filters PROVE ListItems(f) = ListItemRows(f)
  <2> DEFINE T == {i \in DOMAIN items : Matches(f, items[i])}
             ids == InIdOrder(T)
             n == Cardinality(T)
  <2>1. {i \in DOMAIN itemRows : Where(f, Columns(itemRows[i]))} = T
    BY WhereMatches DEF BankInv
  <2>2. ListItemRows(f) = [k \in DOMAIN ids |-> GetItemRow(ids[k])]
    BY <2>1 DEF ListItemRows
  <2>3. ids \in [1..n -> T] /\ ListItems(f) = [k \in 1..n |-> items[ids[k]]]
    BY Listing
  <2>4. \A i \in T : GetItemRow(i) = items[i]
    BY <1>1 DEF GetItem
  <2> HIDE DEF T, ids, n
  <2>5. QED
    BY <2>2, <2>3, <2>4
<1>4. QED
  BY <1>1, <1>2, <1>3 DEF StoresAgree

-----------------------------------------------------------------------------
(* Composition                                                             *)

(* refs are the first m of the n snapshots in an order p by band.          *)
FirstByBand(p, snaps, n, m, refs) ==
    /\ p \in [1..n -> 1..n]
    /\ \A k, l \in 1..n : k # l => p[k] # p[l]
    /\ \A k \in 1..n : \E l \in 1..n : p[l] = k
    /\ \A k, l \in 1..n : k < l => snaps[p[k]].band <= snaps[p[l]].band
    /\ refs = [k \in 1..m |-> refs[k]]
    /\ \A k \in 1..m : refs[k] = [item |-> snaps[p[k]].id, band |-> snaps[p[k]].band]

LEMMA EasiestFirst ==
    ASSUME NEW n \in Nat, NEW snaps, DOMAIN snaps = 1..n, \A k \in 1..n : snaps[k].band \in Int,
           NEW count \in Int, NEW m, m = IF count > 0 /\ n > count THEN count ELSE n
    PROVE  \E p : FirstByBand(p, snaps, n, m, Easiest(snaps, count))
<1> DEFINE Before(k, l) == snaps[k].band < snaps[l].band \/ (snaps[k].band = snaps[l].band /\ k < l)
           R == {q \in (1..n) \X (1..n) : Before(q[1], q[2])}
           Sorted(s) == \A k, l \in DOMAIN s : k < l => Before(s[k], s[l])
           p == CHOOSE s \in SetToSeqs(1..n) : Sorted(s)
<1>1. StrictOrder(R, 1..n)
  BY DEF StrictOrder
<1>2. IsFiniteSet(1..n) /\ Cardinality(1..n) = n
  <2>1. IsFiniteSet(1..n) /\ Cardinality(1..n) = IF 1 > n THEN 0 ELSE n - 1 + 1
    BY FS_Interval
  <2>2. QED
    BY <2>1
<1>3. PICK f : f \in Enumerations(R, 1..n)
  BY <1>1, <1>2, EnumerationExists
<1>4. f \in SetToSeqs(1..n) /\ Sorted(f)
  BY <1>3 DEF Enumerations
<1>5. Easiest(snaps, count) =
        LET picked == Capped(p, count)
        IN  [k \in DOMAIN picked |-> [item |-> snaps[picked[k]].id, band |-> snaps[picked[k]].band]]
  BY DEF Easiest, InOrder
<1>6. p \in SetToSeqs(1..n) /\ Sorted(p)
  <2> HIDE DEF Sorted
  <2>1. QED
    BY <1>4
<1> HIDE DEF p
<1>7. p \in [1..n -> 1..n] /\ \A k, l \in 1..n : k # l => p[k] # p[l]
  BY <1>2, <1>6 DEF SetToSeqs
<1>8. p \in Surjection(1..n, 1..n)
  <2>1. p \in Injection(1..n, 1..n)
    BY <1>7 DEF Injection, IsInjective
  <2>2. QED
    BY <1>2, <2>1, FS_Injection
<1>9. \A k \in 1..n : \E l \in 1..n : p[l] = k
  BY <1>8 DEF Surjection
<1>10. \A k, l \in 1..n : k < l => snaps[p[k]].band <= snaps[p[l]].band
  <2> SUFFICES ASSUME NEW k \in 1..n, NEW l \in 1..n, k < l
               PROVE  snaps[p[k]].band <= snaps[p[l]].band
    OBVIOUS
  <2>1. p[k] \in 1..n /\ p[l] \in 1..n /\ Before(p[k], p[l])
    BY <1>6, <1>7
  <2>2. QED
    BY <2>1
<1>11. p \in Seq(1..n) /\ Len(p) = n
  BY <1>7
<1>12. m \in 0..n /\ m \in Nat
  OBVIOUS
<1>13. DOMAIN Capped(p, count) = 1..m /\ \A k \in 1..m : Capped(p, count)[k] = p[k]
  <2>1. CASE count > 0 /\ n > count
    BY <1>7, <1>11, <2>1 DEF Capped
  <2>2. CASE ~(count > 0 /\ n > count)
    BY <1>7, <1>11, <2>2 DEF Capped
  <2>3. QED
    BY <2>1, <2>2
<1>14. Easiest(snaps, count) = [k \in 1..m |-> [item |-> snaps[p[k]].id, band |-> snaps[p[k]].band]]
  <2> DEFINE picked == Capped(p, count)
  <2>1. Easiest(snaps, count) =
          [k \in DOMAIN picked |-> [item |-> snaps[picked[k]].id, band |-> snaps[picked[k]].band]]
    BY <1>5
  <2>2. DOMAIN picked = 1..m /\ \A k \in 1..m : picked[k] = p[k]
    BY <1>13
  <2> HIDE DEF picked
  <2>3. QED
    BY <2>1, <2>2
<1> DEFINE refs == Easiest(snaps, count)
<1> HIDE DEF refs
<1>15. /\ refs = [k \in 1..m |-> refs[k]]
       /\ \A k \in 1..m : refs[k] = [item |-> snaps[p[k]].id, band |-> snaps[p[k]].band]
  BY <1>14 DEF refs
<1>16. FirstByBand(p, snaps, n, m, refs)
  BY <1>7, <1>9, <1>10, <1>15 DEF FirstByBand
<1>17. QED
  BY <1>16 DEF refs

(* The items of the bank that a section may take ...                       *)
Matching(ss) ==
    {i \in DOMAIN items : /\ items[i].family = ss.family
                          /\ items[i].band >= ss.min
                          /\ ss.max <= 0 \/ items[i].band <= ss.max}

(* ... are those its filter lists.                                         *)
LEMMA SectionMatches ==
    ASSUME BankInv, NEW ss, ss.min \in Int, ss.max \in Int
    PROVE  {i \in DOMAIN items : Matches(SectionFilter(ss), items[i])} = Matching(ss)
<1> DEFINE f == SectionFilter(ss)
<1>1. /\ f.families = {ss.family} /\ f.types = {} /\ f.origins = {} /\ f.redist = {}
      /\ f.min = ss.min /\ f.max = ss.max
  BY DEF SectionFilter
<1> HIDE DEF f
<1>2. ASSUME NEW i \in DOMAIN items
      PROVE  Matches(f, items[i]) <=> /\ items[i].family = ss.family
                                      /\ items[i].band >= ss.min
                                      /\ ss.max <= 0 \/ items[i].band <= ss.max
  <2>1. items[i].band \in Nat \ {0}
    BY DEF BankInv
  <2>2. QED
    BY <1>1, <2>1 DEF Matches, Narrows
<1>3. QED
  BY <1>2 DEF Matching, f

(* What refs must be for a section with the plan ss. *)
EasiestOf(ss, refs) ==
    LET taken == {refs[k].item : k \in DOMAIN refs}
    IN  /\ taken \subseteq Matching(ss)
        /\ taken = Matching(ss) \/ Cardinality(taken) = ss.count
        /\ \A i \in taken, j \in Matching(ss) \ taken : items[i].band <= items[j].band
        /\ \A k \in DOMAIN refs : refs[k].band = items[refs[k].item].band

LEMMA Selection ==
    ASSUME BankInv, NEW ss, ss.min \in Int, ss.max \in Int, ss.count \in Int
    PROVE  SelectRefs(ss) \in Seq([item : Int, band : Int]) /\ EasiestOf(ss, SelectRefs(ss))
<1> DEFINE T == Matching(ss)
           ids == InIdOrder(T)
           n == Cardinality(T)
           snaps == ListItems(SectionFilter(ss))
           m == IF ss.count > 0 /\ n > ss.count THEN ss.count ELSE n
           refs == SelectRefs(ss)
           taken == {refs[k].item : k \in DOMAIN refs}
<1>1. /\ n \in Nat /\ IsFiniteSet(T)
      /\ ids \in [1..n -> T]
      /\ \A k, l \in 1..n : k # l => ids[k] # ids[l]
      /\ \A x \in T : \E k \in 1..n : ids[k] = x
      /\ snaps = [k \in 1..n |-> items[ids[k]]]
  <2> DEFINE D == {i \in DOMAIN items : Matches(SectionFilter(ss), items[i])}
  <2>1. D = T
    BY SectionMatches
  <2>2. /\ Cardinality(D) \in Nat /\ IsFiniteSet(D)
        /\ InIdOrder(D) \in [1..Cardinality(D) -> D]
        /\ \A k, l \in 1..Cardinality(D) : k # l => InIdOrder(D)[k] # InIdOrder(D)[l]
        /\ \A x \in D : \E k \in 1..Cardinality(D) : InIdOrder(D)[k] = x
        /\ snaps = [k \in 1..Cardinality(D) |-> items[InIdOrder(D)[k]]]
    BY Listing
  <2> HIDE DEF D, T, snaps
  <2>3. QED
    BY <2>1, <2>2
<1>2. \A i \in T : i \in DOMAIN items /\ i \in Int
  <2>1. \A i \in ItemIds : i \in Int
    BY IdAssumption
  <2>2. DOMAIN items \subseteq ItemIds
    BY DEF BankInv
  <2>3. QED
    BY <2>1, <2>2 DEF Matching
<1>3. \A i \in T : items[i].id = i /\ items[i].band \in Int
  <2> HIDE DEF T
  <2>1. QED
    BY <1>2 DEF BankInv
<1>4. refs = Easiest(snaps, ss.count)
  BY DEF SelectRefs
<1> HIDE DEF T, ids, n, snaps, refs
<1>5. DOMAIN snaps = 1..n /\ \A k \in 1..n : snaps[k].id = ids[k] /\ snaps[k].band = items[ids[k]].band
  BY <1>1, <1>3
<1>6. \A k \in 1..n : snaps[k].band \in Int
  BY <1>1, <1>3, <1>5
<1>7. m = IF ss.count > 0 /\ n > ss.count THEN ss.count ELSE n
  OBVIOUS
<1> HIDE DEF m
<1>8. PICK p : FirstByBand(p, snaps, n, m, refs)
  BY <1>1, <1>4, <1>5, <1>6, <1>7, EasiestFirst
<1>9. /\ p \in [1..n -> 1..n]
      /\ \A k, l \in 1..n : k # l => p[k] # p[l]
      /\ \A k \in 1..n : \E l \in 1..n : p[l] = k
      /\ \A k, l \in 1..n : k < l => snaps[p[k]].band <= snaps[p[l]].band
      /\ refs = [k \in 1..m |-> refs[k]]
      /\ \A k \in 1..m : refs[k] = [item |-> snaps[p[k]].id, band |-> snaps[p[k]].band]
  BY <1>8 DEF FirstByBand
<1>10. m \in 0..n /\ \A k \in 1..m : k \in 1..n
  BY <1>1, <1>7
<1>11. m = n \/ m = ss.count
  BY <1>7
<1> HIDE DEF taken
<1> DEFINE item == [k \in 1..n |-> ids[p[k]]]
<1>12. /\ item \in [1..n -> T]
       /\ \A k, l \in 1..n : k # l => item[k] # item[l]
       /\ \A k \in 1..n : item[k] = snaps[p[k]].id /\ items[item[k]].band = snaps[p[k]].band
  BY <1>1, <1>5, <1>9
<1>13. \A x \in T : \E k \in 1..n : item[k] = x
  <2> SUFFICES ASSUME NEW x \in T PROVE \E k \in 1..n : item[k] = x
    OBVIOUS
  <2>1. PICK l \in 1..n : ids[l] = x
    BY <1>1
  <2>2. PICK k \in 1..n : p[k] = l
    BY <1>9
  <2>3. QED
    BY <2>1, <2>2
<1> HIDE DEF item
<1>14. /\ DOMAIN refs = 1..m
       /\ \A k \in 1..m : refs[k] = [item |-> item[k], band |-> items[item[k]].band]
  BY <1>9, <1>10, <1>12
<1>15. refs \in Seq([item : Int, band : Int])
  <2>1. \A k \in 1..m : refs[k] \in [item : Int, band : Int]
    BY <1>2, <1>3, <1>10, <1>12, <1>14
  <2>2. refs \in [1..m -> [item : Int, band : Int]]
    BY <1>9, <1>14, <2>1
  <2>3. m \in Nat
    BY <1>1, <1>10
  <2>4. QED
    BY <2>2, <2>3, SeqDef
<1>16. taken = {item[k] : k \in 1..m}
  BY <1>14 DEF taken
<1>17. taken \subseteq T
  BY <1>10, <1>12, <1>16
<1>18. taken = T \/ Cardinality(taken) = ss.count
  <2>1. CASE m = n
    <3>1. taken \subseteq T /\ T \subseteq taken
      BY <1>12, <1>13, <1>16, <2>1
    <3>2. QED
      BY <3>1
  <2>2. CASE m = ss.count
    <3> DEFINE head == [k \in 1..m |-> item[k]]
    <3>1. head \in Injection(1..m, taken) /\ head \in Surjection(1..m, taken)
      BY <1>10, <1>12, <1>16 DEF Injection, IsInjective, Surjection
    <3>2. IsFiniteSet(1..m) /\ Cardinality(1..m) = IF 1 > m THEN 0 ELSE m - 1 + 1
      BY <1>10, FS_Interval
    <3>3. Cardinality(1..m) = m
      BY <1>10, <3>2
    <3>4. Cardinality(taken) = Cardinality(1..m)
      BY <3>1, <3>2, FS_Surjection
    <3>5. QED
      BY <2>2, <3>3, <3>4
  <2>3. QED
    BY <1>11, <2>1, <2>2
<1>19. ASSUME NEW i \in taken, NEW j \in T \ taken PROVE items[i].band <= items[j].band
  <2>1. PICK k \in 1..m : item[k] = i
    BY <1>16
  <2>2. PICK l \in 1..n : item[l] = j
    BY <1>13
  <2>3. l \notin 1..m
    BY <1>16, <2>2
  <2>4. k \in 1..n /\ k < l
    BY <1>10, <2>3
  <2>5. snaps[p[k]].band <= snaps[p[l]].band
    BY <1>9, <2>4
  <2>6. QED
    BY <1>12, <2>1, <2>2, <2>4, <2>5
<1>20. \A k \in DOMAIN refs : refs[k].band = items[refs[k].item].band
  BY <1>14
<1>21. QED
  BY <1>15, <1>17, <1>18, <1>19, <1>20 DEF EasiestOf, T, refs, taken

(* A request in progress has read the first sections of its plan, each as  *)
(* the bank still shows it when nobody wrote in between.                   *)
SectionRead == [family : STRING, timing : [total : Int, perItem : Int],
                refs : Seq([item : Int, band : Int])]

Filling(c, still) ==
    /\ DOMAIN c = {"at", "spec", "sections"} /\ c.at = "filling"
    /\ c.spec \in ComposeSpecs
    /\ c.sections \in Seq(SectionRead) /\ Len(c.sections) <= Len(c.spec.sections)
    /\ still => \A k \in 1..Len(c.sections) : c.sections[k].refs = SelectRefs(c.spec.sections[k])

ComposeInv ==
    /\ DOMAIN compose = Composers /\ steady \in [Composers -> BOOLEAN]
    /\ \A r \in Composers : compose[r] = Idle \/ Filling(compose[r], steady[r])

StoresInv == BankInv /\ ComposeInv

LEMMA SectionSpecs ==
    ASSUME NEW spec \in ComposeSpecs
    PROVE  /\ DOMAIN spec = {"id", "title", "policy", "timing", "sections"}
           /\ Len(spec.sections) \in Nat /\ DOMAIN spec.sections = 1..Len(spec.sections)
           /\ \A k \in 1..Len(spec.sections) :
                 LET ss == spec.sections[k]
                 IN  /\ ss.family \in STRING /\ ss.timing \in [total : Int, perItem : Int]
                     /\ ss.min \in Int /\ ss.max \in Int /\ ss.count \in Int
<1> DEFINE S == [family : STRING, timing : [total : Int, perItem : Int], min : Int, max : Int, count : Int]
<1>1. DOMAIN spec = {"id", "title", "policy", "timing", "sections"} /\ spec.sections \in Seq(S)
  BY RequestAssumption
<1>2. \A ss \in S : /\ ss.family \in STRING /\ ss.timing \in [total : Int, perItem : Int]
                     /\ ss.min \in Int /\ ss.max \in Int /\ ss.count \in Int
  OBVIOUS
<1> HIDE DEF S
<1>3. \A k \in 1..Len(spec.sections) : spec.sections[k] \in S
  BY <1>1, ElementOfSeq
<1>4. QED
  BY <1>1, <1>2, <1>3, LenProperties

LEMMA SelectionKeeps == ASSUME UNCHANGED items, NEW ss PROVE SelectRefs(ss)' = SelectRefs(ss)
BY DEF SelectRefs, ListItems

LEMMA StoresInitially == Init => StoresInv
<1> SUFFICES ASSUME Init PROVE StoresInv
  OBVIOUS
<1>1. BankInv
  BY BankInitially DEF Init
<1>2. ComposeInv
  BY DEF Init, ComposeInv
<1>3. QED
  BY <1>1, <1>2 DEF StoresInv

LEMMA IdleIsNotFilling == ASSUME NEW c, NEW still, Filling(c, still) PROVE c # Idle
BY DEF Filling, Idle

(* A write to the bank: nobody in progress is steady any more.             *)
LEMMA ComposeEdit == ASSUME ComposeInv, EditItems PROVE ComposeInv'
<1>1. compose' = compose /\ steady' = [r \in Composers |-> compose[r] = Idle]
  BY DEF EditItems
<1>2. steady' \in [Composers -> BOOLEAN]
  BY <1>1
<1>3. ASSUME NEW r \in Composers PROVE (compose[r] = Idle \/ Filling(compose[r], steady[r]))'
  <2>1. CASE compose[r] = Idle
    BY <1>1, <2>1 DEF Idle
  <2>2. CASE Filling(compose[r], steady[r])
    <3>1. ~steady'[r]
      BY <1>1, <2>2, IdleIsNotFilling
    <3>2. QED
      BY <1>1, <2>2, <3>1 DEF Filling
  <2>3. QED
    BY <2>1, <2>2 DEF ComposeInv
<1>4. QED
  BY <1>1, <1>2, <1>3 DEF ComposeInv

(* A step of a request that leaves the items alone and the others as they are. *)
LEMMA ComposeOthers ==
    ASSUME ComposeInv, UNCHANGED items, NEW r \in Composers, DOMAIN compose' = Composers,
           steady' \in [Composers -> BOOLEAN],
           \A q \in Composers \ {r} : compose'[q] = compose[q] /\ steady'[q] = steady[q],
           compose'[r] = Idle \/ Filling(compose[r], steady[r])'
    PROVE  ComposeInv'
<1>1. ASSUME NEW q \in Composers PROVE (compose[q] = Idle \/ Filling(compose[q], steady[q]))'
  <2>1. CASE q = r
    BY <2>1 DEF Idle
  <2>2. CASE q # r
    <3>1. compose'[q] = compose[q] /\ steady'[q] = steady[q]
      BY <2>2
    <3>2. CASE compose[q] = Idle
      BY <3>1, <3>2 DEF Idle
    <3>3. CASE Filling(compose[q], steady[q])
      BY <3>1, <3>3, SelectionKeeps DEF Filling
    <3>4. QED
      BY <3>2, <3>3 DEF ComposeInv
  <2>3. QED
    BY <2>1, <2>2
<1>2. QED
  BY <1>1 DEF ComposeInv

LEMMA BeginStep == ASSUME ComposeInv, NEW r \in Composers, Begin(r) PROVE ComposeInv'
<1>1. PICK spec \in ComposeSpecs :
        compose' = [compose EXCEPT ![r] = [at |-> "filling", spec |-> spec, sections |-> <<>>]]
  BY DEF Begin
<1>2. UNCHANGED items /\ steady' = steady
  BY DEF Begin, dbVars
<1>3. Len(spec.sections) \in Nat
  BY SectionSpecs
<1>4. compose'[r] = [at |-> "filling", spec |-> spec, sections |-> <<>>]
  BY <1>1 DEF ComposeInv
<1>5. Filling(compose[r], steady[r])'
  <2>1. <<>> \in Seq(SectionRead) /\ Len(<<>>) = 0
    BY EmptySeq
  <2>2. QED
    BY <1>3, <1>4, <2>1 DEF Filling
<1>6. QED
  BY <1>1, <1>2, <1>5, ComposeOthers DEF ComposeInv

LEMMA FillStep == ASSUME BankInv, ComposeInv, NEW r \in Composers, Fill(r) PROVE ComposeInv'
<1> DEFINE c == compose[r]
           n == Len(c.sections) + 1
           ss == c.spec.sections[n]
           read == [family |-> ss.family, timing |-> ss.timing, refs |-> SelectRefs(ss)]
<1>1. Filling(c, steady[r])
  BY DEF Fill, ComposeInv, Idle
<1>2. n <= Len(c.spec.sections) /\ UNCHANGED items /\ steady' = steady
  BY DEF Fill, dbVars
<1>3. compose' = [compose EXCEPT ![r] = [c EXCEPT !.sections = Append(c.sections, read)]]
  BY DEF Fill
<1> HIDE DEF c
<1>4. /\ DOMAIN c = {"at", "spec", "sections"} /\ c.at = "filling"
      /\ c.spec \in ComposeSpecs /\ c.sections \in Seq(SectionRead)
      /\ Len(c.sections) \in Nat
  BY <1>1, LenProperties DEF Filling
<1>5. n \in 1..Len(c.spec.sections)
  BY <1>2, <1>4, SectionSpecs
<1>6. /\ ss.family \in STRING /\ ss.timing \in [total : Int, perItem : Int]
      /\ ss.min \in Int /\ ss.max \in Int /\ ss.count \in Int
  BY <1>4, <1>5, SectionSpecs
<1>7. SelectRefs(ss) \in Seq([item : Int, band : Int])
  BY <1>6, Selection
<1> HIDE DEF ss
<1>8. read \in SectionRead
  BY <1>6, <1>7 DEF SectionRead
<1>9. read.refs = SelectRefs(ss)
  OBVIOUS
<1> HIDE DEF read
<1> DEFINE longer == Append(c.sections, read)
<1>10. /\ longer \in Seq(SectionRead) /\ Len(longer) = n
       /\ \A k \in 1..n : longer[k] = IF k = n THEN read ELSE c.sections[k]
  BY <1>4, <1>8
<1> HIDE DEF longer
<1>11. compose'[r] = [c EXCEPT !.sections = longer]
  BY <1>3 DEF ComposeInv, longer
<1>12. /\ DOMAIN compose'[r] = {"at", "spec", "sections"} /\ compose'[r].at = "filling"
       /\ compose'[r].spec = c.spec /\ compose'[r].sections = longer
  BY <1>4, <1>11
<1>13. steady[r] => \A k \in 1..n : longer[k].refs = SelectRefs(c.spec.sections[k])
  <2> SUFFICES ASSUME steady[r], NEW k \in 1..n PROVE longer[k].refs = SelectRefs(c.spec.sections[k])
    OBVIOUS
  <2>1. CASE k = n
    BY <1>9, <1>10, <2>1 DEF ss
  <2>2. CASE k # n
    <3>1. k \in 1..Len(c.sections)
      BY <1>4, <2>2
    <3>2. c.sections[k].refs = SelectRefs(c.spec.sections[k])
      BY <1>1, <3>1 DEF Filling
    <3>3. QED
      BY <1>10, <2>2, <3>2
  <2>3. QED
    BY <2>1, <2>2
<1>14. Filling(compose[r], steady[r])'
  <2>1. n <= Len(compose'[r].spec.sections)
    BY <1>2, <1>12
  <2>2. steady'[r] => \A k \in 1..Len(compose'[r].sections) :
             compose'[r].sections[k].refs = SelectRefs(compose[r].spec.sections[k])'
    BY <1>2, <1>10, <1>12, <1>13, SelectionKeeps
  <2>3. QED
    BY <1>4, <1>10, <1>12, <2>1, <2>2 DEF Filling
<1>15. QED
  BY <1>2, <1>3, <1>14, ComposeOthers DEF ComposeInv

(* Store and GiveUp leave the slot idle. *)
LEMMA EndStep ==
    ASSUME ComposeInv, NEW r \in Composers, Store(r) \/ GiveUp(r)
    PROVE  ComposeInv'
<1>1. /\ compose' = [compose EXCEPT ![r] = Idle] /\ steady' = [steady EXCEPT ![r] = TRUE]
      /\ UNCHANGED items
  BY DEF Store, GiveUp, SaveTest, dbVars
<1>2. QED
  BY <1>1, ComposeOthers DEF ComposeInv

LEMMA StoredId ==
    ASSUME ComposeInv, NEW r \in Composers, Store(r)
    PROVE  /\ TestSnapshot(TestSpec(r)).id = compose[r].spec.id
           /\ TestSnapshot(TestSpec(r)).sections = compose[r].sections
<1>1. Filling(compose[r], steady[r])
  BY DEF Store, Filled, ComposeInv, Idle
<1>2. DOMAIN compose[r].spec = {"id", "title", "policy", "timing", "sections"}
  BY <1>1, SectionSpecs DEF Filling
<1>3. QED
  BY <1>2 DEF TestSnapshot, TestSpec

LEMMA StoresStep == StoresInv /\ [Next]_vars => StoresInv'
<1> SUFFICES ASSUME StoresInv, [Next]_vars PROVE StoresInv'
  OBVIOUS
<1> USE DEF StoresInv
<1>1. ASSUME UNCHANGED dbVars PROVE BankInv'
  BY <1>1 DEF BankInv, dbVars
<1>2. ASSUME UNCHANGED <<items, compose, steady>> PROVE ComposeInv'
  <2>1. \A r \in Composers : (compose[r] = Idle \/ Filling(compose[r], steady[r]))'
    BY <1>2, SelectionKeeps DEF ComposeInv, Filling, Idle
  <2>2. QED
    BY <1>2, <2>1 DEF ComposeInv
<1>3. CASE SchemaNext /\ UNCHANGED <<dbVars, compose, steady>>
  BY <1>1, <1>2, <1>3 DEF dbVars
<1>4. CASE EditItems
  BY <1>4, EditStep, ComposeEdit
<1>5. CASE RemoveTest
  <2>1. UNCHANGED <<items, compose, steady>>
    BY <1>5 DEF RemoveTest, DeleteTest
  <2>2. QED
    BY <1>2, <1>5, <2>1, TestStep DEF RemoveTest
<1>6. ASSUME NEW r \in Composers, Begin(r) PROVE StoresInv'
  BY <1>1, <1>6, BeginStep DEF Begin
<1>7. ASSUME NEW r \in Composers, Fill(r) PROVE StoresInv'
  BY <1>1, <1>7, FillStep DEF Fill
<1>8. ASSUME NEW r \in Composers, GiveUp(r) PROVE StoresInv'
  BY <1>1, <1>8, EndStep DEF GiveUp
<1>9. ASSUME NEW r \in Composers, Store(r) PROVE StoresInv'
  <2>1. TestSnapshot(TestSpec(r)).id = compose[r].spec.id
    BY <1>9, StoredId
  <2>2. BankInv'
    BY <1>9, <2>1, TestStep DEF Store
  <2>3. QED
    BY <1>9, <2>2, EndStep
<1>10. CASE UNCHANGED vars
  BY <1>1, <1>2, <1>10 DEF vars, dbVars
<1>11. QED
  BY <1>3, <1>4, <1>5, <1>6, <1>7, <1>8, <1>9, <1>10 DEF Next

LEMMA StoresInvariance == Spec => []StoresInv
BY StoresInitially, StoresStep, PTL DEF Spec

(* Whatever is saved and deleted, in whatever order, no read or listing    *)
(* tells the map of memorytestdb from the rows of sqlitetestdb.            *)
THEOREM TheStoresAgree == Spec => []StoresAgree
BY StoresInvariance, SameAnswers, PTL DEF StoresInv

(* A test composed while the bank stood still took, section by section, as *)
(* many of the matching items as there are up to the cap, the easiest ones.*)
THEOREM TheEasiestAreTaken == Spec => TakesTheEasiest
<1> DEFINE Took == \A r \in Composers : Store(r) /\ steady[r] =>
          LET spec == compose[r].spec IN \A s \in DOMAIN spec.sections :
            LET ss    == spec.sections[s]
                refs  == tests'[spec.id].sections[s].refs
                taken == {refs[k].item : k \in DOMAIN refs}
                match == {i \in DOMAIN items : /\ items[i].family = ss.family
                                               /\ items[i].band >= ss.min
                                               /\ ss.max <= 0 \/ items[i].band <= ss.max}
            IN  /\ taken \subseteq match
                /\ taken = match \/ Cardinality(taken) = ss.count
                /\ \A i \in taken, j \in match \ taken : items[i].band <= items[j].band
                /\ \A k \in DOMAIN refs : refs[k].band = items[refs[k].item].band
<1>1. StoresInv => Took
  <2> SUFFICES ASSUME StoresInv, NEW r \in Composers, Store(r), steady[r],
                      NEW s \in DOMAIN compose[r].spec.sections
               PROVE  EasiestOf(compose[r].spec.sections[s], tests'[compose[r].spec.id].sections[s].refs)
    BY DEF Matching, EasiestOf
  <2> DEFINE c == compose[r]
             ss == c.spec.sections[s]
  <2>1. Filling(c, steady[r]) /\ Len(c.sections) = Len(c.spec.sections)
    <3>1. compose[r].at = "filling" /\ Len(c.sections) = Len(c.spec.sections)
      BY DEF Store, Filled
    <3>2. compose[r] # Idle
      BY <3>1 DEF Idle
    <3>3. QED
      BY <3>1, <3>2 DEF StoresInv, ComposeInv
  <2>2. /\ s \in 1..Len(c.spec.sections)
        /\ ss.min \in Int /\ ss.max \in Int /\ ss.count \in Int
    BY <2>1, SectionSpecs DEF Filling
  <2>3. c.sections[s].refs = SelectRefs(ss)
    BY <2>1, <2>2 DEF Filling
  <2>4. tests'[c.spec.id] = TestSnapshot(TestSpec(r))
    BY DEF Store, SaveTest, Put
  <2>5. tests'[c.spec.id].sections[s].refs = SelectRefs(ss)
    BY <2>3, <2>4, StoredId DEF StoresInv
  <2>6. EasiestOf(ss, SelectRefs(ss))
    BY <2>2, Selection DEF StoresInv
  <2>7. QED
    BY <2>5, <2>6
<1>2. [][Took]_vars => TakesTheEasiest
  BY DEF TakesTheEasiest
<1>3. QED
  BY <1>1, <1>2, StoresInvariance, PTL DEF Spec

-----------------------------------------------------------------------------
(* The database file of a bank at work is migrated as Schema has it.       *)
LEMMA BankMigrates == Spec => SchemaSpec
<1>1. Init => SchemaInit
  BY DEF Init
<1>2. [Next]_vars => [SchemaNext]_schemaVars
  BY DEF Next, vars, schemaVars, EditItems, RemoveTest, Begin, Fill, Store, GiveUp
<1>3. QED
  BY <1>1, <1>2, PTL DEF Spec, SchemaSpec

(* Whatever a bank is used for, whoever has its file open finds the schema *)
(* of this build in it, and the rows of earlier builds are still there.    *)
THEOREM BankFileIsUpToDate == Spec => []OpenIsUpToDate /\ MigrationsKeepData
BY BankMigrates, OpenMeansMigrated, RowsSurviveMigration, PTL

-----------------------------------------------------------------------------
(* Stored tests                                                            *)

(* A test in the store is one NewTest would accept again.                  *)
PlanInv ==
    \A id \in DOMAIN tests :
        /\ tests[id].sections \in Seq(SectionRead)
        /\ ValidTest(tests[id])
        /\ tests[id].families = SectionFamilies(tests[id].sections)

LEMMA PlanStored ==
    ASSUME ComposeInv, NEW r \in Composers, Store(r)
    PROVE  LET test == TestSnapshot(TestSpec(r))
           IN  /\ test.sections \in Seq(SectionRead)
               /\ ValidTest(test)
               /\ test.families = SectionFamilies(test.sections)
<1> DEFINE spec == TestSpec(r)
           test == TestSnapshot(spec)
<1>1. Filling(compose[r], steady[r])
  BY DEF Store, Filled, ComposeInv, Idle
<1>2. DOMAIN spec = {"id", "title", "policy", "timing", "sections"} /\ spec.sections \in Seq(SectionRead)
  <2>1. DOMAIN compose[r].spec = {"id", "title", "policy", "timing", "sections"}
    BY <1>1, SectionSpecs DEF Filling
  <2>2. QED
    BY <1>1, <2>1 DEF Filling, TestSpec
<1>3. ValidTest(spec)
  BY DEF Store
<1> HIDE DEF spec
<1>4. /\ test.id = spec.id /\ test.title = spec.title /\ test.policy = spec.policy
      /\ test.timing = spec.timing /\ test.sections = spec.sections
      /\ test.families = SectionFamilies(spec.sections)
  BY <1>2 DEF TestSnapshot
<1> HIDE DEF test
<1>5. ValidTest(test)
  BY <1>3, <1>4 DEF ValidTest
<1>6. QED
  BY <1>2, <1>4, <1>5 DEF test, spec

LEMMA PlanStep == StoresInv /\ PlanInv /\ [Next]_vars => PlanInv'
<1> SUFFICES ASSUME StoresInv, PlanInv, [Next]_vars, NEW id \in DOMAIN tests'
             PROVE  /\ tests'[id].sections \in Seq(SectionRead)
                    /\ ValidTest(tests'[id])
                    /\ tests'[id].families = SectionFamilies(tests'[id].sections)
  BY DEF PlanInv
<1>1. ASSUME NEW r \in Composers, Store(r)
      PROVE  \/ id \in DOMAIN tests /\ tests'[id] = tests[id]
             \/ tests'[id] = TestSnapshot(TestSpec(r))
  BY <1>1 DEF Store, SaveTest, Put
<1>2. ASSUME RemoveTest PROVE id \in DOMAIN tests /\ tests'[id] = tests[id]
  BY <1>2 DEF RemoveTest, DeleteTest, Drop
<1>3. tests' = tests \/ RemoveTest \/ \E r \in Composers : Store(r)
  BY DEF Next, vars, dbVars, EditItems, SaveItem, DeleteItem, Begin, Fill, GiveUp
<1>4. QED
  BY <1>1, <1>2, <1>3, PlanStored DEF StoresInv, PlanInv

LEMMA PlanInvariance == Spec => []PlanInv
<1>1. Init => PlanInv
  BY DEF Init, DbInit, Empty, PlanInv
<1>2. QED
  BY <1>1, PlanStep, StoresInvariance, PTL DEF Spec

(* As many items as places. *)
LEMMA ItemsArePlacedOnce ==
    ASSUME NEW secs \in Seq(SectionRead), NoDuplicates(secs)
    PROVE  Cardinality({secs[p[1]].refs[p[2]].item : p \in Places(secs)}) = Cardinality(Places(secs))
<1> DEFINE In(s) == {<<s, k>> : k \in DOMAIN secs[s].refs}
           All == {In(s) : s \in DOMAIN secs}
           P == Places(secs)
           Items == {secs[p[1]].refs[p[2]].item : p \in P}
           f == [p \in P |-> secs[p[1]].refs[p[2]].item]
<1>1. Len(secs) \in Nat /\ DOMAIN secs = 1..Len(secs)
  BY LenProperties
<1>2. ASSUME NEW s \in DOMAIN secs PROVE IsFiniteSet(In(s))
  <2>1. secs[s] \in SectionRead
    BY <1>1, ElementOfSeq
  <2>2. secs[s].refs \in Seq([item : Int, band : Int])
    BY <2>1 DEF SectionRead
  <2>3. DOMAIN secs[s].refs = 1..Len(secs[s].refs) /\ Len(secs[s].refs) \in Nat
    BY <2>2, LenProperties
  <2>4. IsFiniteSet(DOMAIN secs[s].refs)
    BY <2>3, FS_Interval
  <2> DEFINE g == [k \in DOMAIN secs[s].refs |-> <<s, k>>]
  <2>5. g \in Surjection(DOMAIN secs[s].refs, In(s))
    BY DEF Surjection
  <2>6. QED
    BY <2>4, <2>5, FS_Surjection
<1>3. IsFiniteSet(All)
  <2> DEFINE g == [s \in DOMAIN secs |-> In(s)]
  <2>1. g \in Surjection(DOMAIN secs, All)
    BY DEF Surjection
  <2>2. IsFiniteSet(DOMAIN secs)
    BY <1>1, FS_Interval
  <2>3. QED
    BY <2>1, <2>2, FS_Surjection
<1>4. P = UNION All
  BY DEF Places
<1>5. \A T \in All : IsFiniteSet(T)
  BY <1>2
<1> HIDE DEF All
<1>6. IsFiniteSet(P)
  BY <1>3, <1>4, <1>5, FS_UNION
<1>7. \A p \in P : /\ p = <<p[1], p[2]>> /\ p[1] \in DOMAIN secs /\ p[2] \in DOMAIN secs[p[1]].refs
  BY DEF Places
<1> HIDE DEF P
<1>8. f \in Surjection(P, Items)
  BY DEF Surjection
<1>9. \A p, q \in P : f[p] = f[q] => p = q
  <2> SUFFICES ASSUME NEW p \in P, NEW q \in P, secs[p[1]].refs[p[2]].item = secs[q[1]].refs[q[2]].item
               PROVE  p = q
    OBVIOUS
  <2>1. p[1] = q[1] /\ p[2] = q[2]
    BY <1>7 DEF NoDuplicates
  <2>2. QED
    BY <1>7, <2>1
<1>10. f \in Injection(P, Items)
  BY <1>8, <1>9 DEF Injection, IsInjective, Surjection
<1>11. QED
  BY <1>6, <1>8, <1>10, FS_Surjection DEF P

(* However the bank moved while it was composed, a stored test is a plan   *)
(* that a session can run.                                                 *)
THEOREM StoredTestsRun == Spec => []StoredTestIsAPlan
<1>1. PlanInv => StoredTestIsAPlan
  <2> SUFFICES ASSUME PlanInv, NEW id \in DOMAIN tests
               PROVE  LET secs == tests[id].sections IN
                      /\ secs # <<>>
                      /\ \A s \in DOMAIN secs : LET refs == secs[s].refs IN
                            /\ refs # <<>>
                            /\ tests[id].policy = "fixed-increasing" =>
                                  \A k \in 2..Len(refs) : refs[k - 1].band <= refs[k].band
                            /\ tests[id].policy = "adaptive" =>
                                  \E k, l \in DOMAIN refs : refs[k].band # refs[l].band
                      /\ Cardinality({secs[p[1]].refs[p[2]].item : p \in Places(secs)})
                            = Cardinality(Places(secs))
                      /\ \A f \in Families : f \in tests[id].families <=> \E s \in DOMAIN secs : secs[s].family = f
    BY DEF StoredTestIsAPlan
  <2> DEFINE secs == tests[id].sections
             policy == tests[id].policy
  <2>1. /\ secs \in Seq(SectionRead) /\ secs # <<>> /\ NoDuplicates(secs)
        /\ \A s \in DOMAIN secs : ValidSection(policy, secs[s])
    BY DEF PlanInv, ValidTest
  <2>2. \A f : f \in tests[id].families <=> \E s \in DOMAIN secs : secs[s].family = f
    BY DEF PlanInv, SectionFamilies
  <2> HIDE DEF secs, policy
  <2>3. ASSUME NEW s \in DOMAIN secs
        PROVE  LET refs == secs[s].refs IN
               /\ refs # <<>>
               /\ policy = "fixed-increasing" =>
                     \A k \in 2..Len(refs) : refs[k - 1].band <= refs[k].band
               /\ policy = "adaptive" => \E k, l \in DOMAIN refs : refs[k].band # refs[l].band
    <3> DEFINE refs == secs[s].refs
    <3>1. /\ refs # <<>>
          /\ policy = "fixed-increasing" => NonDecreasing(refs)
          /\ policy = "adaptive" => Cardinality(BandsOf(refs)) >= 2
      BY <2>1 DEF ValidSection
    <3>2. refs \in Seq([item : Int, band : Int])
      <4>1. secs[s] \in SectionRead
        BY <2>1, LenProperties, ElementOfSeq
      <4>2. QED
        BY <4>1 DEF SectionRead
    <3> HIDE DEF refs
    <3>3. Len(refs) \in Nat \ {0} /\ DOMAIN refs = 1..Len(refs)
      BY <3>1, <3>2, EmptySeq, LenProperties
    <3>4. ASSUME NonDecreasing(refs), NEW k \in 2..Len(refs) PROVE refs[k - 1].band <= refs[k].band
      <4>1. k - 1 \in DOMAIN refs /\ k \in DOMAIN refs /\ k - 1 < k
        BY <3>3
      <4>2. QED
        BY <3>4, <4>1 DEF NonDecreasing
    <3>5. ASSUME Cardinality(BandsOf(refs)) >= 2, \A k, l \in DOMAIN refs : refs[k].band = refs[l].band
          PROVE  FALSE
      <4>1. 1 \in DOMAIN refs
        BY <3>3
      <4>2. BandsOf(refs) = {refs[1].band}
        BY <3>5, <4>1 DEF BandsOf
      <4>3. Cardinality(BandsOf(refs)) = 1
        BY <4>2, FS_Singleton
      <4>4. QED
        BY <3>5, <4>3
    <3>6. QED
      BY <3>1, <3>4, <3>5 DEF refs
  <2>4. QED
    BY <2>1, <2>2, <2>3, ItemsArePlacedOnce DEF secs, policy
<1>2. QED
  BY <1>1, PlanInvariance, PTL
-----------------------------------------------------------------------------
(* Pages                                                                   *)

(* The offset as paginate clamps it, and the items left for the page.      *)
From(all, offset) == IF offset < 0 THEN 0 ELSE IF offset > Len(all) THEN Len(all) ELSE offset
Left(all, limit, offset) ==
    IF From(all, offset) + ApplyLimit(limit) < Len(all)
    THEN ApplyLimit(limit)
    ELSE Len(all) - From(all, offset)

(* A page is the window of at most step items after the offset: what is    *)
(* added to the clamped offset is within an int.                           *)
LEMMA PageIsAWindow ==
    ASSUME NEW S, NEW all \in Seq(S), Len(all) <= Cardinality(ItemIds),
           NEW limit \in Int, NEW offset \in Int
    PROVE  /\ ApplyLimit(limit) \in Nat \ {0} /\ Len(all) \in Nat
           /\ From(all, offset) \in 0..Len(all)
           /\ Left(all, limit, offset) \in 0..ApplyLimit(limit)
           /\ Page(all, limit, offset) \in Seq(S)
           /\ Len(Page(all, limit, offset)) = Left(all, limit, offset)
           /\ \A k \in 1..Left(all, limit, offset) :
                 Page(all, limit, offset)[k] = all[From(all, offset) + k]
<1> DEFINE step == ApplyLimit(limit)
           from == From(all, offset)
           rest == Left(all, limit, offset)
           n == Len(all)
           max == Cardinality(ItemIds)
           end == IF from + step < n THEN from + step ELSE n
<1>1. n \in Nat /\ all \in [1..n -> S]
  BY LenProperties
<1>2. /\ DefaultPageLimit \in Nat \ {0} /\ MaxPageLimit \in Nat /\ DefaultPageLimit <= MaxPageLimit
      /\ MaxInt \in Nat /\ max + MaxPageLimit <= MaxInt
  BY PageAssumption
<1>3. max \in Nat /\ n <= max
  BY PageAssumption, FS_CardinalityType
<1>4. step \in Nat \ {0} /\ step <= MaxPageLimit
  <2>1. limit \in Int
    OBVIOUS
  <2>2. QED
    BY <1>2, <2>1 DEF ApplyLimit
<1>5. /\ from = IF offset < 0 THEN 0 ELSE IF offset > n THEN n ELSE offset
      /\ rest = IF from + step < n THEN step ELSE n - from
  BY DEF From, Left
<1>6. Page(all, limit, offset) =
        Slice(all, from, IF Wrap(from + step) < n THEN Wrap(from + step) ELSE n)
  BY DEF Page, From
<1>7. Slice(all, from, end) = IF 0 <= from /\ from <= end /\ end <= n THEN SubSeq(all, from + 1, end) ELSE <<"panic">>
  BY DEF Slice
<1>8. ASSUME from + 1 \in 1..n + 1, end \in from + 1 - 1..n
      PROVE  /\ SubSeq(all, from + 1, end) \in Seq(S)
             /\ Len(SubSeq(all, from + 1, end)) = IF from + 1 <= end THEN end - (from + 1) + 1 ELSE 0
             /\ \A k \in 1..end - (from + 1) + 1 : SubSeq(all, from + 1, end)[k] = all[from + 1 + k - 1]
  BY <1>8, SubSeqProperties
<1> HIDE DEF n, max, step, from, rest
<1>9. from \in 0..n
  BY <1>1, <1>5
<1>10. from + step \in Nat /\ from + step <= MaxInt
  BY <1>1, <1>2, <1>3, <1>4, <1>9
<1>11. Wrap(from + step) = from + step
  BY <1>2, <1>10 DEF Wrap
<1>12. rest \in 0..step /\ end = from + rest /\ end \in 0..n
  BY <1>1, <1>4, <1>5, <1>9
<1>13. Page(all, limit, offset) = Slice(all, from, end)
  BY <1>6, <1>11
<1> HIDE DEF end
<1>14. Slice(all, from, end) = SubSeq(all, from + 1, end)
  <2>1. 0 <= from /\ from <= end /\ end <= n
    BY <1>1, <1>4, <1>9, <1>12
  <2>2. QED
    BY <1>7, <2>1
<1>15. /\ SubSeq(all, from + 1, end) \in Seq(S) /\ Len(SubSeq(all, from + 1, end)) = rest
       /\ \A k \in 1..rest : SubSeq(all, from + 1, end)[k] = all[from + k]
  <2> DEFINE page == SubSeq(all, from + 1, end)
  <2>1. from + 1 \in 1..n + 1 /\ end \in from + 1 - 1..n
    BY <1>1, <1>9, <1>12
  <2>2. page \in Seq(S) /\ Len(page) = rest
    BY <1>1, <1>4, <1>8, <1>9, <1>12, <2>1
  <2>3. /\ from \in Int /\ rest \in Int /\ end - (from + 1) + 1 = rest
        /\ \A k \in 1..end - (from + 1) + 1 : page[k] = all[from + 1 + k - 1]
    BY <1>1, <1>4, <1>8, <1>9, <1>12, <2>1
  <2>4. \A k \in 1..rest : from + 1 + k - 1 = from + k
    BY <2>3
  <2> HIDE DEF page
  <2>5. \A k \in 1..rest : page[k] = all[from + k]
    BY <2>3, <2>4
  <2>6. QED
    BY <2>2, <2>5 DEF page
<1>16. QED
  <2>1. /\ Page(all, limit, offset) \in Seq(S) /\ Len(Page(all, limit, offset)) = rest
        /\ \A k \in 1..rest : Page(all, limit, offset)[k] = all[from + k]
    BY <1>13, <1>14, <1>15
  <2>2. QED
    BY <1>1, <1>4, <1>9, <1>12, <2>1 DEF n, step, from, rest

LEMMA ListingIsShort ==
    ASSUME BankInv, NEW f
    PROVE  /\ ListItems(f) \in Seq({items[i] : i \in DOMAIN items})
           /\ Len(ListItems(f)) <= Cardinality(ItemIds)
<1> DEFINE T == {i \in DOMAIN items : Matches(f, items[i])}
           ids == InIdOrder(T)
           n == Cardinality(T)
           all == ListItems(f)
<1>1. n \in Nat /\ ids \in [1..n -> T] /\ all = [k \in 1..n |-> items[ids[k]]]
  BY Listing
<1>2. T \subseteq DOMAIN items /\ T \in SUBSET ItemIds
  BY DEF BankInv
<1>3. n <= Cardinality(ItemIds)
  BY <1>2, PageAssumption, FS_Subset
<1> HIDE DEF T, ids, n, all
<1>4. all \in [1..n -> {items[i] : i \in DOMAIN items}]
  BY <1>1, <1>2
<1>5. all \in Seq({items[i] : i \in DOMAIN items})
  BY <1>1, <1>4, SeqDef
<1>6. Len(all) = n
  BY <1>1, <1>4
<1>7. QED
  BY <1>3, <1>5, <1>6 DEF all

(* Page after page walks the listing, at any limit; at any offset, up to   *)
(* the largest int, a page is a window of it.                              *)
THEOREM PagesWalkTheListing == Spec => []PagesCover
<1>1. StoresInv => PagesCover
  <2> SUFFICES ASSUME BankInv, NEW f \in Filters, NEW limit \in Limits
               PROVE  LET all == ListItems(f) step == ApplyLimit(limit) IN
                      /\ \A n \in 1..(Len(all) \div step + 1) :
                            LET page == Page(all, limit, (n - 1) * step) IN
                            /\ DOMAIN page = {k \in 1..step : (n - 1) * step + k <= Len(all)}
                            /\ \A k \in DOMAIN page : page[k] = all[(n - 1) * step + k]
                      /\ \A offset \in Offsets :
                            IF offset < Len(all) /\ all # <<>>
                            THEN Page(all, limit, offset) # <<>>
                            ELSE Page(all, limit, offset) = <<>>
    BY DEF StoresInv, PagesCover
  <2> DEFINE all == ListItems(f)
             step == ApplyLimit(limit)
             S == {items[i] : i \in DOMAIN items}
  <2>1. all \in Seq(S) /\ Len(all) <= Cardinality(ItemIds)
    BY ListingIsShort
  <2>2. limit \in Int
    BY PageAssumption
  <2> HIDE DEF all, S
  <2>3. ASSUME NEW offset \in Int
        PROVE  /\ step \in Nat \ {0} /\ Len(all) \in Nat
               /\ From(all, offset) \in 0..Len(all)
               /\ Left(all, limit, offset) \in 0..step
               /\ Page(all, limit, offset) \in Seq(S)
               /\ Len(Page(all, limit, offset)) = Left(all, limit, offset)
               /\ \A k \in 1..Left(all, limit, offset) :
                     Page(all, limit, offset)[k] = all[From(all, offset) + k]
    BY <2>1, <2>2, PageIsAWindow
  <2>8. ASSUME NEW offset \in Int
        PROVE  /\ From(all, offset) = IF offset < 0 THEN 0 ELSE IF offset > Len(all) THEN Len(all) ELSE offset
               /\ Left(all, limit, offset) = IF From(all, offset) + step < Len(all) THEN step
                                             ELSE Len(all) - From(all, offset)
    BY DEF From, Left
  <2> HIDE DEF step
  <2>4. step \in Nat \ {0} /\ Len(all) \in Nat
    BY <2>2, <2>3
  <2>5. ASSUME NEW n \in 1..(Len(all) \div step + 1)
        PROVE  LET page == Page(all, limit, (n - 1) * step) IN
               /\ DOMAIN page = {k \in 1..step : (n - 1) * step + k <= Len(all)}
               /\ \A k \in DOMAIN page : page[k] = all[(n - 1) * step + k]
    <3> DEFINE from == (n - 1) * step
               rest == Left(all, limit, from)
    <3>1. from \in Nat /\ from <= Len(all)
      <4>1. n - 1 \in Nat /\ n - 1 <= Len(all) \div step /\ Len(all) \div step \in Nat
        BY <2>4
      <4>2. (n - 1) * step <= (Len(all) \div step) * step
        BY <2>4, <4>1
      <4>3. (Len(all) \div step) * step <= Len(all)
        BY <2>4
      <4>4. QED
        BY <2>4, <4>1, <4>2, <4>3
    <3> HIDE DEF from
    <3>2. From(all, from) = from /\ rest = IF from + step < Len(all) THEN step ELSE Len(all) - from
      <4>1. from \in Int
        BY <3>1
      <4>2. /\ From(all, from) = IF from < 0 THEN 0 ELSE IF from > Len(all) THEN Len(all) ELSE from
            /\ Left(all, limit, from) = IF From(all, from) + step < Len(all) THEN step
                                        ELSE Len(all) - From(all, from)
        BY ONLY <2>8, <4>1
      <4>3. From(all, from) = from
        BY <2>4, <3>1, <4>2
      <4>4. QED
        BY <4>2, <4>3
    <3> DEFINE page == Page(all, limit, from)
    <3>3. /\ rest \in 0..step /\ page \in Seq(S) /\ Len(page) = rest
          /\ \A k \in 1..rest : page[k] = all[from + k]
      <4>1. from \in Int
        BY <3>1
      <4>2. /\ Left(all, limit, from) \in 0..step
            /\ Page(all, limit, from) \in Seq(S)
            /\ Len(Page(all, limit, from)) = Left(all, limit, from)
            /\ \A k \in 1..Left(all, limit, from) :
                  Page(all, limit, from)[k] = all[From(all, from) + k]
        BY ONLY <2>3, <4>1
      <4>3. QED
        BY <3>2, <4>2
    <3>4. 1..rest = {k \in 1..step : from + k <= Len(all)}
      BY <2>4, <3>1, <3>2
    <3> HIDE DEF rest, page
    <3>5. DOMAIN page = 1..rest
      BY <3>3, LenProperties
    <3>6. QED
      BY <3>3, <3>4, <3>5 DEF from, page
  <2>6. ASSUME NEW offset \in Offsets
        PROVE  IF offset < Len(all) /\ all # <<>>
               THEN Page(all, limit, offset) # <<>>
               ELSE Page(all, limit, offset) = <<>>
    <3> DEFINE rest == Left(all, limit, offset)
               page == Page(all, limit, offset)
    <3>1. offset \in Int
      BY PageAssumption
    <3>2. rest \in 0..step /\ page \in Seq(S) /\ Len(page) = rest
      BY <2>3, <3>1
    <3>3. all = <<>> <=> Len(all) = 0
      BY <2>1, EmptySeq
    <3>4. rest = 0 <=> ~(offset < Len(all) /\ all # <<>>)
      BY <2>4, <2>8, <3>1, <3>3
    <3> HIDE DEF rest, page
    <3>5. page = <<>> <=> rest = 0
      BY <3>2, EmptySeq
    <3>6. QED
      BY <3>4, <3>5 DEF page
  <2>7. QED
    BY <2>5, <2>6 DEF all, step
<1>2. QED
  BY <1>1, StoresInvariance, PTL
=============================================================================
