------------------------------ MODULE BlobStore ------------------------------
(***************************************************************************)
(* fsblob: a blob is a file named by the hash of its type and bytes,       *)
(* written to a temporary file and renamed into place under a mutex. The   *)
(* mutex is one process's; the directory may be shared by several, and any *)
(* of them may die between two system calls.                               *)
(*                                                                         *)
(* An operator named ...Bug is a plausible slip in the one it precedes,    *)
(* used only to show which property notices.                               *)
(***************************************************************************)
CONSTANTS
    Refs,           \* content references that may be put
    Clients,        \* requests that may put a blob
    ProcessOf,      \* the process each runs in
    NoOne           \* nobody holds the mutex

ASSUME NobodyAssumption == NoOne \notin Clients

VARIABLES
    files,      \* content reference -> "torn" or "whole"
    temps,      \* what the put-*.tmp of each client holds, or "none"
    mutex       \* process -> the client in Put, or NoOne

blobVars == <<files, temps, mutex>>

Processes == {ProcessOf[c] : c \in Clients}

BlobInit ==
    /\ files = [r \in {} |-> "whole"]
    /\ temps = [c \in Clients |-> "none"]
    /\ mutex = [p \in Processes |-> NoOne]

Free(c) == mutex[ProcessOf[c]] = NoOne

(* os.Stat finds the file: nothing to do. *)
PutKnown(c, ref) ==
    Free(c) /\ ref \in DOMAIN files /\ UNCHANGED blobVars

PutCreate(c, ref) ==
    /\ Free(c) /\ ref \notin DOMAIN files
    /\ temps' = [temps EXCEPT ![c] = "torn"]
    /\ mutex' = [mutex EXCEPT ![ProcessOf[c]] = c]
    /\ UNCHANGED files

(* The bytes go straight to the file of the reference. *)
PutWriteBug(c, ref) ==
    /\ temps[c] = "torn"
    /\ files' = [r \in DOMAIN files \cup {ref} |-> IF r = ref THEN "torn" ELSE files[r]]
    /\ temps' = [temps EXCEPT ![c] = "whole"]
    /\ UNCHANGED mutex

(* Write and Close. *)
PutWrite(c, ref) ==
    /\ temps[c] = "torn"
    /\ temps' = [temps EXCEPT ![c] = "whole"]
    /\ UNCHANGED <<files, mutex>>

(* os.Rename replaces the file of another process atomically. *)
PutRename(c, ref) ==
    /\ temps[c] = "whole"
    /\ files' = [r \in DOMAIN files \cup {ref} |-> IF r = ref THEN temps[c] ELSE files[r]]
    /\ temps' = [temps EXCEPT ![c] = "none"]
    /\ mutex' = [mutex EXCEPT ![ProcessOf[c]] = NoOne]

(* A system call fails: the deferred calls remove the temporary file and   *)
(* release the mutex.                                                      *)
PutFails(c) ==
    /\ mutex[ProcessOf[c]] \in {c, NoOne}
    /\ temps' = [temps EXCEPT ![c] = "none"]
    /\ mutex' = [p \in Processes |-> IF mutex[p] = c THEN NoOne ELSE mutex[p]]
    /\ UNCHANGED files

(* The process dies: its temporary file stays, under a name that is no     *)
(* reference, and nobody ever reads it.                                    *)
LoseProcess(p) ==
    /\ temps' = [c \in Clients |-> IF ProcessOf[c] = p THEN "none" ELSE temps[c]]
    /\ mutex' = [mutex EXCEPT ![p] = NoOne]
    /\ UNCHANGED files

(* The store on its own, whoever calls it and in whatever order.           *)
BlobNext ==
    \/ \E c \in Clients, ref \in Refs :
          PutKnown(c, ref) \/ PutCreate(c, ref) \/ PutWrite(c, ref) \/ PutRename(c, ref)
    \/ \E c \in Clients : PutFails(c)
    \/ \E p \in Processes : LoseProcess(p)

BlobSpec == BlobInit /\ [][BlobNext]_blobVars

-----------------------------------------------------------------------------
(* The promise, seen through the directory.                                *)
Promise == INSTANCE Blobs WITH stored <- files

(* The directory of blobs, under every interleaving of puts and crashes,   *)
(* is the map a blob store promises: a name appears with its whole content *)
(* or not at all, and never changes (fsblob/store.go, writeAtomic).        *)
BlobsKeepTheirPromise == Promise!Spec

(* Between the creation and the renaming of its temporary file a request   *)
(* holds the mutex of its process (fsblob/store.go, Put).                  *)
WritersHoldTheMutex ==
    \A c \in Clients : temps[c] # "none" => mutex[ProcessOf[c]] = c
=============================================================================
