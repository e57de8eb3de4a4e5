----------------------------- MODULE BagScanner -----------------------------
(***************************************************************************)
(* The heart of the Bag Database: keeping the table "bags" in step with    *)
(* the *.bag files of the configured storages.                             *)
(*                                                                         *)
(* One thread (the single-thread executor of BagScanner) takes scan        *)
(* requests from a queue.  A scan is two database transactions:            *)
(*   T1  the storage's updateBagExistence, then its updateBags, which      *)
(*       calls BagService.updateBagFile on every file to look at;          *)
(*   T2  only if the configuration says removeOnDeletion:                  *)
(*       updateBagExistence again, then BagService.removeMissingBags.      *)
(* While it runs, files come and go, administrators press buttons, users   *)
(* edit bags and the process is restarted.                                 *)
(*                                                                         *)
(* A storage is a directory (FilesystemBagStorageImpl), whose watcher      *)
(* reports changes and whose files are looked at where they are, or a      *)
(* bucket (S3BagStorageImpl), which a timer polls and whose existence      *)
(* checks are answered from a cache of the bucket's keys.                  *)
(*                                                                         *)
(* The database is PostgreSQL at READ COMMITTED behind Hibernate without a *)
(* version column: a transaction works on copies of the rows it loaded     *)
(* (sess), what it wrote (wrote, fresh) is locked once flushed, and a      *)
(* write-back stores every column of the copy.                             *)
(***************************************************************************)
EXTENDS Naturals, Sequences

CONSTANTS
  Storages,       \* the configured storage backends, by storageId
  S3Storages,     \* those of them that are S3 buckets; the others are directories
  StorageOrder,   \* the order in which the map of storages is iterated
  Paths,          \* the places in a storage that may hold a *.bag file
  Contents,       \* what a readable bag file may hold; its MD5 sum stands for it
  Ids,            \* what the identity column of "bags" hands out
  NoFile,         \* no file is at that place
  Garbled,        \* a file BagReader cannot parse (a copy under way, say)
  NoRow,          \* the row was never inserted, or was deleted
  NoScan,         \* the scanner is idle
  NoEdit,         \* no user edit is under way
  NoKeys,         \* the key cache has not been filled
  FileChanges,    \* what happens to files: "add", "replace", "delete"
  RemovePolicies, \* the values removeOnDeletion may have when it is read
  Bound           \* how often each kind of outside event may happen

Events == {"change", "request", "remove", "edit", "restart", "outage", "reset"}
FileStates == Contents \cup {NoFile, Garbled}
Row == [storage : Storages, path : Paths, md5 : Contents,
        missing : BOOLEAN, note : Nat]
ScanRequest == [storage : Storages, force : BOOLEAN]
Edit == [id : Ids, row : Row]

ASSUME StoragesAssumption ==
  /\ S3Storages \subseteq Storages
  /\ StorageOrder \in Seq(Storages)
  /\ \A s \in Storages : \E k \in 1..Len(StorageOrder) : StorageOrder[k] = s
ASSUME IdsAssumption == Ids \subseteq Nat
ASSUME AbsentAssumption ==
  /\ NoFile \notin Contents /\ Garbled \notin Contents /\ NoFile # Garbled
  /\ NoRow \notin Row
  /\ NoScan \notin ScanRequest
  /\ NoEdit \notin Edit
  /\ \A K \in SUBSET Paths : NoKeys # K
ASSUME PoliciesAssumption == RemovePolicies \subseteq BOOLEAN
ASSUME BoundAssumption == Bound \in [Events -> Nat]

VARIABLES
  fs,       \* fs[s][p]: the file at place p of storage s
  dirty,    \* directories whose watcher has noticed a change and not yet reported it
  keys,     \* keys[s]: myKeyCache of bucket s; unused for a directory
  watched,  \* the storages whose watcher has walked them, or whose update timer is alive
  missed,   \* history: the directories that have changed while their watcher had
            \* not walked them, and after which no scan of them has begun
  closed,   \* BagScanner.reset has closed the connections to the buckets
  rows,     \* the committed table "bags", by id
  nextId,   \* the next value of the identity column
  queue,    \* myExecutor's queue of scans
  phase,    \* where the scanner thread is: see Phases
  cur,      \* the scan it is working on
  sess,     \* the running transaction's copies of the rows it loaded
  wrote,    \* the ids of loaded rows it has changed
  held,     \* those among them whose change is flushed, so that their locks are held
  fresh,    \* the ids of rows it has inserted
  lost,     \* missingBagMd5sums: the loaded rows whose file is missing
  todo,     \* the files of the listing it still has to look at
  edit,     \* a web request in BagService.updateBag, after its findById
  wasGone,  \* history: the rows whose file has been absent at some time since
            \* a scan last committed a change of the row
  spent     \* how many outside events of each kind have happened

dbVars   == <<rows, nextId>>
scanVars == <<phase, cur, sess, wrote, held, fresh, lost, todo>>
noteVars == <<keys, watched, missed, closed>>
vars     == <<fs, dirty, noteVars, dbVars, queue, scanVars, edit, wasGone, spent>>

(* T1 is in "query" after its existence check, in "list" after the two     *)
(* queries and in "files" after the listing; "recheck" is between T1 and   *)
(* T2, and T2 is in "purge" after its existence check.                     *)
Phases == {"idle", "query", "list", "files", "recheck", "purge"}

TypeOK ==
  /\ fs \in [Storages -> [Paths -> FileStates]]
  /\ dirty \subseteq Storages
  /\ keys \in [Storages -> {NoKeys} \cup SUBSET Paths]
  /\ watched \subseteq Storages /\ missed \subseteq Storages
  /\ closed \in BOOLEAN
  /\ rows \in [Ids -> Row \cup {NoRow}]
  /\ nextId \in Nat
  /\ queue \in Seq(ScanRequest)
  /\ phase \in Phases
  /\ IF phase = "idle" THEN cur = NoScan ELSE cur \in ScanRequest
  /\ sess \in [Ids -> Row \cup {NoRow}]
  /\ wrote \subseteq Ids /\ held \subseteq Ids /\ fresh \subseteq Ids /\ lost \subseteq Ids
  /\ todo \subseteq Paths
  /\ edit \in Edit \cup {NoEdit}
  /\ wasGone \subseteq Ids
  /\ spent \in [Events -> Nat]
-----------------------------------------------------------------------------
(* What the table and the files say.                                       *)

NoRows == [i \in Ids |-> NoRow]
Live   == {i \in Ids : rows[i] # NoRow}

Files(s) == {p \in Paths : fs[s][p] # NoFile}
FileThere(r) == r.path \in Files(r.storage)

(* The key cache as bagExists reads it, which fills it if need be.         *)
KnownKeys(s) == IF keys[s] = NoKeys THEN Files(s) ELSE keys[s]

(* bagExists, for the file a row points at.                                *)
BagExists(r) ==
  r.path \in (IF r.storage \in S3Storages THEN KnownKeys(r.storage) ELSE Files(r.storage))

(* A row as the running transaction's queries see it.                      *)
DbView(i) == IF i \in wrote \cup fresh THEN sess[i] ELSE rows[i]

(* A flush of a row somebody else has deleted updates nothing, which makes *)
(* Hibernate throw and the whole transaction roll back.                    *)
CanFlush == wrote \subseteq Live

(* Hibernate flushes what has been changed before the next query.          *)
Flush == CanFlush /\ held' = wrote

Spend(e) == /\ spent[e] < Bound[e]
            /\ spent' = [spent EXCEPT ![e] = @ + 1]

(* A request to the S3 service ends in an exception, always so when the    *)
(* client has been closed.                                                 *)
Reachable(s) == s \in S3Storages => ~closed
S3Fails(s) == /\ s \in S3Storages
              /\ IF closed THEN UNCHANGED spent ELSE Spend("outage")

ScanOf(s, force) == [storage |-> s, force |-> force]

(* scanAllStorages and initialize: one scan per storage.                   *)
ScanAll(force) == [k \in 1..Len(StorageOrder) |-> ScanOf(StorageOrder[k], force)]
-----------------------------------------------------------------------------
(* The scanner thread.                                                     *)

NoTransaction ==
  /\ sess' = NoRows
  /\ wrote' = {} /\ held' = {} /\ fresh' = {} /\ lost' = {} /\ todo' = {}

Finish == phase' = "idle" /\ cur' = NoScan /\ NoTransaction

(* An exception leaves the lambda of scanStorage: the transaction is       *)
(* rolled back, whatever was left of the scan is skipped, nobody retries.  *)
Abort == Finish /\ UNCHANGED <<keys, rows, wasGone>>

(* updateKeyCache, which both a scan's listing and the timer's use.        *)
UpdateKeyCache(s) == keys' = [keys EXCEPT ![s] = Files(s)]

(* Load the rows of a set and make "missing" say whether the file exists.  *)
CheckExistence(mine) ==
  /\ sess' = [i \in Ids |-> IF i \in mine
                THEN [rows[i] EXCEPT !.missing = ~BagExists(rows[i])]
                ELSE NoRow]
  /\ wrote' = {i \in mine : rows[i].missing = BagExists(rows[i])}
  /\ held' = {} /\ fresh' = {} /\ lost' = {} /\ todo' = {}

RowsOf(s) == {i \in Live : rows[i].storage = s}

(* The first bagExists since the start fills the cache.                    *)
NeedsKeys(s) == s \in S3Storages /\ RowsOf(s) # {} /\ keys[s] = NoKeys

(* Mutant: findAll in place of findByStorageId.                            *)
UpdateExistenceEverywhere(s) == CheckExistence(Live) /\ UNCHANGED keys

UpdateBagExistence(s) ==
  /\ CheckExistence(RowsOf(s))
  /\ IF NeedsKeys(s) THEN UpdateKeyCache(s) ELSE UNCHANGED keys

StartScan ==
  /\ phase = "idle"
  /\ queue # <<>>
  /\ queue' = Tail(queue)
  /\ \/ /\ cur' = Head(queue) /\ phase' = "query"
        /\ NeedsKeys(Head(queue).storage) => ~closed
        /\ UpdateBagExistence(Head(queue).storage)
        /\ UNCHANGED <<rows, wasGone, spent>>
     \/ NeedsKeys(Head(queue).storage) /\ S3Fails(Head(queue).storage) /\ Abort
  /\ missed' = missed \ {Head(queue).storage}
  /\ UNCHANGED <<fs, dirty, watched, closed, nextId, edit>>

(* The rows the two queries at the head of updateBags return.              *)
Loaded == {i \in Live : sess[i] # NoRow}
Existing == {i \in Loaded : ~DbView(i).missing}

(* Collectors.toMap throws when two of them have one path.                 *)
ExistingPathsClash ==
  \E i, j \in Existing : i # j /\ sess[i].path = sess[j].path

(* A file at the path of an existing row is looked at only if the scan is  *)
(* forced.                                                                 *)
Unskipped == {p \in Paths : cur.force \/ \A i \in Existing : sess[i].path # p}

(* The head of updateBags.  A bucket is listed for its key cache here and  *)
(* once more for the loop; a listing that fails ends the scan.             *)
QueryRows ==
  /\ phase = "query"
  /\ \/ /\ Flush /\ ~ExistingPathsClash /\ Reachable(cur.storage)
        /\ phase' = "list"
        /\ lost' = {i \in Loaded : DbView(i).missing}
        /\ todo' = Unskipped
        /\ IF cur.storage \in S3Storages
             THEN UpdateKeyCache(cur.storage) ELSE UNCHANGED keys
        /\ UNCHANGED <<rows, cur, sess, wrote, fresh, wasGone, spent>>
     \/ ~(CanFlush /\ ~ExistingPathsClash) /\ Abort /\ UNCHANGED spent
     \/ S3Fails(cur.storage) /\ Abort
  /\ UNCHANGED <<fs, dirty, watched, missed, closed, nextId, queue, edit>>

ListFiles ==
  /\ phase = "list"
  /\ \/ /\ Reachable(cur.storage)
        /\ phase' = "files"
        /\ todo' = todo \cap Files(cur.storage)
        /\ UNCHANGED <<keys, rows, cur, sess, wrote, held, fresh, lost, wasGone, spent>>
     \/ S3Fails(cur.storage) /\ Abort
  /\ UNCHANGED <<fs, dirty, watched, missed, closed, nextId, queue, edit>>
-----------------------------------------------------------------------------
(* updateBagFile on one file of the listing.                               *)

(* Mutant: the check for duplicates looks at this storage's rows only.     *)
KnownHere(c) ==
  \E i \in Ids : DbView(i) # NoRow /\ DbView(i).md5 = c /\ DbView(i).storage = cur.storage

(* findByMd5sum.                                                           *)
Known(c) == \E i \in Ids : DbView(i) # NoRow /\ DbView(i).md5 = c

(* The file is gone by now, BagReader throws, or the download fails.       *)
SkipUnreadable(p) ==
  /\ \/ fs[cur.storage][p] \in {NoFile, Garbled} /\ UNCHANGED spent
     \/ S3Fails(cur.storage)
  /\ UNCHANGED <<sess, wrote, held, fresh, lost, nextId>>

(* The content of a missing bag: that bag has been moved here.  The row is *)
(* changed in memory only, so it is not locked before the next query.      *)
RelocateBag(p) ==
  \E i \in lost :
    /\ sess[i].md5 = fs[cur.storage][p]
    /\ sess' = [sess EXCEPT ![i] =
                  [storage |-> cur.storage, path |-> p,
                   md5 |-> fs[cur.storage][p], missing |-> FALSE,
                   note |-> sess[i].note]]
    /\ wrote' = wrote \cup {i}
    /\ lost' = lost \ {i}
    /\ UNCHANGED <<held, fresh, nextId, spent>>

(* Any other content is looked for in the table.  If that flushes a row    *)
(* that is gone, the exception is caught for this file, but the            *)
(* transaction cannot be committed any more.                               *)
QueryFails(p) ==
  /\ fs[cur.storage][p] \in Contents
  /\ \A i \in lost : sess[i].md5 # fs[cur.storage][p]
  /\ ~CanFlush
  /\ UNCHANGED <<sess, wrote, held, fresh, lost, nextId, spent>>

(* The content of another bag, of any storage: reported and left alone.    *)
SkipDuplicate(p) ==
  /\ \A i \in lost : sess[i].md5 # fs[cur.storage][p]
  /\ Flush
  /\ Known(fs[cur.storage][p])
  /\ UNCHANGED <<sess, wrote, fresh, lost, nextId, spent>>

(* Mutant: insertNewBag without the check that the file could be read.     *)
AddRow(p) ==
  LET c == fs[cur.storage][p]
  IN /\ \A i \in lost : sess[i].md5 # c
     /\ Flush /\ ~Known(c)
     /\ nextId \in Ids
     /\ sess' = [sess EXCEPT ![nextId] =
                   [storage |-> cur.storage, path |-> p, md5 |-> c,
                    missing |-> FALSE, note |-> 0]]
     /\ fresh' = fresh \cup {nextId}
     /\ nextId' = nextId + 1
     /\ UNCHANGED <<wrote, lost, spent>>

InsertNewBag(p) == fs[cur.storage][p] \in Contents /\ AddRow(p)

UpdateBagFile(p) ==
  /\ phase = "files" /\ p \in todo
  /\ todo' = todo \ {p}
  /\ \/ SkipUnreadable(p)
     \/ /\ Reachable(cur.storage)
        /\ RelocateBag(p) \/ QueryFails(p) \/ SkipDuplicate(p) \/ InsertNewBag(p)
  /\ UNCHANGED <<fs, dirty, noteVars, rows, queue, phase, cur, edit, wasGone>>
-----------------------------------------------------------------------------
(* The ends of the two transactions.                                       *)

(* The history after the rows of W have been committed as r says.          *)
GoneAfter(W, r) == (wasGone \ W) \cup {i \in W : r[i] # NoRow /\ ~FileThere(r[i])}

CommitScan ==
  /\ phase = "files" /\ todo = {}
  /\ \/ /\ CanFlush
        /\ rows' = [i \in Ids |-> DbView(i)]
        /\ wasGone' = GoneAfter(wrote \cup fresh, rows')
        /\ \E remove \in RemovePolicies :
             IF remove THEN phase' = "recheck" /\ UNCHANGED cur /\ NoTransaction
                       ELSE Finish
        /\ UNCHANGED keys
     \/ ~CanFlush /\ Abort
  /\ UNCHANGED <<fs, dirty, watched, missed, closed, nextId, queue, edit, spent>>

(* Mutant: the second look at the files is left out.                       *)
NoSecondLook ==
  /\ phase = "recheck"
  /\ phase' = "purge"
  /\ NoTransaction
  /\ UNCHANGED <<fs, dirty, noteVars, dbVars, queue, cur, edit, wasGone, spent>>

Recheck ==
  /\ phase = "recheck"
  /\ phase' = "purge"
  /\ UpdateBagExistence(cur.storage)
  /\ UNCHANGED <<fs, dirty, watched, missed, closed, dbVars, queue, cur, edit, wasGone, spent>>

(* removeMissingBags deletes by the flag alone, in every storage.          *)
WithoutMissing(i) == IF DbView(i) # NoRow /\ DbView(i).missing THEN NoRow ELSE DbView(i)

Purge ==
  /\ phase = "purge"
  /\ \/ /\ CanFlush
        /\ rows' = [i \in Ids |-> WithoutMissing(i)]
        /\ wasGone' = GoneAfter(wrote, rows')
        /\ Finish /\ UNCHANGED keys
     \/ ~CanFlush /\ Abort
  /\ UNCHANGED <<fs, dirty, watched, missed, closed, nextId, queue, edit, spent>>

ScannerStep ==
  StartScan \/ QueryRows \/ ListFiles \/ (\E p \in Paths : UpdateBagFile(p)) \/ CommitScan
    \/ Recheck \/ Purge
-----------------------------------------------------------------------------
(* Everything else that happens to the files and to the table.             *)

KindOfChange(s, p, f) ==
  IF fs[s][p] = NoFile THEN "add" ELSE IF f = NoFile THEN "delete" ELSE "replace"

(* Somebody writes, replaces or removes a file; a directory's watcher will *)
(* notice.                                                                 *)
ChangeFile(s, p, f) ==
  /\ fs[s][p] # f /\ KindOfChange(s, p, f) \in FileChanges
  /\ Spend("change")
  /\ fs' = [fs EXCEPT ![s][p] = f]
  /\ dirty' = dirty \cup ({s} \cap (watched \ S3Storages))
  /\ missed' = missed \cup ({s} \ (watched \cup S3Storages))
  /\ wasGone' = IF f = NoFile
       THEN wasGone \cup {i \in Live : rows[i].storage = s /\ rows[i].path = p}
       ELSE wasGone
  /\ UNCHANGED <<keys, watched, closed, dbVars, queue, scanVars, edit>>

(* S3BagStorageImpl.uploadBag: no check for an existing object, and a scan *)
(* is requested at once.                                                   *)
UploadToS3(s, p, f) ==
  /\ s \in S3Storages /\ ~closed /\ KindOfChange(s, p, f) \in FileChanges
  /\ Spend("change")
  /\ fs' = [fs EXCEPT ![s][p] = f]
  /\ queue' = Append(queue, ScanOf(s, FALSE))
  /\ UNCHANGED <<dirty, noteVars, dbVars, scanVars, edit, wasGone>>

(* The thread that a directory's watcher has started has walked it all.    *)
WatcherWalks(s) ==
  /\ s \in Storages \ (S3Storages \cup watched) /\ ~closed
  /\ watched' = watched \cup {s}
  /\ UNCHANGED <<fs, dirty, keys, missed, closed, dbVars, queue, scanVars, edit, wasGone, spent>>

(* Mutant: a change reported while a scan runs is taken to be covered by it. *)
ReportUnlessScanning(s) ==
  /\ s \in dirty
  /\ dirty' = dirty \ {s}
  /\ queue' = IF phase = "idle" THEN Append(queue, ScanOf(s, FALSE)) ELSE queue
  /\ UNCHANGED <<fs, noteVars, dbVars, scanVars, edit, wasGone, spent>>

(* The watcher's settle timer fires: watchEventsOccurred, bagStorageChanged. *)
BagStorageChanged(s) ==
  /\ s \in dirty
  /\ dirty' = dirty \ {s}
  /\ queue' = Append(queue, ScanOf(s, FALSE))
  /\ UNCHANGED <<fs, noteVars, dbVars, scanVars, edit, wasGone, spent>>

(* Mutant: the poll refreshes the cache of keys and tells nobody.          *)
RefreshQuietly(s) ==
  /\ s \in watched \cap S3Storages /\ keys[s] # Files(s)
  /\ UpdateKeyCache(s)
  /\ UNCHANGED <<fs, dirty, watched, missed, closed, dbVars, queue, scanVars, edit, wasGone, spent>>

(* A bucket's update timer finds that the set of its keys has changed.     *)
CheckForUpdates(s) ==
  /\ s \in watched \cap S3Storages /\ keys[s] # Files(s)
  /\ UpdateKeyCache(s)
  /\ queue' = Append(queue, ScanOf(s, FALSE))
  /\ UNCHANGED <<fs, dirty, watched, missed, closed, dbVars, scanVars, edit, wasGone, spent>>

(* A request that fails is an exception in the TimerTask: it ends the      *)
(* timer's thread.                                                         *)
PollFails(s) ==
  /\ s \in watched
  /\ S3Fails(s)
  /\ watched' = watched \ {s}
  /\ UNCHANGED <<fs, dirty, keys, missed, closed, dbVars, queue, scanVars, edit, wasGone>>

(* The buttons "Force bag scan" and "Force full (slow!) bag scan".         *)
RequestScan(force) ==
  /\ Spend("request")
  /\ queue' = queue \o ScanAll(force)
  /\ UNCHANGED <<fs, dirty, noteVars, dbVars, scanVars, edit, wasGone>>

(* The button "Remove DB entries for missing bags".  The DELETE waits for  *)
(* a row it matches that the scanner has locked.                           *)
AdminRemoveMissing ==
  /\ Spend("remove")
  /\ \A i \in Live : rows[i].missing => i \notin held
  /\ rows' = [i \in Ids |-> IF i \in Live /\ rows[i].missing THEN NoRow ELSE rows[i]]
  /\ UNCHANGED <<fs, dirty, noteVars, nextId, queue, scanVars, edit, wasGone>>

(* The button "Remove bags with duplicate MD5 sums": all but one of the    *)
(* rows that share a sum are deleted.                                      *)
AdminRemoveDuplicates ==
  /\ Spend("remove")
  /\ \E kept \in SUBSET Live :
       /\ \A i \in Live : \E j \in kept : rows[j].md5 = rows[i].md5
       /\ \A i, j \in kept : rows[i].md5 = rows[j].md5 => i = j
       /\ held \cap (Live \ kept) = {}
       /\ rows' = [i \in Ids |-> IF i \in kept THEN rows[i] ELSE NoRow]
  /\ UNCHANGED <<fs, dirty, noteVars, nextId, queue, scanVars, edit, wasGone>>

(* BagService.updateBag: the web request loads the row ...                 *)
EditBegin(i) ==
  /\ edit = NoEdit /\ i \in Live
  /\ Spend("edit")
  /\ edit' = [id |-> i, row |-> [rows[i] EXCEPT !.note = spent["edit"] + 1]]
  /\ UNCHANGED <<fs, dirty, noteVars, dbVars, queue, scanVars, wasGone>>

(* ... and writes all of it back, or fails if it has been deleted.         *)
EditEnd ==
  /\ edit # NoEdit
  /\ edit.id \notin held
  /\ rows' = IF edit.id \in Live THEN [rows EXCEPT ![edit.id] = edit.row] ELSE rows
  /\ edit' = NoEdit
  /\ UNCHANGED <<fs, dirty, noteVars, nextId, queue, scanVars, wasGone, spent>>

(* The process dies and starts again: BagScanner.initialize scans every    *)
(* storage; the open transactions and the queue are lost.                  *)
Restart ==
  /\ Spend("restart")
  /\ Finish
  /\ queue' = ScanAll(FALSE)
  /\ dirty' = {} /\ edit' = NoEdit
  /\ keys' = [s \in Storages |-> NoKeys] /\ watched' = S3Storages /\ closed' = FALSE
  /\ UNCHANGED <<fs, missed, dbVars, wasGone>>

(* BagScanner.reset, when a saved configuration names another bag path: it *)
(* stops every storage, and initialize scans them all but starts none.     *)
Reset ==
  /\ Spend("reset")
  /\ watched' = {} /\ closed' = TRUE
  /\ queue' = queue \o ScanAll(FALSE)
  /\ UNCHANGED <<fs, dirty, keys, missed, dbVars, scanVars, edit, wasGone>>

OutsideStep ==
  \/ \E s \in Storages, p \in Paths, f \in FileStates : ChangeFile(s, p, f)
  \/ \E s \in Storages, p \in Paths, f \in Contents : UploadToS3(s, p, f)
  \/ \E s \in Storages : PollFails(s)
  \/ \E force \in BOOLEAN : RequestScan(force)
  \/ AdminRemoveMissing \/ AdminRemoveDuplicates
  \/ \E i \in Ids : EditBegin(i)
  \/ EditEnd
  \/ Reset
  \/ Restart
-----------------------------------------------------------------------------
(* At the first start the table is empty; the storages may hold anything.  *)
Init ==
  /\ fs \in [Storages -> [Paths -> FileStates]]
  /\ dirty = {}
  /\ keys = [s \in Storages |-> NoKeys] /\ watched = S3Storages /\ missed = {} /\ closed = FALSE
  /\ rows = NoRows /\ nextId = 1
  /\ queue = ScanAll(FALSE)
  /\ phase = "idle" /\ cur = NoScan
  /\ sess = NoRows /\ wrote = {} /\ held = {} /\ fresh = {} /\ lost = {} /\ todo = {}
  /\ edit = NoEdit
  /\ wasGone = {}
  /\ spent = [e \in Events |-> 0]

NoticeChange(s) == BagStorageChanged(s) \/ CheckForUpdates(s) \/ WatcherWalks(s)

Next == ScannerStep \/ (\E s \in Storages : NoticeChange(s)) \/ OutsideStep

Spec == Init /\ [][Next]_vars

(* The executor's thread, the watchers' settle timers and the buckets'     *)
(* update timers run; users, files and crashes promise nothing.            *)
FairSpec ==
  /\ Spec
  /\ WF_vars(ScannerStep)
  /\ \A s \in Storages : WF_vars(NoticeChange(s))
-----------------------------------------------------------------------------
(* Safety.                                                                 *)

(* No two rows have one MD5 sum.  This is the code's own doing: the check  *)
(* in updateBagFile and the map of missing bags keep the database's unique *)
(* constraint, and removeDuplicateBags, from ever having anything to do.   *)
UniqueMd5 == \A i, j \in Live : rows[i].md5 = rows[j].md5 => i = j

SameBag(a, b) == a.md5 = b.md5 /\ a.storage = b.storage

(* The copies that a scan and an edit hold while others work on the table: *)
(* they belong to the scanned storage, say of a row that is still there    *)
(* the same bag as the table does, and what the scan has inserted and not  *)
(* yet committed can collide with nothing (this is what makes UniqueMd5    *)
(* and RowIdentityKept survive the write-backs).                           *)
SessionSound ==
  /\ \A i \in Ids : i >= nextId => rows[i] = NoRow /\ sess[i] = NoRow
  /\ wrote \cup lost \subseteq {i \in Ids : sess[i] # NoRow} \ fresh
  /\ \A i \in Ids : sess[i] # NoRow => sess[i].storage = cur.storage
  /\ \A i \in Live : sess[i] # NoRow => SameBag(sess[i], rows[i])
  /\ \A i \in fresh : /\ i \notin Live /\ sess[i] # NoRow
                      /\ \A j \in Live : rows[j].md5 # sess[i].md5
                      /\ \A j \in fresh : sess[j].md5 = sess[i].md5 => i = j
  /\ edit # NoEdit => /\ edit.id < nextId /\ edit.id \notin fresh
                      /\ edit.id \in Live => SameBag(edit.row, rows[edit.id])

(* A row is one bag for life: no scan, edit or button changes its MD5 sum  *)
(* or hands it to another storage, whatever copies of it are written back, *)
(* and no copy of a deleted row brings it back.                            *)
RowsKeepIdentity ==
  \A i \in Ids : i < nextId /\ rows'[i] # NoRow /\ i \notin fresh =>
     rows[i] # NoRow /\ SameBag(rows'[i], rows[i])

RowIdentityKept == [][RowsKeepIdentity]_vars

(* The removal at the end of a scan takes no bag whose file has been there *)
(* ever since a scan last wrote the row (BagScanner.java:376,              *)
(* "double-check to see whether they exist now").                          *)
PurgeTakesOnlyGone ==
  [][phase = "purge" /\ phase' = "idle" =>
       \A i \in Live : rows'[i] = NoRow => i \in wasGone]_vars
-----------------------------------------------------------------------------
(* Liveness.                                                               *)

(* Two rows of s point at one file: every scan of s throws.                *)
PathClash(s) ==
  \E i, j \in Live : /\ i # j
                     /\ rows[i].storage = s /\ rows[j].storage = s
                     /\ rows[i].path = rows[j].path /\ FileThere(rows[i])

(* A bag file that neither is known by its content nor lies at the path of *)
(* a known bag.                                                            *)
NewFile(s, p) ==
  /\ fs[s][p] \in Contents
  /\ \A i \in Live : /\ rows[i].md5 # fs[s][p]
                     /\ rows[i].storage = s => rows[i].path # p

(* The rows of s say which of their files are there.                       *)
FlagsTrue(s) ==
  \A i \in Live : rows[i].storage = s => rows[i].missing = ~FileThere(rows[i])

(* Once the files stop changing, the index ends up mirroring them: every   *)
(* flag is right and every bag file of a storage that is still watched is  *)
(* indexed, unless two rows have one path                                  *)
(* (FilesystemBagStorageImpl.java:142), or the directory changed between   *)
(* the scan at the start and the watcher's first walk                      *)
(* (RecursiveWatcher.java:103).                                            *)
EventuallyMirrors ==
  <>[](\A s \in watched \ missed : \/ PathClash(s)
                           \/ /\ FlagsTrue(s)
                              /\ \A p \in Paths : ~NewFile(s, p))
=============================================================================
