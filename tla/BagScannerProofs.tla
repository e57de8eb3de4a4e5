-------------------------- MODULE BagScannerProofs --------------------------
(***************************************************************************)
(* What holds of BagScanner for any storages, paths, contents and bounds.  *)
(*                                                                         *)
(* The inductive invariant is IInv.  UniqueMd5 speaks of committed rows    *)
(* only and is not inductive by itself: a commit or an edit overwrites     *)
(* rows with copies taken earlier, so one must know what the copies say.   *)
(* SessionSound is that knowledge.                                         *)
(***************************************************************************)
EXTENDS BagScanner, SequenceTheorems, TLAPS

IInv == TypeOK /\ UniqueMd5 /\ SessionSound

USE DEF Events

(* A row's copy with another "missing" is a row of the same bag.           *)
LEMMA CheckedRow ==
  ASSUME NEW r \in Row, NEW b \in BOOLEAN
  PROVE  /\ [r EXCEPT !.missing = b] \in Row
         /\ [r EXCEPT !.missing = b] # NoRow
         /\ SameBag([r EXCEPT !.missing = b], r)
  BY AbsentAssumption DEF Row, SameBag

(* The rows that updateBagFile writes.                                     *)
LEMMA WrittenRow ==
  ASSUME NEW s \in Storages, NEW p \in Paths, NEW c \in Contents,
         NEW n \in Nat, NEW r,
         r = [storage |-> s, path |-> p, md5 |-> c, missing |-> FALSE, note |-> n]
  PROVE  r \in Row /\ r # NoRow /\ r.md5 = c /\ r.storage = s
<1>1. r \in Row
  BY DEF Row
<1>2. r # NoRow
  BY <1>1, AbsentAssumption
<1> QED
  BY <1>1, <1>2

(* The requests of scanAllStorages can be queued.                          *)
LEMMA ScanAllType ==
  ASSUME NEW force \in BOOLEAN
  PROVE  ScanAll(force) \in Seq(ScanRequest)
<1>1. \A k \in 1..Len(StorageOrder) : StorageOrder[k] \in Storages
  BY StoragesAssumption
<1>2. Len(StorageOrder) \in Nat
  BY StoragesAssumption
<1> QED
  BY <1>1, <1>2 DEF ScanAll, ScanOf, ScanRequest

(* An outside event only counts itself.                                    *)
LEMMA SpendType ==
  ASSUME TypeOK, NEW e \in Events, Spend(e)
  PROVE  spent' \in [Events -> Nat]
  BY DEF TypeOK, Spend

LEMMA S3FailsType ==
  ASSUME TypeOK, NEW s, S3Fails(s)
  PROVE  spent' \in [Events -> Nat]
<1>1. CASE UNCHANGED spent
  BY <1>1 DEF TypeOK
<1>2. CASE Spend("outage")
  BY <1>2, SpendType
<1> QED
  BY <1>1, <1>2 DEF S3Fails

THEOREM InitInv == Init => IInv
<1> SUFFICES ASSUME Init PROVE IInv
  OBVIOUS
<1>1. queue \in Seq(ScanRequest)
  BY ScanAllType DEF Init
<1>2. TypeOK
  BY <1>1, AbsentAssumption, StoragesAssumption DEF Init, TypeOK, NoRows, Phases
<1>3. UniqueMd5
  BY DEF Init, UniqueMd5, Live, NoRows
<1>4. SessionSound
  BY DEF Init, SessionSound, Live, NoRows
<1> QED
  BY <1>2, <1>3, <1>4 DEF IInv
-----------------------------------------------------------------------------
(* The end of a transaction drops every copy the scan held.                *)
LEMMA FinishInv ==
  ASSUME IInv, Finish, rows' = rows, nextId' = nextId,
         edit' = edit \/ edit' = NoEdit
  PROVE  UniqueMd5' /\ SessionSound'
  BY DEF IInv, UniqueMd5, SessionSound, Live, Finish, NoTransaction, NoRows

LEMMA FinishType ==
  ASSUME TypeOK, Finish
  PROVE  /\ phase' \in Phases
         /\ IF phase' = "idle" THEN cur' = NoScan ELSE cur' \in ScanRequest
         /\ sess' \in [Ids -> Row \cup {NoRow}]
         /\ wrote' \subseteq Ids /\ held' \subseteq Ids /\ fresh' \subseteq Ids /\ lost' \subseteq Ids
         /\ todo' \subseteq Paths
  BY DEF Finish, NoTransaction, NoRows, Phases

(* The cache of keys is a set of paths or not there.                       *)
KeysType == keys \in [Storages -> {NoKeys} \cup SUBSET Paths]

LEMMA UpdateKeyCacheType ==
  ASSUME TypeOK, NEW s \in Storages, UpdateKeyCache(s) \/ UNCHANGED keys
  PROVE  KeysType'
<1>1. Files(s) \subseteq Paths
  BY DEF Files
<1> QED
  BY <1>1 DEF TypeOK, UpdateKeyCache, KeysType

(* Loading a storage's rows.                                               *)
LEMMA CheckExistenceInv ==
  ASSUME IInv, NEW s \in Storages, UpdateBagExistence(s),
         cur'.storage = s, UNCHANGED <<rows, nextId, edit, fs>>
  PROVE  /\ KeysType'
         /\ sess' \in [Ids -> Row \cup {NoRow}]
         /\ wrote' \subseteq Ids /\ held' \subseteq Ids /\ fresh' \subseteq Ids /\ lost' \subseteq Ids
         /\ todo' \subseteq Paths
         /\ UniqueMd5' /\ SessionSound'
<1> DEFINE copy(i) == [rows[i] EXCEPT !.missing = ~BagExists(rows[i])]
           mine == RowsOf(s)
<1>1. /\ sess' = [i \in Ids |-> IF i \in mine THEN copy(i) ELSE NoRow]
      /\ wrote' \subseteq mine /\ held' = {} /\ fresh' = {} /\ lost' = {} /\ todo' = {}
  BY DEF UpdateBagExistence, CheckExistence, RowsOf
<1>2. \A i \in mine : copy(i) \in Row /\ copy(i) # NoRow /\ SameBag(copy(i), rows[i])
  <2> SUFFICES ASSUME NEW i \in mine
               PROVE  copy(i) \in Row /\ copy(i) # NoRow /\ SameBag(copy(i), rows[i])
    OBVIOUS
  <2>1. rows[i] \in Row
    BY DEF IInv, TypeOK, Live, RowsOf
  <2>2. (~BagExists(rows[i])) \in BOOLEAN
    BY DEF BagExists
  <2> QED
    BY <2>1, <2>2, CheckedRow
<1>3. mine = {i \in Live : rows[i].storage = s} /\ mine \subseteq Ids
  BY DEF Live, RowsOf
<1> HIDE DEF copy, mine
<1>4. sess' \in [Ids -> Row \cup {NoRow}]
  BY <1>1, <1>2
<1>5. UniqueMd5'
  BY DEF IInv, UniqueMd5, Live
<1>6. SessionSound'
  <2>1. \A i \in Ids : i >= nextId => rows[i] = NoRow /\ sess'[i] = NoRow
    BY <1>1, <1>3 DEF IInv, SessionSound, Live
  <2>2. wrote' \subseteq {i \in Ids : sess'[i] # NoRow}
    BY <1>1, <1>2, <1>3
  <2>3. \A i \in Ids : sess'[i] # NoRow =>
          i \in mine /\ sess'[i].storage = s /\ SameBag(sess'[i], rows[i])
    BY <1>1, <1>2, <1>3 DEF SameBag
  <2> QED
    BY <1>1, <2>1, <2>2, <2>3 DEF IInv, SessionSound, Live, SameBag
<1>7. KeysType'
  BY UpdateKeyCacheType DEF UpdateBagExistence, IInv
<1> QED
  BY <1>1, <1>3, <1>4, <1>5, <1>6, <1>7
-----------------------------------------------------------------------------
(* A transaction that is given up changes no row.                          *)
LEMMA AbortInv ==
  ASSUME IInv, Abort, UNCHANGED <<fs, dirty, watched, closed, nextId, edit>>,
         missed' \subseteq Storages,
         queue' \in Seq(ScanRequest), spent' \in [Events -> Nat]
  PROVE  IInv' /\ RowsKeepIdentity
<1>1. UniqueMd5' /\ SessionSound'
  BY FinishInv DEF Abort
<1>2. TypeOK'
  BY FinishType DEF IInv, TypeOK, Abort
<1>3. RowsKeepIdentity
  BY DEF Abort, RowsKeepIdentity, SameBag
<1> QED
  BY <1>1, <1>2, <1>3 DEF IInv

(* The scanner's steps.  Each keeps the invariant and every row's identity. *)
LEMMA StartScanInv ==
  ASSUME IInv, StartScan
  PROVE  IInv' /\ RowsKeepIdentity
<1> DEFINE s == Head(queue).storage
<1>1. Head(queue) \in ScanRequest /\ Tail(queue) \in Seq(ScanRequest)
  BY DEF IInv, TypeOK, StartScan
<1>2. s \in Storages
  BY <1>1 DEF ScanRequest
<1>3. /\ phase = "idle" /\ queue' = Tail(queue)
      /\ missed' \subseteq Storages
      /\ UNCHANGED <<fs, dirty, watched, closed, nextId, edit>>
  BY DEF StartScan, IInv, TypeOK
<1> HIDE DEF s
<1>4. CASE /\ cur' = Head(queue) /\ phase' = "query" /\ cur'.storage = s
           /\ UpdateBagExistence(s)
           /\ UNCHANGED <<rows, wasGone, spent>>
  <2>1. /\ KeysType' /\ sess' \in [Ids -> Row \cup {NoRow}]
        /\ wrote' \subseteq Ids /\ held' \subseteq Ids /\ fresh' \subseteq Ids /\ lost' \subseteq Ids
        /\ todo' \subseteq Paths
        /\ UniqueMd5' /\ SessionSound'
    BY <1>2, <1>3, <1>4, CheckExistenceInv
  <2>2. TypeOK'
    BY <1>1, <1>3, <1>4, <2>1 DEF IInv, TypeOK, KeysType, Phases
  <2>3. RowsKeepIdentity
    BY <1>4 DEF RowsKeepIdentity, SameBag
  <2> QED
    BY <2>1, <2>2, <2>3 DEF IInv
<1>5. CASE S3Fails(s) /\ Abort
  <2>1. spent' \in [Events -> Nat]
    BY <1>5, S3FailsType DEF IInv
  <2>2. queue' \in Seq(ScanRequest)
    BY <1>1, <1>3
  <2> QED
    BY <1>3, <1>5, <2>1, <2>2, AbortInv
<1> QED
  BY <1>4, <1>5 DEF StartScan, s

LEMMA RecheckInv ==
  ASSUME IInv, Recheck
  PROVE  IInv' /\ RowsKeepIdentity
<1> DEFINE s == cur.storage
<1>1. cur \in ScanRequest
  BY DEF IInv, TypeOK, Recheck
<1>2. s \in Storages /\ cur'.storage = s
  BY <1>1 DEF ScanRequest, Recheck
<1>3. UpdateBagExistence(s) /\ UNCHANGED <<rows, nextId, edit, fs>>
  BY DEF Recheck, dbVars
<1>4. /\ KeysType' /\ sess' \in [Ids -> Row \cup {NoRow}]
      /\ wrote' \subseteq Ids /\ held' \subseteq Ids /\ fresh' \subseteq Ids /\ lost' \subseteq Ids
      /\ todo' \subseteq Paths
      /\ UniqueMd5' /\ SessionSound'
  <2> HIDE DEF s
  <2> QED
    BY <1>2, <1>3, CheckExistenceInv
<1>5. TypeOK'
  BY <1>1, <1>4 DEF IInv, TypeOK, KeysType, Recheck, dbVars, Phases
<1>6. RowsKeepIdentity
  BY <1>3 DEF RowsKeepIdentity, SameBag
<1> QED
  BY <1>4, <1>5, <1>6 DEF IInv

LEMMA QueryRowsInv ==
  ASSUME IInv, QueryRows
  PROVE  IInv' /\ RowsKeepIdentity
<1> DEFINE flushed == CanFlush /\ ~ExistingPathsClash
<1>1. phase = "query" /\ UNCHANGED <<fs, dirty, watched, missed, closed, nextId, queue, edit>>
  BY DEF QueryRows
<1>2. CASE /\ phase' = "list"
           /\ lost' = {i \in Loaded : DbView(i).missing} /\ todo' = Unskipped
           /\ UpdateKeyCache(cur.storage) \/ UNCHANGED keys
           /\ held' = wrote
           /\ UNCHANGED <<rows, cur, sess, wrote, fresh, wasGone, spent>>
  <2>1. lost' \subseteq {i \in Ids : sess[i] # NoRow} \ fresh
    BY <1>2 DEF Loaded, Live, IInv, SessionSound
  <2>2. todo' \subseteq Paths
    BY <1>2 DEF Unskipped
  <2>3. cur \in ScanRequest
    BY <1>1 DEF IInv, TypeOK
  <2>4. cur.storage \in Storages
    BY <2>3 DEF ScanRequest
  <2>5. KeysType'
    BY <1>2, <2>4, UpdateKeyCacheType DEF IInv
  <2>6. TypeOK'
    BY <1>1, <1>2, <2>1, <2>2, <2>3, <2>5 DEF IInv, TypeOK, KeysType, Phases
  <2>7. UniqueMd5'
    BY <1>2 DEF IInv, UniqueMd5, Live
  <2>8. SessionSound'
    BY <1>1, <1>2, <2>1 DEF IInv, SessionSound, Live
  <2>9. RowsKeepIdentity
    BY <1>2 DEF RowsKeepIdentity, SameBag
  <2> QED
    BY <2>6, <2>7, <2>8, <2>9 DEF IInv
<1>3. CASE Abort /\ (UNCHANGED spent \/ S3Fails(cur.storage))
  <2>1. spent' \in [Events -> Nat]
    BY <1>3, S3FailsType DEF IInv, TypeOK
  <2> QED
    BY <1>1, <1>3, <2>1, AbortInv DEF IInv, TypeOK
<1> QED
  BY <1>2, <1>3 DEF QueryRows, Flush

LEMMA ListFilesInv ==
  ASSUME IInv, ListFiles
  PROVE  IInv' /\ RowsKeepIdentity
<1>1. phase = "list" /\ UNCHANGED <<fs, dirty, watched, missed, closed, nextId, queue, edit>>
  BY DEF ListFiles
<1>2. CASE /\ phase' = "files" /\ todo' \subseteq todo
           /\ UNCHANGED <<keys, rows, cur, sess, wrote, held, fresh, lost, wasGone, spent>>
  <2>1. TypeOK'
    BY <1>1, <1>2 DEF IInv, TypeOK, Phases
  <2>2. UniqueMd5' /\ SessionSound'
    BY <1>1, <1>2 DEF IInv, UniqueMd5, SessionSound, Live
  <2> QED
    BY <1>2, <2>1, <2>2 DEF IInv, RowsKeepIdentity, SameBag
<1>3. CASE S3Fails(cur.storage) /\ Abort
  <2>1. spent' \in [Events -> Nat]
    BY <1>3, S3FailsType DEF IInv
  <2> QED
    BY <1>1, <1>3, <2>1, AbortInv DEF IInv, TypeOK
<1> QED
  BY <1>2, <1>3 DEF ListFiles
-----------------------------------------------------------------------------
(* updateBagFile.                                                          *)

(* A missing bag's copy gets its new place: it is still the same bag.      *)
LEMMA RelocateInv ==
  ASSUME IInv, NEW p \in Paths, phase = "files", RelocateBag(p),
         todo' = todo \ {p},
         UNCHANGED <<fs, dirty, noteVars, rows, queue, phase, cur, edit, wasGone>>
  PROVE  IInv' /\ RowsKeepIdentity
<1>1. PICK i \in lost :
        /\ sess[i].md5 = fs[cur.storage][p]
        /\ sess' = [sess EXCEPT ![i] =
                      [storage |-> cur.storage, path |-> p,
                       md5 |-> fs[cur.storage][p], missing |-> FALSE,
                       note |-> sess[i].note]]
        /\ wrote' = wrote \cup {i} /\ lost' = lost \ {i}
        /\ UNCHANGED <<held, fresh, nextId, spent>>
  BY DEF RelocateBag
<1> DEFINE new == [storage |-> cur.storage, path |-> p,
                   md5 |-> fs[cur.storage][p], missing |-> FALSE,
                   note |-> sess[i].note]
<1>2. i \in Ids /\ i \notin fresh /\ sess[i] # NoRow /\ sess[i] \in Row
      /\ sess[i].storage = cur.storage
  BY DEF IInv, TypeOK, SessionSound
<1>3. new \in Row /\ new # NoRow /\ SameBag(new, sess[i])
  <2>1. /\ cur.storage \in Storages /\ fs[cur.storage][p] \in Contents
        /\ sess[i].note \in Nat
    BY <1>1, <1>2 DEF Row
  <2>2. /\ new \in Row /\ new # NoRow
        /\ new.md5 = fs[cur.storage][p] /\ new.storage = cur.storage
    BY <2>1, WrittenRow
  <2> QED
    BY <1>1, <1>2, <2>2 DEF SameBag
<1>4. /\ sess' = [sess EXCEPT ![i] = new]
      /\ wrote' = wrote \cup {i} /\ lost' = lost \ {i}
      /\ UNCHANGED <<held, fresh, nextId, spent>>
  BY <1>1
<1> HIDE DEF new
<1>5. TypeOK'
  BY <1>2, <1>3, <1>4 DEF IInv, TypeOK, noteVars
<1>6. \A j \in Ids : /\ sess'[j] = NoRow <=> sess[j] = NoRow
                     /\ sess[j] # NoRow => SameBag(sess'[j], sess[j])
  BY <1>2, <1>3, <1>4 DEF IInv, TypeOK, SameBag
<1>7. UniqueMd5'
  BY DEF IInv, UniqueMd5, Live
<1>8. SessionSound'
  <2>1. fresh \subseteq Ids
    BY DEF IInv, TypeOK
  <2> QED
    BY <1>2, <1>4, <1>6, <2>1 DEF IInv, SessionSound, Live, SameBag
<1> QED
  BY <1>5, <1>7, <1>8 DEF IInv, RowsKeepIdentity, SameBag

(* The check for duplicates is what an inserted row needs: its content is  *)
(* that of no committed row and of no other inserted one.                  *)
LEMMA InsertInv ==
  ASSUME IInv, NEW p \in Paths, phase = "files", InsertNewBag(p),
         todo' = todo \ {p},
         UNCHANGED <<fs, dirty, noteVars, rows, queue, phase, cur, edit, wasGone>>
  PROVE  IInv' /\ RowsKeepIdentity
<1> DEFINE c   == fs[cur.storage][p]
           new == [storage |-> cur.storage, path |-> p, md5 |-> c,
                   missing |-> FALSE, note |-> 0]
<1>1. /\ c \in Contents /\ ~Known(c) /\ nextId \in Ids
      /\ sess' = [sess EXCEPT ![nextId] = new]
      /\ fresh' = fresh \cup {nextId} /\ nextId' = nextId + 1
      /\ held' = wrote /\ UNCHANGED <<wrote, lost, spent>>
  BY DEF InsertNewBag, AddRow, Flush
<1>2. cur.storage \in Storages
  <2>1. cur \in ScanRequest
    BY DEF IInv, TypeOK
  <2> QED
    BY <2>1 DEF ScanRequest
<1>3. new \in Row /\ new # NoRow /\ new.md5 = c /\ new.storage = cur.storage
  <2>1. 0 \in Nat /\ c \in Contents
    BY <1>1
  <2> HIDE DEF c
  <2> QED
    BY <1>2, <2>1, WrittenRow
<1>4. /\ rows[nextId] = NoRow /\ sess[nextId] = NoRow
      /\ nextId \notin wrote \cup lost /\ nextId \notin fresh
  BY <1>1 DEF IInv, TypeOK, SessionSound
<1>5. \A j \in Live : rows[j].md5 # c
  <2> SUFFICES ASSUME NEW j \in Live PROVE rows[j].md5 # c
    OBVIOUS
  <2>1. j \in Ids /\ rows[j] # NoRow /\ j \notin fresh
    BY DEF IInv, SessionSound, Live
  <2>2. CASE j \in wrote
    <3>1. sess[j] # NoRow /\ sess[j].md5 = rows[j].md5
      BY <2>1, <2>2 DEF IInv, SessionSound, SameBag
    <3> QED
      BY <1>1, <2>1, <2>2, <3>1 DEF Known, DbView
  <2>3. CASE j \notin wrote
    BY <1>1, <2>1, <2>3 DEF Known, DbView
  <2> QED
    BY <2>2, <2>3
<1>6. \A j \in fresh : j \in Ids /\ sess[j] # NoRow /\ sess[j].md5 # c
  BY <1>1 DEF Known, DbView, IInv, TypeOK, SessionSound
<1> HIDE DEF c, new
<1>7. TypeOK'
  BY <1>1, <1>3 DEF IInv, TypeOK, noteVars
<1>8. UniqueMd5'
  BY DEF IInv, UniqueMd5, Live
<1>9. sess'[nextId] = new /\ \A j \in Ids : j # nextId => sess'[j] = sess[j]
  BY <1>1 DEF IInv, TypeOK
<1>10. SessionSound'
  <2>1. \A j \in Ids : j >= nextId' => rows[j] = NoRow /\ sess'[j] = NoRow
    BY <1>1, <1>9, IdsAssumption DEF IInv, TypeOK, SessionSound
  <2>2. wrote' \cup lost' \subseteq {j \in Ids : sess'[j] # NoRow} \ fresh'
    BY <1>1, <1>4, <1>9 DEF IInv, SessionSound
  <2>3. \A j \in Ids : sess'[j] # NoRow => sess'[j].storage = cur.storage
    BY <1>3, <1>9 DEF IInv, SessionSound
  <2>4. \A j \in Live : sess'[j] # NoRow => SameBag(sess'[j], rows[j])
    BY <1>4, <1>9 DEF IInv, SessionSound, Live
  <2>5. \A j \in fresh' :
          /\ j \notin Live /\ sess'[j] # NoRow
          /\ \A k \in Live : rows[k].md5 # sess'[j].md5
          /\ \A k \in fresh' : sess'[k].md5 = sess'[j].md5 => j = k
    BY <1>1, <1>3, <1>4, <1>5, <1>6, <1>9 DEF IInv, SessionSound, Live
  <2>6. edit # NoEdit => /\ edit.id < nextId' /\ edit.id \notin fresh'
                         /\ edit.id \in Live => SameBag(edit.row, rows[edit.id])
    <3> SUFFICES ASSUME edit # NoEdit
                 PROVE  /\ edit.id < nextId' /\ edit.id \notin fresh'
                        /\ edit.id \in Live => SameBag(edit.row, rows[edit.id])
      OBVIOUS
    <3>1. edit \in Edit
      BY DEF IInv, TypeOK
    <3>2. edit.id \in Nat
      BY <3>1, IdsAssumption DEF Edit
    <3>3. /\ edit.id < nextId /\ edit.id \notin fresh
          /\ edit.id \in Live => SameBag(edit.row, rows[edit.id])
      BY DEF IInv, SessionSound
    <3>4. nextId \in Nat
      BY DEF IInv, TypeOK
    <3> QED
      BY <1>1, <3>2, <3>3, <3>4
  <2> QED
    BY <2>1, <2>2, <2>3, <2>4, <2>5, <2>6 DEF SessionSound, Live
<1> QED
  BY <1>7, <1>8, <1>10 DEF IInv, RowsKeepIdentity, SameBag

LEMMA UpdateBagFileInv ==
  ASSUME IInv, NEW p \in Paths, UpdateBagFile(p)
  PROVE  IInv' /\ RowsKeepIdentity
<1>1. /\ phase = "files" /\ todo' = todo \ {p}
      /\ UNCHANGED <<fs, dirty, noteVars, rows, queue, phase, cur, edit, wasGone>>
  BY DEF UpdateBagFile
<1>2. CASE SkipUnreadable(p) \/ QueryFails(p) \/ SkipDuplicate(p)
  <2>1. held' \in {held, wrote} /\ UNCHANGED <<sess, wrote, fresh, lost, nextId>>
    BY <1>2 DEF SkipUnreadable, QueryFails, SkipDuplicate, Flush
  <2>2. spent' \in [Events -> Nat]
    BY <1>2, S3FailsType DEF SkipUnreadable, QueryFails, SkipDuplicate, IInv, TypeOK
  <2>3. TypeOK'
    BY <1>1, <2>1, <2>2 DEF IInv, TypeOK, noteVars
  <2>4. UniqueMd5' /\ SessionSound'
    BY <1>1, <2>1 DEF IInv, UniqueMd5, SessionSound, Live
  <2> QED
    BY <1>1, <2>3, <2>4 DEF IInv, RowsKeepIdentity, SameBag
<1>3. CASE RelocateBag(p)
  BY <1>1, <1>3, RelocateInv
<1>4. CASE InsertNewBag(p)
  BY <1>1, <1>4, InsertInv
<1> QED
  BY <1>2, <1>3, <1>4 DEF UpdateBagFile
-----------------------------------------------------------------------------
(* What a commit stores, provided its flush succeeds: rows of the bags the *)
(* table has, and the inserted ones.                                       *)
LEMMA DbViewSound ==
  ASSUME IInv, CanFlush, NEW i \in Ids
  PROVE  /\ DbView(i) \in Row \cup {NoRow}
         /\ i \in fresh => DbView(i) = sess[i]
         /\ i \notin fresh /\ DbView(i) # NoRow =>
               i \in Live /\ SameBag(DbView(i), rows[i])
         /\ i >= nextId => DbView(i) = NoRow
<1>1. CASE i \in fresh
  BY <1>1 DEF DbView, IInv, TypeOK, SessionSound
<1>2. CASE i \in wrote \ fresh
  BY <1>2 DEF DbView, IInv, TypeOK, SessionSound, CanFlush
<1>3. CASE i \notin wrote \cup fresh
  BY <1>3 DEF DbView, IInv, TypeOK, SessionSound, Live, SameBag
<1> QED
  BY <1>1, <1>2, <1>3

(* Storing any of them, and ending the transaction, is sound.              *)
LEMMA StoreInv ==
  ASSUME IInv, CanFlush, NoTransaction, UNCHANGED <<nextId, edit>>,
         rows' \in [Ids -> Row \cup {NoRow}],
         \A i \in Ids : rows'[i] \in {DbView(i), NoRow}
  PROVE  UniqueMd5' /\ SessionSound' /\ RowsKeepIdentity
<1>1. \A i \in Ids : rows'[i] # NoRow => rows'[i] = DbView(i)
  OBVIOUS
<1>2. \A i \in Ids : rows'[i] # NoRow =>
        \/ i \in fresh /\ rows'[i] = sess[i]
        \/ i \notin fresh /\ i \in Live /\ SameBag(rows'[i], rows[i])
  BY <1>1, DbViewSound
<1>3. UniqueMd5'
  BY <1>2 DEF IInv, UniqueMd5, SessionSound, Live, SameBag
<1>4. RowsKeepIdentity
  BY <1>2 DEF RowsKeepIdentity, Live
<1>5. \A i \in Ids : i >= nextId => rows'[i] = NoRow
  BY <1>1, DbViewSound
<1>6. edit # NoEdit /\ edit.id \in Live' =>
        edit.id \in Live /\ SameBag(edit.row, rows'[edit.id])
  <2> SUFFICES ASSUME edit # NoEdit, edit.id \in Live'
               PROVE  edit.id \in Live /\ SameBag(edit.row, rows'[edit.id])
    OBVIOUS
  <2>1. edit.id \in Ids /\ rows'[edit.id] # NoRow /\ edit.id \notin fresh
    BY DEF IInv, SessionSound, Live
  <2>2. edit.id \in Live /\ SameBag(rows'[edit.id], rows[edit.id])
    BY <1>2, <2>1
  <2> QED
    BY <2>2 DEF IInv, SessionSound, SameBag
<1>7. SessionSound'
  BY <1>5, <1>6 DEF IInv, SessionSound, Live, NoTransaction, NoRows
<1> QED
  BY <1>3, <1>4, <1>7
LEMMA CommitScanInv ==
  ASSUME IInv, CommitScan
  PROVE  IInv' /\ RowsKeepIdentity
<1>1. CASE CanFlush /\ UNCHANGED keys /\ phase' # phase /\ rows' = [i \in Ids |-> DbView(i)]
             /\ wasGone' = GoneAfter(wrote \cup fresh, rows')
             /\ \/ phase' = "recheck" /\ UNCHANGED cur /\ NoTransaction
                \/ Finish
  <2>1. phase = "files" /\ UNCHANGED <<fs, dirty, watched, missed, closed, nextId, queue, edit, spent>>
    BY DEF CommitScan
  <2>2. rows' \in [Ids -> Row \cup {NoRow}]
    BY <1>1, DbViewSound
  <2>3. NoTransaction
    BY <1>1 DEF Finish
  <2>4. UniqueMd5' /\ SessionSound' /\ RowsKeepIdentity
    BY <1>1, <2>1, <2>2, <2>3, StoreInv
  <2>5. wasGone' \subseteq Ids
    BY <1>1 DEF GoneAfter, IInv, TypeOK
  <2>6. TypeOK'
    BY <1>1, <2>1, <2>2, <2>3, <2>5
       DEF IInv, TypeOK, Finish, NoTransaction, NoRows, Phases
  <2> QED
    BY <2>4, <2>6 DEF IInv
<1>2. CASE ~CanFlush /\ Abort
  BY <1>2, AbortInv DEF CommitScan, IInv, TypeOK
<1> QED
  BY <1>1, <1>2 DEF CommitScan, Finish

LEMMA PurgeInv ==
  ASSUME IInv, Purge
  PROVE  IInv' /\ RowsKeepIdentity
<1>1. CASE CanFlush /\ rows' = [i \in Ids |-> WithoutMissing(i)]
             /\ wasGone' = GoneAfter(wrote, rows') /\ Finish /\ UNCHANGED keys
  <2>1. phase = "purge" /\ UNCHANGED <<fs, dirty, watched, missed, closed, nextId, queue, edit, spent>>
    BY DEF Purge
  <2>2. \A i \in Ids : WithoutMissing(i) \in {DbView(i), NoRow}
    BY DEF WithoutMissing
  <2>3. \A i \in Ids : rows'[i] \in {DbView(i), NoRow}
    BY <1>1, <2>2
  <2>4. rows' \in [Ids -> Row \cup {NoRow}]
    BY <1>1, <2>2, DbViewSound
  <2>5. NoTransaction
    BY <1>1 DEF Finish
  <2>6. UniqueMd5' /\ SessionSound' /\ RowsKeepIdentity
    BY <1>1, <2>1, <2>3, <2>4, <2>5, StoreInv
  <2>7. wasGone' \subseteq Ids
    BY <1>1 DEF GoneAfter, IInv, TypeOK
  <2>8. TypeOK'
    BY <1>1, <2>1, <2>4, <2>7, FinishType DEF IInv, TypeOK
  <2> QED
    BY <2>6, <2>8 DEF IInv
<1>2. CASE ~CanFlush /\ Abort
  BY <1>2, AbortInv DEF Purge, IInv, TypeOK
<1> QED
  BY <1>1, <1>2 DEF Purge
-----------------------------------------------------------------------------
(* The other steps.  Steps that only touch files, queue and counters:      *)
LEMMA FilesInv ==
  ASSUME IInv, UNCHANGED <<dbVars, scanVars, edit>>,
         fs' \in [Storages -> [Paths -> FileStates]],
         dirty' \subseteq Storages, KeysType', closed' \in BOOLEAN,
         watched' \subseteq Storages, missed' \subseteq Storages,
         queue' \in Seq(ScanRequest),
         wasGone' \subseteq Ids, spent' \in [Events -> Nat]
  PROVE  IInv' /\ RowsKeepIdentity
<1>1. TypeOK'
  BY DEF IInv, TypeOK, KeysType, dbVars, scanVars
<1>2. UniqueMd5'
  BY DEF IInv, UniqueMd5, Live, dbVars
<1>3. SessionSound'
  BY DEF IInv, SessionSound, Live, dbVars, scanVars
<1>4. RowsKeepIdentity
  BY DEF RowsKeepIdentity, dbVars, SameBag
<1> QED
  BY <1>1, <1>2, <1>3, <1>4 DEF IInv

(* ... of which most leave the key caches and the timers alone ...         *)
LEMMA QuietInv ==
  ASSUME IInv, UNCHANGED <<noteVars, dbVars, scanVars, edit>>,
         fs' \in [Storages -> [Paths -> FileStates]],
         dirty' \subseteq Storages, queue' \in Seq(ScanRequest),
         wasGone' \subseteq Ids, spent' \in [Events -> Nat]
  PROVE  IInv' /\ RowsKeepIdentity
<1>1. KeysType' /\ watched' \subseteq Storages /\ missed' \subseteq Storages /\ closed' \in BOOLEAN
  BY DEF IInv, TypeOK, KeysType, noteVars
<1> QED
  BY <1>1, FilesInv

(* ... and the queue, to which many add the scan of one storage.           *)
LEMMA QueueType ==
  ASSUME TypeOK, NEW s \in Storages,
         queue' = Append(queue, ScanOf(s, FALSE))
  PROVE  queue' \in Seq(ScanRequest)
<1>1. ScanOf(s, FALSE) \in ScanRequest
  BY DEF ScanOf, ScanRequest
<1>2. queue \in Seq(ScanRequest)
  BY DEF TypeOK
<1> QED
  BY <1>1, <1>2, AppendProperties

LEMMA ChangeFileInv ==
  ASSUME IInv, NEW s \in Storages, NEW p \in Paths, NEW f \in FileStates,
         ChangeFile(s, p, f)
  PROVE  IInv' /\ RowsKeepIdentity
<1>1. /\ fs' = [fs EXCEPT ![s][p] = f]
      /\ UNCHANGED <<keys, watched, closed, dbVars, queue, scanVars, edit>>
  BY DEF ChangeFile
<1>2. fs' \in [Storages -> [Paths -> FileStates]]
  BY <1>1 DEF IInv, TypeOK
<1>3. wasGone' \subseteq Ids
  BY DEF ChangeFile, IInv, TypeOK, Live
<1>4. spent' \in [Events -> Nat]
  BY SpendType DEF ChangeFile, IInv
<1>5. queue' \in Seq(ScanRequest)
  BY <1>1 DEF IInv, TypeOK
<1>6. /\ dirty' \subseteq Storages /\ missed' \subseteq Storages /\ watched' \subseteq Storages
      /\ KeysType' /\ closed' \in BOOLEAN
  BY DEF ChangeFile, IInv, TypeOK, KeysType
<1> QED
  BY <1>1, <1>2, <1>3, <1>4, <1>5, <1>6, FilesInv

LEMMA UploadToS3Inv ==
  ASSUME IInv, NEW s \in Storages, NEW p \in Paths, NEW f \in Contents,
         UploadToS3(s, p, f)
  PROVE  IInv' /\ RowsKeepIdentity
<1>1. /\ fs' = [fs EXCEPT ![s][p] = f]
      /\ queue' = Append(queue, ScanOf(s, FALSE))
      /\ UNCHANGED <<dirty, noteVars, dbVars, scanVars, edit, wasGone>>
  BY DEF UploadToS3
<1>2. fs' \in [Storages -> [Paths -> FileStates]]
  BY <1>1 DEF IInv, TypeOK, FileStates
<1>3. spent' \in [Events -> Nat]
  BY SpendType DEF UploadToS3, IInv
<1>4. queue' \in Seq(ScanRequest)
  BY <1>1, QueueType DEF IInv
<1>5. dirty' \subseteq Storages /\ wasGone' \subseteq Ids
  BY <1>1 DEF IInv, TypeOK
<1> QED
  BY <1>1, <1>2, <1>3, <1>4, <1>5, QuietInv

LEMMA BagStorageChangedInv ==
  ASSUME IInv, NEW s \in Storages, BagStorageChanged(s)
  PROVE  IInv' /\ RowsKeepIdentity
<1>1. /\ queue' = Append(queue, ScanOf(s, FALSE)) /\ dirty' = dirty \ {s}
      /\ UNCHANGED <<fs, noteVars, dbVars, scanVars, edit, wasGone, spent>>
  BY DEF BagStorageChanged
<1>2. queue' \in Seq(ScanRequest)
  BY <1>1, QueueType DEF IInv
<1>3. /\ fs' \in [Storages -> [Paths -> FileStates]] /\ dirty' \subseteq Storages
      /\ wasGone' \subseteq Ids /\ spent' \in [Events -> Nat]
  BY <1>1 DEF IInv, TypeOK
<1> QED
  BY <1>1, <1>2, <1>3, QuietInv

LEMMA CheckForUpdatesInv ==
  ASSUME IInv, NEW s \in Storages, CheckForUpdates(s)
  PROVE  IInv' /\ RowsKeepIdentity
<1>1. /\ UpdateKeyCache(s) /\ queue' = Append(queue, ScanOf(s, FALSE))
      /\ UNCHANGED <<fs, dirty, watched, missed, closed, dbVars, scanVars, edit, wasGone, spent>>
  BY DEF CheckForUpdates
<1>2. queue' \in Seq(ScanRequest)
  BY <1>1, QueueType DEF IInv
<1>3. KeysType'
  BY <1>1, UpdateKeyCacheType DEF IInv
<1>4. /\ fs' \in [Storages -> [Paths -> FileStates]] /\ dirty' \subseteq Storages
      /\ watched' \subseteq Storages /\ missed' \subseteq Storages /\ closed' \in BOOLEAN
      /\ wasGone' \subseteq Ids /\ spent' \in [Events -> Nat]
  BY <1>1 DEF IInv, TypeOK
<1> QED
  BY <1>1, <1>2, <1>3, <1>4, FilesInv

LEMMA PollFailsInv ==
  ASSUME IInv, NEW s \in Storages, PollFails(s)
  PROVE  IInv' /\ RowsKeepIdentity
<1>1. /\ watched' = watched \ {s}
      /\ UNCHANGED <<fs, dirty, keys, missed, closed, dbVars, queue, scanVars, edit, wasGone>>
  BY DEF PollFails
<1>2. spent' \in [Events -> Nat]
  BY S3FailsType DEF PollFails, IInv
<1>3. KeysType' /\ queue' \in Seq(ScanRequest)
  BY <1>1 DEF IInv, TypeOK, KeysType
<1>4. /\ fs' \in [Storages -> [Paths -> FileStates]] /\ dirty' \subseteq Storages
      /\ watched' \subseteq Storages /\ missed' \subseteq Storages /\ closed' \in BOOLEAN /\ wasGone' \subseteq Ids
  BY <1>1 DEF IInv, TypeOK
<1> QED
  BY <1>1, <1>2, <1>3, <1>4, FilesInv

LEMMA WatcherWalksInv ==
  ASSUME IInv, NEW s \in Storages, WatcherWalks(s)
  PROVE  IInv' /\ RowsKeepIdentity
<1>1. /\ watched' = watched \cup {s}
      /\ UNCHANGED <<fs, dirty, keys, missed, closed, dbVars, queue, scanVars, edit, wasGone, spent>>
  BY DEF WatcherWalks
<1>2. KeysType' /\ queue' \in Seq(ScanRequest) /\ spent' \in [Events -> Nat]
  BY <1>1 DEF IInv, TypeOK, KeysType
<1>3. /\ fs' \in [Storages -> [Paths -> FileStates]] /\ dirty' \subseteq Storages
      /\ watched' \subseteq Storages /\ missed' \subseteq Storages /\ closed' \in BOOLEAN
      /\ wasGone' \subseteq Ids
  BY <1>1 DEF IInv, TypeOK
<1> QED
  BY <1>1, <1>2, <1>3, FilesInv

LEMMA RequestScanInv ==
  ASSUME IInv, NEW force \in BOOLEAN, RequestScan(force)
  PROVE  IInv' /\ RowsKeepIdentity
<1>1. /\ queue' = queue \o ScanAll(force)
      /\ UNCHANGED <<fs, dirty, noteVars, dbVars, scanVars, edit, wasGone>>
  BY DEF RequestScan
<1>2. spent' \in [Events -> Nat]
  BY SpendType DEF RequestScan, IInv
<1>3. queue' \in Seq(ScanRequest)
  BY <1>1, ScanAllType DEF IInv, TypeOK
<1>4. /\ fs' \in [Storages -> [Paths -> FileStates]] /\ dirty' \subseteq Storages
      /\ wasGone' \subseteq Ids
  BY <1>1 DEF IInv, TypeOK
<1> QED
  BY <1>1, <1>2, <1>3, <1>4, QuietInv

(* Deleting rows harms nobody's copies.                                    *)
LEMMA RemovalInv ==
  ASSUME IInv, rows' \in [Ids -> Row \cup {NoRow}],
         \A i \in Ids : rows'[i] \in {rows[i], NoRow},
         UNCHANGED <<fs, dirty, noteVars, nextId, queue, scanVars, edit, wasGone>>,
         spent' \in [Events -> Nat]
  PROVE  IInv' /\ RowsKeepIdentity
<1>1. TypeOK'
  BY DEF IInv, TypeOK, noteVars, scanVars
<1>2. \A i \in Ids : rows'[i] # NoRow => rows'[i] = rows[i] /\ rows[i] # NoRow
  OBVIOUS
<1>3. UniqueMd5'
  BY <1>2 DEF IInv, UniqueMd5, Live
<1>4. SessionSound'
  <2>1. edit # NoEdit /\ edit.id \in Live' =>
          edit.id \in Live /\ SameBag(edit.row, rows'[edit.id])
    BY <1>2 DEF IInv, SessionSound, Live
  <2> QED
    BY <1>2, <2>1 DEF IInv, SessionSound, Live, scanVars
<1>5. RowsKeepIdentity
  BY <1>2 DEF RowsKeepIdentity, SameBag
<1> QED
  BY <1>1, <1>3, <1>4, <1>5 DEF IInv

LEMMA AdminRemoveMissingInv ==
  ASSUME IInv, AdminRemoveMissing
  PROVE  IInv' /\ RowsKeepIdentity
<1>1. /\ rows' = [i \in Ids |-> IF i \in Live /\ rows[i].missing THEN NoRow ELSE rows[i]]
      /\ UNCHANGED <<fs, dirty, noteVars, nextId, queue, scanVars, edit, wasGone>>
  BY DEF AdminRemoveMissing
<1>2. spent' \in [Events -> Nat]
  BY SpendType DEF AdminRemoveMissing, IInv
<1>3. \A i \in Ids : rows'[i] \in {rows[i], NoRow}
  BY <1>1
<1>4. rows' \in [Ids -> Row \cup {NoRow}]
  BY <1>1 DEF IInv, TypeOK
<1> QED
  BY <1>1, <1>2, <1>3, <1>4, RemovalInv

LEMMA AdminRemoveDuplicatesInv ==
  ASSUME IInv, AdminRemoveDuplicates
  PROVE  IInv' /\ RowsKeepIdentity
<1>1. PICK kept \in SUBSET Live :
        rows' = [i \in Ids |-> IF i \in kept THEN rows[i] ELSE NoRow]
  BY DEF AdminRemoveDuplicates
<1>2. UNCHANGED <<fs, dirty, noteVars, nextId, queue, scanVars, edit, wasGone>>
  BY DEF AdminRemoveDuplicates
<1>3. spent' \in [Events -> Nat]
  BY SpendType DEF AdminRemoveDuplicates, IInv
<1>4. \A i \in Ids : rows'[i] \in {rows[i], NoRow}
  BY <1>1
<1>5. rows' \in [Ids -> Row \cup {NoRow}]
  BY <1>1 DEF IInv, TypeOK
<1> QED
  BY <1>2, <1>3, <1>4, <1>5, RemovalInv
-----------------------------------------------------------------------------
(* A user's edit: the copy it takes is of a bag of the table ...           *)
LEMMA EditBeginInv ==
  ASSUME IInv, NEW i \in Ids, EditBegin(i)
  PROVE  IInv' /\ RowsKeepIdentity
<1> DEFINE n == spent["edit"] + 1
           copy == [rows[i] EXCEPT !.note = n]
<1>1. /\ i \in Live /\ edit' = [id |-> i, row |-> copy]
      /\ UNCHANGED <<fs, dirty, noteVars, dbVars, queue, scanVars, wasGone>>
  BY DEF EditBegin
<1>2. spent' \in [Events -> Nat]
  BY SpendType DEF EditBegin, IInv
<1>3. rows[i] \in Row /\ rows[i] # NoRow
  BY <1>1 DEF IInv, TypeOK, Live
<1>4. n \in Nat
  BY DEF IInv, TypeOK
<1>5. copy \in Row /\ SameBag(copy, rows[i])
  <2> HIDE DEF n
  <2> QED
    BY <1>3, <1>4 DEF Row, SameBag
<1> HIDE DEF copy
<1>6. edit' \in Edit
  BY <1>1, <1>5 DEF Edit
<1>7. i < nextId /\ i \notin fresh
  BY <1>1, <1>3, IdsAssumption DEF IInv, TypeOK, SessionSound
<1>8. edit'.id = i /\ edit'.row = copy
  BY <1>1
<1>9. TypeOK'
  BY <1>1, <1>2, <1>6 DEF IInv, TypeOK, noteVars, dbVars, scanVars
<1>10. UniqueMd5'
  BY <1>1 DEF IInv, UniqueMd5, Live, dbVars
<1>11. SessionSound'
  BY <1>1, <1>5, <1>7, <1>8 DEF IInv, SessionSound, Live, dbVars, scanVars
<1> QED
  BY <1>1, <1>9, <1>10, <1>11 DEF IInv, RowsKeepIdentity, SameBag, dbVars

(* ... and still is when it is written back.                               *)
LEMMA EditEndInv ==
  ASSUME IInv, EditEnd
  PROVE  IInv' /\ RowsKeepIdentity
<1>1. /\ edit # NoEdit /\ edit' = NoEdit
      /\ rows' = IF edit.id \in Live THEN [rows EXCEPT ![edit.id] = edit.row] ELSE rows
      /\ UNCHANGED <<fs, dirty, noteVars, nextId, queue, scanVars, wasGone, spent>>
  BY DEF EditEnd
<1>2. edit \in Edit
  BY <1>1 DEF IInv, TypeOK
<1>3. edit.id \in Ids /\ edit.row \in Row /\ edit.row # NoRow
  BY <1>2, AbsentAssumption DEF Edit
<1>4. rows' \in [Ids -> Row \cup {NoRow}]
  BY <1>1, <1>3 DEF IInv, TypeOK
<1>5. \A i \in Ids : /\ rows'[i] = NoRow <=> rows[i] = NoRow
                     /\ rows[i] # NoRow => SameBag(rows'[i], rows[i])
  BY <1>1, <1>3 DEF IInv, TypeOK, SessionSound, Live, SameBag
<1>6. TypeOK'
  BY <1>1, <1>4 DEF IInv, TypeOK, noteVars, scanVars
<1>7. UniqueMd5'
  BY <1>5 DEF IInv, UniqueMd5, Live, SameBag
<1>8. SessionSound'
  <2>1. fresh \subseteq Ids
    BY DEF IInv, TypeOK
  <2> QED
    BY <1>1, <1>5, <2>1 DEF IInv, SessionSound, Live, SameBag, scanVars
<1>9. RowsKeepIdentity
  BY <1>5 DEF RowsKeepIdentity
<1> QED
  BY <1>6, <1>7, <1>8, <1>9 DEF IInv

LEMMA ResetInv ==
  ASSUME IInv, Reset
  PROVE  IInv' /\ RowsKeepIdentity
<1>1. /\ queue' = queue \o ScanAll(FALSE) /\ watched' = {} /\ closed' = TRUE
      /\ UNCHANGED <<fs, dirty, keys, missed, dbVars, scanVars, edit, wasGone>>
  BY DEF Reset
<1>2. spent' \in [Events -> Nat]
  <2>1. Spend("reset")
    BY DEF Reset
  <2> QED
    BY <2>1, SpendType DEF IInv
<1>3. queue' \in Seq(ScanRequest)
  <2>1. ScanAll(FALSE) \in Seq(ScanRequest)
    BY ScanAllType
  <2>2. queue \in Seq(ScanRequest)
    BY DEF IInv, TypeOK
  <2> QED
    BY <1>1, <2>1, <2>2, ConcatProperties
<1>4. KeysType'
  BY <1>1 DEF IInv, TypeOK, KeysType
<1>5. /\ fs' \in [Storages -> [Paths -> FileStates]] /\ dirty' \subseteq Storages
      /\ watched' \subseteq Storages /\ missed' \subseteq Storages /\ closed' \in BOOLEAN /\ wasGone' \subseteq Ids
  BY <1>1 DEF IInv, TypeOK
<1> QED
  BY <1>1, <1>2, <1>3, <1>4, <1>5, FilesInv

LEMMA RestartInv ==
  ASSUME IInv, Restart
  PROVE  IInv' /\ RowsKeepIdentity
<1>1. /\ Finish /\ queue' = ScanAll(FALSE) /\ dirty' = {} /\ edit' = NoEdit
      /\ keys' = [s \in Storages |-> NoKeys] /\ watched' = S3Storages /\ closed' = FALSE
      /\ UNCHANGED <<fs, missed, rows, nextId, wasGone>>
  BY DEF Restart, dbVars
<1>2. spent' \in [Events -> Nat]
  BY SpendType DEF Restart, IInv
<1>3. queue' \in Seq(ScanRequest)
  BY <1>1, ScanAllType
<1>4. TypeOK'
  BY <1>1, <1>2, <1>3, FinishType, StoragesAssumption DEF IInv, TypeOK
<1>5. UniqueMd5' /\ SessionSound'
  BY <1>1, FinishInv
<1> QED
  BY <1>1, <1>4, <1>5 DEF IInv, RowsKeepIdentity, SameBag
-----------------------------------------------------------------------------
(* Every step keeps the invariant and the identity of every row.           *)
THEOREM NextInv == IInv /\ [Next]_vars => IInv' /\ [RowsKeepIdentity]_vars
<1> SUFFICES ASSUME IInv, [Next]_vars PROVE IInv' /\ [RowsKeepIdentity]_vars
  OBVIOUS
<1>1. CASE UNCHANGED vars
  <2>1. TypeOK'
    BY <1>1 DEF IInv, TypeOK, vars, noteVars, dbVars, scanVars
  <2>2. UniqueMd5' /\ SessionSound'
    BY <1>1 DEF IInv, UniqueMd5, SessionSound, Live, vars, dbVars, scanVars
  <2> QED
    BY <1>1, <2>1, <2>2 DEF IInv
<1>2. CASE ScannerStep
  BY <1>2, StartScanInv, QueryRowsInv, ListFilesInv, UpdateBagFileInv, CommitScanInv,
     RecheckInv, PurgeInv DEF ScannerStep
<1>3. CASE \E s \in Storages : NoticeChange(s)
  BY <1>3, BagStorageChangedInv, CheckForUpdatesInv, WatcherWalksInv DEF NoticeChange
<1>4. CASE OutsideStep
  <2>1. CASE \E s \in Storages, p \in Paths, f \in FileStates : ChangeFile(s, p, f)
    BY <2>1, ChangeFileInv
  <2>2. CASE \E force \in BOOLEAN : RequestScan(force)
    BY <2>2, RequestScanInv
  <2>3. CASE \E i \in Ids : EditBegin(i)
    BY <2>3, EditBeginInv
  <2>4. CASE \E s \in Storages, p \in Paths, f \in Contents : UploadToS3(s, p, f)
    BY <2>4, UploadToS3Inv
  <2>5. CASE \E s \in Storages : PollFails(s)
    BY <2>5, PollFailsInv
  <2>6. CASE AdminRemoveMissing \/ AdminRemoveDuplicates \/ EditEnd
                \/ Reset \/ Restart
    BY <2>6, AdminRemoveMissingInv, AdminRemoveDuplicatesInv, EditEndInv,
       ResetInv, RestartInv
  <2> QED
    BY <1>4, <2>1, <2>2, <2>3, <2>4, <2>5, <2>6 DEF OutsideStep
<1> QED
  BY <1>1, <1>2, <1>3, <1>4 DEF Next

THEOREM Invariance == Spec => []IInv
<1>1. Init => IInv
  BY InitInv
<1>2. IInv /\ [Next]_vars => IInv'
  BY NextInv
<1> QED
  BY <1>1, <1>2, PTL DEF Spec

(* Whatever the storages hold and however the scans, edits, removals and   *)
(* restarts interleave, every variable keeps its type.                     *)
THEOREM TypeCorrect == Spec => []TypeOK
<1>1. IInv => TypeOK
  BY DEF IInv
<1> QED
  BY <1>1, Invariance, PTL

(* No two rows of the table ever have one MD5 sum.                         *)
THEOREM Md5sUnique == Spec => []UniqueMd5
<1>1. IInv => UniqueMd5
  BY DEF IInv
<1> QED
  BY <1>1, Invariance, PTL

(* The copies that scans and edits hold agree with the table on which bag  *)
(* each row is.                                                            *)
THEOREM SessionsSound == Spec => []SessionSound
<1>1. IInv => SessionSound
  BY DEF IInv
<1> QED
  BY <1>1, Invariance, PTL

(* A row is one bag of one storage from its insertion to its removal, and  *)
(* a removed row does not come back.                                       *)
THEOREM IdentityKept == Spec => RowIdentityKept
<1>1. IInv /\ [Next]_vars => [RowsKeepIdentity]_vars
  BY NextInv
<1> QED
  BY <1>1, Invariance, PTL DEF Spec, RowIdentityKept
-----------------------------------------------------------------------------
(* The removal of missing bags.  It is proved for directories, as long as  *)
(* nobody edits bags: a bucket's files are looked up in a cache of keys    *)
(* that may be stale, and an edit writes back the path it has read, which  *)
(* a scan may have changed since.                                          *)

(* Whatever row points at no file is in wasGone.                           *)
AbsentIsGone == \A i \in Live : ~FileThere(rows[i]) => i \in wasGone

(* What the second look has found of the bags that the removal may take.   *)
SecondLook ==
  phase = "purge" =>
    /\ fresh = {}
    /\ \A i \in Live : rows[i].storage = cur.storage /\ cur.storage \notin S3Storages =>
         /\ sess[i] # NoRow /\ (i \notin wrote => sess[i].missing = rows[i].missing)
         /\ sess[i].missing => i \in wasGone

GoneInv == edit = NoEdit /\ AbsentIsGone /\ SecondLook

LEMMA GoneKept ==
  ASSUME GoneInv, UNCHANGED <<fs, dbVars, edit, wasGone>>, phase' # "purge"
  PROVE  GoneInv'
BY DEF GoneInv, AbsentIsGone, SecondLook, Live, FileThere, Files, dbVars

(* A commit brings wasGone up to date for the rows that it writes.         *)
LEMMA CommittedGone ==
  ASSUME AbsentIsGone, NEW W \in SUBSET Ids, UNCHANGED fs,
         wasGone' = GoneAfter(W, rows'),
         \A i \in Ids \ W : rows'[i] # NoRow => rows'[i] = rows[i]
  PROVE  AbsentIsGone'
<1> SUFFICES ASSUME NEW i \in Live', ~FileThere(rows[i])'  PROVE i \in wasGone'
  BY DEF AbsentIsGone
<1>1. i \in Ids /\ rows'[i] # NoRow /\ ~FileThere(rows'[i])
  BY DEF Live, FileThere, Files
<1>2. CASE i \in W
  BY <1>1, <1>2 DEF GoneAfter
<1>3. CASE i \notin W
  BY <1>1, <1>3 DEF GoneAfter, AbsentIsGone, Live
<1>4. QED
  BY <1>2, <1>3

LEMMA RecheckGone ==
  ASSUME IInv, GoneInv, Recheck
  PROVE  GoneInv'
<1>1. UNCHANGED <<fs, rows, edit, wasGone, cur>> /\ phase' = "purge" /\ CheckExistence(RowsOf(cur.storage))
  BY DEF Recheck, dbVars, UpdateBagExistence
<1>2. AbsentIsGone'
  BY <1>1 DEF GoneInv, AbsentIsGone, Live, FileThere, Files
<1>3. ASSUME NEW i \in Live, rows[i].storage = cur.storage, cur.storage \notin S3Storages
      PROVE  /\ sess'[i] # NoRow /\ (i \notin wrote' => sess'[i].missing = rows[i].missing)
             /\ sess'[i].missing => i \in wasGone
  <2> DEFINE there == BagExists(rows[i])
  <2>1. rows[i] \in Row /\ i \in RowsOf(cur.storage) /\ i \in Ids
    BY <1>3 DEF RowsOf, Live, IInv, TypeOK
  <2>2. there \in BOOLEAN /\ (there <=> FileThere(rows[i]))
    BY <1>3 DEF BagExists, FileThere
  <2>3. sess'[i] = [rows[i] EXCEPT !.missing = ~there] /\ (i \in wrote' <=> rows[i].missing = there)
    BY <1>1, <2>1 DEF CheckExistence
  <2> HIDE DEF there
  <2>4. [rows[i] EXCEPT !.missing = ~there] # NoRow /\ sess'[i].missing = ~there
    BY <2>1, <2>2, <2>3, CheckedRow DEF Row
  <2>5. rows[i].missing \in BOOLEAN
    BY <2>1 DEF Row
  <2>6. ~there => i \in wasGone
    BY <2>2 DEF GoneInv, AbsentIsGone
  <2>7. QED
    BY <2>2, <2>3, <2>4, <2>5, <2>6
<1>4. fresh' = {}
  BY <1>1 DEF CheckExistence
<1>5. SecondLook'
  BY <1>1, <1>3, <1>4 DEF SecondLook, Live
<1>6. QED
  BY <1>1, <1>2, <1>5 DEF GoneInv

LEMMA FilesGone ==
  ASSUME IInv, GoneInv, UNCHANGED <<dbVars, scanVars, edit>>, wasGone \subseteq wasGone',
         \A i \in Live : FileThere(rows[i]) /\ ~FileThere(rows[i])' => i \in wasGone'
  PROVE  GoneInv'
<1>1. Live' = Live /\ rows' = rows
  BY DEF Live, dbVars
<1>2. \A i \in Live : ~FileThere(rows[i])' => i \in wasGone'
  BY <1>1 DEF GoneInv, AbsentIsGone
<1>3. AbsentIsGone'
  BY <1>1, <1>2 DEF AbsentIsGone
<1>4. SecondLook'
  BY <1>1 DEF GoneInv, SecondLook, scanVars
<1>5. QED
  BY <1>3, <1>4 DEF GoneInv

LEMMA RemovalGone ==
  ASSUME GoneInv, \A i \in Ids : rows'[i] \in {rows[i], NoRow},
         UNCHANGED <<fs, scanVars, edit, wasGone>>
  PROVE  GoneInv'
<1>1. \A i \in Live' : i \in Live /\ rows'[i] = rows[i]
  BY DEF Live
<1>2. AbsentIsGone'
  BY <1>1 DEF GoneInv, AbsentIsGone, FileThere, Files
<1>3. SecondLook'
  BY <1>1 DEF GoneInv, SecondLook, scanVars
<1>4. QED
  BY <1>2, <1>3 DEF GoneInv

LEMMA GoneStep ==
  ASSUME Bound["edit"] = 0, IInv, GoneInv, [Next]_vars
  PROVE  GoneInv'
<1>1. CASE StartScan \/ QueryRows \/ ListFiles \/ \E p \in Paths : UpdateBagFile(p)
  <2>1. UNCHANGED <<fs, rows, edit, wasGone>> /\ phase' # "purge"
    BY <1>1 DEF StartScan, QueryRows, ListFiles, UpdateBagFile, Abort, Finish
  <2>2. QED
    BY <2>1 DEF GoneInv, AbsentIsGone, SecondLook, Live, FileThere, Files
<1>2. CASE CommitScan
  <2>1. CASE rows' = [i \in Ids |-> DbView(i)] /\ wasGone' = GoneAfter(wrote \cup fresh, rows')
               /\ phase' # "purge"
    <3>1. UNCHANGED <<fs, edit>> /\ wrote \cup fresh \in SUBSET Ids
      BY <1>2 DEF CommitScan, IInv, TypeOK
    <3>2. \A i \in Ids \ (wrote \cup fresh) : rows'[i] = rows[i]
      BY <2>1 DEF DbView
    <3>3. AbsentIsGone'
      <4> DEFINE W == wrote \cup fresh
      <4>1. W \in SUBSET Ids /\ wasGone' = GoneAfter(W, rows') /\ \A i \in Ids \ W : rows'[i] = rows[i]
        BY <2>1, <3>1, <3>2
      <4> HIDE DEF W
      <4>2. QED
        BY <3>1, <4>1, CommittedGone DEF GoneInv
    <3>4. QED
      BY <2>1, <3>1, <3>3 DEF GoneInv, SecondLook
  <2>2. CASE Abort
    BY <1>2, <2>2, GoneKept DEF CommitScan, Abort, Finish, dbVars
  <2>3. QED
    BY <1>2, <2>1, <2>2 DEF CommitScan, Finish
<1>3. CASE Recheck
  BY <1>3, RecheckGone
<1>4. CASE Purge
  <2>1. CASE rows' = [i \in Ids |-> WithoutMissing(i)] /\ wasGone' = GoneAfter(wrote, rows')
               /\ Finish
    <3>1. UNCHANGED <<fs, edit>> /\ wrote \in SUBSET Ids /\ phase = "purge" /\ fresh = {}
      BY <1>4 DEF Purge, IInv, TypeOK, GoneInv, SecondLook
    <3>2. \A i \in Ids \ wrote : rows'[i] # NoRow => rows'[i] = rows[i]
      BY <2>1, <3>1 DEF WithoutMissing, DbView
    <3>3. AbsentIsGone'
      BY <2>1, <3>1, <3>2, CommittedGone DEF GoneInv
    <3>4. QED
      BY <2>1, <3>1, <3>3 DEF GoneInv, SecondLook, Finish
  <2>2. CASE Abort
    BY <1>4, <2>2, GoneKept DEF Purge, Abort, Finish, dbVars
  <2>3. QED
    BY <1>4, <2>1, <2>2 DEF Purge
<1>5. ASSUME NEW s \in Storages, NEW p \in Paths, NEW f \in FileStates, ChangeFile(s, p, f)
      PROVE  GoneInv'
  <2>1. /\ fs' = [fs EXCEPT ![s][p] = f] /\ UNCHANGED <<dbVars, scanVars, edit>>
        /\ wasGone' = IF f = NoFile
             THEN wasGone \cup {i \in Live : rows[i].storage = s /\ rows[i].path = p}
             ELSE wasGone
    BY <1>5 DEF ChangeFile
  <2>2. ASSUME NEW i \in Live, FileThere(rows[i]), ~FileThere(rows[i])'  PROVE i \in wasGone'
    <3>1. rows[i] \in Row
      BY DEF IInv, TypeOK, Live
    <3>2. rows[i].storage \in Storages /\ rows[i].path \in Paths
      BY <3>1 DEF Row
    <3>3. fs[rows[i].storage][rows[i].path] # NoFile /\ fs'[rows[i].storage][rows[i].path] = NoFile
      BY <2>1, <2>2, <3>2 DEF FileThere, Files, dbVars
    <3>4. rows[i].storage = s /\ rows[i].path = p /\ f = NoFile
      BY <2>1, <3>2, <3>3 DEF IInv, TypeOK
    <3>5. QED
      BY <2>1, <3>4
  <2>3. QED
    BY <2>1, <2>2, FilesGone
<1>6. ASSUME NEW s \in Storages, NEW p \in Paths, NEW f \in Contents, UploadToS3(s, p, f)
      PROVE  GoneInv'
  <2>1. fs' = [fs EXCEPT ![s][p] = f] /\ UNCHANGED <<dbVars, scanVars, edit, wasGone>> /\ f # NoFile
    BY <1>6, AbsentAssumption DEF UploadToS3
  <2>2. ASSUME NEW i \in Live, FileThere(rows[i])  PROVE FileThere(rows[i])'
    <3>1. rows[i] \in Row
      BY DEF IInv, TypeOK, Live
    <3>2. rows[i].storage \in Storages /\ rows[i].path \in Paths
      BY <3>1 DEF Row
    <3>3. fs[rows[i].storage][rows[i].path] # NoFile
      BY <2>2 DEF FileThere, Files
    <3>4. fs'[rows[i].storage][rows[i].path] # NoFile
      BY <2>1, <3>2, <3>3 DEF IInv, TypeOK
    <3>5. QED
      BY <2>1, <3>2, <3>4 DEF FileThere, Files, dbVars
  <2>3. QED
    BY <2>1, <2>2, FilesGone
<1>7. CASE \/ \E s \in Storages : NoticeChange(s) \/ PollFails(s)
           \/ \E force \in BOOLEAN : RequestScan(force)
           \/ Reset \/ UNCHANGED vars
  <2>1. UNCHANGED <<fs, dbVars, scanVars, edit, wasGone>>
    BY <1>7 DEF NoticeChange, BagStorageChanged, CheckForUpdates, WatcherWalks, PollFails, RequestScan, Reset, vars
  <2>2. QED
    BY <2>1, FilesGone DEF FileThere, Files, dbVars
<1>8. CASE AdminRemoveMissing \/ AdminRemoveDuplicates
  <2>1. \A i \in Ids : rows'[i] \in {rows[i], NoRow}
    BY <1>8 DEF AdminRemoveMissing, AdminRemoveDuplicates
  <2>2. UNCHANGED <<fs, scanVars, edit, wasGone>>
    BY <1>8 DEF AdminRemoveMissing, AdminRemoveDuplicates
  <2>3. QED
    BY <2>1, <2>2, RemovalGone
<1>9. ASSUME NEW i \in Ids, EditBegin(i) \/ EditEnd  PROVE FALSE
  <2>1. spent["edit"] \in Nat
    BY DEF IInv, TypeOK
  <2>2. ~Spend("edit")
    BY <2>1 DEF Spend
  <2>3. QED
    BY <1>9, <2>2 DEF EditBegin, EditEnd, GoneInv
<1>10. CASE Restart
  <2>1. UNCHANGED <<fs, dbVars, wasGone>> /\ phase' # "purge" /\ edit' = NoEdit
    BY <1>10 DEF Restart, Finish
  <2>2. QED
    BY <2>1, GoneKept DEF GoneInv
<1>11. CASE EditEnd
  BY <1>11 DEF EditEnd, GoneInv
<1>12. QED
  BY <1>1, <1>2, <1>3, <1>4, <1>5, <1>6, <1>7, <1>8, <1>9, <1>10, <1>11
     DEF Next, ScannerStep, OutsideStep

(* The removal of this scan's own storage.                                 *)
OwnPurge ==
  phase = "purge" /\ phase' = "idle" =>
    \A i \in Live : /\ rows[i].storage = cur.storage /\ cur.storage \notin S3Storages
                    /\ rows'[i] = NoRow
                    => i \in wasGone

LEMMA OwnPurgeStep ==
  ASSUME IInv, GoneInv, [Next]_vars
  PROVE  OwnPurge
<1> SUFFICES ASSUME phase = "purge", phase' = "idle", NEW i \in Live,
                    rows[i].storage = cur.storage, cur.storage \notin S3Storages, rows'[i] = NoRow
             PROVE  i \in wasGone
  BY DEF OwnPurge
<1>1. rows[i] # NoRow /\ i \in Ids
  BY DEF Live
<1>2. /\ fresh = {} /\ sess[i] # NoRow /\ (i \notin wrote => sess[i].missing = rows[i].missing)
      /\ sess[i].missing => i \in wasGone
  BY DEF GoneInv, SecondLook
<1>3. rows' # rows
  BY <1>1
<1>4. Purge
  <2>1. ~(StartScan \/ QueryRows \/ ListFiles \/ CommitScan \/ Recheck)
        /\ \A p \in Paths : ~UpdateBagFile(p)
    BY DEF StartScan, QueryRows, ListFiles, CommitScan, Recheck, UpdateBagFile
  <2>2. ~OutsideStep
    BY <1>3 DEF OutsideStep, ChangeFile, UploadToS3, PollFails, RequestScan, AdminRemoveMissing,
                AdminRemoveDuplicates, EditBegin, EditEnd, Reset, Restart, dbVars, scanVars
  <2>3. \A s \in Storages : ~NoticeChange(s)
    BY DEF NoticeChange, BagStorageChanged, CheckForUpdates, WatcherWalks, scanVars
  <2>4. ~UNCHANGED vars
    BY DEF vars, scanVars
  <2>5. QED
    BY <2>1, <2>2, <2>3, <2>4 DEF Next, ScannerStep
<1>5. rows' = [j \in Ids |-> WithoutMissing(j)]
  BY <1>3, <1>4 DEF Purge, Abort
<1>6. WithoutMissing(i) = NoRow
  BY <1>1, <1>5
<1>7. DbView(i) # NoRow /\ DbView(i).missing
  BY <1>1, <1>2, <1>6 DEF WithoutMissing, DbView
<1>8. QED
  BY <1>2, <1>7 DEF DbView

(* Whatever the storages, a scan of a directory removes only those of its  *)
(* own bags whose file has been absent since a scan last wrote the row, as *)
(* long as nobody edits bags (scanStorage's second updateBagExistence and  *)
(* removeMissingBags).                                                     *)
THEOREM OwnPurgeTakesOnlyGone ==
  ASSUME Bound["edit"] = 0
  PROVE  Spec => [][OwnPurge]_vars
<1>1. Init => GoneInv
  BY DEF Init, GoneInv, AbsentIsGone, SecondLook, Live, NoRows
<1>2. IInv /\ GoneInv /\ [Next]_vars => GoneInv'
  BY GoneStep
<1>3. IInv /\ GoneInv /\ [Next]_vars => OwnPurge
  BY OwnPurgeStep
<1>4. QED
  BY <1>1, <1>2, <1>3, InitInv, NextInv, PTL DEF Spec

(* With one directory and nothing else the whole removal is that of its    *)
(* own bags.  (With more, a scan removes the bags of the others by their   *)
(* flags alone, which may be out of date.)                                 *)
THEOREM OneDirectoryPurge ==
  ASSUME Bound["edit"] = 0, S3Storages = {}, \A s, t \in Storages : s = t
  PROVE  Spec => PurgeTakesOnlyGone
<1> DEFINE Taken == phase = "purge" /\ phase' = "idle" =>
                      \A i \in Live : rows'[i] = NoRow => i \in wasGone
<1>1. IInv /\ OwnPurge => Taken
  <2> SUFFICES ASSUME IInv, OwnPurge, phase = "purge", phase' = "idle", NEW i \in Live, rows'[i] = NoRow
               PROVE  i \in wasGone
    OBVIOUS
  <2>1. rows[i] \in Row /\ cur \in ScanRequest
    BY DEF IInv, TypeOK, Live
  <2>2. rows[i].storage \in Storages /\ cur.storage \in Storages
    BY <2>1 DEF Row, ScanRequest
  <2>3. QED
    BY <2>2 DEF OwnPurge
<1>2. QED
  BY <1>1, OwnPurgeTakesOnlyGone, InitInv, NextInv, PTL DEF Spec, PurgeTakesOnlyGone
=============================================================================
