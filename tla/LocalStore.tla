------------------------------ MODULE LocalStore ------------------------------
(***************************************************************************)
(* The leveldb-backed overflow store of drivers/local_store.go.            *)
(*                                                                         *)
(* A record's key is the 8-byte big-endian value of LocalStore.index       *)
(* followed by the topic, and its value is the base64 of the payload.      *)
(* Keys are ordered by their sequence prefix, so the model keeps the       *)
(* sequence number as the key and the message identity as the value: the  *)
(* topic bytes and the encoding do not change which record a key names.   *)
(***************************************************************************)
EXTENDS Naturals, FiniteSets, FiniteSetsExt
LOCAL INSTANCE Functions

CONSTANTS
    Msgs,            \* message identities that may be stored
    Writers,         \* goroutines calling LocalStore.Put concurrently
    Corrupt,         \* the value of a record that is not valid base64
    StoreMayFail,    \* leveldb Put and Delete may return an error
    MaxRestarts,     \* bound on crashes followed by NewLocalStore
    None

VARIABLES
    db,              \* the set of live records [seq, msg]
    index,           \* LocalStore.index, the last sequence number handed out
    pending,         \* pending[w]: the record w numbered and has not yet written
    scanning,        \* a ProcessAll is running
    snap,            \* the records its iterator has still to visit
    restarts,        \* crashes so far
    used,            \* history: every [seq, msg] Put has numbered
    written,         \* history: messages whose db.Put succeeded
    handed           \* history: records ProcessAll passed to p.process

Record == [seq : Nat, msg : Msgs \cup {Corrupt}]

Keys(d) == {r.seq : r \in d}

\* db.Put(bk, v2): leveldb replaces any record already stored under bk.
PutRecord(d, i, m) == {r \in d : r.seq # i} \cup {[seq |-> i, msg |-> m]}

\* Fault variant of DeleteKey: the key after the visited one is deleted.
DeleteNextKey(d, k) == {r \in d : r.seq # k + 1}

\* db.Delete(iter.Key(), nil)
DeleteKey(d, k) == {r \in d : r.seq # k}

\* Fault variant of Recover: the index is not read back from the store.
RecoverNotRead(d) == 0

\* NewLocalStore: iter.Last() is the greatest key; its first 8 bytes become
\* the index, and an empty store leaves the index at 0.
Recover(d) == IF d = {} THEN 0 ELSE Max(Keys(d))

\* The records a fresh store holds after a previous run wrote the messages
\* of S in some order and replayed none of them.
StoredInSomeOrder(S) ==
    LET n == Cardinality(S)
    IN  { {[seq |-> i, msg |-> f[i]] : i \in 1..n} :
            f \in Bijection(1..n, S) }

-----------------------------------------------------------------------------
(* The store on its own: concurrent Put callers, the ProcessAll scan with  *)
(* a process callback that accepts every message, and crashes followed by *)
(* reopening the same leveldb directory.                                   *)

storeVars == <<db, index, pending, scanning, snap, restarts, used, written, handed>>

\* LocalStore.Put, first step: i := atomic.AddUint64(&p.index, 1).
PutNumber(w, m) ==
    /\ pending[w] = None
    /\ m \notin {u.msg : u \in used}
    /\ index' = index + 1
    /\ pending' = [pending EXCEPT ![w] = [seq |-> index + 1, msg |-> m]]
    /\ used' = used \cup {pending'[w]}
    /\ UNCHANGED <<db, scanning, snap, restarts, written, handed>>

\* LocalStore.Put, second step: p.db.Put(bk, v2); an error is returned to
\* the caller, and the number stays consumed.
PutWrite(w) ==
    /\ pending[w] # None
    /\ pending' = [pending EXCEPT ![w] = None]
    /\ \/ /\ db' = PutRecord(db, pending[w].seq, pending[w].msg)
          /\ written' = written \cup {pending[w].msg}
       \/ /\ StoreMayFail
          /\ UNCHANGED <<db, written>>
    /\ UNCHANGED <<index, scanning, snap, restarts, used, handed>>

\* ProcessAll: db.NewIterator takes a snapshot of the live records.
ScanBegin ==
    /\ ~scanning
    /\ scanning' = TRUE
    /\ snap' = db
    /\ UNCHANGED <<db, index, pending, restarts, used, written, handed>>

\* Fault variant of ScanVisit: the decode error is ignored and the
\* undecodable value is passed to p.process.
ScanVisitDecodeIgnored ==
    /\ scanning
    /\ \E r \in snap :
          /\ \A q \in snap : r.seq <= q.seq
          /\ snap' = snap \ {r}
          /\ handed' = handed \cup {r}
          /\ db' = DeleteKey(db, r.seq)
    /\ UNCHANGED <<index, pending, scanning, restarts, used, written>>

\* One iteration of ProcessAll's loop on the smallest key left: a value
\* that fails to decode is logged and skipped; any other is passed to
\* p.process and then deleted (a failed delete is only logged).
ScanVisit ==
    /\ scanning
    /\ \E r \in snap :
          /\ \A q \in snap : r.seq <= q.seq
          /\ snap' = snap \ {r}
          /\ \/ /\ r.msg = Corrupt
                /\ UNCHANGED <<db, handed>>
             \/ /\ r.msg # Corrupt
                /\ handed' = handed \cup {r}
                /\ \/ db' = DeleteKey(db, r.seq)
                   \/ StoreMayFail /\ UNCHANGED db
    /\ UNCHANGED <<index, pending, scanning, restarts, used, written>>

\* iter.Next() is false: iter.Release().
ScanEnd ==
    /\ scanning
    /\ snap = {}
    /\ scanning' = FALSE
    /\ UNCHANGED <<db, index, pending, snap, restarts, used, written, handed>>

\* The process dies at any point: writes not yet issued and the running
\* scan are gone, leveldb keeps what it wrote, and NewLocalStore reopens
\* the directory and recovers the index from the last key.
Restart ==
    /\ restarts < MaxRestarts
    /\ restarts' = restarts + 1
    /\ pending' = [w \in Writers |-> None]
    /\ scanning' = FALSE
    /\ snap' = {}
    /\ index' = Recover(db)
    /\ UNCHANGED <<db, used, written, handed>>

\* A store left by a previous run: empty, or holding one record that does
\* not decode.
StoreInit ==
    /\ db \in {{}, {[seq |-> 1, msg |-> Corrupt]}}
    /\ index = Recover(db)
    /\ pending = [w \in Writers |-> None]
    /\ scanning = FALSE
    /\ snap = {}
    /\ restarts = 0
    /\ used = db
    /\ written = {}
    /\ handed = {}

StoreNext ==
    \/ \E w \in Writers, m \in Msgs : PutNumber(w, m)
    \/ \E w \in Writers : PutWrite(w)
    \/ ScanBegin \/ ScanVisit \/ ScanEnd
    \/ Restart

StoreSpec == StoreInit /\ [][StoreNext]_storeVars

-----------------------------------------------------------------------------

TypeOK ==
    /\ db \subseteq Record /\ index \in Nat
    /\ pending \in [Writers -> Record \cup {None}]
    /\ scanning \in BOOLEAN /\ snap \subseteq Record
    /\ restarts \in 0..MaxRestarts
    /\ used \subseteq Record /\ written \subseteq Msgs
    /\ handed \subseteq [seq : Nat, msg : Msgs]

\* Put after any mix of concurrent writers, scans and restarts never
\* replaces a live record: every message whose write succeeded is still
\* stored until ProcessAll has handed it to the process callback.
WrittenKept ==
    \A m \in written : \E r \in db \cup handed : r.msg = m

\* Spec 3: sequence numbers never repeat within a store's lifetime, across
\* restarts.  Every number atomic.AddUint64 hands out is a new one.
SeqNeverReused ==
    [][\A w \in Writers :
          (pending[w] = None /\ pending'[w] # None) => pending'[w].seq \notin Keys(used)
      ]_storeVars

\* Spec 4.1: a record whose payload does not decode is logged and
\* discarded: the ProcessAll step that visits it removes it from the store.
CorruptDiscarded ==
    [][(scanning /\ scanning') =>
          \A r \in snap \ snap' : r.msg = Corrupt => r \notin db'
      ]_storeVars

\* Spec 5: replay is in sequence order: ProcessAll never hands the
\* callback a record numbered below one it has already handed over.
ReplayInSeqOrder ==
    [][\A r \in snap \ snap' :
          (scanning /\ scanning' /\ r.msg # Corrupt) =>
              \A h \in handed : h.seq < r.seq
      ]_storeVars

\* The store as its users see it: the decodable messages it holds, and
\* those it has passed to p.process.
Abstract == INSTANCE OverflowStore
              WITH stored    <- {r.msg : r \in {q \in db : q.msg # Corrupt}},
                   delivered <- {h.msg : h \in handed}

\* LocalStore implements OverflowStore: every step of Put, ProcessAll and a
\* restart is a write, a replay or no visible change, so no message
\* leaves the store except by being handed to the callback.
ImplementsOverflowStore == Abstract!Spec

=============================================================================
