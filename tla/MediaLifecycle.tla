--------------------------- MODULE MediaLifecycle ---------------------------
(* Uploaded media of one owner: the write reservation (receipt), the stored   *)
(* bytes, the MediaObject row, the fields and the journal references that     *)
(* hold it, and its deletion (backend/site_config/media_storage/*,            *)
(* backend/journal/media_references.py, media_inventory.py).  Workers are     *)
(* database connections: web requests and the two reconcile commands.  A      *)
(* transaction's writes become visible in Commit; the locks it holds until    *)
(* then are those `locked`, `inTx` and the stage of a worker stand for.       *)
EXTENDS Integers, FiniteSets, SequencesExt

CONSTANTS
  Upload,     \* ids of uploads: a receipt and the object it becomes
  Legacy,     \* uploads from before the references were recorded
  Entry,      \* journal entries of the owner
  Worker,     \* connections that run a request or a command
  Key,        \* object keys
  Priority,   \* the backends, in order of priority
  Limit,      \* uploads a backend may keep (every upload has size 1)
  Quota,      \* poster slots the owner may fill
  Nothing,
  MaxFaults,  \* bound: failed I/O, failed saves, lost commits, killed workers
  MaxBackfills \* bound: runs of the inventory command

Backend == Range(Priority)
Place == Backend \X Key
Slot == {"poster_file", "custom_poster_url"}
NoPlace == <<Nothing, Nothing>>

ASSUME MediaAssumption ==
  /\ Legacy \subseteq Upload /\ Nothing \notin Upload \cup Entry
  /\ IsFiniteSet(Upload) /\ IsFiniteSet(Entry) /\ IsFiniteSet(Key)
  /\ Priority \in Seq(Range(Priority)) /\ Priority # <<>>
  /\ Limit \in Nat /\ Quota \in Nat /\ MaxFaults \in Nat /\ MaxBackfills \in Nat
  /\ Cardinality(Legacy) <= Cardinality(Key)

VARIABLES
  receipt,    \* status and place of each MediaWriteReservation
  object,     \* lifecycle of each MediaObject row, "none" without one
  complete,   \* objects with reference_inventory_complete
  bytes,      \* whose bytes lie at a place
  field,      \* poster_file and custom_poster_url of each entry
  holding,    \* JournalMediaReference rows by entry and slot
  avatar,     \* the avatar of the owner, a field without a reference row
  worker,     \* what each connection is doing
  backfill,   \* the inventory command, and how often it may still start
  preferred,  \* the pool's preferred backend
  budget      \* remaining faults

storage == <<receipt, object, bytes, preferred>>
business == <<field, holding, avatar>>
vars == <<storage, business, complete, worker, backfill, budget>>

Occupying == {"pending", "cleanup_ready", "cleanup_failed"}
Stage ==
  {"idle", "admitting", "reserving", "writing", "finalizing", "saving", "unwinding",
   "marking", "discarding", "discarded", "retrying", "sweeping", "claimed", "erased"}

NoSlots == [s \in Slot |-> Nothing]
Idle ==
  [stage |-> "idle", row |-> Nothing, wanted |-> NoSlots, uploads |-> FALSE, key |-> Nothing,
   upload |-> Nothing, tried |-> {}, inTx |-> FALSE, locked |-> {}, then |-> "idle", todo |-> {}]

Asleep(n) == [stage |-> "idle", todo |-> {}, seen |-> {}, left |-> n]

\* The rows an avatar or an entry save writes; Nothing stands for UserSettings.
Row == Entry \cup {Nothing}

Receipt ==
  [status : Occupying \cup {"none", "finalized", "abandoned"}, place : Place \cup {NoPlace}]

Connection ==
  [stage : Stage, row : Row, wanted : [Slot -> Upload \cup {Nothing}], uploads : BOOLEAN,
   key : Key \cup {Nothing}, upload : Upload \cup {Nothing}, tried : SUBSET Backend,
   inTx : BOOLEAN, locked : SUBSET Upload, then : {"idle", "reserving", "rollback", "retrying"},
   todo : SUBSET Upload]

Inventory ==
  [stage : {"idle", "closing", "entries", "opening"}, todo : SUBSET (Upload \cup Entry),
   seen : SUBSET (Entry \X Upload), left : 0..MaxBackfills]

MediaTypeOK ==
  /\ receipt \in [Upload -> Receipt]
  /\ object \in [Upload -> {"none", "active", "deleting", "delete_failed"}]
  /\ complete \subseteq Upload
  /\ bytes \in [Place -> Upload \cup {Nothing}]
  /\ field \in [Entry -> [Slot -> Upload \cup {Nothing}]]
  /\ holding \in [Entry -> [Slot -> Upload \cup {Nothing}]]
  /\ avatar \in Upload \cup {Nothing}
  /\ worker \in [Worker -> Connection]
  /\ backfill \in Inventory
  /\ preferred \in Backend
  /\ budget \in 0..MaxFaults

(* An earlier release left objects whose receipts are final and that fields   *)
(* of entries name, without any reference row and with the gate closed.       *)
MediaInit ==
  /\ \E at \in {f \in [Legacy -> Key] : IsInjective(f)} :
       /\ receipt = [u \in Upload |-> IF u \in Legacy
                       THEN [status |-> "finalized", place |-> <<Head(Priority), at[u]>>]
                       ELSE [status |-> "none", place |-> NoPlace]]
       /\ bytes = [p \in Place |-> IF \E u \in Legacy : p = <<Head(Priority), at[u]>>
                                   THEN CHOOSE u \in Legacy : p = <<Head(Priority), at[u]>>
                                   ELSE Nothing]
  /\ object = [u \in Upload |-> IF u \in Legacy THEN "active" ELSE "none"]
  /\ complete = {}
  /\ field \in [Entry -> [Slot -> Legacy \cup {Nothing}]]
  /\ holding = [e \in Entry |-> NoSlots]
  /\ avatar = Nothing
  /\ worker = [w \in Worker |-> Idle]
  /\ backfill = Asleep(MaxBackfills)
  /\ preferred = Head(Priority)
  /\ budget = MaxFaults

Fault == budget > 0 /\ budget' = budget - 1
MayFault(failed) == IF failed THEN Fault ELSE UNCHANGED budget

-----------------------------------------------------------------------------
(* Reading the tables. *)

Media == {u \in Upload : object[u] # "none"}
BytesAt(u) == bytes[receipt[u].place] = u
Count(f) == Cardinality({s \in Slot : f[s] # Nothing})

\* poster_usage: the slots that count against the owner's quota.
Usage(f) == Cardinality({es \in Entry \X Slot : f[es[1]][es[2]] # Nothing})

\* Mutant: the receipts that still occupy their place are not added.
MutantUsed(b) == Cardinality({u \in Upload : receipt[u].place[1] = b /\ object[u] # "none"})

\* _managed_totals: object rows and occupying receipts, in one statement.
Used(b) ==
  Cardinality({u \in Upload :
     receipt[u].place[1] = b /\ (object[u] # "none" \/ receipt[u].status \in Occupying)})

Occupied(p) ==
  \E u \in Upload : receipt[u].place = p /\ (object[u] # "none" \/ receipt[u].status # "abandoned")

\* Mutant: the avatar is not asked.
MutantHasLiveReferences(u) ==
  \/ \E e \in Entry : field[e]["poster_file"] = u \/ \E s \in Slot : holding[e][s] = u
  \/ receipt[u].status \in Occupying

HasLiveReferences(u) ==
  \/ \E e \in Entry : field[e]["poster_file"] = u \/ \E s \in Slot : holding[e][s] = u
  \/ avatar = u
  \/ receipt[u].status \in Occupying

(* Locks: a business transaction holds the owner row and its media rows to    *)
(* its end, and its own receipt row from its finalization; a cleanup holds    *)
(* the row whose bytes it is deleting.                                        *)
\* Mutant: the owner row is read without a lock.
MutantOwnerFree == TRUE

OwnerFree == \A w \in Worker : ~worker[w].inTx
MediaRowFree(u, w) ==
  \A v \in Worker \ {w} :
     u \notin worker[v].locked /\ ~(worker[v].stage = "erased" /\ worker[v].upload = u)
\* Mutant: the upload is cleaned up before its own transaction has unwound.
MutantReceiptRowFree(u, w) ==
  \A v \in Worker :
     ~(worker[v].upload = u /\ worker[v].stage \in {"saving", "discarded", "marking"})

ReceiptRowFree(u, w) ==
  \A v \in Worker \ {w} :
     ~(worker[v].upload = u /\ worker[v].stage \in {"saving", "discarded"})

Step(w, from, next) ==
  /\ worker[w].stage = from
  /\ worker' = [worker EXCEPT ![w] = next]

At(w, stage) == [worker[w] EXCEPT !.stage = stage]

-----------------------------------------------------------------------------
(* Saving an entry or the avatar. *)

(* A request names an entry, whether it uploads a poster, and the values it   *)
(* wants for the slots: the poster it has or none, and any URL; a URL no      *)
(* object answers to is a plain link, written Nothing.  It waits for the      *)
(* owner row.                                                                 *)
StartEntry(w) ==
  /\ OwnerFree
  /\ \E e \in Entry, uploads \in BOOLEAN, url \in Media \cup {Nothing} :
       \E poster \in IF uploads THEN {Nothing} ELSE {field[e]["poster_file"], Nothing} :
         LET wanted == [s \in Slot |-> IF s = "poster_file" THEN poster ELSE url] IN
         /\ uploads \/ wanted # field[e]
         /\ Step(w, "idle", [Idle EXCEPT !.stage = "admitting", !.row = e, !.wanted = wanted,
                                         !.uploads = uploads, !.inTx = TRUE])
  /\ UNCHANGED <<storage, business, complete, backfill, budget>>

StartAvatar(w) ==
  /\ OwnerFree
  /\ \E uploads \in BOOLEAN :
       /\ uploads \/ avatar # Nothing
       /\ Step(w, "idle", [Idle EXCEPT !.stage = IF uploads THEN "reserving" ELSE "saving",
                                       !.uploads = uploads, !.inTx = TRUE])
  /\ UNCHANGED <<storage, business, complete, backfill, budget>>

\* Mutant: the lifecycle is not looked at, the bytes are still there.
MutantVerifyNewHolding(u) == BytesAt(u)

\* verify_new_holding: the bytes are read and compared with the row's digest.
VerifyNewHolding(u) == object[u] # "deleting" /\ BytesAt(u)

\* The target of a slot may be held: unchanged holdings are only refused when
\* their object is being deleted.
MayHold(e, s, u) ==
  /\ object[u] # "none"
  /\ IF holding[e][s] = u THEN object[u] # "deleting" ELSE VerifyNewHolding(u)

OldMedia(e) == {holding[e][s] : s \in Slot} \ {Nothing}

\* The media rows a save locks: what its entry holds and what it wants.
SavedRows(w) == (OldMedia(worker[w].row) \cup {worker[w].wanted[s] : s \in Slot}) \ {Nothing}

(* The media rows are locked, every target checked under its lock and the     *)
(* quota charged for the net change of this entry.                            *)
Admitted(w) ==
  LET e == worker[w].row
      wanted == worker[w].wanted
      added == Count(wanted) + (IF worker[w].uploads THEN 1 ELSE 0) - Count(field[e])
  IN  /\ \A s \in Slot : wanted[s] # Nothing => MayHold(e, s, wanted[s])
      /\ added > 0 => Usage(field) + added <= Quota

Admit(w) ==
  LET rows == SavedRows(w)
  IN  /\ worker[w].stage = "admitting"
      /\ \A u \in rows : MediaRowFree(u, w)
      /\ Step(w, "admitting",
              IF Admitted(w)
              THEN [At(w, IF worker[w].uploads THEN "reserving" ELSE "saving") EXCEPT !.locked = rows]
              ELSE Idle)
      /\ UNCHANGED <<storage, business, complete, backfill, budget>>

-----------------------------------------------------------------------------
(* The upload: reserve a place, write, finalize. *)

CanTake(b, tried) == b \notin tried /\ Used(b) + 1 <= Limit

\* The first backend that can take the upload, as a set: the preferred one,
\* then the others in order of priority.
Candidates(tried) ==
  IF CanTake(preferred, tried) THEN {preferred}
  ELSE {b \in Backend : \E i \in DOMAIN Priority :
          /\ b = Priority[i] /\ CanTake(b, tried)
          /\ \A j \in 1 .. (i - 1) : ~CanTake(Priority[j], tried)}

(* One physical transaction under the pool row, with the key the upload got   *)
(* from its field and keeps on every backend: the first backend that can     *)
(* take the upload becomes the preferred one; an occupied place is an error,  *)
(* not a reason to try the next backend.  The model's bound: when the ids of  *)
(* Upload are used up a request is refused like by a full pool.               *)
Fresh == {u \in Upload : receipt[u].status = "none"}

Reserve(w) ==
  /\ worker[w].stage = "reserving"
  /\ \E k \in IF worker[w].key = Nothing THEN Key ELSE {worker[w].key} :
       LET free == {b \in Candidates(worker[w].tried) : ~Occupied(<<b, k>>)} IN
       IF free = {} \/ Fresh = {}
       THEN Step(w, "reserving", Idle) /\ UNCHANGED storage
       ELSE \E u \in Fresh, b \in free :
              /\ receipt' = [receipt EXCEPT ![u] = [status |-> "pending", place |-> <<b, k>>]]
              /\ preferred' = b
              /\ Step(w, "reserving", [At(w, "writing") EXCEPT !.upload = u, !.key = k])
              /\ UNCHANGED <<object, bytes>>
  /\ UNCHANGED <<business, complete, backfill, budget>>

(* The adapter's write.  A refused write may have left its bytes behind; an   *)
(* offline backend is skipped, any other error ends the request.              *)
Write(w) ==
  LET u == worker[w].upload
      place == receipt[u].place
  IN  /\ worker[w].stage = "writing"
      /\ \E outcome \in {"stored", "offline", "error"}, landed \in BOOLEAN :
           /\ outcome = "stored" => landed
           /\ outcome = "error" => ~landed
           /\ MayFault(outcome # "stored")
           /\ bytes' = IF landed THEN [bytes EXCEPT ![place] = u] ELSE bytes
           /\ Step(w, "writing",
                CASE outcome = "stored" -> At(w, "finalizing")
                  [] outcome = "offline" -> [At(w, "marking") EXCEPT !.then = "reserving",
                                                                     !.tried = @ \cup {place[1]}]
                  [] OTHER -> [At(w, "marking") EXCEPT !.then = "rollback"])
      /\ UNCHANGED <<receipt, object, preferred, business, complete, backfill>>

(* The receipt row is locked and the object created inside the business       *)
(* transaction: nobody else sees either before Commit.                        *)
Finalize(w) ==
  /\ worker[w].stage = "finalizing"
  /\ ReceiptRowFree(worker[w].upload, w)
  /\ \E failed \in BOOLEAN :
       /\ MayFault(failed)
       /\ Step(w, "finalizing",
               IF failed \/ receipt[worker[w].upload].status # "pending"
               THEN [At(w, "marking") EXCEPT !.then = "rollback"] ELSE At(w, "saving"))
  /\ UNCHANGED <<storage, business, complete, backfill>>

-----------------------------------------------------------------------------
(* The end of the business transaction. *)

\* Media whose cleanup the transaction schedules for after its commit.
Released(w) ==
  LET e == worker[w].row IN
  IF e = Nothing THEN {avatar} \ {Nothing}
  ELSE OldMedia(e) \cup ({field[e]["poster_file"]} \ {worker[w].wanted["poster_file"], Nothing})

FinalFields(w) ==
  IF worker[w].uploads THEN [worker[w].wanted EXCEPT !["poster_file"] = worker[w].upload]
  ELSE worker[w].wanted

ApplyTransaction(w) ==
  LET e == worker[w].row
      u == worker[w].upload
      held == worker[w].locked \cap {worker[w].wanted[s] : s \in Slot}
  IN  /\ object' = [m \in Upload |-> IF m = u \/ (m \in held /\ object[m] = "delete_failed")
                                     THEN "active" ELSE object[m]]
      /\ receipt' = IF u = Nothing THEN receipt ELSE [receipt EXCEPT ![u].status = "finalized"]
      /\ complete' = IF u = Nothing THEN complete ELSE complete \cup {u}
      /\ IF e = Nothing
         THEN avatar' = u /\ UNCHANGED <<field, holding>>
         ELSE /\ field' = [field EXCEPT ![e] = FinalFields(w)]
              /\ holding' = [holding EXCEPT ![e] = FinalFields(w)]
              /\ UNCHANGED avatar
      /\ UNCHANGED <<bytes, preferred>>

(* The commit succeeds and the scheduled cleanups run; or it takes effect     *)
(* but its answer is lost, so that they never run.                            *)
Commit(w) ==
  /\ worker[w].stage = "saving"
  /\ ApplyTransaction(w)
  /\ \E answered \in BOOLEAN :
       /\ MayFault(~answered)
       /\ Step(w, "saving", IF answered
                            THEN [Idle EXCEPT !.stage = "sweeping", !.todo = Released(w)]
                            ELSE [Idle EXCEPT !.stage = "unwinding", !.upload = worker[w].upload])
  /\ UNCHANGED backfill

\* A failed save or a failed commit rolls everything back and frees the locks.
Rollback(w) ==
  /\ Fault
  /\ Step(w, "saving", [Idle EXCEPT !.stage = "unwinding", !.upload = worker[w].upload])
  /\ UNCHANGED <<storage, business, complete, backfill>>

(* atomic_media_mutation, after the transaction: an upload whose row does not *)
(* exist is cleaned up; if that cannot be read the receipt stays pending.     *)
Unwind(w) ==
  LET u == worker[w].upload IN
  /\ \E unreadable \in BOOLEAN :
       /\ MayFault(unreadable)
       /\ Step(w, "unwinding",
               IF unreadable \/ u = Nothing \/ object[u] # "none" THEN Idle
               ELSE [At(w, "marking") EXCEPT !.then = "idle"])
  /\ UNCHANGED <<storage, business, complete, backfill>>

-----------------------------------------------------------------------------
(* Cleaning up a receipt: the failed upload itself, or the reconcile command. *)

After(w) ==
  CASE worker[w].then = "reserving" -> [At(w, "reserving") EXCEPT !.upload = Nothing]
    [] worker[w].then = "retrying" -> [At(w, "retrying") EXCEPT !.upload = Nothing]
    [] OTHER -> Idle

\* Mutant: the receipt is abandoned first, its bytes are deleted next.
MutantMarkReady(w) ==
  LET u == worker[w].upload IN
  /\ Step(w, "marking", At(w, "discarding"))
  /\ receipt' = [receipt EXCEPT ![u].status = "abandoned"]
  /\ UNCHANGED <<object, bytes, preferred, business, complete, backfill, budget>>

MarkReady(w) ==
  LET u == worker[w].upload
      settled == receipt[u].status \in {"finalized", "abandoned"} \/ object[u] # "none"
  IN  /\ worker[w].stage = "marking"
      /\ ReceiptRowFree(u, w)
      /\ Step(w, "marking", IF settled THEN After(w) ELSE At(w, "discarding"))
      /\ receipt' = IF settled THEN receipt ELSE [receipt EXCEPT ![u].status = "cleanup_ready"]
      /\ UNCHANGED <<object, bytes, preferred, business, complete, backfill, budget>>

\* The bytes are deleted under the receipt row, which stays locked until the
\* outcome is recorded.
Discard(w) ==
  LET u == worker[w].upload
      due == receipt[u].status \in {"cleanup_ready", "cleanup_failed"} /\ object[u] = "none"
  IN  /\ worker[w].stage = "discarding"
      /\ ReceiptRowFree(u, w)
      /\ \E failed \in BOOLEAN :
           /\ MayFault(failed)
           /\ failed => due
           /\ Step(w, "discarding", IF due /\ ~failed THEN At(w, "discarded") ELSE After(w))
           /\ bytes' = IF due /\ ~failed THEN [bytes EXCEPT ![receipt[u].place] = Nothing] ELSE bytes
           /\ receipt' = IF due /\ failed THEN [receipt EXCEPT ![u].status = "cleanup_failed"] ELSE receipt
      /\ UNCHANGED <<object, preferred, business, complete, backfill>>

Abandon(w) ==
  /\ Step(w, "discarded", After(w))
  /\ receipt' = [receipt EXCEPT ![worker[w].upload].status = "abandoned"]
  /\ UNCHANGED <<object, bytes, preferred, business, complete, backfill, budget>>

\* reconcile_media_write_reservations --retry-cleanup
StartRetry(w) ==
  LET due == {u \in Upload : receipt[u].status \in {"cleanup_ready", "cleanup_failed"}} IN
  /\ due # {}
  /\ Step(w, "idle", [Idle EXCEPT !.stage = "retrying", !.then = "retrying", !.todo = due])
  /\ UNCHANGED <<storage, business, complete, backfill, budget>>

Retry(w) ==
  /\ IF worker[w].todo = {} THEN Step(w, "retrying", Idle)
     ELSE \E u \in worker[w].todo :
            Step(w, "retrying", [At(w, "discarding") EXCEPT !.upload = u, !.todo = @ \ {u}])
  /\ UNCHANGED <<storage, business, complete, backfill, budget>>

-----------------------------------------------------------------------------
(* Deleting an object: after a commit, or the reconcile command. *)

Deletable(u) == object[u] # "none" /\ u \in complete /\ ~HasLiveReferences(u)

StartReclaim(w) ==
  LET due == {u \in Upload : object[u] \in {"deleting", "delete_failed"}} IN
  /\ due # {}
  /\ Step(w, "idle", [Idle EXCEPT !.stage = "sweeping", !.todo = due])
  /\ UNCHANGED <<storage, business, complete, backfill, budget>>

\* cleanup_media, first transaction: the claim is committed before any I/O.
Claim(w) ==
  /\ worker[w].todo # {}
  /\ \E u \in worker[w].todo :
       LET rest == worker[w].todo \ {u} IN
       /\ MediaRowFree(u, w)
       /\ IF Deletable(u)
          THEN /\ object' = [object EXCEPT ![u] = "deleting"]
               /\ Step(w, "sweeping", [At(w, "claimed") EXCEPT !.upload = u, !.todo = rest])
          ELSE /\ UNCHANGED object
               /\ Step(w, "sweeping", [At(w, "sweeping") EXCEPT !.todo = rest])
  /\ UNCHANGED <<receipt, bytes, preferred, business, complete, backfill, budget>>

SweepEnds(w) ==
  /\ worker[w].todo = {}
  /\ Step(w, "sweeping", Idle)
  /\ UNCHANGED <<storage, business, complete, backfill, budget>>

\* cleanup_media, second transaction: everything is checked again under the
\* row lock, which is then held across the I/O.
Erase(w) ==
  LET u == worker[w].upload
      due == object[u] = "deleting" /\ Deletable(u)
  IN  /\ worker[w].stage = "claimed"
      /\ MediaRowFree(u, w)
      /\ \E failed \in BOOLEAN :
           /\ MayFault(failed)
           /\ failed => due
           /\ Step(w, "claimed", IF due /\ ~failed THEN At(w, "erased")
                                 ELSE [At(w, "sweeping") EXCEPT !.upload = Nothing])
           /\ bytes' = IF due /\ ~failed THEN [bytes EXCEPT ![receipt[u].place] = Nothing] ELSE bytes
           /\ object' = IF due /\ failed THEN [object EXCEPT ![u] = "delete_failed"] ELSE object
      /\ UNCHANGED <<receipt, preferred, business, complete, backfill>>

RemoveRow(w) ==
  LET u == worker[w].upload IN
  /\ Step(w, "erased", [At(w, "sweeping") EXCEPT !.upload = Nothing])
  /\ object' = [object EXCEPT ![u] = "none"]
  /\ complete' = complete \ {u}
  /\ UNCHANGED <<receipt, bytes, preferred, business, backfill, budget>>

(* An entry is deleted with its references; their objects are cleaned up      *)
(* after the commit, and so is its poster.                                    *)
DeleteEntry(w) ==
  /\ OwnerFree
  /\ \E e \in Entry :
       /\ field[e] # NoSlots
       /\ field' = [field EXCEPT ![e] = NoSlots]
       /\ holding' = [holding EXCEPT ![e] = NoSlots]
       /\ Step(w, "idle", [Idle EXCEPT !.stage = "sweeping",
                             !.todo = (OldMedia(e) \cup {field[e]["poster_file"]}) \ {Nothing}])
  /\ UNCHANGED <<storage, avatar, complete, backfill, budget>>

\* A killed worker: its open transaction is rolled back, its locks are free.
Kill(w) ==
  /\ worker[w].stage # "idle"
  /\ Fault
  /\ worker' = [worker EXCEPT ![w] = Idle]
  /\ UNCHANGED <<storage, business, complete, backfill>>

-----------------------------------------------------------------------------
(* reconcile_media_references --apply --all-batches *)

BackfillStart ==
  /\ backfill.stage = "idle" /\ backfill.left > 0
  /\ backfill' = [backfill EXCEPT !.stage = "closing", !.todo = Media, !.left = @ - 1]
  /\ UNCHANGED <<storage, business, complete, worker, budget>>

\* Then come the entries after the cursor the command was given.
CloseGate ==
  /\ backfill.stage = "closing"
  /\ IF backfill.todo = {}
     THEN /\ \E after \in SUBSET Entry :
               backfill' = [backfill EXCEPT !.stage = "entries", !.todo = after]
          /\ UNCHANGED complete
     ELSE \E u \in backfill.todo :
            /\ \A w \in Worker : MediaRowFree(u, w) /\ u \notin worker[w].locked
            /\ complete' = IF object[u] = "deleting" THEN complete ELSE complete \ {u}
            /\ backfill' = [backfill EXCEPT !.todo = @ \ {u}]
  /\ UNCHANGED <<storage, business, worker, budget>>

\* Missing references are inserted under the owner row; existing ones are kept.
BackfillEntry ==
  /\ backfill.stage = "entries"
  /\ OwnerFree
  /\ \E e \in backfill.todo \cap Entry :
       LET due(s) == /\ holding[e][s] = Nothing /\ field[e][s] # Nothing
                     /\ object[field[e][s]] \in {"active", "delete_failed"}
                     /\ s # "poster_file" => VerifyNewHolding(field[e][s])
       IN  /\ \A s \in Slot, w \in Worker : field[e][s] # Nothing => MediaRowFree(field[e][s], w)
           /\ holding' = [holding EXCEPT ![e] =
                [s \in Slot |-> IF due(s) THEN field[e][s] ELSE holding[e][s]]]
           /\ backfill' = [backfill EXCEPT !.todo = @ \ {e}]
  /\ UNCHANGED <<storage, field, avatar, complete, worker, budget>>

\* The last inventory: the objects, and the entries whose URL names them.
BackfillFinish ==
  /\ backfill.stage = "entries" /\ backfill.todo = {}
  /\ backfill' = [backfill EXCEPT !.stage = "opening", !.todo = Media,
                  !.seen = {eu \in Entry \X Media : field[eu[1]]["custom_poster_url"] = eu[2]}]
  /\ UNCHANGED <<storage, business, complete, worker, budget>>

\* Mutant: the gate opens for every object whose bytes are there.
MutantInventoried(u) == BytesAt(u)

\* inspect_object_references, under the object's row.
Inventoried(u) ==
  /\ BytesAt(u)
  /\ \A e \in Entry : \A s \in Slot :
       \/ holding[e][s] = field[e][s]
       \/ field[e][s] # u /\ holding[e][s] # u
       \/ /\ s = "custom_poster_url" /\ <<e, u>> \notin backfill.seen
          /\ field[e]["poster_file"] # u /\ \A t \in Slot : holding[e][t] # u

OpenGate ==
  /\ backfill.stage = "opening"
  /\ IF backfill.todo = {} THEN backfill' = Asleep(backfill.left) /\ UNCHANGED complete
     ELSE \E u \in backfill.todo :
            /\ \A w \in Worker : MediaRowFree(u, w) /\ u \notin worker[w].locked
            /\ complete' = IF object[u] \in {"none", "deleting"} THEN complete
                           ELSE IF Inventoried(u) THEN complete \cup {u} ELSE complete \ {u}
            /\ backfill' = [backfill EXCEPT !.todo = @ \ {u}]
  /\ UNCHANGED <<storage, business, worker, budget>>

Backfill == BackfillStart \/ CloseGate \/ BackfillEntry \/ BackfillFinish \/ OpenGate

Proceed(w) ==
  \/ Admit(w) \/ Reserve(w) \/ Write(w) \/ Finalize(w) \/ Commit(w) \/ Rollback(w) \/ Unwind(w)
  \/ MarkReady(w) \/ Discard(w) \/ Abandon(w) \/ Retry(w)
  \/ Claim(w) \/ SweepEnds(w) \/ Erase(w) \/ RemoveRow(w)

Start(w) ==
  StartEntry(w) \/ StartAvatar(w) \/ DeleteEntry(w) \/ StartRetry(w) \/ StartReclaim(w)

MediaNext == Backfill \/ \E w \in Worker : Start(w) \/ Proceed(w) \/ Kill(w)

MediaSpec == MediaInit /\ [][MediaNext]_vars
-----------------------------------------------------------------------------
(* Properties. *)

Referenced == {u \in Upload : avatar = u \/ \E e \in Entry, s \in Slot : field[e][s] = u}

(* What an entry or the avatar names is there: its row is active and its      *)
(* bytes are stored, whatever cleanups, retries and crashes ran meanwhile     *)
(* (verify_new_holding against the two transactions of cleanup_media).        *)
ReferencedBytesExist == \A u \in Referenced : object[u] = "active" /\ BytesAt(u)

(* No byte is lost to the accounting: whatever lies at a place belongs to an  *)
(* object row or to a receipt that still occupies the place, also after a     *)
(* failed write, a lost commit or a crash (receipts.py).                      *)
BytesAccounted ==
  \A p \in Place : bytes[p] # Nothing =>
    /\ receipt[bytes[p]].place = p
    /\ object[bytes[p]] # "none" \/ receipt[bytes[p]].status \in Occupying

(* Concurrent uploads, failed cleanups and half deleted objects together      *)
(* never put more on a backend than its write limit (_reserve_media).         *)
WithinLimit ==
  \A b \in Backend : Cardinality({k \in Key : bytes[<<b, k>>] # Nothing}) <= Limit

(* An object whose cleanup gate is open has a reference row for every field   *)
(* that names it, also while requests and the backfill interleave: this is    *)
(* what cleanup_media relies on (media_inventory.py, _finish_backfill).       *)
OpenGateKnowsHolders ==
  \A u \in complete, e \in Entry, s \in Slot : field[e][s] = u => holding[e][s] = u

\* Uploads whose bytes a business transaction is still about to commit.
BeingSaved == {worker[w].upload : w \in {v \in Worker : worker[v].stage \in {"finalizing", "saving"}}}

(* Stored bytes are never overwritten, and never deleted while a field names  *)
(* them or a request is about to commit them: a cleanup that lags behind, or  *)
(* a reused object key, cannot reach the bytes of another upload.             *)
BytesLeaveUnused ==
  [][\A p \in Place : bytes[p] # Nothing /\ bytes'[p] # bytes[p] =>
       bytes'[p] = Nothing /\ bytes[p] \notin Referenced \cup BeingSaved]_vars

(* Requests of one owner admitted side by side never take the owner above     *)
(* the poster quota (lock_media_owner, _admit).                               *)
GrowsWithinQuota == [][Usage(field') > Usage(field) => Usage(field') <= Quota]_vars

(* What a connection waits for before its next step: media rows another       *)
(* transaction has locked, or a receipt row; for everything else it goes on.  *)
MayProceed(w) ==
  LET stage == worker[w].stage
      todo == worker[w].todo
  IN  /\ stage = "admitting" => \A u \in SavedRows(w) : MediaRowFree(u, w)
      /\ stage \in {"finalizing", "marking", "discarding"} => ReceiptRowFree(worker[w].upload, w)
      /\ stage = "sweeping" => todo = {} \/ \E u \in todo : MediaRowFree(u, w)
      /\ stage = "claimed" => MediaRowFree(worker[w].upload, w)

(* Workers never wait for each other in a circle: while one is under way,     *)
(* one of them can go on.  The owner row is taken before the media rows, the  *)
(* receipt row is only waited for on a connection of its own.                 *)
SomeoneProceeds ==
  (\E w \in Worker : worker[w].stage # "idle")
    => \E w \in Worker : worker[w].stage # "idle" /\ MayProceed(w)
=============================================================================
