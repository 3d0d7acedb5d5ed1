------------------------ MODULE MediaLifecycle_proofs ------------------------
(* Proofs about MediaLifecycle: what a field names is stored, bytes leave only *)
(* when nobody needs them, a backend keeps its limit and an owner the quota.   *)
EXTENDS MediaLifecycle, FiniteSetTheorems, TLAPS

(* The statuses of a receipt that a cleanup works on, and of the live ones.   *)
Cleaned == {"cleanup_ready", "cleanup_failed", "abandoned"}
Placed(u) == receipt[u].status \notin {"none", "abandoned"}

\* A receipt has its place to itself, and a row only once it is final.
ReceiptInv ==
  \A u \in Upload :
    /\ receipt[u].status # "none" => receipt[u].place \in Place
    /\ object[u] # "none" => receipt[u].status = "finalized"
    /\ \A v \in Upload : u # v /\ Placed(u) /\ Placed(v) => receipt[u].place # receipt[v].place

\* A reference row names what its field names.
HoldingInv == \A e \in Entry, s \in Slot : holding[e][s] # Nothing => holding[e][s] = field[e][s]

\* The gate opens for objects only, and a URL set after the last inventory has
\* its reference row.
SeenInv ==
  backfill.stage = "opening" =>
    /\ backfill.todo \subseteq Upload
    /\ \A e \in Entry, u \in Upload :
      field[e]["custom_poster_url"] = u /\ <<e, u>> \notin backfill.seen
        => holding[e]["custom_poster_url"] = u

(* What a connection knows of the upload it works on, stage by stage.         *)
Detached == {"idle", "admitting", "reserving", "retrying", "sweeping"}
UploadFits(w) ==
  LET stage == worker[w].stage
      u == worker[w].upload
  IN  /\ stage \in Detached => u = Nothing
      /\ u = Nothing => stage \in Detached \cup {"saving", "unwinding"}
      /\ u # Nothing =>
           /\ stage \in {"writing", "finalizing", "saving"} => receipt[u].status = "pending"
           /\ stage \in {"unwinding", "marking"} => receipt[u].status \in {"pending", "finalized"}
           /\ stage = "discarding" => receipt[u].status \in Cleaned
           /\ stage = "discarded" => receipt[u].status \in Cleaned \ {"abandoned"}
           /\ stage \in {"claimed", "erased"} => receipt[u].status = "finalized"
           /\ stage = "erased" => object[u] = "deleting"
           /\ stage \in {"finalizing", "saving"} => BytesAt(u)
           /\ stage \in {"discarded", "erased"} => ~BytesAt(u)

\* The retry command has only seen receipts that are due for cleanup.
TodoFits(w) ==
  /\ worker[w].stage = "retrying" => worker[w].then = "retrying"
  /\ worker[w].then = "retrying" => \A u \in worker[w].todo : receipt[u].status \in Cleaned

(* The open business transaction of a connection, and what it has verified.   *)
Entered == {"reserving", "writing", "finalizing"}
TxFits(w) ==
  LET stage == worker[w].stage IN
  /\ stage \in Entered \/ worker[w].then = "reserving" => worker[w].inTx /\ worker[w].uploads
  /\ stage \in {"admitting", "saving"} => worker[w].inTx
  /\ stage \in {"idle", "unwinding", "retrying", "sweeping", "claimed", "erased"} => ~worker[w].inTx
  /\ worker[w].then = "retrying" => ~worker[w].inTx
  /\ stage = "admitting" => worker[w].row \in Entry
  /\ stage = "saving" => (worker[w].uploads <=> worker[w].upload # Nothing)
  /\ worker[w].uploads => worker[w].wanted["poster_file"] = Nothing

HeldFits(w) ==
  \A s \in Slot :
    LET u == worker[w].wanted[s] IN
    worker[w].inTx /\ worker[w].stage # "admitting" /\ u # Nothing =>
      u \in worker[w].locked /\ object[u] \in {"active", "delete_failed"} /\ BytesAt(u)

Fits(w) == UploadFits(w) /\ TodoFits(w) /\ TxFits(w) /\ HeldFits(w)

(* Two connections: one business transaction, and no upload worked on twice   *)
(* where that would hurt.                                                     *)
Own == {"writing", "finalizing", "saving", "unwinding", "marking"}
Apart(v, w) ==
  /\ ~(worker[v].inTx /\ worker[w].inTx)
  /\ worker[v].upload = worker[w].upload /\ worker[v].upload # Nothing =>
       /\ ~(worker[v].stage \in Own /\ worker[w].stage \in Own)
       /\ ~(worker[v].stage = "discarded" /\ worker[w].stage = "discarded")
       /\ ~(worker[v].stage = "erased" /\ worker[w].stage = "erased")

WorkerInv ==
  /\ \A w \in Worker : Fits(w)
  /\ \A v, w \in Worker : v # w => Apart(v, w)

Named == ReferencedBytesExist /\ OpenGateKnowsHolders /\ HoldingInv /\ SeenInv

MediaInv == MediaTypeOK /\ ReceiptInv /\ BytesAccounted /\ Named /\ WorkerInv

-----------------------------------------------------------------------------
LEMMA Constants ==
  /\ Nothing \notin Upload /\ Nothing \notin Entry
  /\ Head(Priority) \in Backend
<1>1. Priority \in Seq(Backend) /\ Priority # <<>>
  BY MediaAssumption DEF Backend
<1>2. Head(Priority) \in Backend
  BY <1>1
<1> QED BY <1>2, MediaAssumption

LEMMA IdleIsConnection == Idle \in Connection
BY DEF Idle, Connection, Stage, Row, NoSlots, Backend

LEMMA InitMedia == MediaInit => MediaInv
<1> SUFFICES ASSUME MediaInit PROVE MediaInv
  OBVIOUS
<1>1. PICK at \in {f \in [Legacy -> Key] : IsInjective(f)} :
       /\ receipt = [u \in Upload |-> IF u \in Legacy
                       THEN [status |-> "finalized", place |-> <<Head(Priority), at[u]>>]
                       ELSE [status |-> "none", place |-> NoPlace]]
       /\ bytes = [p \in Place |-> IF \E u \in Legacy : p = <<Head(Priority), at[u]>>
                                   THEN CHOOSE u \in Legacy : p = <<Head(Priority), at[u]>>
                                   ELSE Nothing]
  BY DEF MediaInit
<1> USE MediaAssumption, Constants
<1>2. \A u, v \in Legacy : at[u] = at[v] => u = v
  BY <1>1 DEF IsInjective
<1>3. \A u \in Legacy : <<Head(Priority), at[u]>> \in Place
  BY <1>1 DEF Place
<1>4. \A u \in Legacy : bytes[<<Head(Priority), at[u]>>] = u
  BY <1>1, <1>2, <1>3
<1>5. ASSUME NEW p \in Place, bytes[p] # Nothing
      PROVE  bytes[p] \in Legacy /\ p = <<Head(Priority), at[bytes[p]]>>
  BY <1>1, <1>5
<1>6. MediaTypeOK
  <2>1. receipt \in [Upload -> Receipt]
    BY <1>1, <1>3 DEF Receipt, NoPlace
  <2>2. bytes \in [Place -> Upload \cup {Nothing}]
    BY <1>1, <1>5
  <2>3. worker \in [Worker -> Connection]
    BY IdleIsConnection DEF MediaInit
  <2>4. backfill \in Inventory
    BY MediaAssumption DEF MediaInit, Asleep, Inventory
  <2>5. field \in [Entry -> [Slot -> Upload \cup {Nothing}]]
    BY DEF MediaInit
  <2>6. holding \in [Entry -> [Slot -> Upload \cup {Nothing}]]
    BY DEF MediaInit, NoSlots
  <2>7. /\ object \in [Upload -> {"none", "active", "deleting", "delete_failed"}]
        /\ complete \subseteq Upload /\ avatar \in Upload \cup {Nothing}
        /\ preferred \in Backend /\ budget \in 0..MaxFaults
    BY DEF MediaInit
  <2> QED BY <2>1, <2>2, <2>3, <2>4, <2>5, <2>6, <2>7 DEF MediaTypeOK
<1>7. ReceiptInv
  BY <1>1, <1>2, <1>3 DEF MediaInit, ReceiptInv, Placed
<1>8. BytesAccounted
  BY <1>1, <1>5 DEF MediaInit, BytesAccounted
<1>9. Named
  <2>1. ASSUME NEW u \in Referenced PROVE object[u] = "active" /\ BytesAt(u)
    <3>1. u \in Legacy
      BY DEF MediaInit, Referenced
    <3> QED BY <3>1, <1>1, <1>4 DEF MediaInit, BytesAt
  <2>2. ReferencedBytesExist
    BY <2>1 DEF ReferencedBytesExist
  <2>3. OpenGateKnowsHolders /\ HoldingInv /\ SeenInv
    BY DEF MediaInit, OpenGateKnowsHolders, HoldingInv, SeenInv, NoSlots, Asleep
  <2> QED BY <2>2, <2>3 DEF Named
<1>10. WorkerInv
  BY DEF MediaInit, WorkerInv, Fits, UploadFits, TodoFits, TxFits, HeldFits, Apart, Idle, NoSlots,
         Detached, Entered
<1> QED BY <1>6, <1>7, <1>8, <1>9, <1>10 DEF MediaInv

-----------------------------------------------------------------------------
(* What a step of one connection leaves alone.                                *)

\* The other connections stay apart when this one neither takes over an
\* upload nor enters a stage that excludes others.
LEMMA ApartKept ==
  ASSUME WorkerInv, NEW w \in Worker, \A v \in Worker \ {w} : worker'[v] = worker[v],
         worker'[w].inTx => worker[w].inTx \/ OwnerFree,
         worker'[w].stage \in Own => worker[w].stage \in Own /\ worker'[w].upload = worker[w].upload,
         worker'[w].stage \notin {"discarded", "erased"}
  PROVE  \A v \in Worker \ {w} : Apart(w, v)'
BY DEF WorkerInv, Apart, OwnerFree, Own

LEMMA WorkersFit ==
  ASSUME WorkerInv, NEW w \in Worker, \A v \in Worker \ {w} : worker'[v] = worker[v],
         \A v \in Worker \ {w} : Fits(v)' /\ Apart(w, v)', Fits(w)'
  PROVE  WorkerInv'
BY DEF WorkerInv, Apart

\* A connection that has finished.
LEMMA IdleFits ==
  ASSUME MediaTypeOK, NEW w \in Worker, worker'[w] = Idle
  PROVE  Fits(w)'
BY DEF Fits, UploadFits, TodoFits, TxFits, HeldFits, Idle, NoSlots, Detached, Entered

(* A step that touches no table: only its own connection has to fit.          *)
LEMMA QuietStep ==
  ASSUME MediaInv, UNCHANGED <<storage, business, complete, backfill>>, budget' \in 0..MaxFaults,
         NEW w \in Worker, worker' = [worker EXCEPT ![w] = worker'[w]], worker'[w] \in Connection,
         Fits(w)', \A v \in Worker \ {w} : Apart(w, v)'
  PROVE  MediaInv'
<1> USE DEF storage, business
<1>1. MediaTypeOK'
  BY DEF MediaInv, MediaTypeOK
<1>2. ReceiptInv' /\ BytesAccounted' /\ Named'
  BY DEF MediaInv, ReceiptInv, Placed, BytesAccounted, Named, ReferencedBytesExist, Referenced,
         BytesAt, OpenGateKnowsHolders, HoldingInv, SeenInv
<1>3. \A v \in Worker \ {w} : worker'[v] = worker[v]
  BY DEF MediaInv, MediaTypeOK
<1>4. \A v \in Worker \ {w} : Fits(v)'
  BY <1>3 DEF MediaInv, WorkerInv, Fits, UploadFits, TodoFits, TxFits, HeldFits, BytesAt
<1>5. WorkerInv'
  BY <1>3, <1>4, WorkersFit DEF MediaInv
<1> QED BY <1>1, <1>2, <1>5 DEF MediaInv

LEMMA BudgetKept ==
  ASSUME MediaTypeOK, (\E failed \in BOOLEAN : MayFault(failed)) \/ Fault \/ UNCHANGED budget
  PROVE  budget' \in 0..MaxFaults
BY MediaAssumption DEF MediaTypeOK, MayFault, Fault

\* What is named stays stored.
LEMMA NamedKept ==
  ASSUME Named, UNCHANGED <<field, holding, avatar, backfill>>, complete' \subseteq complete,
         \A u \in Referenced : object'[u] = object[u] /\ BytesAt(u)' = BytesAt(u)
  PROVE  Named'
BY DEF Named, ReferencedBytesExist, Referenced, OpenGateKnowsHolders, HoldingInv, SeenInv

-----------------------------------------------------------------------------
(* The steps that change no table, one lemma for each group of MediaNext.     *)

LEMMA BackToIdle ==
  ASSUME MediaInv, NEW w \in Worker, worker' = [worker EXCEPT ![w] = Idle],
         UNCHANGED <<storage, business, complete, backfill>>, budget' \in 0..MaxFaults
  PROVE  MediaInv'
<1>1. worker'[w] = Idle /\ \A v \in Worker \ {w} : worker'[v] = worker[v]
  BY DEF MediaInv, MediaTypeOK
<1>2. Fits(w)'
  BY <1>1, IdleFits DEF MediaInv
<1>3. \A v \in Worker \ {w} : Apart(w, v)'
  BY <1>1, ApartKept DEF MediaInv, Idle, Own
<1> QED BY <1>1, <1>2, <1>3, IdleIsConnection, QuietStep

LEMMA StartStep ==
  ASSUME MediaInv, NEW w \in Worker,
         StartEntry(w) \/ StartAvatar(w) \/ StartRetry(w) \/ StartReclaim(w)
  PROVE  MediaInv'
<1> USE DEF MediaInv
<1>1. budget' \in 0..MaxFaults /\ UNCHANGED <<storage, business, complete, backfill>>
  BY BudgetKept DEF StartEntry, StartAvatar, StartRetry, StartReclaim
<1>2. CASE StartEntry(w)
  <2>1. PICK e \in Entry, uploads \in BOOLEAN, url \in Media \cup {Nothing} :
          \E poster \in IF uploads THEN {Nothing} ELSE {field[e]["poster_file"], Nothing} :
            LET wanted == [s \in Slot |-> IF s = "poster_file" THEN poster ELSE url] IN
            /\ uploads \/ wanted # field[e]
            /\ Step(w, "idle", [Idle EXCEPT !.stage = "admitting", !.row = e, !.wanted = wanted,
                                            !.uploads = uploads, !.inTx = TRUE])
    BY <1>2 DEF StartEntry
  <2>2. PICK poster \in IF uploads THEN {Nothing} ELSE {field[e]["poster_file"], Nothing} :
          Step(w, "idle", [Idle EXCEPT !.stage = "admitting", !.row = e,
                 !.wanted = [s \in Slot |-> IF s = "poster_file" THEN poster ELSE url],
                 !.uploads = uploads, !.inTx = TRUE])
    BY <2>1
  <2>7. poster \in Upload \cup {Nothing} /\ (uploads => poster = Nothing)
    BY <2>2 DEF MediaTypeOK, Slot
  <2> DEFINE next == [Idle EXCEPT !.stage = "admitting", !.row = e,
                 !.wanted = [s \in Slot |-> IF s = "poster_file" THEN poster ELSE url],
                 !.uploads = uploads, !.inTx = TRUE]
  <2>3. next \in Connection
    BY <2>7, IdleIsConnection DEF Connection, Stage, Row, Media
  <2>4. worker'[w] = next /\ worker' = [worker EXCEPT ![w] = next] /\ OwnerFree
    BY <1>2, <2>2 DEF Step, MediaTypeOK, StartEntry
  <2>5. Fits(w)'
    BY <2>7, <2>4 DEF Idle, Fits, UploadFits, TodoFits, TxFits, HeldFits, Detached, Entered, Slot
  <2>6. \A v \in Worker \ {w} : Apart(w, v)'
    BY <2>4, ApartKept DEF Idle, Own, MediaTypeOK
  <2> QED BY <1>1, <2>3, <2>4, <2>5, <2>6, QuietStep
<1>3. CASE StartAvatar(w)
  <2>1. PICK uploads \in BOOLEAN :
          Step(w, "idle", [Idle EXCEPT !.stage = IF uploads THEN "reserving" ELSE "saving",
                                       !.uploads = uploads, !.inTx = TRUE])
    BY <1>3 DEF StartAvatar
  <2> DEFINE next == [Idle EXCEPT !.stage = IF uploads THEN "reserving" ELSE "saving",
                                  !.uploads = uploads, !.inTx = TRUE]
  <2>3. next \in Connection
    BY IdleIsConnection DEF Connection, Stage, Idle
  <2>4. worker'[w] = next /\ worker' = [worker EXCEPT ![w] = next] /\ OwnerFree /\ worker[w].stage = "idle"
    BY <1>3, <2>1 DEF Step, MediaTypeOK, StartAvatar
  <2>5. Fits(w)'
    BY <2>4 DEF Idle, NoSlots, Fits, UploadFits, TodoFits, TxFits, HeldFits, Detached, Entered, Slot
  <2>6. \A v \in Worker \ {w} : Apart(w, v)'
    <3>1. worker'[w].upload = Nothing
      BY <2>4 DEF Idle
    <3> QED BY <2>4, <3>1 DEF Apart, OwnerFree, MediaTypeOK
  <2> QED BY <1>1, <2>3, <2>4, <2>5, <2>6, QuietStep
<1>4. CASE StartRetry(w)
  <2> DEFINE due == {u \in Upload : receipt[u].status \in {"cleanup_ready", "cleanup_failed"}}
             next == [Idle EXCEPT !.stage = "retrying", !.then = "retrying", !.todo = due]
  <2>1. Step(w, "idle", next)
    BY <1>4 DEF StartRetry
  <2>2. next \in Connection
    BY IdleIsConnection DEF Connection, Stage
  <2>3. worker'[w] = next /\ worker' = [worker EXCEPT ![w] = next]
    BY <2>1 DEF Step, MediaTypeOK
  <2>4. Fits(w)'
    BY <1>1, <2>3 DEF storage, Idle, NoSlots, Fits, UploadFits, TodoFits, TxFits, HeldFits,
         Detached, Entered, Cleaned
  <2>5. \A v \in Worker \ {w} : Apart(w, v)'
    BY <2>3, ApartKept DEF Idle, Own, MediaTypeOK
  <2> QED BY <1>1, <2>2, <2>3, <2>4, <2>5, QuietStep
<1>5. CASE StartReclaim(w)
  <2> DEFINE due == {u \in Upload : object[u] \in {"deleting", "delete_failed"}}
             next == [Idle EXCEPT !.stage = "sweeping", !.todo = due]
  <2>1. Step(w, "idle", next)
    BY <1>5 DEF StartReclaim
  <2>2. next \in Connection
    BY IdleIsConnection DEF Connection, Stage
  <2>3. worker'[w] = next /\ worker' = [worker EXCEPT ![w] = next]
    BY <2>1 DEF Step, MediaTypeOK
  <2>4. Fits(w)'
    BY <2>3 DEF Idle, NoSlots, Fits, UploadFits, TodoFits, TxFits, HeldFits, Detached, Entered
  <2>5. \A v \in Worker \ {w} : Apart(w, v)'
    BY <2>3, ApartKept DEF Idle, Own, MediaTypeOK
  <2> QED BY <1>1, <2>2, <2>3, <2>4, <2>5, QuietStep
<1> QED BY <1>2, <1>3, <1>4, <1>5

LEMMA AdmitStep ==
  ASSUME MediaInv, NEW w \in Worker, Admit(w)
  PROVE  MediaInv'
<1> USE DEF MediaInv
<1> DEFINE e == worker[w].row
           wanted == worker[w].wanted
           rows == SavedRows(w)
           stage == IF worker[w].uploads THEN "reserving" ELSE "saving"
           next == [At(w, stage) EXCEPT !.locked = rows]
<1>1. UNCHANGED <<storage, business, complete, backfill, budget>> /\ worker[w].stage = "admitting"
      /\ budget' \in 0..MaxFaults
  BY DEF Admit, MediaTypeOK
<1>2. Fits(w) /\ e \in Entry
  BY <1>1 DEF WorkerInv, Fits, TxFits
<1>3. CASE ~Admitted(w)
  BY <1>1, <1>3, BackToIdle DEF Admit, Step
<1>4. CASE Admitted(w)
  <2>1. worker[w] \in Connection /\ holding[e] \in [Slot -> Upload \cup {Nothing}]
    BY <1>2 DEF MediaTypeOK
  <2>2. rows \subseteq Upload
    BY <2>1 DEF SavedRows, OldMedia, Connection
  <2>3. next \in Connection
    BY <2>1, <2>2 DEF At, Connection, Stage
  <2>4. worker'[w] = next /\ worker' = [worker EXCEPT ![w] = next]
    BY <1>1, <1>4 DEF Admit, Step, MediaTypeOK
  <2>5. ASSUME NEW s \in Slot, wanted[s] # Nothing
        PROVE  /\ wanted[s] \in rows /\ object[wanted[s]] \in {"active", "delete_failed"}
               /\ BytesAt(wanted[s])
    <3>1. MayHold(e, s, wanted[s])
      BY <1>4, <2>5 DEF Admitted
    <3>2. wanted[s] \in Upload
      BY <2>1, <2>5 DEF Connection
    <3>3. object[wanted[s]] \in {"active", "delete_failed"}
      BY <3>1, <3>2 DEF MayHold, VerifyNewHolding, MediaTypeOK
    <3>4. wanted[s] \in rows
      BY <2>5 DEF SavedRows
    <3>5. CASE holding[e][s] = wanted[s]
      <4>1. wanted[s] \in Referenced
        BY <1>2, <3>2, <3>5, <2>5 DEF Named, HoldingInv, Referenced
      <4> QED BY <2>5, <3>3, <3>4, <4>1 DEF Named, ReferencedBytesExist
    <3>6. CASE holding[e][s] # wanted[s]
      BY <2>5, <3>1, <3>3, <3>6, <3>4 DEF MayHold, VerifyNewHolding
    <3> QED BY <3>5, <3>6
  <2> HIDE DEF rows
  <2>6. /\ worker'[w].stage = stage /\ worker'[w].locked = rows
        /\ worker'[w].upload = worker[w].upload /\ worker'[w].then = worker[w].then
        /\ worker'[w].todo = worker[w].todo /\ worker'[w].inTx = worker[w].inTx
        /\ worker'[w].uploads = worker[w].uploads /\ worker'[w].wanted = wanted
        /\ worker'[w].row = e
    BY <2>1, <2>4 DEF At, Connection
  <2>7. Fits(w)'
    <3>1. HeldFits(w)'
      BY <1>1, <2>5, <2>6 DEF HeldFits, BytesAt, storage
    <3>2. UploadFits(w)' /\ TodoFits(w)' /\ TxFits(w)'
      BY <1>1, <1>2, <2>1, <2>6
      DEF Fits, UploadFits, TodoFits, TxFits, Detached, Entered, storage, Connection
    <3> QED BY <3>1, <3>2 DEF Fits
  <2>8. \A v \in Worker \ {w} : Apart(w, v)'
    <3>1. worker[w].upload = Nothing
      BY <1>1, <1>2 DEF Fits, UploadFits, Detached
    <3> QED BY <1>1, <1>2, <2>4, <2>6, <3>1 DEF WorkerInv, Apart, MediaTypeOK
  <2> QED BY <1>1, <2>3, <2>4, <2>7, <2>8, QuietStep
<1> QED BY <1>3, <1>4

\* The steps that only move a connection on.
LEMMA MoveStep ==
  ASSUME MediaInv, NEW w \in Worker,
         Finalize(w) \/ Rollback(w) \/ Unwind(w) \/ Retry(w) \/ SweepEnds(w) \/ Kill(w)
  PROVE  MediaInv'
<1> USE DEF MediaInv
<1> DEFINE u == worker[w].upload
<1>1. budget' \in 0..MaxFaults /\ UNCHANGED <<storage, business, complete, backfill>>
  BY BudgetKept DEF Finalize, Rollback, Unwind, Retry, SweepEnds, Kill
<1>2. Fits(w) /\ worker[w] \in Connection
  BY DEF WorkerInv, MediaTypeOK
<1>3. CASE SweepEnds(w) \/ Kill(w) \/ (Retry(w) /\ worker[w].todo = {})
  <2>1. worker' = [worker EXCEPT ![w] = Idle]
    BY <1>3 DEF SweepEnds, Kill, Retry, Step
  <2> QED BY <1>1, <2>1, BackToIdle
<1>4. CASE Finalize(w)
  <2>1. PICK failed \in BOOLEAN :
          Step(w, "finalizing",
               IF failed \/ receipt[worker[w].upload].status # "pending"
               THEN [At(w, "marking") EXCEPT !.then = "rollback"] ELSE At(w, "saving"))
    BY <1>4 DEF Finalize
  <2> DEFINE next == IF failed \/ receipt[worker[w].upload].status # "pending"
                     THEN [At(w, "marking") EXCEPT !.then = "rollback"] ELSE At(w, "saving")
  <2>2. next \in Connection
    BY <1>2 DEF At, Connection, Stage
  <2>3. worker'[w] = next /\ worker' = [worker EXCEPT ![w] = next] /\ worker[w].stage = "finalizing"
    BY <2>1 DEF Step, MediaTypeOK
  <2>4. /\ worker'[w].stage \in {"marking", "saving"}
        /\ worker'[w].then \in {"rollback", worker[w].then}
        /\ worker'[w].upload = u /\ worker'[w].todo = worker[w].todo
        /\ worker'[w].inTx = worker[w].inTx /\ worker'[w].uploads = worker[w].uploads
        /\ worker'[w].wanted = worker[w].wanted /\ worker'[w].locked = worker[w].locked
    BY <1>2, <2>3 DEF At, Connection
  <2>5. Fits(w)'
    <3>1. UploadFits(w)'
      BY <1>1, <1>2, <2>3, <2>4 DEF Fits, UploadFits, Detached, storage, BytesAt
    <3>2. TodoFits(w)' /\ TxFits(w)'
      BY <1>1, <1>2, <2>3, <2>4, <3>1 DEF Fits, UploadFits, TodoFits, TxFits, Detached, Entered, storage
    <3>3. HeldFits(w)'
      BY <1>1, <1>2, <2>3, <2>4 DEF Fits, HeldFits, storage, BytesAt
    <3> QED BY <3>1, <3>2, <3>3 DEF Fits
  <2>6. \A v \in Worker \ {w} : Apart(w, v)'
    BY <2>3, <2>4, ApartKept DEF Own, MediaTypeOK
  <2> QED BY <1>1, <2>2, <2>3, <2>5, <2>6, QuietStep
<1>5. CASE Rollback(w)
  <2> DEFINE next == [Idle EXCEPT !.stage = "unwinding", !.upload = worker[w].upload]
  <2>2. next \in Connection
    BY <1>2, IdleIsConnection DEF Connection, Stage
  <2>3. worker'[w] = next /\ worker' = [worker EXCEPT ![w] = next] /\ worker[w].stage = "saving"
    BY <1>5 DEF Rollback, Step, MediaTypeOK
  <2>5. Fits(w)'
    BY <1>1, <1>2, <2>3
    DEF Idle, NoSlots, Fits, UploadFits, TodoFits, TxFits, HeldFits, Detached, Entered, storage
  <2>6. \A v \in Worker \ {w} : Apart(w, v)'
    BY <2>3, ApartKept DEF Idle, Own, MediaTypeOK
  <2> QED BY <1>1, <2>2, <2>3, <2>5, <2>6, QuietStep
<1>6. CASE Unwind(w)
  <2>1. PICK unreadable \in BOOLEAN :
          Step(w, "unwinding",
               IF unreadable \/ u = Nothing \/ object[u] # "none" THEN Idle
               ELSE [At(w, "marking") EXCEPT !.then = "idle"])
    BY <1>6 DEF Unwind
  <2>2. CASE unreadable \/ u = Nothing \/ object[u] # "none"
    BY <1>1, <2>1, <2>2, BackToIdle DEF Step
  <2>3. CASE ~(unreadable \/ u = Nothing \/ object[u] # "none")
    <3> DEFINE next == [At(w, "marking") EXCEPT !.then = "idle"]
    <3>2. next \in Connection
      BY <1>2 DEF At, Connection, Stage
    <3>3. worker'[w] = next /\ worker' = [worker EXCEPT ![w] = next] /\ worker[w].stage = "unwinding"
      BY <2>1, <2>3 DEF Step, MediaTypeOK
    <3>4. /\ worker'[w].stage = "marking" /\ worker'[w].then = "idle"
          /\ worker'[w].upload = u /\ worker'[w].inTx = worker[w].inTx
          /\ worker'[w].uploads = worker[w].uploads /\ worker'[w].wanted = worker[w].wanted
      BY <1>2, <3>3 DEF At, Connection
    <3>5. Fits(w)'
      BY <1>1, <1>2, <2>3, <3>3, <3>4
      DEF Fits, UploadFits, TodoFits, TxFits, HeldFits, Detached, Entered, storage, Connection
    <3>6. \A v \in Worker \ {w} : Apart(w, v)'
      BY <3>3, <3>4, ApartKept DEF Own, MediaTypeOK
    <3> QED BY <1>1, <3>2, <3>3, <3>5, <3>6, QuietStep
  <2> QED BY <2>2, <2>3
<1>7. CASE Retry(w) /\ worker[w].todo # {}
  <2>1. PICK m \in worker[w].todo :
          Step(w, "retrying", [At(w, "discarding") EXCEPT !.upload = m, !.todo = @ \ {m}])
    BY <1>7 DEF Retry
  <2> DEFINE next == [At(w, "discarding") EXCEPT !.upload = m, !.todo = @ \ {m}]
  <2>2. next \in Connection /\ m \in Upload
    BY <1>2 DEF At, Connection, Stage
  <2>3. worker'[w] = next /\ worker' = [worker EXCEPT ![w] = next] /\ worker[w].stage = "retrying"
    BY <2>1 DEF Step, MediaTypeOK
  <2>4. /\ worker'[w].stage = "discarding" /\ worker'[w].upload = m
        /\ worker'[w].todo = worker[w].todo \ {m} /\ worker'[w].then = worker[w].then
        /\ worker'[w].inTx = worker[w].inTx /\ worker'[w].uploads = worker[w].uploads
        /\ worker'[w].wanted = worker[w].wanted
    BY <1>2, <2>3 DEF At, Connection
  <2>5. receipt[m].status \in Cleaned
    BY <1>2, <2>3 DEF Fits, TodoFits, TxFits
  <2>6. Fits(w)'
    BY <1>1, <1>2, <2>2, <2>3, <2>4, <2>5, MediaAssumption
    DEF Fits, UploadFits, TodoFits, TxFits, HeldFits, Detached, Entered, storage, Connection
  <2>7. \A v \in Worker \ {w} : Apart(w, v)'
    BY <2>3, <2>4, ApartKept DEF Own, MediaTypeOK
  <2> QED BY <1>1, <2>2, <2>3, <2>6, <2>7, QuietStep
<1> QED BY <1>3, <1>4, <1>5, <1>6, <1>7

-----------------------------------------------------------------------------
(* The steps that work on the row, the receipt or the bytes of one upload.    *)

Untouched(m) ==
  /\ \A u \in Upload \ {m} : receipt'[u] = receipt[u] /\ object'[u] = object[u]
  /\ receipt'[m].place = receipt[m].place
  /\ \A p \in Place : \/ bytes'[p] = bytes[p]
                      \/ p = receipt[m].place /\ Placed(m) /\ bytes'[p] \in {m, Nothing}

\* Whose bytes can be met at the place of a live receipt.
LEMMA OwnPlace ==
  ASSUME MediaInv, NEW m \in Upload, Placed(m)
  PROVE  receipt[m].place \in Place /\ bytes[receipt[m].place] \in {m, Nothing}
<1>1. receipt[m].place \in Place
  BY DEF MediaInv, ReceiptInv, Placed
<1>2. ASSUME bytes[receipt[m].place] # Nothing PROVE bytes[receipt[m].place] = m
  <2> DEFINE v == bytes[receipt[m].place]
  <2>1. v \in Upload
    BY <1>1, <1>2 DEF MediaInv, MediaTypeOK
  <2>2. receipt[v].place = receipt[m].place /\ (object[v] # "none" \/ receipt[v].status \in Occupying)
    BY <1>1, <1>2 DEF MediaInv, BytesAccounted
  <2>3. Placed(v)
    BY <2>1, <2>2 DEF MediaInv, ReceiptInv, Placed, Occupying
  <2> QED BY <2>1, <2>2, <2>3 DEF MediaInv, ReceiptInv
<1> QED BY <1>1, <1>2

LEMMA OthersKeepBytes ==
  ASSUME MediaInv, NEW m \in Upload, Untouched(m), NEW u \in Upload \ {m}, receipt[u].status # "none"
  PROVE  BytesAt(u)' = BytesAt(u)
<1>1. receipt[u].place \in Place /\ receipt'[u].place = receipt[u].place
  BY DEF MediaInv, ReceiptInv, Untouched
<1>2. CASE bytes'[receipt[u].place] = bytes[receipt[u].place]
  BY <1>1, <1>2 DEF BytesAt
<1>3. CASE bytes'[receipt[u].place] # bytes[receipt[u].place]
  <2>1. receipt[u].place = receipt[m].place /\ Placed(m) /\ bytes'[receipt[u].place] \in {m, Nothing}
    BY <1>1, <1>3 DEF Untouched
  <2>2. bytes[receipt[u].place] \in {m, Nothing}
    BY <2>1, OwnPlace
  <2> QED BY <1>1, <2>1, <2>2, MediaAssumption DEF BytesAt
<1> QED BY <1>2, <1>3

LEMMA OthersFit ==
  ASSUME MediaInv, NEW w \in Worker, \A v \in Worker \ {w} : worker'[v] = worker[v],
         NEW m \in Upload, \A u \in Upload \ {m} : receipt'[u] = receipt[u] /\ object'[u] = object[u],
         \A u \in Upload \ {m} : receipt[u].status # "none" => BytesAt(u)' = BytesAt(u),
         receipt[m].status \in Cleaned => receipt'[m].status \in Cleaned,
         \/ object[m] \in {"none", "deleting"} \/ MediaRowFree(m, w)
         \/ object'[m] = object[m] /\ BytesAt(m)' = BytesAt(m),
         \A v \in Worker \ {w} : worker[v].upload = m => UploadFits(v)'
  PROVE  \A v \in Worker \ {w} : Fits(v)'
<1> SUFFICES ASSUME NEW v \in Worker \ {w} PROVE Fits(v)'
  OBVIOUS
<1>1. Fits(v) /\ worker'[v] = worker[v] /\ worker[v] \in Connection
  BY DEF MediaInv, MediaTypeOK, WorkerInv
<1>2. UploadFits(v)'
  <2>1. CASE worker[v].upload \in Upload \ {m}
    <3>1. receipt[worker[v].upload].status # "none"
      BY <1>1, <2>1, MediaAssumption DEF Fits, UploadFits, Detached, Cleaned, Connection, Stage
    <3> QED BY <1>1, <2>1, <3>1 DEF Fits, UploadFits
  <2>2. CASE worker[v].upload = Nothing
    BY <1>1, <2>2 DEF Fits, UploadFits
  <2> QED BY <1>1, <2>1, <2>2 DEF Connection
<1>3. TodoFits(v)'
  BY <1>1 DEF Fits, TodoFits, Connection
<1>4. TxFits(v)'
  BY <1>1 DEF Fits, TxFits
<1>5. HeldFits(v)'
  <2>1. ASSUME NEW s \in Slot, worker[v].inTx, worker[v].stage # "admitting", worker[v].wanted[s] # Nothing
        PROVE  /\ worker[v].wanted[s] \in worker[v].locked
               /\ object'[worker[v].wanted[s]] \in {"active", "delete_failed"}
               /\ BytesAt(worker[v].wanted[s])'
    <3> DEFINE u == worker[v].wanted[s]
    <3>1. u \in worker[v].locked /\ object[u] \in {"active", "delete_failed"} /\ BytesAt(u)
      BY <1>1, <2>1 DEF Fits, HeldFits
    <3>2. u \in Upload
      BY <1>1, <3>1 DEF Connection
    <3>3. CASE u = m
      BY <3>1, <3>3 DEF MediaRowFree
    <3>4. CASE u # m
      BY <3>1, <3>2, <3>4 DEF MediaInv, ReceiptInv
    <3> QED BY <3>3, <3>4, <3>1
  <2> QED BY <1>1, <2>1 DEF HeldFits
<1> QED BY <1>2, <1>3, <1>4, <1>5 DEF Fits

LEMMA RowStep ==
  ASSUME MediaInv, NEW w \in Worker, NEW m \in Upload, receipt[m].status # "none",
         UNCHANGED <<business, backfill, preferred>>, budget' \in 0..MaxFaults, complete' \subseteq complete,
         worker' = [worker EXCEPT ![w] = worker'[w]], worker'[w] \in Connection,
         receipt' \in [Upload -> Receipt], bytes' \in [Place -> Upload \cup {Nothing}],
         object' \in [Upload -> {"none", "active", "deleting", "delete_failed"}],
         Untouched(m),
         Placed(m)' => Placed(m),
         object'[m] # "none" => receipt'[m].status = "finalized",
         BytesAt(m)' => object'[m] # "none" \/ receipt'[m].status \in Occupying,
         m \in Referenced => object'[m] = object[m] /\ BytesAt(m)' = BytesAt(m),
         receipt[m].status \in Cleaned => receipt'[m].status \in Cleaned,
         \/ object[m] \in {"none", "deleting"} \/ MediaRowFree(m, w)
         \/ object'[m] = object[m] /\ BytesAt(m)' = BytesAt(m),
         \A v \in Worker \ {w} : worker[v].upload = m => UploadFits(v)',
         Fits(w)', \A v \in Worker \ {w} : Apart(w, v)'
  PROVE  MediaInv'
<1>1. MediaTypeOK'
  BY DEF MediaInv, MediaTypeOK, business
<1>2. ReceiptInv'
  <2>1. ASSUME NEW u \in Upload
        PROVE  /\ receipt'[u].place = receipt[u].place /\ (Placed(u)' => Placed(u))
               /\ object'[u] # "none" => receipt'[u].status = "finalized"
               /\ receipt'[u].status # "none" => receipt'[u].place \in Place
    BY DEF Untouched, MediaInv, ReceiptInv, Placed
  <2> QED BY <2>1 DEF MediaInv, ReceiptInv
<1>3. BytesAccounted'
  <2> SUFFICES ASSUME NEW p \in Place, bytes'[p] # Nothing
               PROVE  /\ receipt'[bytes'[p]].place = p
                      /\ object'[bytes'[p]] # "none" \/ receipt'[bytes'[p]].status \in Occupying
    BY DEF BytesAccounted
  <2>1. receipt'[bytes'[p]].place = p
    BY DEF MediaInv, MediaTypeOK, BytesAccounted, Untouched
  <2>2. CASE bytes'[p] = m
    BY <2>1, <2>2 DEF BytesAt
  <2>3. CASE bytes'[p] # m
    BY <2>3 DEF MediaInv, MediaTypeOK, BytesAccounted, Untouched
  <2> QED BY <2>1, <2>2, <2>3
<1>4. Named'
  <2>1. ASSUME NEW u \in Referenced PROVE object'[u] = object[u] /\ BytesAt(u)' = BytesAt(u)
    <3>1. u \in Upload /\ object[u] = "active"
      BY DEF MediaInv, Named, ReferencedBytesExist, Referenced
    <3>2. receipt[u].status # "none"
      BY <3>1 DEF MediaInv, ReceiptInv
    <3> QED BY <3>1, <3>2, OthersKeepBytes DEF Untouched
  <2> QED BY <2>1, NamedKept DEF MediaInv, business
<1>5. WorkerInv'
  <2>1. \A v \in Worker \ {w} : worker'[v] = worker[v]
    BY DEF MediaInv, MediaTypeOK
  <2>2. \A u \in Upload \ {m} : receipt[u].status # "none" => BytesAt(u)' = BytesAt(u)
    BY OthersKeepBytes
  <2>3. \A v \in Worker \ {w} : Fits(v)'
    BY <2>1, <2>2, OthersFit DEF Untouched
  <2> QED BY <2>1, <2>3, WorkersFit DEF MediaInv
<1> QED BY <1>1, <1>2, <1>3, <1>4, <1>5 DEF MediaInv

\* What a connection has verified stays true of its own steps.
LEMMA OwnHeldKept ==
  ASSUME MediaInv, NEW w \in Worker, NEW m \in Upload, Untouched(m),
         object[m] = "none" \/ (object'[m] = object[m] /\ BytesAt(m)' = BytesAt(m)),
         worker[w].stage # "admitting", worker'[w].inTx => worker[w].inTx,
         worker'[w].wanted = worker[w].wanted, worker'[w].locked = worker[w].locked
  PROVE  HeldFits(w)'
<1>1. ASSUME NEW s \in Slot, worker'[w].inTx, worker[w].wanted[s] # Nothing
      PROVE  /\ worker[w].wanted[s] \in worker[w].locked
             /\ object'[worker[w].wanted[s]] \in {"active", "delete_failed"}
             /\ BytesAt(worker[w].wanted[s])'
  <2> DEFINE u == worker[w].wanted[s]
  <2>1. u \in worker[w].locked /\ object[u] \in {"active", "delete_failed"} /\ BytesAt(u)
    BY <1>1 DEF MediaInv, WorkerInv, Fits, HeldFits
  <2>2. u \in Upload
    BY <2>1 DEF MediaInv, MediaTypeOK, Connection
  <2>3. receipt[u].status # "none"
    BY <2>1, <2>2 DEF MediaInv, ReceiptInv
  <2> QED BY <2>1, <2>2, <2>3, OthersKeepBytes DEF Untouched
<1> QED BY <1>1 DEF HeldFits

LEMMA TodoKept ==
  ASSUME MediaInv, NEW w \in Worker, NEW m \in Upload, Untouched(m),
         receipt[m].status \in Cleaned => receipt'[m].status \in Cleaned,
         worker'[w].todo = worker[w].todo, worker'[w].then = "retrying" => worker[w].then = "retrying",
         worker'[w].stage = "retrying" => worker'[w].then = "retrying"
  PROVE  TodoFits(w)'
BY DEF MediaInv, MediaTypeOK, Connection, WorkerInv, Fits, TodoFits, Untouched

\* Where the cleanup of a receipt goes on.
LEMMA AfterFits ==
  ASSUME MediaInv, NEW w \in Worker, NEW m \in Upload, Untouched(m),
         object[m] = "none" \/ (object'[m] = object[m] /\ BytesAt(m)' = BytesAt(m)),
         receipt[m].status \in Cleaned => receipt'[m].status \in Cleaned,
         worker[w].stage \in {"marking", "discarding", "discarded"},
         worker'[w] = After(w), \A v \in Worker \ {w} : worker'[v] = worker[v]
  PROVE  /\ worker'[w] \in Connection
         /\ Fits(w)' /\ \A v \in Worker \ {w} : Apart(w, v)'
<1> USE DEF MediaInv
<1>1. worker[w] \in Connection /\ Fits(w)
  BY DEF MediaTypeOK, WorkerInv
<1>2. CASE After(w) = Idle
  <2>1. worker'[w] = Idle /\ worker'[w].stage = "idle" /\ ~worker'[w].inTx
    BY <1>2 DEF Idle
  <2>2. \A v \in Worker \ {w} : Apart(w, v)'
    BY <2>1, ApartKept DEF Own
  <2> QED BY <2>1, <2>2, IdleFits, IdleIsConnection
<1>3. CASE After(w) # Idle
  <2>1. PICK to \in {"reserving", "retrying"} :
          After(w) = [At(w, to) EXCEPT !.upload = Nothing] /\ worker[w].then = to
    BY <1>3 DEF After
  <2>2. After(w) \in Connection
    BY <1>1, <2>1 DEF At, Connection, Stage
  <2>3. /\ worker'[w].stage = to /\ worker'[w].upload = Nothing /\ worker'[w].then = to
        /\ worker'[w].todo = worker[w].todo /\ worker'[w].inTx = worker[w].inTx
        /\ worker'[w].uploads = worker[w].uploads /\ worker'[w].wanted = worker[w].wanted
        /\ worker'[w].locked = worker[w].locked
    <3>1. to \in Stage
      BY DEF Stage
    <3>2. worker'[w] = [[worker[w] EXCEPT !.stage = to] EXCEPT !.upload = Nothing]
      BY <1>1, <2>1 DEF At
    <3> QED BY <1>1, <2>1, <3>1, <3>2 DEF Connection
  <2>4. UploadFits(w)' /\ TxFits(w)'
    <3>1. UploadFits(w)'
      BY <2>1, <2>3 DEF UploadFits, Detached
    <3>2. /\ TxFits(w) /\ worker[w].then = to
          /\ worker[w].inTx \in BOOLEAN /\ worker[w].uploads \in BOOLEAN
      BY <1>1, <2>1 DEF Fits, Connection
    <3>3. TxFits(w)'
      BY <2>1, <2>3, <3>2 DEF TxFits, Entered
    <3> QED BY <3>1, <3>3
  <2>5. TodoFits(w)' /\ HeldFits(w)'
    BY <2>1, <2>3, TodoKept, OwnHeldKept
  <2>6. \A v \in Worker \ {w} : Apart(w, v)'
    BY <1>1, <2>3, ApartKept DEF Own
  <2> QED BY <1>1, <2>2, <2>4, <2>5, <2>6 DEF Fits
<1> QED BY <1>2, <1>3

\* An upload is the business of its own request until it is final or given up.
LEMMA PendingIsAlone ==
  ASSUME MediaInv, NEW w \in Worker, worker[w].stage \in Own,
         worker[w].upload # Nothing, receipt[worker[w].upload].status = "pending"
  PROVE  \A v \in Worker \ {w} : worker[v].upload # worker[w].upload
<1> SUFFICES ASSUME NEW v \in Worker \ {w}, worker[v].upload = worker[w].upload PROVE FALSE
  OBVIOUS
<1>1. Fits(v) /\ Apart(v, w) /\ worker[v].stage \in Stage
  BY DEF MediaInv, MediaTypeOK, WorkerInv, Connection
<1>2. worker[v].stage \notin Own
  BY <1>1 DEF Apart
<1>3. worker[v].stage \in {"discarding", "discarded", "claimed", "erased"}
  BY <1>1, <1>2 DEF Fits, UploadFits, Detached, Own, Stage
<1> QED BY <1>1, <1>3 DEF Fits, UploadFits, Cleaned

LEMMA WriteStep ==
  ASSUME MediaInv, NEW w \in Worker, Write(w)
  PROVE  MediaInv'
<1> USE DEF MediaInv
<1> DEFINE m == worker[w].upload
           place == receipt[m].place
<1>1. PICK outcome \in {"stored", "offline", "error"}, landed \in BOOLEAN :
        /\ outcome = "stored" => landed
        /\ MayFault(outcome # "stored")
        /\ bytes' = IF landed THEN [bytes EXCEPT ![place] = m] ELSE bytes
        /\ Step(w, "writing",
             CASE outcome = "stored" -> At(w, "finalizing")
               [] outcome = "offline" -> [At(w, "marking") EXCEPT !.then = "reserving",
                                                                  !.tried = @ \cup {place[1]}]
               [] OTHER -> [At(w, "marking") EXCEPT !.then = "rollback"])
  BY DEF Write
<1>2. UNCHANGED <<receipt, object, preferred, business, complete, backfill>> /\ worker[w].stage = "writing"
  BY DEF Write
<1>3. worker[w] \in Connection /\ Fits(w)
  BY DEF MediaTypeOK, WorkerInv
<1>4. m \in Upload /\ receipt[m].status = "pending" /\ object[m] = "none"
  BY <1>2, <1>3 DEF Fits, UploadFits, Detached, Connection, ReceiptInv
<1>5. place \in Backend \X Key /\ bytes[place] \in {m, Nothing} /\ Placed(m)
  BY <1>4, OwnPlace DEF Placed, Place
<1>6. Untouched(m) /\ bytes' \in [Place -> Upload \cup {Nothing}]
  BY <1>1, <1>2, <1>4, <1>5 DEF Untouched, MediaTypeOK
<1>7. /\ worker' = [worker EXCEPT ![w] = worker'[w]] /\ worker'[w] \in Connection
      /\ \A v \in Worker \ {w} : worker'[v] = worker[v]
  BY <1>1, <1>3, <1>5 DEF Step, MediaTypeOK, At, Connection, Stage
<1>8. /\ worker'[w].stage \in {"finalizing", "marking"} /\ worker'[w].upload = m
      /\ worker'[w].stage = "finalizing" => outcome = "stored"
      /\ worker'[w].then \in {worker[w].then, "reserving", "rollback"}
      /\ worker'[w].todo = worker[w].todo /\ worker'[w].inTx = worker[w].inTx
      /\ worker'[w].uploads = worker[w].uploads /\ worker'[w].wanted = worker[w].wanted
      /\ worker'[w].locked = worker[w].locked
  BY <1>1, <1>3 DEF Step, MediaTypeOK, At, Connection
<1>9. Fits(w)'
  <2>1. UploadFits(w)'
    BY <1>1, <1>2, <1>4, <1>5, <1>8, MediaAssumption DEF UploadFits, Detached, BytesAt, Place, MediaTypeOK
  <2>2. TodoFits(w)'
    BY <1>2, <1>4, <1>6, <1>8, TodoKept
  <2>3. TxFits(w)'
    BY <1>2, <1>3, <1>4, <1>8 DEF Fits, TxFits, Entered, Connection
  <2>4. HeldFits(w)'
    BY <1>2, <1>4, <1>6, <1>8, OwnHeldKept
  <2> QED BY <2>1, <2>2, <2>3, <2>4 DEF Fits
<1>10. \A v \in Worker \ {w} : Apart(w, v)'
  BY <1>2, <1>7, <1>8, ApartKept DEF Own
<1>11. \A v \in Worker \ {w} : worker[v].upload # m
  BY <1>2, <1>4, MediaAssumption, PendingIsAlone DEF Own
<1>12. m \notin Referenced
  BY <1>4 DEF Named, ReferencedBytesExist
<1>13. budget' \in 0..MaxFaults
  BY <1>1, MediaAssumption DEF MayFault, Fault, MediaTypeOK
<1> QED BY <1>2, <1>4, <1>5, <1>6, <1>7, <1>9, <1>10, <1>11, <1>12, <1>13, RowStep
        DEF MediaTypeOK, Placed, Occupying, Cleaned

LEMMA MarkReadyStep ==
  ASSUME MediaInv, NEW w \in Worker, MarkReady(w)
  PROVE  MediaInv'
<1> USE DEF MediaInv
<1> DEFINE m == worker[w].upload
           settled == receipt[m].status \in {"finalized", "abandoned"} \/ object[m] # "none"
<1>1. /\ UNCHANGED <<object, bytes, preferred, business, complete, backfill, budget>>
      /\ worker[w].stage = "marking" /\ worker[w] \in Connection /\ Fits(w)
      /\ \A v \in Worker \ {w} : worker'[v] = worker[v]
      /\ worker' = [worker EXCEPT ![w] = worker'[w]]
      /\ worker'[w] = IF settled THEN After(w) ELSE At(w, "discarding")
      /\ receipt' = IF settled THEN receipt ELSE [receipt EXCEPT ![m].status = "cleanup_ready"]
  BY DEF MarkReady, Step, MediaTypeOK, WorkerInv
<1>2. m \in Upload /\ receipt[m].status \in {"pending", "finalized"}
  BY <1>1 DEF Fits, UploadFits, Detached, Connection
<1>3. receipt[m] \in Receipt
  BY <1>2 DEF MediaTypeOK
<1>4. CASE settled
  <2>1. Untouched(m) /\ UNCHANGED storage
    BY <1>1, <1>4 DEF Untouched, storage
  <2>2. worker'[w] \in Connection /\ Fits(w)' /\ \A v \in Worker \ {w} : Apart(w, v)'
    BY <1>1, <1>2, <1>4, <2>1, AfterFits DEF BytesAt
  <2> QED BY <1>1, <2>1, <2>2, QuietStep DEF MediaTypeOK
<1>5. CASE ~settled
  <2>1. receipt[m].status = "pending" /\ object[m] = "none" /\ Placed(m)
    BY <1>2, <1>5 DEF Placed
  <2>2. /\ receipt' \in [Upload -> Receipt] /\ receipt'[m].status = "cleanup_ready"
        /\ receipt'[m].place = receipt[m].place
        /\ \A u \in Upload \ {m} : receipt'[u] = receipt[u]
    BY <1>1, <1>2, <1>3, <1>5 DEF MediaTypeOK, Receipt, Occupying
  <2>3. Untouched(m)
    BY <1>1, <2>2 DEF Untouched
  <2>4. /\ worker'[w].stage = "discarding" /\ worker'[w].upload = m
        /\ worker'[w].then = worker[w].then /\ worker'[w].todo = worker[w].todo
        /\ worker'[w].inTx = worker[w].inTx /\ worker'[w].uploads = worker[w].uploads
        /\ worker'[w].wanted = worker[w].wanted /\ worker'[w].locked = worker[w].locked
        /\ worker'[w] \in Connection
    BY <1>1, <1>5 DEF At, Connection, Stage
  <2>5. Fits(w)'
    <3>1. UploadFits(w)'
      BY <1>2, <2>2, <2>4, MediaAssumption DEF UploadFits, Detached, Cleaned
    <3>2. TodoFits(w)'
      BY <1>2, <2>1, <2>3, <2>4, TodoKept DEF Cleaned
    <3>3. TxFits(w)'
      BY <1>1, <2>4 DEF Fits, TxFits, Entered, Connection
    <3>4. HeldFits(w)'
      BY <1>1, <1>2, <2>1, <2>3, <2>4, OwnHeldKept
    <3> QED BY <3>1, <3>2, <3>3, <3>4 DEF Fits
  <2>6. \A v \in Worker \ {w} : Apart(w, v)'
    BY <1>1, <2>4, ApartKept DEF Own
  <2>7. \A v \in Worker \ {w} : worker[v].upload # m
    BY <1>1, <1>2, <2>1, MediaAssumption, PendingIsAlone DEF Own
  <2>8. m \notin Referenced
    BY <2>1 DEF Named, ReferencedBytesExist
  <2> QED BY <1>1, <1>2, <2>1, <2>2, <2>3, <2>4, <2>5, <2>6, <2>7, <2>8, RowStep
          DEF MediaTypeOK, Occupying, Cleaned
<1> QED BY <1>4, <1>5

LEMMA WorksOn ==
  ASSUME MediaInv, NEW w \in Worker, worker[w].stage \in Own \cup {"discarding", "discarded", "claimed", "erased"},
         worker[w].stage \notin {"saving", "unwinding"}
  PROVE  \E m \in Upload : worker[w].upload = m
BY DEF MediaInv, MediaTypeOK, Connection, WorkerInv, Fits, UploadFits, Detached, Own

LEMMA DiscardStep ==
  ASSUME MediaInv, NEW w \in Worker, Discard(w)
  PROVE  MediaInv'
<1> USE DEF MediaInv
<1>0. PICK m \in Upload : worker[w].upload = m
  BY WorksOn DEF Discard
<1> DEFINE due == receipt[m].status \in {"cleanup_ready", "cleanup_failed"} /\ object[m] = "none"
<1>1. PICK failed \in BOOLEAN :
        /\ MayFault(failed) /\ (failed => due)
        /\ Step(w, "discarding", IF due /\ ~failed THEN At(w, "discarded") ELSE After(w))
        /\ bytes' = IF due /\ ~failed THEN [bytes EXCEPT ![receipt[m].place] = Nothing] ELSE bytes
        /\ receipt' = IF due /\ failed THEN [receipt EXCEPT ![m].status = "cleanup_failed"] ELSE receipt
  BY <1>0 DEF Discard
<1>2. /\ UNCHANGED <<object, preferred, business, complete, backfill>> /\ ReceiptRowFree(m, w)
      /\ worker[w].stage = "discarding" /\ worker[w] \in Connection /\ Fits(w)
      /\ budget' \in 0..MaxFaults
  BY <1>1, <1>0, BudgetKept DEF Discard, MediaTypeOK, WorkerInv
<1>3. /\ \A v \in Worker \ {w} : worker'[v] = worker[v]
      /\ worker' = [worker EXCEPT ![w] = worker'[w]]
      /\ worker'[w] = IF due /\ ~failed THEN At(w, "discarded") ELSE After(w)
  BY <1>1 DEF Step, MediaTypeOK
<1>4. m # Nothing /\ receipt[m].status \in Cleaned /\ object[m] = "none" /\ receipt[m] \in Receipt
  BY <1>2, <1>0, MediaAssumption DEF Fits, UploadFits, Detached, Connection, ReceiptInv, MediaTypeOK, Cleaned
<1>5. /\ receipt' \in [Upload -> Receipt] /\ receipt'[m].place = receipt[m].place
      /\ \A u \in Upload \ {m} : receipt'[u] = receipt[u]
      /\ receipt'[m].status = receipt[m].status
         \/ (due /\ failed /\ receipt'[m].status = "cleanup_failed")
  BY <1>1, <1>4 DEF MediaTypeOK, Receipt, Occupying
<1>6. due => Placed(m) /\ receipt[m].place \in Place
  BY <1>4, OwnPlace DEF Placed
<1>7. Untouched(m) /\ bytes' \in [Place -> Upload \cup {Nothing}]
  BY <1>1, <1>2, <1>5, <1>6 DEF Untouched, MediaTypeOK
<1>8. receipt'[m].status \in Cleaned /\ (receipt'[m].status = "abandoned" => receipt[m].status = "abandoned")
  BY <1>4, <1>5 DEF Cleaned
<1>9. worker'[w] \in Connection /\ Fits(w)' /\ \A v \in Worker \ {w} : Apart(w, v)'
  <2>1. CASE due /\ ~failed
    <3>1. /\ worker'[w].stage = "discarded" /\ worker'[w].upload = m
          /\ worker'[w].then = worker[w].then /\ worker'[w].todo = worker[w].todo
          /\ worker'[w].inTx = worker[w].inTx /\ worker'[w].uploads = worker[w].uploads
          /\ worker'[w].wanted = worker[w].wanted /\ worker'[w].locked = worker[w].locked
          /\ worker'[w] \in Connection
      BY <1>2, <1>3, <1>0, <2>1 DEF At, Connection, Stage
    <3>2. UploadFits(w)'
      BY <1>1, <1>4, <1>5, <1>6, <2>1, <3>1, MediaAssumption
      DEF UploadFits, Detached, Cleaned, BytesAt, MediaTypeOK
    <3>3. TodoFits(w)' /\ HeldFits(w)'
      BY <1>2, <1>4, <1>7, <1>8, <3>1, TodoKept, OwnHeldKept
    <3>4. TxFits(w)'
      BY <1>2, <3>1 DEF Fits, TxFits, Entered, Connection
    <3>5. ASSUME NEW v \in Worker \ {w} PROVE Apart(w, v)'
      <4>1. ~(worker[v].upload = m /\ worker[v].stage = "discarded")
        BY <1>2 DEF ReceiptRowFree
      <4>2. ~(worker[v].inTx /\ worker[w].inTx)
        BY DEF WorkerInv, Apart
      <4> QED BY <1>3, <3>1, <4>1, <4>2 DEF Apart, Own
    <3> QED BY <3>1, <3>2, <3>3, <3>4, <3>5 DEF Fits
  <2>2. CASE ~(due /\ ~failed)
    BY <1>2, <1>3, <1>4, <1>7, <1>8, <1>0, <2>2, AfterFits
  <2> QED BY <2>1, <2>2
<1>10. ASSUME NEW v \in Worker \ {w}, worker[v].upload = m PROVE UploadFits(v)'
  <2>1. Fits(v) /\ worker'[v] = worker[v] /\ worker[v].stage \in Stage
    BY <1>3 DEF WorkerInv, MediaTypeOK, Connection
  <2>2. worker[v].stage = "discarding"
    <3>1. worker[v].stage # "discarded"
      BY <1>2, <1>10 DEF ReceiptRowFree
    <3> QED BY <1>4, <1>10, <2>1, <3>1, MediaAssumption DEF Fits, UploadFits, Detached, Stage, Cleaned
  <2> QED BY <1>4, <1>8, <1>10, <2>1, <2>2, MediaAssumption DEF UploadFits, Detached
<1>11. m \notin Referenced
  BY <1>4 DEF Named, ReferencedBytesExist
<1>12. BytesAt(m)' => receipt'[m].status \in Occupying
  <2>1. CASE due
    BY <1>4, <1>5, <2>1 DEF Occupying
  <2>2. CASE ~due
    <3>1. receipt' = receipt /\ bytes' = bytes /\ receipt[m].status = "abandoned"
      BY <1>1, <1>4, <2>2 DEF Cleaned
    <3>2. receipt[m].place \in Place
      BY <1>4, <3>1 DEF ReceiptInv
    <3> QED BY <1>4, <3>1, <3>2, MediaAssumption DEF BytesAt, BytesAccounted, Occupying
  <2> QED BY <2>1, <2>2
<1>13. Placed(m)' => Placed(m)
  BY <1>4, <1>5 DEF Placed, Cleaned
<1> QED BY <1>2, <1>3, <1>4, <1>5, <1>7, <1>8, <1>9, <1>10, <1>11, <1>12, <1>13, RowStep
        DEF MediaTypeOK, Cleaned

LEMMA AbandonStep ==
  ASSUME MediaInv, NEW w \in Worker, Abandon(w)
  PROVE  MediaInv'
<1> USE DEF MediaInv
<1>0. PICK m \in Upload : worker[w].upload = m
  BY WorksOn DEF Abandon, Step
<1>1. /\ UNCHANGED <<object, bytes, preferred, business, complete, backfill, budget>>
      /\ receipt' = [receipt EXCEPT ![m].status = "abandoned"]
      /\ worker[w].stage = "discarded" /\ worker'[w] = After(w) /\ Fits(w)
      /\ \A v \in Worker \ {w} : worker'[v] = worker[v]
      /\ worker' = [worker EXCEPT ![w] = worker'[w]] /\ worker[w] \in Connection
  BY <1>0 DEF Abandon, Step, MediaTypeOK, WorkerInv
<1>2. /\ m # Nothing /\ receipt[m].status \in Cleaned /\ object[m] = "none" /\ receipt[m] \in Receipt
      /\ ~BytesAt(m)
  BY <1>1, <1>0, MediaAssumption DEF Fits, UploadFits, Detached, Connection, ReceiptInv, MediaTypeOK, Cleaned
<1>3. /\ receipt' \in [Upload -> Receipt] /\ receipt'[m].place = receipt[m].place
      /\ \A u \in Upload \ {m} : receipt'[u] = receipt[u]
      /\ receipt'[m].status = "abandoned"
  BY <1>1, <1>2 DEF MediaTypeOK, Receipt
<1>4. Untouched(m) /\ ~BytesAt(m)' /\ ~Placed(m)'
  BY <1>1, <1>2, <1>3 DEF Untouched, BytesAt, Placed
<1>5. worker'[w] \in Connection /\ Fits(w)' /\ \A v \in Worker \ {w} : Apart(w, v)'
  BY <1>1, <1>2, <1>3, <1>4, <1>0, AfterFits DEF Cleaned
<1>6. ASSUME NEW v \in Worker \ {w}, worker[v].upload = m PROVE UploadFits(v)'
  <2>1. Fits(v) /\ Apart(v, w) /\ worker'[v] = worker[v] /\ worker[v].stage \in Stage
    BY <1>1 DEF WorkerInv, MediaTypeOK, Connection
  <2>2. worker[v].stage = "discarding"
    <3>1. worker[v].stage # "discarded"
      BY <1>1, <1>2, <1>6, <1>0, <2>1 DEF Apart
    <3> QED BY <1>2, <1>6, <2>1, <3>1, MediaAssumption DEF Fits, UploadFits, Detached, Stage, Cleaned
  <2> QED BY <1>2, <1>3, <1>6, <2>1, <2>2, MediaAssumption DEF UploadFits, Detached, Cleaned
<1>7. m \notin Referenced
  BY <1>2 DEF Named, ReferencedBytesExist
<1> QED BY <1>1, <1>2, <1>3, <1>4, <1>5, <1>6, <1>7, RowStep DEF MediaTypeOK, Cleaned

LEMMA ClaimStep ==
  ASSUME MediaInv, NEW w \in Worker, Claim(w)
  PROVE  MediaInv'
<1> USE DEF MediaInv
<1>0. PICK m \in worker[w].todo :
        LET rest == worker[w].todo \ {m} IN
        /\ MediaRowFree(m, w)
        /\ IF Deletable(m)
           THEN /\ object' = [object EXCEPT ![m] = "deleting"]
                /\ Step(w, "sweeping", [At(w, "claimed") EXCEPT !.upload = m, !.todo = rest])
           ELSE /\ UNCHANGED object
                /\ Step(w, "sweeping", [At(w, "sweeping") EXCEPT !.todo = rest])
  BY DEF Claim
<1>1. /\ UNCHANGED <<receipt, bytes, preferred, business, complete, backfill, budget>>
      /\ worker[w].stage = "sweeping" /\ worker[w] \in Connection /\ Fits(w) /\ m \in Upload
      /\ m # Nothing
  BY <1>0, MediaAssumption DEF Claim, Step, MediaTypeOK, WorkerInv, Connection
<1>2. /\ worker'[w] = IF Deletable(m)
                      THEN [At(w, "claimed") EXCEPT !.upload = m, !.todo = worker[w].todo \ {m}]
                      ELSE [At(w, "sweeping") EXCEPT !.todo = worker[w].todo \ {m}]
      /\ worker' = [worker EXCEPT ![w] = worker'[w]]
      /\ \A v \in Worker \ {w} : worker'[v] = worker[v]
  BY <1>0 DEF Step, MediaTypeOK
<1>3. /\ worker'[w].stage = IF Deletable(m) THEN "claimed" ELSE "sweeping"
      /\ worker'[w].upload = IF Deletable(m) THEN m ELSE worker[w].upload
      /\ worker'[w].then = worker[w].then /\ worker'[w].todo = worker[w].todo \ {m}
      /\ worker'[w].inTx = worker[w].inTx /\ worker'[w].uploads = worker[w].uploads
      /\ worker'[w].wanted = worker[w].wanted /\ worker'[w].locked = worker[w].locked
      /\ worker'[w] \in Connection
  <2>1. CASE Deletable(m)
    <3>1. worker'[w] = [[worker[w] EXCEPT !.stage = "claimed"]
                          EXCEPT !.upload = m, !.todo = worker[w].todo \ {m}]
      BY <1>2, <2>1 DEF At
    <3> QED BY <1>1, <2>1, <3>1 DEF Connection, Stage
  <2>2. CASE ~Deletable(m)
    <3>1. worker'[w] = [[worker[w] EXCEPT !.stage = "sweeping"] EXCEPT !.todo = worker[w].todo \ {m}]
      BY <1>2, <2>2 DEF At
    <3> QED BY <1>1, <2>2, <3>1 DEF Connection, Stage
  <2> QED BY <2>1, <2>2
<1>4. \A v \in Worker \ {w} : Apart(w, v)'
  BY <1>1, <1>2, <1>3, ApartKept DEF Own
<1>5. worker[w].upload = Nothing /\ ~worker[w].inTx
  BY <1>1 DEF Fits, UploadFits, TxFits, Detached
<1>6. TodoFits(w)' /\ TxFits(w)' /\ HeldFits(w)'
  BY <1>1, <1>3, <1>5 DEF Fits, TodoFits, TxFits, HeldFits, Entered
<1>7. CASE ~Deletable(m)
  <2>1. UploadFits(w)'
    BY <1>3, <1>5, <1>7 DEF UploadFits, Detached
  <2> QED BY <1>0, <1>1, <1>2, <1>3, <1>4, <1>6, <1>7, <2>1, QuietStep DEF Fits, storage, MediaTypeOK
<1>8. CASE Deletable(m)
  <2>1. /\ object' = [object EXCEPT ![m] = "deleting"] /\ receipt[m].status = "finalized"
        /\ ~HasLiveReferences(m) /\ m \in complete
    BY <1>0, <1>1, <1>8 DEF Deletable, ReceiptInv
  <2>2. Untouched(m) /\ object' \in [Upload -> {"none", "active", "deleting", "delete_failed"}]
        /\ object'[m] = "deleting"
    BY <1>1, <2>1 DEF Untouched, MediaTypeOK
  <2>3. m \notin Referenced
    <3>1. ASSUME NEW e \in Entry, NEW s \in Slot, field[e][s] = m PROVE FALSE
      <4>1. holding[e][s] = m
        BY <2>1, <3>1 DEF Named, OpenGateKnowsHolders
      <4> QED BY <2>1, <4>1 DEF HasLiveReferences
    <3> QED BY <2>1, <3>1 DEF HasLiveReferences, Referenced
  <2>4. UploadFits(w)'
    BY <1>1, <1>3, <1>8, <2>1 DEF UploadFits, Detached
  <2>5. ASSUME NEW v \in Worker \ {w}, worker[v].upload = m PROVE UploadFits(v)'
    <3>1. Fits(v) /\ worker'[v] = worker[v] /\ worker[v].stage # "erased"
      BY <1>0, <1>2, <2>5 DEF WorkerInv, MediaRowFree
    <3> QED BY <1>1, <2>1, <2>5, <3>1 DEF Fits, UploadFits, Cleaned
  <2> QED BY <1>0, <1>1, <1>2, <1>3, <1>4, <1>6, <2>1, <2>2, <2>3, <2>4, <2>5, RowStep
          DEF Fits, MediaTypeOK, Placed, Cleaned
<1> QED BY <1>7, <1>8

LEMMA EraseStep ==
  ASSUME MediaInv, NEW w \in Worker, Erase(w)
  PROVE  MediaInv'
<1> USE DEF MediaInv
<1>0. PICK m \in Upload : worker[w].upload = m
  BY WorksOn DEF Erase
<1> DEFINE due == object[m] = "deleting" /\ Deletable(m)
<1>1. PICK failed \in BOOLEAN :
        /\ MayFault(failed) /\ (failed => due)
        /\ Step(w, "claimed", IF due /\ ~failed THEN At(w, "erased")
                              ELSE [At(w, "sweeping") EXCEPT !.upload = Nothing])
        /\ bytes' = IF due /\ ~failed THEN [bytes EXCEPT ![receipt[m].place] = Nothing] ELSE bytes
        /\ object' = IF due /\ failed THEN [object EXCEPT ![m] = "delete_failed"] ELSE object
  BY <1>0 DEF Erase
<1>2. /\ UNCHANGED <<receipt, preferred, business, complete, backfill>> /\ MediaRowFree(m, w)
      /\ worker[w].stage = "claimed" /\ worker[w] \in Connection /\ Fits(w)
      /\ budget' \in 0..MaxFaults
  BY <1>0, <1>1, BudgetKept DEF Erase, MediaTypeOK, WorkerInv
<1>3. /\ \A v \in Worker \ {w} : worker'[v] = worker[v]
      /\ worker' = [worker EXCEPT ![w] = worker'[w]]
      /\ worker'[w] = IF due /\ ~failed THEN At(w, "erased")
                      ELSE [At(w, "sweeping") EXCEPT !.upload = Nothing]
  BY <1>1 DEF Step, MediaTypeOK
<1>4. m # Nothing /\ receipt[m].status = "finalized" /\ Placed(m) /\ ~worker[w].inTx
  BY <1>0, <1>2, MediaAssumption DEF Fits, UploadFits, TxFits, Placed
<1>5. receipt[m].place \in Place
  BY <1>4, OwnPlace
<1>6. /\ Untouched(m) /\ bytes' \in [Place -> Upload \cup {Nothing}]
      /\ object' \in [Upload -> {"none", "active", "deleting", "delete_failed"}]
  BY <1>1, <1>2, <1>4, <1>5 DEF Untouched, MediaTypeOK
<1>7. /\ worker'[w].stage = IF due /\ ~failed THEN "erased" ELSE "sweeping"
      /\ worker'[w].upload = IF due /\ ~failed THEN m ELSE Nothing
      /\ worker'[w].then = worker[w].then /\ worker'[w].todo = worker[w].todo
      /\ worker'[w].inTx = worker[w].inTx /\ worker'[w].uploads = worker[w].uploads
      /\ worker'[w].wanted = worker[w].wanted /\ worker'[w].locked = worker[w].locked
      /\ worker'[w] \in Connection
  <2>1. CASE due /\ ~failed
    BY <1>0, <1>2, <1>3, <2>1 DEF At, Connection, Stage
  <2>2. CASE ~(due /\ ~failed)
    <3>1. worker'[w] = [[worker[w] EXCEPT !.stage = "sweeping"] EXCEPT !.upload = Nothing]
      BY <1>3, <2>2 DEF At
    <3> QED BY <1>2, <2>2, <3>1 DEF Connection, Stage
  <2> QED BY <2>1, <2>2
<1>8. Fits(w)'
  <2>1. UploadFits(w)'
    BY <1>1, <1>2, <1>4, <1>5, <1>7 DEF UploadFits, Detached, BytesAt, MediaTypeOK
  <2>2. TodoFits(w)'
    BY <1>2, <1>6, <1>7, TodoKept
  <2>3. TxFits(w)' /\ HeldFits(w)'
    BY <1>2, <1>4, <1>7 DEF Fits, TxFits, HeldFits, Entered
  <2> QED BY <2>1, <2>2, <2>3 DEF Fits
<1>9. ASSUME NEW v \in Worker \ {w} PROVE Apart(w, v)'
  <2>1. ~(worker[v].upload = m /\ worker[v].stage = "erased")
    BY <1>2 DEF MediaRowFree
  <2> QED BY <1>3, <1>4, <1>7, <2>1 DEF Apart, Own
<1>10. ASSUME NEW v \in Worker \ {w}, worker[v].upload = m PROVE UploadFits(v)'
  <2>1. Fits(v) /\ worker'[v] = worker[v] /\ worker[v].stage # "erased"
    BY <1>2, <1>3, <1>10 DEF WorkerInv, MediaRowFree
  <2> QED BY <1>2, <1>4, <1>10, <2>1 DEF Fits, UploadFits, Cleaned
<1>11. m \in Referenced => object'[m] = object[m] /\ BytesAt(m)' = BytesAt(m)
  <2>1. m \in Referenced => ~due
    BY DEF Named, ReferencedBytesExist
  <2> QED BY <1>1, <1>2, <2>1 DEF BytesAt
<1>12. BytesAt(m)' => object'[m] # "none"
  <2>1. CASE due
    BY <1>1, <2>1 DEF MediaTypeOK
  <2>2. CASE ~due
    BY <1>1, <1>2, <1>4, <1>5, <2>2 DEF BytesAt, BytesAccounted, Occupying
  <2> QED BY <2>1, <2>2
<1> QED BY <1>2, <1>3, <1>4, <1>6, <1>7, <1>8, <1>9, <1>10, <1>11, <1>12, RowStep
        DEF MediaTypeOK

LEMMA RemoveRowStep ==
  ASSUME MediaInv, NEW w \in Worker, RemoveRow(w)
  PROVE  MediaInv'
<1> USE DEF MediaInv
<1>0. PICK m \in Upload : worker[w].upload = m
  BY WorksOn DEF RemoveRow, Step
<1>1. /\ UNCHANGED <<receipt, bytes, preferred, business, backfill, budget>>
      /\ object' = [object EXCEPT ![m] = "none"] /\ complete' = complete \ {m}
      /\ worker[w].stage = "erased" /\ worker[w] \in Connection /\ Fits(w)
      /\ \A v \in Worker \ {w} : worker'[v] = worker[v]
      /\ worker' = [worker EXCEPT ![w] = worker'[w]]
      /\ worker'[w] = [[worker[w] EXCEPT !.stage = "sweeping"] EXCEPT !.upload = Nothing]
  BY <1>0 DEF RemoveRow, Step, At, MediaTypeOK, WorkerInv
<1>2. /\ m # Nothing /\ receipt[m].status = "finalized" /\ object[m] = "deleting" /\ ~BytesAt(m)
      /\ ~worker[w].inTx
  BY <1>0, <1>1, MediaAssumption DEF Fits, UploadFits, TxFits
<1>3. /\ Untouched(m) /\ ~BytesAt(m)' /\ object'[m] = "none"
      /\ object' \in [Upload -> {"none", "active", "deleting", "delete_failed"}]
  BY <1>1, <1>2 DEF Untouched, BytesAt, MediaTypeOK
<1>4. /\ worker'[w].stage = "sweeping" /\ worker'[w].upload = Nothing
      /\ worker'[w].then = worker[w].then /\ worker'[w].todo = worker[w].todo
      /\ worker'[w].inTx = worker[w].inTx /\ worker'[w].uploads = worker[w].uploads
      /\ worker'[w].wanted = worker[w].wanted /\ worker'[w] \in Connection
  BY <1>1 DEF Connection, Stage
<1>5. Fits(w)' /\ \A v \in Worker \ {w} : Apart(w, v)'
  <2>1. UploadFits(w)' /\ TxFits(w)' /\ HeldFits(w)'
    BY <1>1, <1>2, <1>4 DEF Fits, UploadFits, TxFits, HeldFits, Detached, Entered
  <2>2. TodoFits(w)'
    BY <1>1, <1>3, <1>4, TodoKept
  <2>3. \A v \in Worker \ {w} : Apart(w, v)'
    BY <1>1, <1>4, ApartKept DEF Own
  <2> QED BY <2>1, <2>2, <2>3 DEF Fits
<1>6. ASSUME NEW v \in Worker \ {w}, worker[v].upload = m PROVE UploadFits(v)'
  <2>1. Fits(v) /\ Apart(v, w) /\ worker'[v] = worker[v]
    BY <1>1 DEF WorkerInv
  <2>2. worker[v].stage # "erased"
    BY <1>0, <1>1, <1>2, <1>6, <2>1 DEF Apart
  <2> QED BY <1>1, <1>2, <1>6, <2>1, <2>2 DEF Fits, UploadFits, Cleaned
<1>7. m \notin Referenced
  BY <1>2 DEF Named, ReferencedBytesExist
<1> QED BY <1>1, <1>2, <1>3, <1>4, <1>5, <1>6, <1>7, RowStep
        DEF MediaTypeOK, Placed, Cleaned

-----------------------------------------------------------------------------
(* A new receipt, the end of a business transaction, a deleted entry.         *)

LEMMA ReserveStep ==
  ASSUME MediaInv, NEW w \in Worker, Reserve(w)
  PROVE  MediaInv'
<1> USE DEF MediaInv
<1>1. PICK k \in IF worker[w].key = Nothing THEN Key ELSE {worker[w].key} :
        LET free == {b \in Candidates(worker[w].tried) : ~Occupied(<<b, k>>)} IN
        IF free = {} \/ Fresh = {}
        THEN Step(w, "reserving", Idle) /\ UNCHANGED storage
        ELSE \E u \in Fresh, b \in free :
               /\ receipt' = [receipt EXCEPT ![u] = [status |-> "pending", place |-> <<b, k>>]]
               /\ preferred' = b
               /\ Step(w, "reserving", [At(w, "writing") EXCEPT !.upload = u, !.key = k])
               /\ UNCHANGED <<object, bytes>>
  BY DEF Reserve
<1> DEFINE free == {b \in Candidates(worker[w].tried) : ~Occupied(<<b, k>>)}
<1>2. /\ UNCHANGED <<business, complete, backfill, budget>> /\ worker[w].stage = "reserving"
      /\ worker[w] \in Connection /\ Fits(w) /\ k \in Key
  <2>1. UNCHANGED <<business, complete, backfill, budget>> /\ worker[w].stage = "reserving"
    BY DEF Reserve
  <2>2. worker[w] \in Connection /\ Fits(w)
    BY DEF MediaTypeOK, WorkerInv
  <2>3. k \in Key
    BY <1>1, <2>2 DEF Connection
  <2> QED BY <2>1, <2>2, <2>3
<1>3. CASE free = {} \/ Fresh = {}
  <2>1. worker' = [worker EXCEPT ![w] = Idle] /\ UNCHANGED storage
    BY <1>1, <1>3 DEF Step
  <2>2. budget' \in 0..MaxFaults
    BY <1>2 DEF MediaTypeOK
  <2> HIDE DEF MediaInv
  <2> QED BY <1>2, <2>1, <2>2, BackToIdle
<1>4. CASE ~(free = {} \/ Fresh = {})
  <2>1. PICK u \in Fresh, b \in free :
               /\ receipt' = [receipt EXCEPT ![u] = [status |-> "pending", place |-> <<b, k>>]]
               /\ preferred' = b
               /\ Step(w, "reserving", [At(w, "writing") EXCEPT !.upload = u, !.key = k])
               /\ UNCHANGED <<object, bytes>>
    BY <1>1, <1>4
  <2>2. /\ u \in Upload /\ u # Nothing /\ receipt[u].status = "none" /\ object[u] = "none"
        /\ b \in Backend /\ <<b, k>> \in Place /\ ~Occupied(<<b, k>>)
    BY <1>2, MediaAssumption DEF Fresh, Candidates, Place, MediaTypeOK, ReceiptInv
  <2>3. /\ receipt' \in [Upload -> Receipt]
        /\ receipt'[u].status = "pending" /\ receipt'[u].place = <<b, k>>
        /\ \A v \in Upload \ {u} : receipt'[v] = receipt[v]
    BY <2>1, <2>2 DEF MediaTypeOK, Receipt, Occupying
  <2>4. /\ worker' = [worker EXCEPT ![w] = worker'[w]]
        /\ \A v \in Worker \ {w} : worker'[v] = worker[v]
        /\ worker'[w] = [[worker[w] EXCEPT !.stage = "writing"] EXCEPT !.upload = u, !.key = k]
    BY <2>1 DEF Step, At, MediaTypeOK
  <2>5. /\ worker'[w].stage = "writing" /\ worker'[w].upload = u
        /\ worker'[w].then = worker[w].then /\ worker'[w].todo = worker[w].todo
        /\ worker'[w].inTx = worker[w].inTx /\ worker'[w].uploads = worker[w].uploads
        /\ worker'[w].wanted = worker[w].wanted /\ worker'[w].locked = worker[w].locked
        /\ worker'[w] \in Connection
    BY <1>2, <2>2, <2>4 DEF Connection, Stage
  <2>6. MediaTypeOK'
    BY <1>2, <2>1, <2>2, <2>3, <2>4, <2>5 DEF MediaTypeOK, business
  <2>7. ReceiptInv'
    <3>1. \A v \in Upload : Placed(v) => receipt[v].place # <<b, k>>
      BY <2>2 DEF Occupied, Placed
    <3> QED BY <2>1, <2>2, <2>3, <3>1 DEF ReceiptInv, Placed
  <2>8. BytesAccounted'
    BY <2>1, <2>2, <2>3 DEF BytesAccounted, MediaTypeOK, Occupying
  <2>9. \A v \in Upload \ {u} : BytesAt(v)' = BytesAt(v)
    BY <2>1, <2>3 DEF BytesAt
  <2>10. Named'
    <3>1. u \notin Referenced
      BY <2>2 DEF Named, ReferencedBytesExist
    <3>2. \A v \in Referenced : object'[v] = object[v] /\ BytesAt(v)' = BytesAt(v)
      BY <2>1, <2>9, <3>1 DEF Referenced
    <3> QED BY <1>2, <3>2, NamedKept DEF business
  <2>11. \A v \in Worker \ {w} : worker[v].upload # u
    BY <2>2 DEF WorkerInv, Fits, UploadFits, MediaTypeOK, Connection, Stage, Detached, Cleaned
  <2>12. \A v \in Worker \ {w} : Fits(v)'
    BY <2>1, <2>2, <2>3, <2>4, <2>9, <2>11, OthersFit DEF Cleaned
  <2>13. Fits(w)'
    <3>1. UploadFits(w)'
      BY <2>2, <2>3, <2>5 DEF UploadFits, Detached
    <3>2. TodoFits(w)' /\ TxFits(w)'
      BY <1>2, <2>2, <2>3, <2>5 DEF Fits, TodoFits, TxFits, Entered, Connection, Cleaned
    <3>3. HeldFits(w)'
      <4>1. ASSUME NEW s \in Slot, worker[w].inTx, worker[w].wanted[s] # Nothing
            PROVE  /\ worker[w].wanted[s] \in worker[w].locked
                   /\ object[worker[w].wanted[s]] \in {"active", "delete_failed"}
                   /\ BytesAt(worker[w].wanted[s])'
        <5>0. PICK x \in Upload : worker[w].wanted[s] = x
          BY <1>2, <4>1 DEF Connection
        <5>1. x \in worker[w].locked /\ object[x] \in {"active", "delete_failed"} /\ BytesAt(x)
          BY <1>2, <4>1, <5>0 DEF Fits, HeldFits
        <5>2. x # u
          BY <2>2, <5>1
        <5>3. BytesAt(x)'
          BY <2>9, <5>1, <5>2
        <5> QED BY <2>5, <5>0, <5>1, <5>3 DEF BytesAt
      <4> QED BY <2>1, <2>5, <4>1 DEF HeldFits
    <3> QED BY <3>1, <3>2, <3>3 DEF Fits
  <2>14. \A v \in Worker \ {w} : Apart(w, v)'
    BY <1>2, <2>4, <2>5, <2>11 DEF WorkerInv, Apart
  <2> QED BY <2>4, <2>6, <2>7, <2>8, <2>10, <2>12, <2>13, <2>14, WorkersFit
<1> QED BY <1>3, <1>4

LEMMA CommitStep ==
  ASSUME MediaInv, NEW w \in Worker, Commit(w)
  PROVE  MediaInv'
<1> USE DEF MediaInv
<1>1. /\ worker[w].stage = "saving" /\ UNCHANGED <<bytes, preferred, backfill>>
      /\ worker[w] \in Connection /\ Fits(w) /\ budget' \in 0..MaxFaults
  BY BudgetKept DEF Commit, Step, ApplyTransaction, MediaTypeOK, WorkerInv
<1>0. PICK e \in Entry \cup {Nothing}, u \in Upload \cup {Nothing},
           wanted \in [Slot -> Upload \cup {Nothing}] :
        worker[w].row = e /\ worker[w].upload = u /\ worker[w].wanted = wanted
  BY <1>1 DEF Connection, Row
<1>1a. PICK held \in SUBSET Upload, final \in [Slot -> Upload \cup {Nothing}] :
         /\ held = worker[w].locked \cap {wanted[s] : s \in Slot}
         /\ final = FinalFields(w)
         /\ \A s \in Slot : final[s] \in {u, wanted[s]}
  <2>1. worker[w].locked \cap {wanted[s] : s \in Slot} \in SUBSET Upload
    BY <1>1 DEF Connection
  <2>2. /\ FinalFields(w) \in [Slot -> Upload \cup {Nothing}]
        /\ \A s \in Slot : FinalFields(w)[s] \in {u, wanted[s]}
    BY <1>0 DEF FinalFields
  <2> QED BY <2>1, <2>2
<1>2. /\ object' = [m \in Upload |-> IF m = u \/ (m \in held /\ object[m] = "delete_failed")
                                     THEN "active" ELSE object[m]]
      /\ receipt' = IF u = Nothing THEN receipt ELSE [receipt EXCEPT ![u].status = "finalized"]
      /\ complete' = IF u = Nothing THEN complete ELSE complete \cup {u}
      /\ IF e = Nothing
         THEN avatar' = u /\ UNCHANGED <<field, holding>>
         ELSE /\ field' = [field EXCEPT ![e] = final]
              /\ holding' = [holding EXCEPT ![e] = final]
              /\ UNCHANGED avatar
  BY <1>0, <1>1a DEF Commit, ApplyTransaction
<1>3. /\ e \in Entry \cup {Nothing} /\ u \in Upload \cup {Nothing}
      /\ wanted \in [Slot -> Upload \cup {Nothing}] /\ worker[w].inTx
      /\ u # Nothing => receipt[u].status = "pending" /\ object[u] = "none" /\ BytesAt(u)
      /\ worker[w].uploads <=> u # Nothing
  BY <1>0, <1>1 DEF Connection, Row, Fits, UploadFits, TxFits, ReceiptInv
<1>4. final \in [Slot -> Upload \cup {Nothing}] /\ \A s \in Slot : final[s] \in {u, wanted[s]}
  BY <1>1a
<1>5. /\ receipt' \in [Upload -> Receipt]
      /\ \A x \in Upload : receipt'[x].place = receipt[x].place
      /\ \A x \in Upload : x # u => receipt'[x] = receipt[x]
      /\ u # Nothing => receipt'[u].status = "finalized"
  BY <1>2, <1>3 DEF MediaTypeOK, Receipt, Occupying
<1>6. \A x \in Upload :
        /\ BytesAt(x)' = BytesAt(x)
        /\ x # u /\ object[x] # "delete_failed" => object'[x] = object[x]
        /\ x # u /\ object[x] = "delete_failed" => object'[x] \in {"active", "delete_failed"}
        /\ x = u => object'[x] = "active"
        /\ x \in held /\ object[x] = "delete_failed" => object'[x] = "active"
  BY <1>1, <1>2, <1>5 DEF BytesAt
<1>7. PICK answered \in BOOLEAN :
        Step(w, "saving", IF answered
                          THEN [Idle EXCEPT !.stage = "sweeping", !.todo = Released(w)]
                          ELSE [Idle EXCEPT !.stage = "unwinding", !.upload = u])
  BY <1>0 DEF Commit
<1>8. Released(w) \subseteq Upload
  BY <1>0, <1>3 DEF Released, OldMedia, MediaTypeOK, Slot
<1>9. /\ worker' = [worker EXCEPT ![w] = worker'[w]] /\ worker'[w] \in Connection
      /\ \A v \in Worker \ {w} : worker'[v] = worker[v]
      /\ worker'[w].stage = IF answered THEN "sweeping" ELSE "unwinding"
      /\ worker'[w].upload = IF answered THEN Nothing ELSE u
      /\ worker'[w].then = "idle" /\ ~worker'[w].inTx /\ ~worker'[w].uploads
  <2>0. /\ worker' = [worker EXCEPT ![w] = worker'[w]]
        /\ \A v \in Worker \ {w} : worker'[v] = worker[v]
        /\ worker'[w] = IF answered THEN [Idle EXCEPT !.stage = "sweeping", !.todo = Released(w)]
                        ELSE [Idle EXCEPT !.stage = "unwinding", !.upload = u]
    BY <1>7 DEF Step, MediaTypeOK
  <2>1. CASE answered
    <3>1. PICK released \in SUBSET Upload : Released(w) = released
      BY <1>8
    <3>2. worker'[w] = [Idle EXCEPT !.stage = "sweeping", !.todo = released]
      BY <2>0, <2>1, <3>1
    <3>3. worker'[w] \in Connection
      BY <3>2, IdleIsConnection DEF Connection, Stage
    <3> QED BY <2>0, <2>1, <3>2, <3>3, IdleIsConnection DEF Idle, Connection
  <2>2. CASE ~answered
    <3>1. worker'[w] = [Idle EXCEPT !.stage = "unwinding", !.upload = u]
      BY <2>0, <2>2
    <3>2. worker'[w] \in Connection
      BY <1>3, <3>1, IdleIsConnection DEF Connection, Stage
    <3> QED BY <2>0, <2>2, <3>1, <3>2, IdleIsConnection DEF Idle, Connection
  <2> QED BY <2>1, <2>2
<1>10. MediaTypeOK'
  <2>1. object' \in [Upload -> {"none", "active", "deleting", "delete_failed"}]
    BY <1>2 DEF MediaTypeOK
  <2>2. complete' \subseteq Upload /\ avatar' \in Upload \cup {Nothing}
    BY <1>2, <1>3 DEF MediaTypeOK
  <2>3. /\ field' \in [Entry -> [Slot -> Upload \cup {Nothing}]]
        /\ holding' \in [Entry -> [Slot -> Upload \cup {Nothing}]]
    BY <1>2, <1>3, <1>4 DEF MediaTypeOK
  <2>4. worker' \in [Worker -> Connection]
    BY <1>9 DEF MediaTypeOK
  <2>5. /\ bytes' \in [Place -> Upload \cup {Nothing}] /\ preferred' \in Backend
        /\ backfill' \in Inventory
    BY <1>1 DEF MediaTypeOK
  <2> HIDE DEF MediaInv
  <2> QED BY <1>1, <1>5, <2>1, <2>2, <2>3, <2>4, <2>5 DEF MediaTypeOK
<1>11. ReceiptInv'
  <2>1. \A x \in Upload :
          /\ receipt'[x].status = "none" <=> receipt[x].status = "none"
          /\ object'[x] # "none" => receipt'[x].status = "finalized"
          /\ Placed(x)' => Placed(x)
    BY <1>2, <1>3, <1>5, MediaAssumption DEF ReceiptInv, Placed
  <2> QED BY <1>5, <2>1 DEF ReceiptInv
<1>12. BytesAccounted'
  BY <1>1, <1>3, <1>5, <1>6, MediaAssumption DEF BytesAccounted, MediaTypeOK
<1>13. Named'
  <2>1. \A x \in Referenced : x \in Upload /\ object'[x] = "active" /\ BytesAt(x)' /\ x # u
    <3>1. \A x \in Referenced : x \in Upload /\ object[x] = "active" /\ BytesAt(x) /\ x # u
      BY <1>3, MediaAssumption DEF Named, ReferencedBytesExist, Referenced
    <3> QED BY <1>6, <3>1
  <2>2. \A s \in Slot : final[s] # Nothing => object'[final[s]] = "active" /\ BytesAt(final[s])'
    <3> SUFFICES ASSUME NEW s \in Slot, final[s] # Nothing
                 PROVE  object'[final[s]] = "active" /\ BytesAt(final[s])'
      OBVIOUS
    <3>1. final[s] \in Upload
      BY <1>4
    <3>2. CASE final[s] = u
      BY <1>3, <1>6, <3>1, <3>2
    <3>3. CASE final[s] # u
      <4>1. final[s] = wanted[s]
        BY <1>4, <3>3
      <4>2. final[s] \in held /\ object[final[s]] \in {"active", "delete_failed"} /\ BytesAt(final[s])
        BY <1>0, <1>1a, <1>1, <1>3, <4>1 DEF Fits, HeldFits
      <4> QED BY <1>6, <3>1, <3>3, <4>2
    <3> QED BY <3>2, <3>3
  <2>3. ReferencedBytesExist'
    <3> SUFFICES ASSUME NEW x \in Upload, x \in Referenced'
                 PROVE  object'[x] = "active" /\ BytesAt(x)'
      BY DEF ReferencedBytesExist, Referenced
    <3>1. CASE avatar' = x
      <4>1. x \in Referenced \/ x = u
        BY <1>2, <3>1 DEF Referenced
      <4>2. CASE x \in Referenced
        BY <2>1, <4>2
      <4>3. CASE x = u
        <5>1. u # Nothing
          BY <4>3, MediaAssumption
        <5>2. object'[x] = "active" /\ BytesAt(x)
          BY <1>3, <1>6, <4>3, <5>1
        <5> QED BY <1>6, <5>2
      <4> QED BY <4>1, <4>2, <4>3
    <3>2. ASSUME NEW f \in Entry, NEW s \in Slot, field'[f][s] = x
          PROVE  object'[x] = "active" /\ BytesAt(x)'
      <4>1. CASE e = f
        <5>1. x = final[s]
          BY <1>2, <3>2, <4>1, MediaAssumption DEF MediaTypeOK
        <5> QED BY <2>2, <5>1, MediaAssumption
      <4>2. CASE e # f
        <5>1. x \in Referenced
          BY <1>2, <3>2, <4>2 DEF MediaTypeOK, Referenced
        <5> QED BY <2>1, <5>1
      <4> QED BY <4>1, <4>2
    <3> QED BY <3>1, <3>2 DEF Referenced
  <2>4. \A f \in Entry : \/ field'[f] = field[f] /\ holding'[f] = holding[f]
                         \/ field'[f] = holding'[f]
    BY <1>2 DEF MediaTypeOK
  <2>5. OpenGateKnowsHolders'
    <3> SUFFICES ASSUME NEW x \in complete', NEW f \in Entry, NEW s \in Slot, field'[f][s] = x
                 PROVE  holding'[f][s] = x
      BY DEF OpenGateKnowsHolders
    <3>1. CASE field'[f] = holding'[f]
      BY <3>1
    <3>2. CASE field'[f] = field[f] /\ holding'[f] = holding[f]
      <4>1. x \in Upload /\ (x = u \/ x \in complete)
        BY <1>2, <1>3 DEF MediaTypeOK
      <4>2. x \in Referenced
        BY <3>2, <4>1 DEF Referenced
      <4> QED BY <2>1, <3>2, <4>1, <4>2 DEF Named, OpenGateKnowsHolders
    <3> QED BY <2>4, <3>1, <3>2
  <2>6. HoldingInv' /\ SeenInv'
    BY <1>1, <2>4 DEF Named, HoldingInv, SeenInv, Slot
  <2> QED BY <2>3, <2>5, <2>6 DEF Named
<1>14. \A v \in Worker \ {w} : Fits(v)'
  <2> SUFFICES ASSUME NEW v \in Worker \ {w} PROVE Fits(v)'
    OBVIOUS
  <2>1. /\ Fits(v) /\ worker'[v] = worker[v] /\ worker[v] \in Connection
        /\ ~worker[v].inTx /\ (u # Nothing => worker[v].upload # u)
    BY <1>0, <1>1, <1>3, <1>9, PendingIsAlone DEF WorkerInv, Apart, MediaTypeOK, Own
  <2>2. UploadFits(v)'
    <3>1. CASE worker[v].upload = Nothing
      BY <2>1, <3>1 DEF Fits, UploadFits
    <3>2. CASE worker[v].upload # Nothing
      <4>1. worker[v].upload \in Upload /\ worker[v].upload # u
        BY <2>1, <3>2 DEF Connection
      <4> QED BY <1>5, <1>6, <2>1, <3>2, <4>1 DEF Fits, UploadFits
    <3> QED BY <3>1, <3>2
  <2>3. TodoFits(v)'
    <3>1. \A x \in Upload : receipt[x].status \in Cleaned => receipt'[x].status \in Cleaned
      BY <1>3, <1>5, MediaAssumption DEF Cleaned
    <3>2. worker[v].todo \subseteq Upload /\ TodoFits(v)
      BY <2>1 DEF Fits, Connection
    <3> HIDE DEF MediaInv
    <3> QED BY <2>1, <3>1, <3>2 DEF TodoFits
  <2>4. TxFits(v)' /\ HeldFits(v)'
    BY <2>1 DEF Fits, TxFits, HeldFits
  <2> QED BY <2>2, <2>3, <2>4 DEF Fits
<1>15. Fits(w)'
  BY <1>3, <1>5, <1>9 DEF Fits, UploadFits, TodoFits, TxFits, HeldFits, Detached, Entered
<1>16. \A v \in Worker \ {w} : Apart(w, v)'
  <2>1. CASE answered
    BY <1>9, <2>1, MediaAssumption, ApartKept DEF Own
  <2>2. CASE ~answered
    BY <1>0, <1>1, <1>9, <2>2, ApartKept DEF Own
  <2> QED BY <2>1, <2>2
<1> QED BY <1>9, <1>10, <1>11, <1>12, <1>13, <1>14, <1>15, <1>16, WorkersFit

LEMMA DeleteEntryStep ==
  ASSUME MediaInv, NEW w \in Worker, DeleteEntry(w)
  PROVE  MediaInv'
<1> USE DEF MediaInv
<1>1. PICK e \in Entry :
        /\ field' = [field EXCEPT ![e] = NoSlots]
        /\ holding' = [holding EXCEPT ![e] = NoSlots]
        /\ Step(w, "idle", [Idle EXCEPT !.stage = "sweeping",
                              !.todo = (OldMedia(e) \cup {field[e]["poster_file"]}) \ {Nothing}])
  BY DEF DeleteEntry
<1>2. UNCHANGED <<receipt, object, bytes, preferred, avatar, complete, backfill, budget>>
  BY DEF DeleteEntry, storage
<1>3. PICK released \in SUBSET Upload :
        (OldMedia(e) \cup {field[e]["poster_file"]}) \ {Nothing} = released
  <2>1. (OldMedia(e) \cup {field[e]["poster_file"]}) \ {Nothing} \subseteq Upload
    BY DEF OldMedia, MediaTypeOK, Slot
  <2> QED BY <2>1
<1>4. /\ worker' = [worker EXCEPT ![w] = worker'[w]]
      /\ \A v \in Worker \ {w} : worker'[v] = worker[v]
      /\ worker'[w] = [Idle EXCEPT !.stage = "sweeping", !.todo = released]
  BY <1>1, <1>3 DEF Step, MediaTypeOK
<1>5. /\ worker'[w] \in Connection /\ worker'[w].stage = "sweeping"
      /\ worker'[w].upload = Nothing /\ worker'[w].then = "idle"
      /\ ~worker'[w].inTx /\ ~worker'[w].uploads
  BY <1>4, IdleIsConnection DEF Connection, Stage, Idle
<1>6. NoSlots \in [Slot -> Upload \cup {Nothing}]
  BY DEF NoSlots
<1>7. MediaTypeOK'
  <2>1. /\ field' \in [Entry -> [Slot -> Upload \cup {Nothing}]]
        /\ holding' \in [Entry -> [Slot -> Upload \cup {Nothing}]]
    BY <1>1, <1>6 DEF MediaTypeOK
  <2>2. worker' \in [Worker -> Connection]
    BY <1>4, <1>5 DEF MediaTypeOK
  <2> QED BY <1>2, <2>1, <2>2 DEF MediaTypeOK
<1>8. ReceiptInv' /\ BytesAccounted'
  BY <1>2 DEF ReceiptInv, Placed, BytesAccounted
<1>9. \A f \in Entry, s \in Slot :
        \/ field'[f][s] = field[f][s] /\ holding'[f][s] = holding[f][s]
        \/ field'[f][s] = Nothing /\ holding'[f][s] = Nothing
  BY <1>1 DEF MediaTypeOK, NoSlots
<1>10. Named'
  <2>1. \A x \in Upload : x \in Referenced' => x \in Referenced
    BY <1>2, <1>9, MediaAssumption DEF Referenced
  <2>2. ReferencedBytesExist'
    BY <1>2, <2>1 DEF Named, ReferencedBytesExist, Referenced, BytesAt
  <2>3. OpenGateKnowsHolders' /\ HoldingInv'
    BY <1>2, <1>9 DEF Named, OpenGateKnowsHolders, HoldingInv
  <2>4. SeenInv'
    BY <1>2, <1>9, MediaAssumption DEF Named, SeenInv, Slot
  <2> QED BY <2>2, <2>3, <2>4 DEF Named
<1>11. \A v \in Worker \ {w} : Fits(v)'
  BY <1>2, <1>4 DEF WorkerInv, Fits, UploadFits, TodoFits, TxFits, HeldFits, BytesAt
<1>12. Fits(w)'
  BY <1>5 DEF Fits, UploadFits, TodoFits, TxFits, HeldFits, Detached, Entered
<1>13. \A v \in Worker \ {w} : Apart(w, v)'
  BY <1>4, <1>5, ApartKept DEF Own
<1> QED BY <1>4, <1>7, <1>8, <1>10, <1>11, <1>12, <1>13, WorkersFit

-----------------------------------------------------------------------------
(* The inventory command: reference rows, the gate and its own progress.      *)

LEMMA InventoryKept ==
  ASSUME MediaInv, UNCHANGED <<storage, field, avatar, worker, budget>>,
         complete' \subseteq Upload, holding' \in [Entry -> [Slot -> Upload \cup {Nothing}]],
         backfill' \in Inventory,
         OpenGateKnowsHolders', HoldingInv', SeenInv'
  PROVE  MediaInv'
<1> USE DEF storage
<1>1. MediaTypeOK'
  BY DEF MediaInv, MediaTypeOK
<1>2. ReceiptInv' /\ BytesAccounted' /\ ReferencedBytesExist'
  BY DEF MediaInv, ReceiptInv, Placed, BytesAccounted, Named, ReferencedBytesExist, Referenced, BytesAt
<1>3. WorkerInv'
  BY DEF MediaInv, WorkerInv, Fits, UploadFits, TodoFits, TxFits, HeldFits, Apart, BytesAt
<1> QED BY <1>1, <1>2, <1>3 DEF MediaInv, Named

LEMMA BackfillStep ==
  ASSUME MediaInv, Backfill
  PROVE  MediaInv'
<1> USE DEF storage, business
<1>1. MediaTypeOK /\ Named /\ backfill \in Inventory /\ Media \subseteq Upload
      /\ complete \subseteq Upload /\ holding \in [Entry -> [Slot -> Upload \cup {Nothing}]]
  BY DEF MediaInv, MediaTypeOK, Media
<1>2. CASE BackfillStart
  <2>1. backfill' \in Inventory
        /\ backfill'.stage = "closing"
    <3>1. backfill.left - 1 \in 0..MaxBackfills
      BY <1>1, <1>2, MediaAssumption DEF BackfillStart, Inventory
    <3>2. backfill' = [backfill EXCEPT !.stage = "closing", !.todo = Media, !.left = backfill.left - 1]
      BY <1>2 DEF BackfillStart
    <3> QED BY <1>1, <3>1, <3>2 DEF Inventory
  <2> QED BY <1>1, <1>2, <2>1, InventoryKept
          DEF BackfillStart, Named, OpenGateKnowsHolders, HoldingInv, SeenInv
<1>3. CASE CloseGate
  <2>1. /\ backfill' \in Inventory
        /\ backfill'.stage \in {"closing", "entries"}
    <3>1. \/ \E after \in SUBSET Entry : backfill' = [backfill EXCEPT !.stage = "entries", !.todo = after]
          \/ \E u \in backfill.todo : backfill' = [backfill EXCEPT !.todo = @ \ {u}]
      BY <1>3 DEF CloseGate
    <3>2. backfill.stage = "closing"
      BY <1>3 DEF CloseGate
    <3>3. ASSUME NEW after \in SUBSET Entry,
                 backfill' = [backfill EXCEPT !.stage = "entries", !.todo = after]
          PROVE  backfill' \in Inventory /\ backfill'.stage \in {"closing", "entries"}
      BY <1>1, <3>3 DEF Inventory
    <3>4. ASSUME NEW u \in backfill.todo, backfill' = [backfill EXCEPT !.todo = @ \ {u}]
          PROVE  backfill' \in Inventory /\ backfill'.stage \in {"closing", "entries"}
      BY <1>1, <3>2, <3>4 DEF Inventory
    <3> QED BY <3>1, <3>3, <3>4
  <2>2. complete' \subseteq complete /\ field' = field /\ holding' = holding
    BY <1>3 DEF CloseGate
  <2>3. OpenGateKnowsHolders' /\ HoldingInv' /\ SeenInv'
    BY <1>1, <2>1, <2>2 DEF Named, OpenGateKnowsHolders, HoldingInv, SeenInv
  <2> QED BY <1>1, <1>3, <2>1, <2>2, <2>3, InventoryKept DEF CloseGate
<1>4. CASE BackfillEntry
  <2>1. PICK e \in backfill.todo \cap Entry :
          /\ \A s \in Slot : \/ holding'[e][s] = holding[e][s]
                             \/ holding[e][s] = Nothing /\ holding'[e][s] = field[e][s]
          /\ \A f \in Entry \ {e} : holding'[f] = holding[f]
          /\ holding' \in [Entry -> [Slot -> Upload \cup {Nothing}]]
          /\ backfill' = [backfill EXCEPT !.todo = @ \ {e}]
    <3>1. PICK e \in backfill.todo \cap Entry :
            /\ holding' = [holding EXCEPT ![e] =
                 [s \in Slot |-> IF /\ holding[e][s] = Nothing /\ field[e][s] # Nothing
                                    /\ object[field[e][s]] \in {"active", "delete_failed"}
                                    /\ s # "poster_file" => VerifyNewHolding(field[e][s])
                                 THEN field[e][s] ELSE holding[e][s]]]
            /\ backfill' = [backfill EXCEPT !.todo = @ \ {e}]
      BY <1>4 DEF BackfillEntry
    <3>2. field \in [Entry -> [Slot -> Upload \cup {Nothing}]]
      BY <1>1 DEF MediaTypeOK
    <3> DEFINE row == [s \in Slot |-> IF /\ holding[e][s] = Nothing /\ field[e][s] # Nothing
                                         /\ object[field[e][s]] \in {"active", "delete_failed"}
                                         /\ s # "poster_file" => VerifyNewHolding(field[e][s])
                                      THEN field[e][s] ELSE holding[e][s]]
    <3>3. row \in [Slot -> Upload \cup {Nothing}]
      BY <1>1, <3>2
    <3>4. \A s \in Slot : \/ row[s] = holding[e][s]
                          \/ holding[e][s] = Nothing /\ row[s] = field[e][s]
      OBVIOUS
    <3>5. holding' = [holding EXCEPT ![e] = row]
      BY <3>1
    <3> HIDE DEF row
    <3> QED BY <1>1, <3>1, <3>3, <3>4, <3>5
  <2>2. /\ backfill' \in Inventory
        /\ backfill'.stage = "entries"
    BY <1>1, <1>4, <2>1 DEF BackfillEntry, Inventory
  <2>3. OpenGateKnowsHolders'
    <3> SUFFICES ASSUME NEW x \in complete, NEW f \in Entry, NEW s \in Slot, field[f][s] = x
                 PROVE  holding'[f][s] = x
      BY <1>4 DEF BackfillEntry, OpenGateKnowsHolders
    <3>1. holding[f][s] = x /\ x # Nothing
      BY <1>1, MediaAssumption DEF Named, OpenGateKnowsHolders, MediaTypeOK
    <3> QED BY <2>1, <3>1
  <2>4. HoldingInv' /\ SeenInv'
    BY <1>1, <1>4, <2>1, <2>2 DEF BackfillEntry, Named, HoldingInv, SeenInv
  <2> QED BY <1>1, <1>4, <2>1, <2>2, <2>3, <2>4, InventoryKept DEF BackfillEntry
<1>5. CASE BackfillFinish
  <2>1. /\ backfill' \in Inventory
        /\ backfill'.seen = {eu \in Entry \X Media : field[eu[1]]["custom_poster_url"] = eu[2]}
    BY <1>1, <1>5 DEF BackfillFinish, Inventory
  <2>2. ASSUME NEW e \in Entry, NEW u \in Upload, field[e]["custom_poster_url"] = u
        PROVE  <<e, u>> \in backfill'.seen
    <3>1. u \in Referenced
      BY <2>2 DEF Referenced, Slot
    <3>2. u \in Media
      BY <1>1, <3>1 DEF Named, ReferencedBytesExist, Media
    <3> QED BY <2>1, <2>2, <3>2
  <2>3. SeenInv'
    BY <1>5, <2>2 DEF BackfillFinish, SeenInv, Media
  <2>4. OpenGateKnowsHolders' /\ HoldingInv'
    BY <1>1, <1>5 DEF BackfillFinish, Named, OpenGateKnowsHolders, HoldingInv
  <2> QED BY <1>1, <1>5, <2>1, <2>3, <2>4, InventoryKept DEF BackfillFinish
<1>6. CASE OpenGate
  <2>1. CASE backfill.todo = {}
    <3>1. /\ backfill' \in Inventory
          /\ backfill'.stage = "idle" /\ complete' = complete
      BY <1>1, <1>6, <2>1 DEF OpenGate, Asleep, Inventory
    <3>2. OpenGateKnowsHolders' /\ HoldingInv' /\ SeenInv'
      BY <1>1, <1>6, <3>1 DEF OpenGate, Named, OpenGateKnowsHolders, HoldingInv, SeenInv
    <3> QED BY <1>1, <1>6, <3>1, <3>2, InventoryKept DEF OpenGate
  <2>2. CASE backfill.todo # {}
    <3>1. PICK u \in backfill.todo :
            /\ complete' = IF object[u] \in {"none", "deleting"} THEN complete
                           ELSE IF Inventoried(u) THEN complete \cup {u} ELSE complete \ {u}
            /\ backfill' = [backfill EXCEPT !.todo = @ \ {u}]
      BY <1>6, <2>2 DEF OpenGate
    <3>2. /\ backfill' \in Inventory
          /\ backfill'.stage = "opening" /\ backfill'.seen = backfill.seen
      BY <1>1, <1>6, <3>1 DEF OpenGate, Inventory
    <3>3. ASSUME NEW x \in Upload, x \in complete', NEW e \in Entry, NEW s \in Slot, field[e][s] = x
          PROVE  holding[e][s] = x
      <4>1. CASE x \in complete
        BY <1>1, <3>3, <4>1 DEF Named, OpenGateKnowsHolders
      <4>2. CASE x \notin complete
        <5>1. x = u /\ Inventoried(x)
          BY <3>1, <3>3, <4>2
        <5>2. \/ holding[e][s] = x
              \/ s = "custom_poster_url" /\ <<e, x>> \notin backfill.seen
          BY <3>3, <5>1 DEF Inventoried
        <5> QED BY <1>1, <1>6, <3>3, <5>2 DEF OpenGate, Named, SeenInv
      <4> QED BY <4>1, <4>2
    <3>4. complete' \subseteq Upload
      BY <1>1, <1>6, <3>1 DEF OpenGate, Named, SeenInv
    <3>5. OpenGateKnowsHolders'
      BY <1>6, <3>3, <3>4 DEF OpenGate, OpenGateKnowsHolders
    <3>6. HoldingInv' /\ SeenInv'
      BY <1>1, <1>6, <3>1, <3>2 DEF OpenGate, Named, HoldingInv, SeenInv
    <3> QED BY <1>1, <1>6, <3>2, <3>4, <3>5, <3>6, InventoryKept DEF OpenGate
  <2> QED BY <2>1, <2>2
<1> QED BY <1>2, <1>3, <1>4, <1>5, <1>6 DEF Backfill
-----------------------------------------------------------------------------

LEMMA MediaStep ==
  ASSUME MediaInv, [MediaNext]_vars
  PROVE  MediaInv'
<1>1. CASE Backfill
  BY <1>1, BackfillStep
<1>2. ASSUME NEW w \in Worker, Start(w) PROVE MediaInv'
  BY <1>2, StartStep, DeleteEntryStep DEF Start
<1>3. ASSUME NEW w \in Worker, Proceed(w) PROVE MediaInv'
  BY <1>3, AdmitStep, ReserveStep, WriteStep, CommitStep, MoveStep, MarkReadyStep, DiscardStep,
     AbandonStep, ClaimStep, EraseStep, RemoveRowStep DEF Proceed
<1>4. ASSUME NEW w \in Worker, Kill(w) PROVE MediaInv'
  BY <1>4, MoveStep
<1>5. CASE UNCHANGED vars
  BY <1>5 DEF vars, storage, business, MediaInv, MediaTypeOK, ReceiptInv, Placed, BytesAccounted, Named,
     ReferencedBytesExist, Referenced, OpenGateKnowsHolders, HoldingInv, SeenInv, WorkerInv, Fits,
     UploadFits, TodoFits, TxFits, HeldFits, Apart, BytesAt
<1> QED BY <1>1, <1>2, <1>3, <1>4, <1>5 DEF MediaNext

LEMMA MediaReachable == MediaSpec => []MediaInv
<1>1. MediaInit => MediaInv
  BY InitMedia
<1>2. MediaInv /\ [MediaNext]_vars => MediaInv'
  BY MediaStep
<1> QED BY <1>1, <1>2, PTL DEF MediaSpec

(* Every state the requests and commands reach is of the declared shape.      *)
THEOREM MediaTypes == MediaSpec => []MediaTypeOK
BY MediaReachable, PTL DEF MediaInv

(* What an entry or the avatar names has an active row and stored bytes,      *)
(* whatever cleanups, retries, crashes and inventories run meanwhile: a       *)
(* business transaction verifies what it wants under the row locks it keeps,  *)
(* and a cleanup claims only what nobody is recorded to hold.                 *)
THEOREM NamedBytesExist == MediaSpec => []ReferencedBytesExist
BY MediaReachable, PTL DEF MediaInv, Named

(* An object whose cleanup gate is open has a reference row for every field   *)
(* that names it, also across an inventory that requests overtake.            *)
THEOREM GateKnowsHolders == MediaSpec => []OpenGateKnowsHolders
BY MediaReachable, PTL DEF MediaInv, Named

(* Every stored byte belongs to a row or to a receipt that still counts.      *)
THEOREM NoByteUnaccounted == MediaSpec => []BytesAccounted
BY MediaReachable, PTL DEF MediaInv

LEMMA BytesStep ==
  ASSUME MediaInv, [MediaNext]_vars, NEW p \in Place, bytes[p] # Nothing, bytes'[p] # bytes[p]
  PROVE  bytes'[p] = Nothing /\ bytes[p] \notin Referenced \cup BeingSaved
<1> USE DEF MediaInv
<1>1. PICK w \in Worker : Write(w) \/ Discard(w) \/ Erase(w)
  <2>1. CASE Backfill
    BY <2>1 DEF Backfill, BackfillStart, CloseGate, BackfillEntry, BackfillFinish, OpenGate, storage
  <2>2. ASSUME NEW w \in Worker, Start(w) \/ Kill(w) PROVE FALSE
    BY <2>2 DEF Start, StartEntry, StartAvatar, DeleteEntry, StartRetry, StartReclaim, Kill, storage
  <2>3. ASSUME NEW w \in Worker, Proceed(w) PROVE Write(w) \/ Discard(w) \/ Erase(w)
    BY <2>3 DEF Proceed, Admit, Reserve, Finalize, Commit, ApplyTransaction, Rollback, Unwind, MarkReady,
       Abandon, Retry, Claim, SweepEnds, RemoveRow, storage
  <2>4. ~UNCHANGED vars
    BY DEF vars, storage
  <2> QED BY <2>1, <2>2, <2>3, <2>4 DEF MediaNext
<1>2. PICK m \in Upload : worker[w].upload = m
  BY <1>1, WorksOn DEF Write, Discard, Erase, Own
<1>3. Placed(m) => receipt[m].place \in Place /\ bytes[receipt[m].place] \in {m, Nothing}
  BY OwnPlace
<1>4. ASSUME receipt[m].status # "pending" PROVE m \notin BeingSaved
  BY <1>4, MediaAssumption DEF BeingSaved, WorkerInv, Fits, UploadFits
<1>5. CASE Write(w)
  <2>1. Placed(m)
    BY <1>2, <1>5, MediaAssumption DEF Write, Placed, WorkerInv, Fits, UploadFits
  <2>2. bytes' = bytes \/ bytes' = [bytes EXCEPT ![receipt[m].place] = m]
    BY <1>2, <1>5 DEF Write
  <2> QED BY <1>3, <2>1, <2>2 DEF MediaTypeOK
<1>6. CASE Discard(w)
  <2>1. /\ receipt[m].status \in {"cleanup_ready", "cleanup_failed"} /\ object[m] = "none"
        /\ bytes' = [bytes EXCEPT ![receipt[m].place] = Nothing]
    BY <1>2, <1>6 DEF Discard
  <2>2. bytes[p] = m /\ bytes'[p] = Nothing
    BY <1>3, <2>1 DEF MediaTypeOK, Placed
  <2> QED BY <1>4, <2>1, <2>2 DEF Named, ReferencedBytesExist
<1>7. CASE Erase(w)
  <2>1. object[m] = "deleting" /\ bytes' = [bytes EXCEPT ![receipt[m].place] = Nothing]
    BY <1>2, <1>7 DEF Erase
  <2>2. receipt[m].status = "finalized"
    BY <2>1 DEF ReceiptInv
  <2>3. bytes[p] = m /\ bytes'[p] = Nothing
    BY <1>3, <2>1, <2>2 DEF MediaTypeOK, Placed
  <2> QED BY <1>4, <2>1, <2>2, <2>3 DEF Named, ReferencedBytesExist
<1> QED BY <1>1, <1>5, <1>6, <1>7

(* Stored bytes are never overwritten, and deleted only when no field names   *)
(* them and no request is about to commit them: a place belongs to one        *)
(* upload, and the two cleanups look again under the lock they delete under.  *)
THEOREM BytesLeaveOnlyUnused == MediaSpec => BytesLeaveUnused
<1>1. MediaInv /\ [MediaNext]_vars =>
        [\A p \in Place : bytes[p] # Nothing /\ bytes'[p] # bytes[p] =>
           bytes'[p] = Nothing /\ bytes[p] \notin Referenced \cup BeingSaved]_vars
  BY BytesStep
<1> QED BY <1>1, MediaReachable, PTL DEF MediaSpec, BytesLeaveUnused
-----------------------------------------------------------------------------
(* The write limit: what occupies a place on a backend.                       *)

Occupies(u) == object[u] # "none" \/ receipt[u].status \in Occupying
Occupants(b) == {u \in Upload : receipt[u].place[1] = b /\ Occupies(u)}

UsedInv == \A b \in Backend : Used(b) <= Limit

LEMMA UsedCounts ==
  ASSUME NEW b
  PROVE  Used(b) = Cardinality(Occupants(b)) /\ IsFiniteSet(Occupants(b)) /\ Used(b) \in Nat
<1>1. Used(b) = Cardinality(Occupants(b))
  BY DEF Used, Occupants, Occupies
<1>2. IsFiniteSet(Occupants(b))
  BY MediaAssumption, FS_Subset DEF Occupants
<1> QED BY <1>1, <1>2, FS_CardinalityType

\* Only a reservation adds to what is occupied.
LEMMA OnlyReserveAdds ==
  ASSUME MediaInv, [MediaNext]_vars, \A w \in Worker : ~Reserve(w), NEW u \in Upload, Occupies(u)'
  PROVE  receipt'[u].place = receipt[u].place /\ Occupies(u)
<1> USE DEF MediaInv
<1>1. CASE UNCHANGED <<receipt, object>>
  BY <1>1 DEF Occupies
<1>2. CASE ~UNCHANGED <<receipt, object>>
  <2>1. PICK w \in Worker :
          Commit(w) \/ MarkReady(w) \/ Discard(w) \/ Abandon(w) \/ Claim(w) \/ Erase(w) \/ RemoveRow(w)
    <3>1. CASE Backfill
      BY <1>2, <3>1 DEF Backfill, BackfillStart, CloseGate, BackfillEntry, BackfillFinish, OpenGate, storage
    <3>2. ASSUME NEW w \in Worker, Start(w) \/ Kill(w) PROVE FALSE
      BY <1>2, <3>2 DEF Start, StartEntry, StartAvatar, DeleteEntry, StartRetry, StartReclaim, Kill, storage
    <3>3. ASSUME NEW w \in Worker, Admit(w) \/ Write(w) \/ Finalize(w) \/ Rollback(w) \/ Unwind(w)
                                     \/ Retry(w) \/ SweepEnds(w)
          PROVE  FALSE
      BY <1>2, <3>3 DEF Admit, Write, Finalize, Rollback, Unwind, Retry, SweepEnds, storage
    <3>4. ~UNCHANGED vars
      BY <1>2 DEF vars, storage
    <3> QED BY <3>1, <3>2, <3>3, <3>4 DEF MediaNext, Proceed
  <2>2. receipt[u] \in Receipt
    BY DEF MediaTypeOK
  <2>3. CASE Commit(w)
    <3>1. worker[w].upload = Nothing \/ receipt[worker[w].upload].status = "pending"
      BY <2>3 DEF Commit, Step, WorkerInv, Fits, UploadFits
    <3>2. /\ receipt' = IF worker[w].upload = Nothing THEN receipt
                        ELSE [receipt EXCEPT ![worker[w].upload].status = "finalized"]
          /\ object' = [m \in Upload |->
               IF m = worker[w].upload
                  \/ (m \in worker[w].locked \cap {worker[w].wanted[s] : s \in Slot} /\ object[m] = "delete_failed")
               THEN "active" ELSE object[m]]
      BY <2>3 DEF Commit, ApplyTransaction
    <3>3. receipt'[u].place = receipt[u].place /\ (u # worker[w].upload => receipt'[u].status = receipt[u].status)
      BY <2>2, <3>2 DEF MediaTypeOK, Receipt
    <3>4. object'[u] # "none" => object[u] # "none" \/ u = worker[w].upload
      BY <3>2
    <3> QED BY <3>1, <3>3, <3>4, MediaAssumption DEF Occupies, Occupying
  <2>4. CASE ~Commit(w)
    <3>1. PICK m : worker[w].upload = m
      OBVIOUS
    <3>2. /\ \/ receipt' = receipt
             \/ /\ receipt' = [receipt EXCEPT ![m].status = "cleanup_ready"]
                /\ receipt[m].status \notin {"finalized", "abandoned"} /\ MarkReady(w)
             \/ /\ receipt' = [receipt EXCEPT ![m].status = "cleanup_failed"]
                /\ receipt[m].status \in Occupying
             \/ receipt' = [receipt EXCEPT ![m].status = "abandoned"]
          /\ \/ object' = object
             \/ \E x \in Upload : object[x] # "none" /\ object' = [object EXCEPT ![x] = "deleting"]
             \/ object' = [object EXCEPT ![m] = "delete_failed"] /\ object[m] # "none"
             \/ object' = [object EXCEPT ![m] = "none"]
      <4>1. CASE MarkReady(w)
        BY <3>1, <4>1 DEF MarkReady
      <4>2. CASE Discard(w)
        BY <3>1, <4>2 DEF Discard, Occupying
      <4>3. CASE Abandon(w) \/ Erase(w) \/ RemoveRow(w)
        BY <3>1, <4>3 DEF Abandon, Erase, RemoveRow
      <4>4. CASE Claim(w)
        BY <4>4 DEF Claim, Deletable, MediaTypeOK, Connection
      <4> QED BY <2>1, <2>4, <4>1, <4>2, <4>3, <4>4
    <3>3. MarkReady(w) => m \in Upload /\ receipt[m].status \in {"pending", "finalized"}
      BY <3>1, MediaAssumption, WorksOn DEF MarkReady, WorkerInv, Fits, UploadFits, Own
    <3>4. receipt'[u].place = receipt[u].place
          /\ (receipt'[u].status \in Occupying => receipt[u].status \in Occupying)
      <4>1. ASSUME NEW x, receipt' = [receipt EXCEPT ![m].status = x]
            PROVE  /\ receipt'[u].place = receipt[u].place
                   /\ u # m => receipt'[u] = receipt[u]
                   /\ u = m => receipt'[u].status = x
        BY <2>2, <4>1 DEF MediaTypeOK, Receipt
      <4> QED BY <3>2, <3>3, <4>1 DEF Occupying
    <3>5. object'[u] # "none" => object[u] # "none"
      BY <3>2 DEF MediaTypeOK
    <3> QED BY <3>4, <3>5 DEF Occupies
  <2> QED BY <2>3, <2>4
<1> QED BY <1>1, <1>2

LEMMA UsedStep ==
  ASSUME MediaInv, UsedInv, [MediaNext]_vars
  PROVE  UsedInv'
<1> SUFFICES ASSUME NEW b \in Backend PROVE Used(b)' <= Limit
  BY DEF UsedInv
<1>1. Used(b)' = Cardinality(Occupants(b)') /\ Used(b)' \in Nat
  <2>1. Used(b)' = Cardinality(Occupants(b)')
    BY DEF Used, Occupants, Occupies
  <2>2. Occupants(b)' \subseteq Upload
    BY DEF Occupants
  <2> QED BY <2>1, <2>2, MediaAssumption, FS_Subset, FS_CardinalityType
<1>2. CASE \A w \in Worker : ~Reserve(w)
  <2>1. Occupants(b)' \subseteq Occupants(b)
    BY <1>2, OnlyReserveAdds DEF Occupants
  <2>2. Cardinality(Occupants(b)') <= Cardinality(Occupants(b))
    BY <2>1, UsedCounts, FS_Subset
  <2> QED BY <1>1, <2>2, UsedCounts, MediaAssumption DEF UsedInv
<1>3. CASE \E w \in Worker : Reserve(w)
  <2>1. PICK w \in Worker : Reserve(w)
    BY <1>3
  <2>2. CASE UNCHANGED storage
    BY <2>2 DEF UsedInv, Used, storage
  <2>3. CASE ~UNCHANGED storage
    <3>1. PICK u \in Upload, c \in Backend, k \in Key :
            /\ CanTake(c, worker[w].tried) /\ UNCHANGED object
            /\ receipt' = [receipt EXCEPT ![u] = [status |-> "pending", place |-> <<c, k>>]]
      <4>1. worker[w].key \in Key \cup {Nothing} /\ preferred \in Backend
        BY DEF MediaInv, MediaTypeOK, Connection
      <4>2. PICK u \in Fresh, c \in Candidates(worker[w].tried),
                 k \in IF worker[w].key = Nothing THEN Key ELSE {worker[w].key} :
              /\ receipt' = [receipt EXCEPT ![u] = [status |-> "pending", place |-> <<c, k>>]]
              /\ UNCHANGED object
        BY <2>1, <2>3 DEF Reserve
      <4>3. u \in Upload /\ k \in Key
        BY <4>1 DEF Fresh
      <4>4. c \in Backend /\ CanTake(c, worker[w].tried)
        BY <4>1 DEF Candidates
      <4> QED BY <4>2, <4>3, <4>4
    <3>2. receipt'[u].place[1] = c /\ \A x \in Upload \ {u} : receipt'[x] = receipt[x]
      BY <3>1 DEF MediaInv, MediaTypeOK
    <3>3. Occupants(b)' \subseteq IF b = c THEN Occupants(b) \cup {u} ELSE Occupants(b)
      BY <3>1, <3>2 DEF Occupants, Occupies
    <3>4. CASE b = c
      <4>1. /\ IsFiniteSet(Occupants(b) \cup {u})
            /\ Cardinality(Occupants(b) \cup {u}) <= Used(b) + 1
            /\ Cardinality(Occupants(b) \cup {u}) \in Nat
        <5>1. IsFiniteSet(Occupants(b)) /\ Cardinality(Occupants(b)) = Used(b) /\ Used(b) \in Nat
          BY UsedCounts
        <5>2. /\ IsFiniteSet(Occupants(b) \cup {u})
              /\ Cardinality(Occupants(b) \cup {u}) =
                   IF u \in Occupants(b) THEN Cardinality(Occupants(b)) ELSE Cardinality(Occupants(b)) + 1
          BY <5>1, FS_AddElement
        <5> QED BY <5>1, <5>2
      <4>2. Cardinality(Occupants(b)') <= Cardinality(Occupants(b) \cup {u})
        BY <3>3, <3>4, <4>1, FS_Subset
      <4>3. Used(b) + 1 <= Limit
        BY <3>1, <3>4 DEF CanTake
      <4> QED BY <1>1, <4>1, <4>2, <4>3, UsedCounts, MediaAssumption
    <3>5. CASE b # c
      <4>1. Cardinality(Occupants(b)') <= Used(b)
        BY <3>3, <3>5, UsedCounts, FS_Subset
      <4> QED BY <1>1, <4>1, UsedCounts, MediaAssumption DEF UsedInv
    <3> QED BY <3>4, <3>5
  <2> QED BY <2>2, <2>3
<1> QED BY <1>2, <1>3

\* The places with bytes are no more than the uploads that occupy one.
LEMMA BytesAreUsed ==
  ASSUME MediaInv, UsedInv
  PROVE  WithinLimit
<1> SUFFICES ASSUME NEW b \in Backend
             PROVE  Cardinality({k \in Key : bytes[<<b, k>>] # Nothing}) <= Limit
  BY DEF WithinLimit
<1> DEFINE full == {k \in Key : bytes[<<b, k>>] # Nothing}
           owner == [k \in full |-> bytes[<<b, k>>]]
<1>1. ASSUME NEW k \in full
      PROVE  bytes[<<b, k>>] \in Occupants(b) /\ receipt[bytes[<<b, k>>]].place = <<b, k>>
  <2>1. <<b, k>> \in Place /\ bytes[<<b, k>>] \in Upload
    BY DEF Place, MediaInv, MediaTypeOK
  <2> QED BY <2>1 DEF MediaInv, BytesAccounted, Occupants, Occupies
<1>2. owner \in [full -> Occupants(b)] /\ \A j, k \in full : owner[j] = owner[k] => j = k
  <2> HIDE DEF full
  <2>1. owner \in [full -> Occupants(b)]
    BY <1>1
  <2>2. ASSUME NEW j \in full, NEW k \in full, owner[j] = owner[k] PROVE j = k
    <3>1. <<b, j>> = <<b, k>>
      BY <1>1, <2>2
    <3> QED BY <3>1
  <2> QED BY <2>1, <2>2
<1>3. owner \in Injection(full, Occupants(b))
  BY <1>2 DEF Injection, IsInjective
<1>4. IsFiniteSet(full) /\ Cardinality(full) <= Cardinality(Occupants(b))
  BY <1>3, UsedCounts, FS_Injection
<1> QED BY <1>4, UsedCounts, FS_CardinalityType, MediaAssumption DEF UsedInv

LEMMA InitUsed ==
  ASSUME MediaInit, Cardinality(Legacy) <= Limit
  PROVE  UsedInv
<1> SUFFICES ASSUME NEW b \in Backend PROVE Used(b) <= Limit
  BY DEF UsedInv
<1>1. Occupants(b) \subseteq Legacy
  BY DEF MediaInit, Occupants, Occupies, Occupying
<1>2. IsFiniteSet(Legacy)
  BY MediaAssumption, FS_Subset
<1>3. Cardinality(Occupants(b)) <= Cardinality(Legacy) /\ Cardinality(Legacy) \in Nat
  BY <1>1, <1>2, FS_Subset, FS_CardinalityType
<1> QED BY <1>3, UsedCounts, MediaAssumption

(* No backend ever stores more uploads than its write limit, as long as the   *)
(* uploads of the earlier release did not exceed it: a place is charged when  *)
(* it is reserved and released only when its bytes are gone.                  *)
THEOREM LimitKept ==
  ASSUME Cardinality(Legacy) <= Limit
  PROVE  MediaSpec => []WithinLimit
<1>1. MediaInit => UsedInv
  BY InitUsed
<1>2. MediaInv /\ UsedInv /\ [MediaNext]_vars => UsedInv'
  BY UsedStep
<1>3. MediaInv /\ UsedInv => WithinLimit
  BY BytesAreUsed
<1> QED BY <1>1, <1>2, <1>3, MediaReachable, PTL DEF MediaSpec
-----------------------------------------------------------------------------
(* The quota: what an admitted request may add is charged when it is admitted. *)

FieldType == [Entry -> [Slot -> Upload \cup {Nothing}]]
Filled(f) == {es \in Entry \X Slot : f[es[1]][es[2]] # Nothing}
Elsewhere(f, e) == {es \in Entry \X Slot : es[1] # e /\ f[es[1]][es[2]] # Nothing}
Uploads(w) == IF worker[w].uploads THEN 1 ELSE 0

\* What the request of w adds to its entry, and that the quota covers it.
Added(w) == Count(worker[w].wanted) + Uploads(w) - Count(field[worker[w].row])
Charged(w) ==
  worker[w].inTx /\ worker[w].stage # "admitting" /\ worker[w].row # Nothing /\ Added(w) > 0
    => Usage(field) + Added(w) <= Quota

QuotaInv == \A w \in Worker : Charged(w)

LEMMA CountIsNat == \A f : Count(f) \in Nat /\ IsFiniteSet({s \in Slot : f[s] # Nothing})
<1> SUFFICES ASSUME NEW f PROVE Count(f) \in Nat /\ IsFiniteSet({s \in Slot : f[s] # Nothing})
  OBVIOUS
<1>1. IsFiniteSet({"poster_file"} \cup {"custom_poster_url"})
  BY FS_Singleton, FS_Union
<1>2. {s \in Slot : f[s] # Nothing} \subseteq {"poster_file"} \cup {"custom_poster_url"}
  BY DEF Slot
<1>3. IsFiniteSet({s \in Slot : f[s] # Nothing})
  BY <1>1, <1>2, FS_Subset
<1> QED BY <1>3, FS_CardinalityType DEF Count

LEMMA UsageIsNat == \A f : IsFiniteSet(Filled(f)) /\ Usage(f) = Cardinality(Filled(f)) /\ Usage(f) \in Nat
<1> SUFFICES ASSUME NEW f
             PROVE  IsFiniteSet(Filled(f)) /\ Usage(f) = Cardinality(Filled(f)) /\ Usage(f) \in Nat
  OBVIOUS
<1>1. IsFiniteSet(Slot)
  <2>1. IsFiniteSet({"poster_file"} \cup {"custom_poster_url"})
    BY FS_Singleton, FS_Union
  <2>2. Slot = {"poster_file"} \cup {"custom_poster_url"}
    BY DEF Slot
  <2> QED BY <2>1, <2>2
<1>2. IsFiniteSet(Entry \X Slot)
  BY <1>1, MediaAssumption, FS_Product
<1>3. IsFiniteSet(Filled(f))
  BY <1>2, FS_Subset DEF Filled
<1>4. Usage(f) = Cardinality(Filled(f))
  BY DEF Usage, Filled
<1> QED BY <1>3, <1>4, FS_CardinalityType

\* The usage of the owner is that of one entry and that of the others.
LEMMA UsageSplits ==
  ASSUME NEW f, NEW e \in Entry
  PROVE  Usage(f) = Cardinality(Elsewhere(f, e)) + Count(f[e]) /\ Cardinality(Elsewhere(f, e)) \in Nat
<1> DEFINE slots == {s \in Slot : f[e][s] # Nothing}
           mine == {es \in Entry \X Slot : es[1] = e /\ f[es[1]][es[2]] # Nothing}
           pair == [s \in slots |-> <<e, s>>]
<1>1. IsFiniteSet(slots) /\ Cardinality(slots) = Count(f[e]) /\ Count(f[e]) \in Nat
  BY CountIsNat DEF Count
<1>2. pair \in Bijection(slots, mine)
  <2>1. pair \in [slots -> mine]
    OBVIOUS
  <2>2. \A s, t \in slots : pair[s] = pair[t] => s = t
    OBVIOUS
  <2>3. \A es \in mine : \E s \in slots : pair[s] = es
    OBVIOUS
  <2> QED BY <2>1, <2>2, <2>3 DEF Bijection, Injection, Surjection, IsInjective
<1>3. IsFiniteSet(mine) /\ Cardinality(mine) = Count(f[e])
  BY <1>1, <1>2, FS_Bijection DEF ExistsBijection
<1>4. IsFiniteSet(Filled(f)) /\ Usage(f) = Cardinality(Filled(f))
  BY UsageIsNat
<1>5. IsFiniteSet(Elsewhere(f, e)) /\ Cardinality(Elsewhere(f, e)) \in Nat
  <2>1. Elsewhere(f, e) \subseteq Filled(f)
    BY DEF Elsewhere, Filled
  <2> QED BY <1>4, <2>1, FS_Subset, FS_CardinalityType
<1>6. Filled(f) = Elsewhere(f, e) \cup mine /\ Elsewhere(f, e) \cap mine = {}
  BY DEF Filled, Elsewhere
<1>7. Cardinality(Filled(f)) = Cardinality(Elsewhere(f, e)) + Cardinality(mine)
  <2> HIDE DEF mine
  <2>1. Cardinality(Elsewhere(f, e) \cup mine)
          = Cardinality(Elsewhere(f, e)) + Cardinality(mine) - Cardinality(Elsewhere(f, e) \cap mine)
    BY <1>3, <1>5, FS_Union
  <2>2. Cardinality(Elsewhere(f, e) \cap mine) = 0
    BY <1>6, FS_EmptySet
  <2>3. Cardinality(mine) \in Nat
    BY <1>3, FS_CardinalityType
  <2> QED BY <1>5, <1>6, <2>1, <2>2, <2>3
<1> QED BY <1>3, <1>4, <1>5, <1>7

\* Writing one entry changes the usage by what changes in that entry.
LEMMA UsageOfWrite ==
  ASSUME NEW f \in FieldType, NEW e \in Entry, NEW row
  PROVE  /\ Usage([f EXCEPT ![e] = row]) = Usage(f) + Count(row) - Count(f[e])
         /\ Usage(f) \in Nat
<1> DEFINE g == [f EXCEPT ![e] = row]
<1>1. g[e] = row /\ Elsewhere(g, e) = Elsewhere(f, e)
  BY DEF FieldType, Elsewhere
<1>2. /\ Usage(f) = Cardinality(Elsewhere(f, e)) + Count(f[e])
      /\ Usage(g) = Cardinality(Elsewhere(g, e)) + Count(g[e])
      /\ Cardinality(Elsewhere(f, e)) \in Nat
  BY UsageSplits
<1>3. Count(f[e]) \in Nat /\ Count(row) \in Nat
  BY CountIsNat
<1> HIDE DEF g
<1>4. Usage(g) = Usage(f) + Count(row) - Count(f[e]) /\ Usage(f) \in Nat
  BY <1>1, <1>2, <1>3
<1> QED BY <1>4 DEF g
\* Between its admission and its commit a request stays what it is.
SameRequest(w) ==
  worker'[w].inTx =>
    /\ worker[w].inTx /\ worker[w].stage # "admitting"
    /\ worker'[w].row = worker[w].row /\ worker'[w].wanted = worker[w].wanted
    /\ worker'[w].uploads = worker[w].uploads

\* Only a commit and a deletion write the fields, and they hold the owner row.
Quietly(w) == UNCHANGED field \/ \A v \in Worker \ {w} : ~worker[v].inTx

LEMMA ProceedsWithRequest ==
  ASSUME MediaInv, NEW w \in Worker, Proceed(w), ~Admit(w)
  PROVE  SameRequest(w) /\ Quietly(w) /\ \A v \in Worker \ {w} : worker'[v] = worker[v]
<1> USE DEF MediaInv
<1>1. ASSUME NEW stage \in Stage, worker[w].stage # "admitting", worker'[w] = At(w, stage)
      PROVE  SameRequest(w)
  BY <1>1 DEF SameRequest, At, MediaTypeOK, Connection
<1>2. ASSUME worker[w].stage # "admitting", worker'[w] = After(w)
      PROVE  SameRequest(w)
  <2>0. worker[w] \in Connection
    BY DEF MediaTypeOK
  <2>1. CASE worker[w].then \in {"reserving", "retrying"}
    <3>1. \E stage \in Stage : worker'[w] = [[worker[w] EXCEPT !.stage = stage] EXCEPT !.upload = Nothing]
      BY <1>2, <2>1 DEF After, At, Stage
    <3> QED BY <1>2, <2>0, <3>1 DEF SameRequest, Connection
  <2>2. CASE worker[w].then \notin {"reserving", "retrying"}
    BY <1>2, <2>2 DEF SameRequest, After, Idle
  <2> QED BY <2>1, <2>2
<1>3. ASSUME ~worker'[w].inTx PROVE SameRequest(w)
  BY <1>3 DEF SameRequest
<1>4. CASE Reserve(w) \/ Write(w) \/ Finalize(w)
  <2>1. UNCHANGED field /\ worker[w].stage # "admitting"
    BY <1>4 DEF Reserve, Write, Finalize, business
  <2>2. worker[w] \in Connection
    BY DEF MediaTypeOK
  <2>3. CASE Reserve(w)
    <3>1. \/ Step(w, "reserving", Idle)
          \/ \E u, k : Step(w, "reserving", [At(w, "writing") EXCEPT !.upload = u, !.key = k])
      BY <2>3 DEF Reserve, Fresh
    <3>2. CASE Step(w, "reserving", Idle)
      BY <1>3, <2>1, <3>2 DEF Step, Quietly, Idle, MediaTypeOK
    <3>3. ASSUME NEW u, NEW k, Step(w, "reserving", [At(w, "writing") EXCEPT !.upload = u, !.key = k])
          PROVE  SameRequest(w) /\ \A v \in Worker \ {w} : worker'[v] = worker[v]
      <4>1. worker'[w] = [[worker[w] EXCEPT !.stage = "writing"] EXCEPT !.upload = u, !.key = k]
        BY <3>3 DEF Step, At, MediaTypeOK
      <4> QED BY <2>1, <2>2, <3>3, <4>1 DEF Step, SameRequest, Connection, MediaTypeOK
    <3> QED BY <2>1, <3>1, <3>2, <3>3 DEF Quietly
  <2>4. CASE Write(w)
    <3>1. /\ \A v \in Worker \ {w} : worker'[v] = worker[v]
          /\ \/ worker'[w] = [worker[w] EXCEPT !.stage = "finalizing"]
             \/ worker'[w] = [[worker[w] EXCEPT !.stage = "marking"]
                                EXCEPT !.then = "reserving",
                                       !.tried = @ \cup {receipt[worker[w].upload].place[1]}]
             \/ worker'[w] = [[worker[w] EXCEPT !.stage = "marking"] EXCEPT !.then = "rollback"]
      BY <2>4 DEF Write, Step, At, MediaTypeOK
    <3> QED BY <2>1, <2>2, <3>1 DEF SameRequest, Quietly, Connection
  <2>5. CASE Finalize(w)
    <3>1. /\ \A v \in Worker \ {w} : worker'[v] = worker[v]
          /\ \/ worker'[w] = [worker[w] EXCEPT !.stage = "saving"]
             \/ \E x : worker'[w] = [[worker[w] EXCEPT !.stage = "marking"] EXCEPT !.then = x]
      BY <2>5 DEF Finalize, Step, At, MediaTypeOK
    <3> QED BY <2>1, <2>2, <3>1 DEF SameRequest, Quietly, Connection
  <2> QED BY <1>4, <2>3, <2>4, <2>5
<1>5. CASE Commit(w) \/ Rollback(w)
  <2>1. worker[w].inTx
    BY <1>5 DEF Commit, Rollback, Step, WorkerInv, Fits, TxFits
  <2>2. \A v \in Worker \ {w} : ~worker[v].inTx
    BY <2>1 DEF WorkerInv, Apart
  <2>3. ~worker'[w].inTx /\ \A v \in Worker \ {w} : worker'[v] = worker[v]
    BY <1>5 DEF Commit, Rollback, Step, Idle, MediaTypeOK
  <2> QED BY <1>3, <2>2, <2>3 DEF Quietly
<1>6. CASE Unwind(w) \/ Retry(w) \/ Claim(w) \/ SweepEnds(w) \/ Erase(w) \/ RemoveRow(w)
  <2>1. ~worker[w].inTx /\ UNCHANGED field
    BY <1>6 DEF Unwind, Retry, Claim, SweepEnds, Erase, RemoveRow, Step, business, WorkerInv, Fits, TxFits
  <2>2. ~worker'[w].inTx /\ \A v \in Worker \ {w} : worker'[v] = worker[v]
    <3>0. worker[w] \in Connection
      BY DEF MediaTypeOK
    <3>1. CASE Unwind(w) \/ SweepEnds(w)
      <4>1. /\ \A v \in Worker \ {w} : worker'[v] = worker[v]
            /\ \/ worker'[w] = Idle
               \/ worker'[w] = [[worker[w] EXCEPT !.stage = "marking"] EXCEPT !.then = "idle"]
        BY <3>1 DEF Unwind, SweepEnds, Step, At, MediaTypeOK
      <4>2. ~Idle.inTx
        BY DEF Idle
      <4> QED BY <2>1, <3>0, <4>1, <4>2 DEF Connection
    <3>2. CASE Retry(w)
      <4>1. CASE worker[w].todo = {}
        BY <3>2, <4>1 DEF Retry, Step, Idle, MediaTypeOK
      <4>2. CASE worker[w].todo # {}
        <5>1. PICK u \in worker[w].todo :
                Step(w, "retrying", [At(w, "discarding") EXCEPT !.upload = u, !.todo = @ \ {u}])
          BY <3>2, <4>2 DEF Retry
        <5>2. /\ \A v \in Worker \ {w} : worker'[v] = worker[v]
              /\ worker'[w] = [[worker[w] EXCEPT !.stage = "discarding"] EXCEPT !.upload = u, !.todo = @ \ {u}]
          BY <5>1 DEF Step, At, MediaTypeOK
        <5> QED BY <2>1, <3>0, <5>2 DEF Connection
      <4> QED BY <4>1, <4>2
    <3>3. CASE Claim(w)
      <4>0. PICK u \in worker[w].todo :
              \/ Step(w, "sweeping", [At(w, "claimed") EXCEPT !.upload = u, !.todo = worker[w].todo \ {u}])
              \/ Step(w, "sweeping", [At(w, "sweeping") EXCEPT !.todo = worker[w].todo \ {u}])
        BY <3>3 DEF Claim
      <4>1. /\ \A v \in Worker \ {w} : worker'[v] = worker[v]
            /\ \/ worker'[w] = [[worker[w] EXCEPT !.stage = "claimed"]
                                  EXCEPT !.upload = u, !.todo = worker[w].todo \ {u}]
               \/ worker'[w] = [[worker[w] EXCEPT !.stage = "sweeping"] EXCEPT !.todo = worker[w].todo \ {u}]
        BY <4>0 DEF Step, At, MediaTypeOK
      <4> QED BY <2>1, <3>0, <4>1 DEF Connection
    <3>4. CASE Erase(w) \/ RemoveRow(w)
      <4>1. /\ \A v \in Worker \ {w} : worker'[v] = worker[v]
            /\ \/ worker'[w] = [worker[w] EXCEPT !.stage = "erased"]
               \/ \E x : worker'[w] = [[worker[w] EXCEPT !.stage = "sweeping"] EXCEPT !.upload = x]
        BY <3>4 DEF Erase, RemoveRow, Step, At, MediaTypeOK
      <4> QED BY <2>1, <3>0, <4>1 DEF Connection
    <3> QED BY <1>6, <3>1, <3>2, <3>3, <3>4
  <2> QED BY <1>3, <2>1, <2>2 DEF Quietly
<1>7. CASE MarkReady(w) \/ Discard(w) \/ Abandon(w)
  <2>1. /\ UNCHANGED field /\ worker[w].stage # "admitting"
        /\ \A v \in Worker \ {w} : worker'[v] = worker[v]
        /\ worker'[w] = After(w) \/ \E stage \in Stage : worker'[w] = At(w, stage)
    BY <1>7 DEF MarkReady, Discard, Abandon, Step, business, MediaTypeOK, Stage
  <2> QED BY <1>1, <1>2, <2>1 DEF Quietly
<1> QED BY <1>4, <1>5, <1>6, <1>7 DEF Proceed

LEMMA OthersStayCharged ==
  ASSUME QuotaInv, NEW w \in Worker, NEW v \in Worker \ {w}, worker'[v] = worker[v], Quietly(w)
  PROVE  Charged(v)'
BY DEF QuotaInv, Charged, Quietly, Added, Uploads

LEMMA ChargedStep ==
  ASSUME MediaInv, QuotaInv, [MediaNext]_vars
  PROVE  QuotaInv'
<1> USE DEF MediaInv
<1>1. CASE Backfill \/ UNCHANGED vars
  <2>1. UNCHANGED <<worker, field>>
    BY <1>1 DEF Backfill, BackfillStart, CloseGate, BackfillEntry, BackfillFinish, OpenGate, vars, business
  <2> QED BY <2>1 DEF QuotaInv, Charged, Added, Uploads
<1>2. ASSUME NEW w \in Worker, Charged(w)', Quietly(w), \A v \in Worker \ {w} : worker'[v] = worker[v]
      PROVE  QuotaInv'
  BY <1>2, OthersStayCharged DEF QuotaInv
<1>3. ASSUME NEW w \in Worker, Start(w) \/ Kill(w) PROVE QuotaInv'
  <2>1. /\ \A v \in Worker \ {w} : worker'[v] = worker[v]
        /\ worker'[w].stage = "admitting" \/ worker'[w].row = Nothing \/ ~worker'[w].inTx
    <3>1. CASE StartEntry(w)
      BY <3>1 DEF StartEntry, Step, Idle, MediaTypeOK
    <3>2. CASE StartAvatar(w)
      <4>1. PICK uploads \in BOOLEAN :
              Step(w, "idle", [Idle EXCEPT !.stage = IF uploads THEN "reserving" ELSE "saving",
                                           !.uploads = uploads, !.inTx = TRUE])
        BY <3>2 DEF StartAvatar
      <4> QED BY <4>1 DEF Step, Idle, MediaTypeOK
    <3>3. CASE StartRetry(w)
      BY <3>3 DEF StartRetry, Step, Idle, MediaTypeOK
    <3>5. CASE StartReclaim(w)
      BY <3>5 DEF StartReclaim, Step, Idle, MediaTypeOK
    <3>6. CASE Kill(w)
      BY <3>6 DEF Kill, Idle, MediaTypeOK
    <3>4. CASE DeleteEntry(w)
      <4>1. PICK released : Step(w, "idle", [Idle EXCEPT !.stage = "sweeping", !.todo = released])
        BY <3>4 DEF DeleteEntry
      <4> QED BY <4>1 DEF Step, Idle, MediaTypeOK
    <3> QED BY <1>3, <3>1, <3>2, <3>3, <3>4, <3>5, <3>6 DEF Start
  <2>2. Quietly(w)
    BY <1>3 DEF Start, StartEntry, StartAvatar, DeleteEntry, StartRetry, StartReclaim, Kill, Quietly,
       OwnerFree, business
  <2>3. Charged(w)'
    BY <2>1 DEF Charged
  <2> QED BY <1>2, <2>1, <2>2, <2>3
<1>4. ASSUME NEW w \in Worker, Admit(w) PROVE QuotaInv'
  <2>1. UNCHANGED field /\ \A v \in Worker \ {w} : worker'[v] = worker[v]
    BY <1>4 DEF Admit, Step, business, MediaTypeOK
  <2>2. CASE Admitted(w)
    <3>1. /\ worker'[w].row = worker[w].row /\ worker'[w].wanted = worker[w].wanted
          /\ worker'[w].uploads = worker[w].uploads
      BY <1>4, <2>2 DEF Admit, Step, At, MediaTypeOK, Connection
    <3>2. Added(w)' = Added(w)
      BY <2>1, <3>1 DEF Added, Uploads
    <3>3. Added(w) > 0 => Usage(field) + Added(w) <= Quota
      BY <2>2 DEF Admitted, Added, Uploads
    <3>4. Charged(w)'
      BY <2>1, <3>2, <3>3 DEF Charged
    <3> QED BY <1>2, <2>1, <3>4 DEF Quietly
  <2>3. CASE ~Admitted(w)
    <3>1. worker'[w] = Idle
      BY <1>4, <2>3 DEF Admit, Step, MediaTypeOK
    <3>2. Charged(w)'
      BY <3>1 DEF Charged, Idle
    <3> QED BY <1>2, <2>1, <3>2 DEF Quietly
  <2> QED BY <2>2, <2>3
<1>5. ASSUME NEW w \in Worker, Proceed(w), ~Admit(w) PROVE QuotaInv'
  <2>1. SameRequest(w) /\ Quietly(w) /\ \A v \in Worker \ {w} : worker'[v] = worker[v]
    BY <1>5, ProceedsWithRequest
  <2>2. CASE worker'[w].inTx
    <3>1. UNCHANGED field
      <4>1. ~Commit(w)
        BY <2>2 DEF Commit, Step, Idle, MediaTypeOK
      <4> QED BY <1>5, <4>1 DEF Proceed, Reserve, Write, Finalize, Rollback, Unwind, MarkReady, Discard,
                Abandon, Retry, Claim, SweepEnds, Erase, RemoveRow, business
    <3>2. Charged(w)'
      BY <2>1, <2>2, <3>1 DEF QuotaInv, Charged, SameRequest, Added, Uploads
    <3> QED BY <1>2, <2>1, <3>2
  <2>3. CASE ~worker'[w].inTx
    <3>1. Charged(w)'
      BY <2>3 DEF Charged
    <3> QED BY <1>2, <2>1, <3>1
  <2> QED BY <2>2, <2>3
<1> QED BY <1>1, <1>3, <1>4, <1>5 DEF MediaNext

\* The upload of a request takes the slot its wanted values leave empty.
LEMMA FinalCount ==
  ASSUME MediaInv, NEW w \in Worker, worker[w].stage = "saving"
  PROVE  Count(FinalFields(w)) <= Count(worker[w].wanted) + Uploads(w)
<1>1. worker[w] \in Connection
  BY DEF MediaInv, MediaTypeOK
<1>2. Count(worker[w].wanted) \in Nat /\ IsFiniteSet({s \in Slot : worker[w].wanted[s] # Nothing})
  BY CountIsNat
<1>3. CASE ~worker[w].uploads
  BY <1>2, <1>3 DEF FinalFields, Uploads
<1>4. CASE worker[w].uploads
  <2> DEFINE old == {s \in Slot : worker[w].wanted[s] # Nothing}
             new == {s \in Slot : FinalFields(w)[s] # Nothing}
  <2>1. new \subseteq old \cup {"poster_file"}
    BY <1>1, <1>4 DEF FinalFields, Connection
  <2>2. Cardinality(old) \in Nat /\ IsFiniteSet(old) /\ Cardinality(old) = Count(worker[w].wanted)
    BY <1>2 DEF Count
  <2>3. Cardinality(new) = Count(FinalFields(w)) /\ Count(FinalFields(w)) \in Nat
    BY CountIsNat DEF Count
  <2> HIDE DEF old, new
  <2>4. /\ IsFiniteSet(old \cup {"poster_file"})
        /\ Cardinality(old \cup {"poster_file"}) <= Cardinality(old) + 1
        /\ Cardinality(old \cup {"poster_file"}) \in Nat
    <3>1. /\ IsFiniteSet(old \cup {"poster_file"})
          /\ Cardinality(old \cup {"poster_file"}) =
               IF "poster_file" \in old THEN Cardinality(old) ELSE Cardinality(old) + 1
      BY <2>2, FS_AddElement
    <3> QED BY <2>2, <3>1
  <2>5. Cardinality(new) <= Cardinality(old \cup {"poster_file"})
    BY <2>1, <2>4, FS_Subset
  <2> QED BY <1>4, <2>2, <2>3, <2>4, <2>5 DEF Uploads
<1> QED BY <1>3, <1>4

LEMMA GrowStep ==
  ASSUME MediaInv, QuotaInv, [MediaNext]_vars, Usage(field') > Usage(field)
  PROVE  Usage(field') <= Quota
<1> USE DEF MediaInv
<1>1. field \in FieldType /\ field' # field
  <2>1. Usage(field) \in Nat
    BY UsageIsNat
  <2> QED BY <2>1 DEF MediaTypeOK, FieldType
<1>2. PICK w \in Worker : Commit(w) \/ DeleteEntry(w)
  <2>1. CASE Backfill \/ UNCHANGED vars
    BY <1>1, <2>1 DEF Backfill, BackfillStart, CloseGate, BackfillEntry, BackfillFinish, OpenGate, vars, business
  <2>2. ASSUME NEW w \in Worker, Start(w) \/ Kill(w) PROVE DeleteEntry(w)
    BY <1>1, <2>2 DEF Start, StartEntry, StartAvatar, StartRetry, StartReclaim, Kill, business
  <2>3. ASSUME NEW w \in Worker, Proceed(w) PROVE Commit(w)
    BY <1>1, <2>3 DEF Proceed, Admit, Reserve, Write, Finalize, Rollback, Unwind, MarkReady, Discard,
       Abandon, Retry, Claim, SweepEnds, Erase, RemoveRow, business
  <2> QED BY <2>1, <2>2, <2>3 DEF MediaNext
<1>3. CASE DeleteEntry(w)
  <2>1. PICK e \in Entry : field' = [field EXCEPT ![e] = NoSlots]
    BY <1>3 DEF DeleteEntry
  <2>2. Usage(field') = Usage(field) + Count(NoSlots) - Count(field[e]) /\ Usage(field) \in Nat
    BY <1>1, <2>1, UsageOfWrite
  <2>3. {s \in Slot : NoSlots[s] # Nothing} = {}
    BY DEF NoSlots
  <2>4. Count(NoSlots) = 0 /\ Count(field[e]) \in Nat
    BY <2>3, FS_EmptySet, CountIsNat DEF Count
  <2> QED BY <2>2, <2>4
<1>4. CASE Commit(w)
  <2>1. PICK e : worker[w].row = e
    OBVIOUS
  <2>2. e \in Entry /\ field' = [field EXCEPT ![e] = FinalFields(w)]
    BY <1>1, <1>4, <2>1 DEF Commit, ApplyTransaction, MediaTypeOK, Connection, Row
  <2>3. worker[w].stage = "saving" /\ worker[w].inTx
    BY <1>4 DEF Commit, Step, WorkerInv, Fits, TxFits
  <2>4. Usage(field') = Usage(field) + Count(FinalFields(w)) - Count(field[e]) /\ Usage(field) \in Nat
    BY <1>1, <2>2, UsageOfWrite
  <2>5. /\ Count(FinalFields(w)) \in Nat /\ Count(field[e]) \in Nat
        /\ Count(worker[w].wanted) \in Nat /\ Uploads(w) \in Nat
    BY CountIsNat DEF Uploads
  <2>6. Usage(field') <= Usage(field) + Added(w) /\ Added(w) \in Int
    BY <2>1, <2>3, <2>4, <2>5, FinalCount DEF Added
  <2>7. Usage(field') \in Int
    BY <2>4, <2>5
  <2>8. Added(w) > 0
    BY <2>4, <2>6, <2>7
  <2>9. Usage(field) + Added(w) <= Quota
    BY <2>1, <2>2, <2>3, <2>8, MediaAssumption DEF QuotaInv, Charged
  <2> QED BY <2>4, <2>6, <2>7, <2>9, MediaAssumption
<1> QED BY <1>2, <1>3, <1>4

(* Requests of one owner that are admitted side by side never take the owner  *)
(* above the quota: what a request may add is charged under the owner row it  *)
(* keeps until its commit, so that the usage it was compared with still holds. *)
THEOREM OwnerKeepsQuota == MediaSpec => GrowsWithinQuota
<1>1. MediaInit => QuotaInv
  BY DEF MediaInit, QuotaInv, Charged, Idle
<1>2. MediaInv /\ QuotaInv /\ [MediaNext]_vars => QuotaInv'
  BY ChargedStep
<1>3. MediaInv /\ QuotaInv /\ [MediaNext]_vars =>
        [Usage(field') > Usage(field) => Usage(field') <= Quota]_vars
  BY GrowStep
<1> QED BY <1>1, <1>2, <1>3, MediaReachable, PTL DEF MediaSpec, GrowsWithinQuota

-----------------------------------------------------------------------------
(* Nobody waits in a circle.                                                  *)

\* Media rows are locked by a business transaction that has been admitted.
RowsInv ==
  \A w \in Worker : worker[w].locked # {} => worker[w].inTx /\ worker[w].stage # "admitting"

\* A connection that goes on, or gives its transaction up.
LEMMA ConnectionKeepsRows ==
  ASSUME MediaInv, RowsInv, NEW w \in Worker,
         \A v \in Worker \ {w} : worker'[v] = worker[v],
         \/ worker'[w].locked = {}
         \/ /\ worker[w].stage # "admitting" /\ worker'[w].stage # "admitting"
            /\ worker'[w].inTx = worker[w].inTx /\ worker'[w].locked = worker[w].locked
  PROVE  RowsInv'
BY DEF RowsInv

\* Where a cleanup goes on keeps the transaction it works for, or none.
LEMMA AfterKeepsRows ==
  ASSUME MediaInv, NEW w \in Worker
  PROVE  /\ After(w).stage # "admitting"
         /\ \/ After(w).locked = {}
            \/ After(w).inTx = worker[w].inTx /\ After(w).locked = worker[w].locked
<1>1. worker[w] \in Connection
  BY DEF MediaInv, MediaTypeOK
<1>2. [At(w, "reserving") EXCEPT !.upload = Nothing].locked = worker[w].locked
      /\ [At(w, "reserving") EXCEPT !.upload = Nothing].inTx = worker[w].inTx
      /\ [At(w, "reserving") EXCEPT !.upload = Nothing].stage = "reserving"
  BY <1>1 DEF At, Connection
<1>3. [At(w, "retrying") EXCEPT !.upload = Nothing].locked = worker[w].locked
      /\ [At(w, "retrying") EXCEPT !.upload = Nothing].inTx = worker[w].inTx
      /\ [At(w, "retrying") EXCEPT !.upload = Nothing].stage = "retrying"
  BY <1>1 DEF At, Connection
<1>4. Idle.locked = {} /\ Idle.stage = "idle"
  BY DEF Idle
<1>5. CASE worker[w].then = "reserving"
  BY <1>2, <1>5 DEF After
<1>6. CASE worker[w].then = "retrying"
  BY <1>3, <1>6 DEF After
<1>7. CASE worker[w].then \notin {"reserving", "retrying"}
  BY <1>4, <1>7 DEF After
<1> QED BY <1>5, <1>6, <1>7

\* Every step keeps the rows with an admitted transaction.
LEMMA RowsStep == MediaInv /\ RowsInv /\ [MediaNext]_vars => RowsInv'
<1> SUFFICES ASSUME MediaInv, RowsInv, [MediaNext]_vars PROVE RowsInv'
  OBVIOUS
<1>1. CASE UNCHANGED worker
  BY <1>1 DEF RowsInv
<1>2. ASSUME NEW w \in Worker, Start(w) PROVE RowsInv'
  <2>1. \A v \in Worker \ {w} : worker'[v] = worker[v]
    BY <1>2 DEF Start, StartEntry, StartAvatar, DeleteEntry, StartRetry, StartReclaim, Step,
                MediaInv, MediaTypeOK
  <2>2. worker'[w].locked = {}
    <3>1. CASE StartEntry(w)
      BY <3>1 DEF StartEntry, Step, Idle, MediaInv, MediaTypeOK
    <3>2. CASE StartAvatar(w)
      BY <3>2 DEF StartAvatar, Step, Idle, MediaInv, MediaTypeOK
    <3>3. CASE DeleteEntry(w)
      BY <3>3 DEF DeleteEntry, Step, Idle, MediaInv, MediaTypeOK
    <3>4. CASE StartRetry(w)
      BY <3>4 DEF StartRetry, Step, Idle, MediaInv, MediaTypeOK
    <3>5. CASE StartReclaim(w)
      BY <3>5 DEF StartReclaim, Step, Idle, MediaInv, MediaTypeOK
    <3> QED BY <1>2, <3>1, <3>2, <3>3, <3>4, <3>5 DEF Start
  <2> QED BY <2>1, <2>2, ConnectionKeepsRows
<1>3. ASSUME NEW w \in Worker, Proceed(w) \/ Kill(w) PROVE RowsInv'
  <2>1. worker[w] \in Connection /\ Fits(w)
    BY DEF MediaInv, MediaTypeOK, WorkerInv
  <2>2. CASE Admit(w)
    <3>1. worker[w].stage = "admitting" /\ worker[w].inTx
      BY <2>1, <2>2 DEF Admit, Step, Fits, TxFits
    <3>2. CASE worker' = [worker EXCEPT ![w] = Idle]
      BY <3>2 DEF Idle, RowsInv, MediaInv, MediaTypeOK
    <3>3. CASE \E stage \in {"reserving", "saving"} :
                 worker' = [worker EXCEPT ![w] = [At(w, stage) EXCEPT !.locked = SavedRows(w)]]
      <4>1. PICK stage \in {"reserving", "saving"} :
                 worker' = [worker EXCEPT ![w] = [At(w, stage) EXCEPT !.locked = SavedRows(w)]]
        BY <3>3
      <4>2. worker'[w].inTx /\ worker'[w].stage = stage
        BY <2>1, <3>1, <4>1 DEF At, Connection, MediaInv, MediaTypeOK
      <4> QED BY <4>1, <4>2 DEF RowsInv, MediaInv, MediaTypeOK
    <3> QED BY <2>2, <3>2, <3>3 DEF Admit, Step
  <2>3. ~ Admit(w) => \A v \in Worker \ {w} : worker'[v] = worker[v]
    BY <1>3 DEF Proceed, Kill, Reserve, Write, Finalize, Commit, Rollback, Unwind, MarkReady,
                Discard, Abandon, Retry, Claim, SweepEnds, Erase, RemoveRow, Step, MediaInv, MediaTypeOK
  <2> DEFINE gone == worker'[w].locked = {}
             kept == /\ worker[w].stage # "admitting" /\ worker'[w].stage # "admitting"
                     /\ worker'[w].inTx = worker[w].inTx /\ worker'[w].locked = worker[w].locked
  <2>4. ASSUME Kill(w) \/ Commit(w) \/ Rollback(w) \/ SweepEnds(w) PROVE gone \/ kept
    <3>1. CASE Kill(w)
      BY <3>1 DEF Kill, Idle, MediaInv, MediaTypeOK
    <3>2. CASE Commit(w)
      BY <3>2 DEF Commit, Step, Idle, MediaInv, MediaTypeOK
    <3>3. CASE Rollback(w)
      BY <3>3 DEF Rollback, Step, Idle, MediaInv, MediaTypeOK
    <3>4. CASE SweepEnds(w)
      BY <3>4 DEF SweepEnds, Step, Idle, MediaInv, MediaTypeOK
    <3> QED BY <2>4, <3>1, <3>2, <3>3, <3>4
  <2>5. ASSUME Reserve(w) PROVE gone \/ kept
    <3>1. PICK k \in IF worker[w].key = Nothing THEN Key ELSE {worker[w].key} :
             LET free == {b \in Candidates(worker[w].tried) : ~Occupied(<<b, k>>)} IN
             IF free = {} \/ Fresh = {}
             THEN Step(w, "reserving", Idle)
             ELSE \E u \in Fresh, b \in free :
                    Step(w, "reserving", [At(w, "writing") EXCEPT !.upload = u, !.key = k])
      BY <2>5 DEF Reserve
    <3>2. CASE Step(w, "reserving", Idle)
      BY <3>2 DEF Step, Idle, MediaInv, MediaTypeOK
    <3>3. ASSUME NEW u, Step(w, "reserving", [At(w, "writing") EXCEPT !.upload = u, !.key = k])
          PROVE  kept
      BY <2>1, <3>3 DEF Step, At, Connection, MediaInv, MediaTypeOK
    <3> QED BY <3>1, <3>2, <3>3
  <2>6. ASSUME Write(w) PROVE gone \/ kept
    BY <2>1, <2>6 DEF Write, Step, At, Connection, MediaInv, MediaTypeOK
  <2>7. ASSUME Finalize(w) PROVE gone \/ kept
    BY <2>1, <2>7 DEF Finalize, Step, At, Connection, MediaInv, MediaTypeOK
  <2>8. ASSUME Unwind(w) PROVE gone \/ kept
    <3>1. Step(w, "unwinding", Idle) \/ Step(w, "unwinding", [At(w, "marking") EXCEPT !.then = "idle"])
      BY <2>8 DEF Unwind
    <3>2. CASE Step(w, "unwinding", Idle)
      BY <3>2 DEF Step, Idle, MediaInv, MediaTypeOK
    <3>3. CASE Step(w, "unwinding", [At(w, "marking") EXCEPT !.then = "idle"])
      BY <2>1, <3>3 DEF Step, At, Connection, MediaInv, MediaTypeOK
    <3> QED BY <3>1, <3>2, <3>3
  <2>9. ASSUME MarkReady(w) \/ Discard(w) \/ Abandon(w) PROVE gone \/ kept
    <3>1. /\ worker[w].stage # "admitting"
          /\ \/ worker'[w] = After(w) \/ worker'[w] = At(w, "discarding")
             \/ worker'[w] = At(w, "discarded")
      BY <2>9 DEF MarkReady, Discard, Abandon, Step, MediaInv, MediaTypeOK
    <3>2. \A stage \in {"discarding", "discarded"} :
             At(w, stage).stage = stage /\ At(w, stage).inTx = worker[w].inTx
             /\ At(w, stage).locked = worker[w].locked
      BY <2>1 DEF At, Connection
    <3> QED BY <3>1, <3>2, AfterKeepsRows
  <2>10. ASSUME Retry(w) PROVE gone \/ kept
    <3>1. CASE Step(w, "retrying", Idle)
      BY <3>1 DEF Step, Idle, MediaInv, MediaTypeOK
    <3>2. ASSUME NEW u,
                 Step(w, "retrying", [At(w, "discarding") EXCEPT !.upload = u, !.todo = @ \ {u}])
          PROVE  kept
      BY <2>1, <3>2 DEF Step, At, Connection, MediaInv, MediaTypeOK
    <3> QED BY <2>10, <3>1, <3>2 DEF Retry
  <2>11. ASSUME Claim(w) PROVE gone \/ kept
    <3>1. ASSUME NEW u, NEW rest,
                 Step(w, "sweeping", [At(w, "claimed") EXCEPT !.upload = u, !.todo = rest])
          PROVE  kept
      BY <2>1, <3>1 DEF Step, At, Connection, MediaInv, MediaTypeOK
    <3>2. ASSUME NEW rest, Step(w, "sweeping", [At(w, "sweeping") EXCEPT !.todo = rest])
          PROVE  kept
      BY <2>1, <3>2 DEF Step, At, Connection, MediaInv, MediaTypeOK
    <3> QED BY <2>11, <3>1, <3>2 DEF Claim
  <2>12. ASSUME Erase(w) \/ RemoveRow(w) PROVE gone \/ kept
    <3>1. ASSUME NEW from \in {"claimed", "erased"},
                 Step(w, from, [At(w, "sweeping") EXCEPT !.upload = Nothing])
          PROVE  kept
      BY <2>1, <3>1 DEF Step, At, Connection, MediaInv, MediaTypeOK
    <3>2. CASE Step(w, "claimed", At(w, "erased"))
      BY <2>1, <3>2 DEF Step, At, Connection, MediaInv, MediaTypeOK
    <3>3. CASE Erase(w)
      BY <3>1, <3>2, <3>3 DEF Erase
    <3>4. CASE RemoveRow(w)
      BY <3>1, <3>4 DEF RemoveRow
    <3> QED BY <2>12, <3>3, <3>4
  <2>13. Admit(w) \/ gone \/ kept
    BY <1>3, <2>4, <2>5, <2>6, <2>7, <2>8, <2>9, <2>10, <2>11, <2>12 DEF Proceed
  <2> QED BY <2>2, <2>3, <2>13, ConnectionKeepsRows
<1> QED
  BY <1>1, <1>2, <1>3
     DEF MediaNext, Backfill, BackfillStart, CloseGate, BackfillEntry, BackfillFinish, OpenGate, vars

(* While one connection is under way, one of them waits for no row another    *)
(* holds: who holds a receipt row or deletes bytes waits for nothing, a       *)
(* transaction with media rows waits at most for a receipt row, and only one  *)
(* without rows waits for media rows.                                         *)
THEOREM NobodyWaitsInACircle == MediaSpec => []SomeoneProceeds
<1>1. MediaInit => RowsInv
  BY DEF MediaInit, RowsInv, Idle
<1>2. ASSUME MediaInv, RowsInv PROVE SomeoneProceeds
  <2> SUFFICES ASSUME NEW x \in Worker, worker[x].stage # "idle"
               PROVE  \E w \in Worker : worker[w].stage # "idle" /\ MayProceed(w)
    BY DEF SomeoneProceeds
  <2> DEFINE waiting == {"admitting", "finalizing", "marking", "discarding", "sweeping", "claimed"}
  <2>1. CASE \E w \in Worker : worker[w].stage \notin waiting \cup {"idle"}
    <3>1. PICK w \in Worker : worker[w].stage \notin waiting \cup {"idle"}
      BY <2>1
    <3>2. MayProceed(w)
      BY <3>1 DEF MayProceed
    <3> QED BY <3>1, <3>2
  <2>2. CASE \A w \in Worker : worker[w].stage \in waiting \cup {"idle"}
    <3>1. CASE \E w \in Worker : worker[w].stage \in {"finalizing", "marking", "discarding"}
      <4>1. PICK w \in Worker : worker[w].stage \in {"finalizing", "marking", "discarding"}
        BY <3>1
      <4>2. ReceiptRowFree(worker[w].upload, w)
        BY <2>2 DEF ReceiptRowFree
      <4>3. MayProceed(w)
        BY <4>1, <4>2 DEF MayProceed
      <4> QED BY <4>1, <4>3
    <3>2. CASE \A w \in Worker : worker[w].stage \in {"idle", "admitting", "sweeping", "claimed"}
      <4>1. \A w \in Worker : worker[w].locked = {}
        <5> SUFFICES ASSUME NEW w \in Worker PROVE worker[w].locked = {}
          OBVIOUS
        <5>1. Fits(w)
          BY <1>2 DEF MediaInv, WorkerInv
        <5>2. CASE worker[w].stage = "admitting"
          BY <1>2, <5>2 DEF RowsInv
        <5>3. CASE worker[w].stage # "admitting"
          <6>1. ~ worker[w].inTx
            BY <3>2, <5>1, <5>3 DEF Fits, TxFits
          <6> QED BY <1>2, <6>1 DEF RowsInv
        <5> QED BY <5>2, <5>3
      <4>2. \A u : MediaRowFree(u, x)
        BY <3>2, <4>1 DEF MediaRowFree
      <4>3. MayProceed(x)
        BY <3>2, <4>2 DEF MayProceed
      <4> QED BY <4>3
    <3> QED BY <2>2, <3>1, <3>2
  <2> QED BY <2>1, <2>2
<1> QED BY <1>1, <1>2, RowsStep, MediaReachable, PTL DEF MediaSpec
=============================================================================
