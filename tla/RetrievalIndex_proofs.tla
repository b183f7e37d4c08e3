----------------------- MODULE RetrievalIndex_proofs -------------------------
(***************************************************************************)
(* For any number of handlers, shards, versions, duplicated messages and   *)
(* faults: a deletion is never undone and leaves no row, one handler at a  *)
(* time finalizes a generation, Catalog is told one outcome of each, and a *)
(* searchable book stays searchable until its deletion.                    *)
(*                                                                         *)
(* Three facts carry the argument.  The deletion of a book is the newest   *)
(* lifecycle event there is (OrderInv), so nothing reopens a fenced book.  *)
(* Outside a fence the searched generation is the one indexed job          *)
(* (StoreInv).  And the rows of a pending job were told to nobody          *)
(* (ToldInv).                                                              *)
(***************************************************************************)
EXTENDS RetrievalIndex, TLAPS

(* Lifecycle events are no newer than Catalog, and none follows a deletion. *)
Ordered(m) ==
    /\ m.kind = "delete" => catalog.deleted /\ m.v = catalog.version
    /\ m.kind = "reindex" => m.v <= catalog.version /\ (catalog.deleted => m.v < catalog.version)

Held(w) == worker[w].at # "idle"

(* A handler between its fence and the end of the deletion. *)
FenceSteps == {"fenced", "bookDeleted"}

OrderInv ==
    /\ \A m \in msgs : Ordered(m)
    /\ \A w \in Workers : Held(w) => Ordered(worker[w].msg)
    /\ \A w \in Workers : worker[w].at \in FenceSteps => lifecycleDeletionFenced
    /\ life.version <= catalog.version
    /\ lifecycleDeletionFenced => catalog.deleted /\ life.version = catalog.version

(* The rows of the book's jobs and its searched generation agree. *)
StoreInv ==
    /\ meta # "none" => life.state # "none"
    /\ life.state = "none" <=> life.version = 0
    /\ life.cleanup => life.state = "deleting"
    /\ life.active <= life.version
    /\ life.active # 0 => /\ life.state \in {"active", "reindexing"}
                          /\ job[life.active].state = "indexed"
    /\ \A v \in Versions :
           /\ job[v].state # "none" => v <= life.version
           /\ job[v].state = "indexed" => lifecycleDeletionFenced \/ life.active = v
           /\ job[v].state = "pending" => ~ lifecycleDeletionFenced

(* A book that was deleted has no rows. *)
EmptyInv ==
    life.state = "deleted" =>
        /\ manifest = "none" /\ meta # "full"
        /\ \A v \in Versions : /\ job[v].state = "none" /\ ~ job[v].inflight
                               /\ \A s \in Shards : batch[v][s] = "none"
        /\ \A r \in outbox : r.kind = "deleted"

Told(kind, v) == Row(kind, v, "document") \in outbox \cup sent

(* What Catalog was told of a generation is the state of its job. *)
ToldInv ==
    \A v \in Versions :
        /\ ~ (Told("indexed", v) /\ Told("failed", v))
        /\ Told("indexed", v) => job[v].state \in {"indexed", "failed"} \/ life.state = "deleted"
        /\ Told("indexed", v) =>
               \/ job[v].state = "indexed" \/ lifecycleDeletionFenced
               \/ life.active > v
        /\ Told("failed", v) => job[v].state = "failed" \/ life.state = "deleted"

(* The lease of a pending job is held by the one handler that finalizes it. *)
LeaseInv ==
    /\ \A v \in Versions, w \in Workers :
           Finalizing(w, v) =>
               /\ job[v].state = "pending" => job[v].inflight
               /\ job[v].state = "none" => lifecycleDeletionFenced
    /\ OneFinalizer

IndexInv == TypeOK /\ OrderInv /\ StoreInv /\ EmptyInv /\ ToldInv /\ LeaseInv

-----------------------------------------------------------------------------
(* Deliveries *)

Kinds == {"metadata", "manifest", "batch", "reindex", "delete"}

Dead == [kind : Kinds, v : Versions, s : Points]

Handler == [at : Steps, msg : Msgs, prior : SUBSET Versions]

FinalSteps == {"acquired", "prior", "documented", "activated"}

DeliveryTyped == msgs \subseteq Msgs /\ worker \in [Workers -> Handler] /\ dead \subseteq Dead

(* A message that is there, perhaps in another attempt, or a new batch. *)
Same(m, n) == m.kind = n.kind /\ m.v = n.v

Known(m) ==
    \/ m.kind = "batch"
    \/ \E n \in msgs : Same(m, n)
    \/ \E w \in Workers : Held(w) /\ Same(m, worker[w].msg)

Carries ==
    /\ \A m \in msgs' : Known(m)
    /\ \A w \in Workers : Held(w)' => Known(worker'[w].msg)
    /\ \A w \in Workers : worker'[w].at \in FenceSteps =>
           worker[w].at \in FenceSteps \/ lifecycleDeletionFenced'

NoNewFinalizer ==
    \A w \in Workers, v \in Versions : Finalizing(w, v)' => Finalizing(w, v)

(* Nothing new reaches a queue, a handler or a finalization. *)
Moves == DeliveryTyped' /\ Carries /\ NoNewFinalizer

LEMMA Attempts ==
    ASSUME NEW m \in Msgs, NEW n \in 0..MaxRetry
    PROVE  [m EXCEPT !.attempt = n] \in Msgs /\ Same([m EXCEPT !.attempt = n], m)
  BY DEF Msgs, Same

LEMMA IdleTyped == Idle \in Handler /\ Idle.at = "idle"
<1>1. 1 \in Versions /\ 0 \in 0..MaxRetry
  BY RetrievalAssumption DEF Versions
<1>2. Msg("metadata", 1, "document", 0) \in Msgs
  BY <1>1 DEF Msg, Msgs, Points
<1> QED
  BY <1>2 DEF Idle, Handler, Steps

LEMMA KnownThere ==
    ASSUME NEW m \in msgs
    PROVE  Known(m)
  BY DEF Known, Same

LEMMA KnownHeld ==
    ASSUME NEW w \in Workers, Held(w)
    PROVE  Known(worker[w].msg)
  BY DEF Known, Same

LEMMA HandlerTyped ==
    ASSUME DeliveryTyped, NEW w \in Workers
    PROVE  /\ worker[w] \in Handler /\ worker[w].msg \in Msgs /\ worker[w].at \in Steps
           /\ worker[w].msg.v \in Versions /\ worker[w].msg.s \in Points
           /\ worker[w].msg.attempt \in 0..MaxRetry /\ worker[w].prior \in SUBSET Versions
           /\ worker[w].msg.kind \in Kinds
  BY DEF DeliveryTyped, Handler, Msgs, Kinds

LEMMA Move ==
    ASSUME DeliveryTyped, NEW w \in Workers, NEW d \in Handler,
           worker' = [worker EXCEPT ![w] = d], d.at # "idle" => Known(d.msg),
           d.at \in FinalSteps => worker[w].at \in FinalSteps /\ d.msg.v = worker[w].msg.v,
           d.at \in FenceSteps => worker[w].at \in FenceSteps \/ lifecycleDeletionFenced',
           msgs' \subseteq Msgs, \A m \in msgs' : Known(m), dead' \subseteq Dead
    PROVE  Moves
<1>1. worker \in [Workers -> Handler]
  BY DEF DeliveryTyped
<1>2. /\ worker' \in [Workers -> Handler] /\ worker'[w] = d
      /\ \A x \in Workers : x # w => worker'[x] = worker[x]
  BY <1>1
<1>3. ASSUME NEW x \in Workers, Held(x)'
      PROVE  Known(worker'[x].msg)
  <2>1. CASE x = w
    BY <1>2, <1>3, <2>1 DEF Held
  <2>2. CASE x # w
    BY <1>2, <1>3, <2>2, KnownHeld DEF Held
  <2> QED
    BY <2>1, <2>2
<1>4. NoNewFinalizer
  BY <1>2 DEF NoNewFinalizer, Finalizing, FinalSteps
<1> QED
  BY <1>2, <1>3, <1>4 DEF Moves, Carries, DeliveryTyped

LEMMA SettleMoves ==
    ASSUME DeliveryTyped, NEW w \in Workers, Settle(w), UNCHANGED <<msgs, dead>>
    PROVE  Moves
<1>1. "idle" \notin FinalSteps \cup FenceSteps
  BY DEF FinalSteps, FenceSteps
<1>2. \A m \in msgs' : Known(m)
  BY KnownThere
<1> QED
  BY <1>1, <1>2, IdleTyped, Move DEF Settle, DeliveryTyped

LEMMA ContinueMoves ==
    ASSUME DeliveryTyped, NEW w \in Workers, Held(w), NEW at \in Steps, Continue(w, at),
           at \in FinalSteps => worker[w].at \in FinalSteps,
           at \in FenceSteps => worker[w].at \in FenceSteps, UNCHANGED dead
    PROVE  Moves
<1> DEFINE d == [worker[w] EXCEPT !.at = at]
<1>1. d \in Handler /\ d.at = at /\ d.msg = worker[w].msg
  BY HandlerTyped DEF Handler
<1>2. worker' = [worker EXCEPT ![w] = d] /\ UNCHANGED msgs
  BY DEF Continue
<1>3. \A m \in msgs' : Known(m)
  BY <1>2, KnownThere
<1>4. Known(d.msg)
  BY <1>1, KnownHeld
<1> HIDE DEF d
<1> QED
  BY <1>1, <1>2, <1>3, <1>4, Move DEF DeliveryTyped

LEMMA HoldMoves ==
    ASSUME DeliveryTyped, NEW w \in Workers, NEW m \in msgs, NEW at \in Steps, Hold(w, m, at),
           at \notin FinalSteps, at \in FenceSteps => lifecycleDeletionFenced',
           msgs' = msgs \ {m}, UNCHANGED dead
    PROVE  Moves
<1> DEFINE d == [at |-> at, msg |-> m, prior |-> {}]
<1>1. d \in Handler /\ d.at = at /\ d.msg = m
  BY DEF Handler, DeliveryTyped
<1>2. worker' = [worker EXCEPT ![w] = d]
  BY DEF Hold
<1>3. \A n \in msgs' : Known(n)
  BY KnownThere
<1>4. Known(d.msg)
  BY <1>1, KnownThere
<1> HIDE DEF d
<1> QED
  BY <1>1, <1>2, <1>3, <1>4, Move DEF DeliveryTyped

LEMMA QueueMoves ==
    ASSUME DeliveryTyped, UNCHANGED worker, msgs' \subseteq Msgs, \A m \in msgs' : Known(m),
           dead' \subseteq Dead
    PROVE  Moves
<1>1. \A w \in Workers : Held(w)' => Known(worker'[w].msg)
  BY KnownHeld DEF Held
<1>2. NoNewFinalizer
  BY DEF NoNewFinalizer, Finalizing
<1> QED
  BY <1>1, <1>2 DEF Moves, Carries, DeliveryTyped

LEMMA DropMoves ==
    ASSUME DeliveryTyped, NEW w \in Workers, NEW m \in msgs, Drop(w, m), dead' \subseteq Dead
    PROVE  Moves
<1>1. \A n \in msgs' : Known(n)
  BY KnownThere DEF Drop
<1> QED
  BY <1>1, QueueMoves DEF Drop, DeliveryTyped

LEMMA LostTyped ==
    ASSUME DeliveryTyped, NEW m \in Msgs, Lost(m)
    PROVE  dead' \subseteq Dead
  BY DEF Lost, DeliveryTyped, Dead, Msgs, Kinds

LEMMA RetryMoves ==
    ASSUME DeliveryTyped, NEW w \in Workers, Held(w), RetryLater(w)
    PROVE  Moves
<1> DEFINE m == worker[w].msg
<1>1. m \in Msgs /\ m.attempt \in 0..MaxRetry
  BY HandlerTyped
<1>2. CASE m.attempt < MaxRetry /\ msgs' = msgs \cup {[m EXCEPT !.attempt = @ + 1]} /\ Settle(w) /\ UNCHANGED dead
  <2> DEFINE n == m.attempt + 1
             again == [m EXCEPT !.attempt = n]
  <2>1. n \in 0..MaxRetry
    BY <1>1, <1>2, RetrievalAssumption
  <2>2. msgs' = msgs \cup {again}
    BY <1>2
  <2> HIDE DEF n
  <2>3. again \in Msgs /\ Same(again, m)
    BY <1>1, <2>1, Attempts
  <2> HIDE DEF again
  <2>4. Known(again)
    BY <2>3 DEF Known
  <2>5. \A x \in msgs' : Known(x)
    BY <2>2, <2>4, KnownThere
  <2>6. "idle" \notin FinalSteps \cup FenceSteps
    BY DEF FinalSteps, FenceSteps
  <2> QED
    BY <1>2, <2>2, <2>3, <2>5, <2>6, IdleTyped, Move DEF Settle, DeliveryTyped
<1>3. CASE Continue(w, "failing") /\ UNCHANGED dead
  BY <1>3, ContinueMoves DEF Steps, FinalSteps, FenceSteps
<1>4. CASE Settle(w) /\ Lost(m) /\ UNCHANGED msgs
  <2>1. dead' \subseteq Dead
    BY <1>1, <1>4, LostTyped
  <2>2. \A x \in msgs' : Known(x)
    BY <1>4, KnownThere
  <2>3. "idle" \notin FinalSteps \cup FenceSteps
    BY DEF FinalSteps, FenceSteps
  <2> QED
    BY <1>4, <2>1, <2>2, <2>3, IdleTyped, Move DEF Settle, DeliveryTyped
<1> QED
  BY <1>2, <1>3, <1>4 DEF RetryLater

-----------------------------------------------------------------------------
(* Types, in the parts that steps change together *)

Life == [version : 0..MaxVersion, active : 0..MaxVersion, cleanup : BOOLEAN,
         state : {"none", "active", "reindexing", "deleting", "deleted"}]

Job == [state : JobStates, inflight : BOOLEAN, vclean : BOOLEAN]

BatchStates == {"none", "pending", "processing", "completed", "failed"}

PointStates == {"none", "staged", "indexed"}

RowsTyped ==
    /\ meta \in {"none", "full", "scrubbed"} /\ manifest \in {"none", "ok", "failed"}
    /\ life \in Life /\ job \in [Versions -> Job]
    /\ batch \in [Versions -> [Shards -> BatchStates]]
    /\ outbox \subseteq Rows /\ sent \subseteq Rows

VecTyped == vec \in [Versions -> [Points -> PointStates]]

RestTyped ==
    /\ ticker \in [at : {"idle", "vectors", "book"}, v : Versions]
    /\ catalog \in [version : Versions, deleted : BOOLEAN]
    /\ faults \in 0..MaxFaults /\ dups \in 0..Duplicates

LEMMA TypeParts ==
    /\ TypeOK <=> RowsTyped /\ DeliveryTyped /\ VecTyped /\ RestTyped
    /\ TypeOK' <=> RowsTyped' /\ DeliveryTyped' /\ VecTyped' /\ RestTyped'
  BY DEF TypeOK, RowsTyped, DeliveryTyped, VecTyped, RestTyped, Life, Job, BatchStates,
         PointStates, Handler, Dead, Kinds

LEMMA RowsSame ==
    ASSUME RowsTyped, UNCHANGED <<meta, manifest, life, job, batch, outbox, sent>>
    PROVE  RowsTyped'
  BY DEF RowsTyped

LEMMA VecSame ==
    ASSUME VecTyped, UNCHANGED vec
    PROVE  VecTyped'
  BY DEF VecTyped

LEMMA RestSame ==
    ASSUME RestTyped, UNCHANGED <<ticker, catalog, faults, dups>>
    PROVE  RestTyped'
  BY DEF RestTyped

(* A fault is one of the allowed ones. *)
LEMMA FaultTyped ==
    ASSUME RestTyped, faults > 0, faults' = faults - 1, UNCHANGED <<ticker, catalog, dups>>
    PROVE  RestTyped'
<1>1. faults' \in 0..MaxFaults
  BY RetrievalAssumption DEF RestTyped
<1> QED
  BY <1>1 DEF RestTyped

(* The calls of the vector store. *)
LEMMA StagedTyped ==
    ASSUME VecTyped, NEW v \in Versions, NEW s \in Points, vec' = [vec EXCEPT ![v][s] = "staged"]
    PROVE  VecTyped'
<1> DEFINE row == [vec[v] EXCEPT ![s] = "staged"]
<1>1. row \in [Points -> PointStates]
  BY DEF VecTyped, PointStates
<1>2. vec' = [vec EXCEPT ![v] = row]
  OBVIOUS
<1> HIDE DEF row
<1> QED
  BY <1>1, <1>2 DEF VecTyped

LEMMA VecCalls ==
    ASSUME VecTyped, NEW v \in Versions
    PROVE  /\ \A s \in Points : vec' = ChunksStaged(v, s) => VecTyped'
           /\ vec' = DocumentStaged(v) => VecTyped'
           /\ vec' = Activated(v) => VecTyped'
           /\ vec' = WithoutPoints(v) => VecTyped'
           /\ vec' = NoPoints => VecTyped'
<1>1. ASSUME NEW s \in Points, vec' = ChunksStaged(v, s) PROVE VecTyped'
  BY <1>1, StagedTyped DEF ChunksStaged
<1>2. ASSUME vec' = DocumentStaged(v) PROVE VecTyped'
  BY <1>2, StagedTyped DEF DocumentStaged, Points
<1>3. ASSUME vec' = Activated(v) PROVE VecTyped'
  <2> DEFINE row == [p \in Points |-> IF vec[v][p] = "none" THEN "none" ELSE "indexed"]
  <2>1. row \in [Points -> PointStates]
    BY DEF PointStates
  <2>2. vec' = [vec EXCEPT ![v] = row]
    BY <1>3 DEF Activated
  <2> HIDE DEF row
  <2> QED
    BY <2>1, <2>2 DEF VecTyped
<1>4. ASSUME vec' = WithoutPoints(v) PROVE VecTyped'
  <2> DEFINE row == [p \in Points |-> "none"]
  <2>1. row \in [Points -> PointStates]
    BY DEF PointStates
  <2>2. vec' = [vec EXCEPT ![v] = row]
    BY <1>4 DEF WithoutPoints
  <2> HIDE DEF row
  <2> QED
    BY <2>1, <2>2 DEF VecTyped
<1>5. ASSUME vec' = NoPoints PROVE VecTyped'
  BY <1>5 DEF VecTyped, NoPoints, PointStates
<1> QED
  BY <1>1, <1>2, <1>3, <1>4, <1>5

-----------------------------------------------------------------------------
(* Kinds of steps *)

LEMMA OrderedKnown ==
    ASSUME OrderInv, NEW m, Known(m)
    PROVE  Ordered(m)
<1>1. CASE m.kind = "batch"
  BY <1>1 DEF Ordered
<1>2. CASE \E n \in msgs : Same(m, n)
  BY <1>2 DEF OrderInv, Ordered, Same
<1>3. CASE \E w \in Workers : Held(w) /\ Same(m, worker[w].msg)
  BY <1>3 DEF OrderInv, Ordered, Same
<1> QED
  BY <1>1, <1>2, <1>3 DEF Known

LEMMA OrderKept ==
    ASSUME OrderInv, Carries, UNCHANGED catalog,
           lifecycleDeletionFenced => lifecycleDeletionFenced', life'.version <= catalog.version,
           lifecycleDeletionFenced' => catalog.deleted /\ life'.version = catalog.version
    PROVE  OrderInv'
<1>1. \A m \in msgs' : Ordered(m)
  BY OrderedKnown DEF Carries
<1>2. \A w \in Workers : Held(w)' => Ordered(worker'[w].msg)
  BY OrderedKnown DEF Carries
<1>3. \A w \in Workers : worker'[w].at \in FenceSteps => lifecycleDeletionFenced'
  BY DEF Carries, OrderInv
<1> QED
  BY <1>1, <1>2, <1>3 DEF OrderInv, Ordered

(***************************************************************************)
(* The jobs keep their states and nobody is told anything new: batches,    *)
(* leases, deliveries and vectors move.                                    *)
(***************************************************************************)
LEMMA SameStates ==
    ASSUME IndexInv, TypeOK', Carries, UNCHANGED <<life, catalog>>,
           meta' # "none" => life.state # "none",
           \A v \in Versions : job'[v].state = job[v].state,
           \A kind \in {"indexed", "failed"}, v \in Versions : Told(kind, v)' => Told(kind, v),
           EmptyInv', LeaseInv'
    PROVE  IndexInv' /\ KeepsSearchable
<1>0. OrderInv /\ StoreInv /\ ToldInv /\ TypeOK
  BY DEF IndexInv
<1>1. lifecycleDeletionFenced' <=> lifecycleDeletionFenced
  BY DEF lifecycleDeletionFenced
<1>2. OrderInv'
  BY <1>0, <1>1, OrderKept DEF OrderInv
<1>3. life.active \in 0..MaxVersion
  BY <1>0 DEF TypeOK
<1>4. life.active # 0 => life.active \in Versions
  BY <1>3, RetrievalAssumption DEF Versions
<1>5. StoreInv'
  BY <1>0, <1>1, <1>4 DEF StoreInv
<1>6. ToldInv'
  BY <1>0, <1>1 DEF ToldInv
<1>7. ASSUME NEW v \in Versions, FilterIndexed(v) PROVE FilterIndexed(v)' /\ v >= v
  BY <1>7 DEF FilterIndexed, Versions
<1>8. KeepsSearchable
  BY <1>7 DEF KeepsSearchable
<1> QED
  BY <1>2, <1>5, <1>6, <1>8 DEF IndexInv

LEMMA LeaseKept ==
    ASSUME IndexInv, NoNewFinalizer, lifecycleDeletionFenced => lifecycleDeletionFenced',
           \A v \in Versions : job'[v].state = job[v].state /\ job'[v].inflight = job[v].inflight
    PROVE  LeaseInv'
  BY DEF IndexInv, LeaseInv, NoNewFinalizer, OneFinalizer

(* No row changes. *)
LEMMA Quiet ==
    ASSUME IndexInv, TypeOK', Moves,
           UNCHANGED <<meta, manifest, life, job, batch, outbox, sent, catalog>>
    PROVE  IndexInv' /\ KeepsSearchable
<1>1. LeaseInv'
  BY LeaseKept DEF Moves, lifecycleDeletionFenced
<1>2. EmptyInv'
  BY DEF IndexInv, EmptyInv
<1>3. \A kind \in {"indexed", "failed"}, v \in Versions : Told(kind, v)' => Told(kind, v)
  BY DEF Told
<1> QED
  BY <1>1, <1>2, <1>3, SameStates DEF Moves, IndexInv, StoreInv

LEMMA QuietTyped ==
    ASSUME IndexInv, Moves, VecTyped', RestTyped',
           UNCHANGED <<meta, manifest, life, job, batch, outbox, sent, catalog>>
    PROVE  IndexInv' /\ KeepsSearchable
<1>1. RowsTyped'
  BY RowsSame, TypeParts DEF IndexInv
<1>2. TypeOK'
  BY <1>1, TypeParts DEF Moves
<1> QED
  BY <1>2, Quiet

-----------------------------------------------------------------------------
(* Steps that change no row *)

(* Points of a generation are deleted, if it is one. *)
LEMMA CleanedTyped ==
    ASSUME VecTyped, NEW u, vec' = WithoutPoints(u)
    PROVE  VecTyped'
<1> DEFINE row == [p \in Points |-> "none"]
<1>1. row \in [Points -> PointStates]
  BY DEF PointStates
<1>2. vec' = [vec EXCEPT ![u] = row]
  BY DEF WithoutPoints
<1> HIDE DEF row
<1> QED
  BY <1>1, <1>2 DEF VecTyped

LEMMA HandlerQuiet ==
    ASSUME IndexInv, NEW w \in Workers
    PROVE  /\ loadSnapshot(w) \/ ManifestIntegrity(w) => IndexInv' /\ KeepsSearchable
           /\ UpsertChunks(w) \/ ActivateJob(w) => IndexInv' /\ KeepsSearchable
           /\ DeletePrior(w) \/ DeleteFailed(w) \/ DeleteBook(w) => IndexInv' /\ KeepsSearchable
<1>0. DeliveryTyped /\ VecTyped /\ RestTyped
  BY TypeParts DEF IndexInv
<1>1. worker[w].msg.v \in Versions /\ worker[w].msg.s \in Points
  BY <1>0, HandlerTyped
<1>2. ASSUME loadSnapshot(w) PROVE IndexInv' /\ KeepsSearchable
  <2>1. Moves
    <3>1. CASE Continue(w, "snapshot")
      BY <1>0, <1>2, <3>1, ContinueMoves DEF loadSnapshot, outside, Held, Steps, FinalSteps, FenceSteps
    <3>2. CASE Settle(w) /\ UNCHANGED msgs
      BY <1>0, <1>2, <3>2, SettleMoves DEF loadSnapshot, outside
    <3> QED
      BY <1>2, <3>1, <3>2 DEF loadSnapshot
  <2> QED
    BY <1>0, <1>2, <2>1, VecSame, RestSame, QuietTyped DEF loadSnapshot, outside
<1>3. ASSUME ManifestIntegrity(w) PROVE IndexInv' /\ KeepsSearchable
  <2>1. Moves
    BY <1>0, <1>3, ContinueMoves DEF ManifestIntegrity, outside, Held, Steps, FinalSteps, FenceSteps
  <2> QED
    BY <1>0, <1>3, <2>1, VecSame, RestSame, QuietTyped DEF ManifestIntegrity, outside
<1>4. ASSUME UpsertChunks(w) PROVE IndexInv' /\ KeepsSearchable
  <2>1. Moves
    BY <1>0, <1>4, ContinueMoves DEF UpsertChunks, outside, Held, Steps, FinalSteps, FenceSteps
  <2>2. VecTyped'
    BY <1>0, <1>1, <1>4, VecCalls DEF UpsertChunks
  <2> QED
    BY <1>0, <1>4, <2>1, <2>2, RestSame, QuietTyped DEF UpsertChunks, outside
<1>5. ASSUME ActivateJob(w) PROVE IndexInv' /\ KeepsSearchable
  <2>1. Moves
    BY <1>0, <1>5, ContinueMoves DEF ActivateJob, outside, Held, Steps, FinalSteps, FenceSteps
  <2>2. VecTyped'
    BY <1>0, <1>1, <1>5, VecCalls DEF ActivateJob
  <2> QED
    BY <1>0, <1>5, <2>1, <2>2, RestSame, QuietTyped DEF ActivateJob, outside
<1>6. ASSUME DeletePrior(w) PROVE IndexInv' /\ KeepsSearchable
  <2>1. Moves
    BY <1>0, <1>6, ContinueMoves DEF DeletePrior, outside, Held, Steps, FinalSteps, FenceSteps
  <2>2. VecTyped'
    BY <1>0, <1>6, CleanedTyped DEF DeletePrior
  <2> QED
    BY <1>0, <1>6, <2>1, <2>2, RestSame, QuietTyped DEF DeletePrior, outside
<1>7. ASSUME DeleteFailed(w) PROVE IndexInv' /\ KeepsSearchable
  <2>1. Moves
    BY <1>0, <1>7, ContinueMoves DEF DeleteFailed, outside, Held, Steps, FinalSteps, FenceSteps
  <2>2. VecTyped'
    BY <1>0, <1>7, CleanedTyped DEF DeleteFailed
  <2> QED
    BY <1>0, <1>7, <2>1, <2>2, RestSame, QuietTyped DEF DeleteFailed, outside
<1>8. ASSUME DeleteBook(w) PROVE IndexInv' /\ KeepsSearchable
  <2>1. Moves
    BY <1>0, <1>8, ContinueMoves DEF DeleteBook, outside, Held, Steps, FinalSteps, FenceSteps
  <2>2. VecTyped'
    BY <1>0, <1>1, <1>8, VecCalls DEF DeleteBook
  <2> QED
    BY <1>0, <1>8, <2>1, <2>2, RestSame, QuietTyped DEF DeleteBook, outside
<1> QED
  BY <1>2, <1>3, <1>4, <1>5, <1>6, <1>7, <1>8

(* Between the steps of a finalization. *)
LEMMA FinalizerQuiet ==
    ASSUME IndexInv, NEW w \in Workers
    PROVE  PriorIndexedJobIDs(w) \/ UpsertDocument(w) => IndexInv' /\ KeepsSearchable
<1>0. DeliveryTyped /\ VecTyped /\ RestTyped
  BY TypeParts DEF IndexInv
<1>1. worker[w].msg.v \in Versions /\ worker[w] \in Handler
  BY <1>0, HandlerTyped
<1>2. ASSUME PriorIndexedJobIDs(w) PROVE IndexInv' /\ KeepsSearchable
  <2>1. Held(w) /\ worker[w].at \in FinalSteps
    BY <1>2 DEF PriorIndexedJobIDs, Held, FinalSteps
  <2>2. UNCHANGED <<msgs, dead>>
    BY <1>2 DEF PriorIndexedJobIDs, outside
  <2>3. CASE Settle(w)
    <3>1. Moves
      BY <1>0, <2>2, <2>3, SettleMoves
    <3> QED
      BY <1>0, <1>2, <3>1, VecSame, RestSame, QuietTyped DEF PriorIndexedJobIDs, outside
  <2>4. CASE ~ Settle(w)
    <3> DEFINE old == PriorIndexed(worker[w].msg.v)
               d == [worker[w] EXCEPT !.at = "prior", !.prior = old]
    <3>1. worker' = [worker EXCEPT ![w] = d]
      BY <1>2, <2>4 DEF PriorIndexedJobIDs
    <3>2. old \in SUBSET Versions
      BY DEF PriorIndexed
    <3> HIDE DEF old
    <3>3. d \in Handler /\ d.msg = worker[w].msg /\ d.at \notin FenceSteps
      BY <1>1, <3>2 DEF Handler, Steps, FenceSteps
    <3> HIDE DEF d
    <3>4. \A m \in msgs' : Known(m)
      BY <2>2, KnownThere
    <3>5. Moves
      BY <1>0, <2>1, <2>2, <3>1, <3>3, <3>4, KnownHeld, Move DEF DeliveryTyped
    <3> QED
      BY <1>0, <1>2, <3>5, VecSame, RestSame, QuietTyped DEF PriorIndexedJobIDs, outside
  <2> QED
    BY <2>3, <2>4
<1>3. ASSUME UpsertDocument(w) PROVE IndexInv' /\ KeepsSearchable
  <2>1. Held(w) /\ worker[w].at \in FinalSteps
    BY <1>3 DEF UpsertDocument, Held, FinalSteps
  <2>2. Moves
    <3>1. CASE RetryLater(w)
      BY <1>0, <2>1, <3>1, RetryMoves
    <3>2. CASE Continue(w, "documented") /\ UNCHANGED dead
      BY <1>0, <2>1, <3>2, ContinueMoves DEF Steps, FenceSteps
    <3> QED
      BY <1>3, <3>1, <3>2 DEF UpsertDocument
  <2>3. VecTyped'
    BY <1>0, <1>1, <1>3, VecSame, VecCalls DEF UpsertDocument
  <2> QED
    BY <1>0, <1>3, <2>2, <2>3, RestSame, QuietTyped DEF UpsertDocument
<1> QED
  BY <1>2, <1>3

(* A handler ends and its message, perhaps counted once more, is back. *)
LEMMA AgainMoves ==
    ASSUME DeliveryTyped, NEW w \in Workers, Held(w), Settle(w), NEW n \in 0..MaxRetry,
           msgs' = msgs \cup {[worker[w].msg EXCEPT !.attempt = n]}, UNCHANGED dead
    PROVE  Moves
<1> DEFINE again == [worker[w].msg EXCEPT !.attempt = n]
<1>1. again \in Msgs /\ Same(again, worker[w].msg)
  BY HandlerTyped, Attempts
<1>2. msgs' = msgs \cup {again}
  OBVIOUS
<1> HIDE DEF again
<1>3. Known(again)
  BY <1>1 DEF Known
<1>4. \A x \in msgs' : Known(x)
  BY <1>2, <1>3, KnownThere
<1>5. "idle" \notin FinalSteps \cup FenceSteps
  BY DEF FinalSteps, FenceSteps
<1> QED
  BY <1>1, <1>2, <1>4, <1>5, IdleTyped, Move DEF Settle, DeliveryTyped

LEMMA LostMoves ==
    ASSUME DeliveryTyped, NEW w \in Workers, Settle(w), Lost(worker[w].msg), UNCHANGED msgs
    PROVE  Moves
<1>1. dead' \subseteq Dead
  BY HandlerTyped, LostTyped
<1>2. \A x \in msgs' : Known(x)
  BY KnownThere
<1>3. "idle" \notin FinalSteps \cup FenceSteps
  BY DEF FinalSteps, FenceSteps
<1> QED
  BY <1>1, <1>2, <1>3, IdleTyped, Move DEF Settle, DeliveryTyped

LEMMA FaultQuiet ==
    ASSUME IndexInv, NEW w \in Workers
    PROVE  /\ DeliverTwice(w) \/ Crash(w) \/ CallFails(w) => IndexInv' /\ KeepsSearchable
           /\ RecordFails(w) \/ DeleteFailedFails(w) => IndexInv' /\ KeepsSearchable
           /\ \A m \in msgs : FirstCallFails(w, m) => IndexInv' /\ KeepsSearchable
<1>0. DeliveryTyped /\ VecTyped /\ RestTyped
  BY TypeParts DEF IndexInv
<1>1. /\ worker[w].msg \in Msgs /\ worker[w].msg.v \in Versions /\ worker[w].msg.s \in Points
      /\ worker[w].msg.attempt \in 0..MaxRetry
  BY <1>0, HandlerTyped
<1>2. ASSUME DeliverTwice(w) PROVE IndexInv' /\ KeepsSearchable
  <2>1. Held(w) /\ msgs' = msgs \cup {worker[w].msg} /\ UNCHANGED <<worker, dead>>
    BY <1>2 DEF DeliverTwice, Held
  <2>2. \A x \in msgs' : Known(x)
    BY <2>1, KnownThere, KnownHeld
  <2>3. Moves
    BY <1>0, <1>1, <2>1, <2>2, QueueMoves DEF DeliveryTyped
  <2>4. RestTyped'
    <3>1. dups' \in 0..Duplicates
      BY <1>0, <1>2, RetrievalAssumption DEF RestTyped, DeliverTwice
    <3> QED
      BY <1>0, <1>2, <3>1 DEF RestTyped, DeliverTwice
  <2> QED
    BY <1>0, <1>2, <2>3, <2>4, VecSame, QuietTyped DEF DeliverTwice
<1>3. ASSUME Crash(w) PROVE IndexInv' /\ KeepsSearchable
  <2>1. PICK n \in {worker[w].msg.attempt, worker[w].msg.attempt + 1} :
               n <= MaxRetry /\ msgs' = msgs \cup {[worker[w].msg EXCEPT !.attempt = n]}
    BY <1>3 DEF Crash
  <2>2. n \in 0..MaxRetry
    BY <1>1, <2>1, RetrievalAssumption
  <2>3. Moves
    BY <1>0, <1>3, <2>1, <2>2, AgainMoves DEF Crash, Held
  <2> QED
    BY <1>0, <1>3, <2>3, FaultTyped, VecSame, QuietTyped DEF Crash
<1>4. ASSUME CallFails(w) PROVE IndexInv' /\ KeepsSearchable
  <2>1. Held(w)
    BY <1>4 DEF CallFails, Held
  <2>2. Moves
    BY <1>0, <1>4, <2>1, RetryMoves, LostMoves DEF CallFails
  <2>3. VecTyped'
    <3>1. PartialCall(w)
      BY <1>4 DEF CallFails
    <3> QED
      BY <1>0, <1>1, <3>1, VecSame, VecCalls, CleanedTyped DEF PartialCall
  <2> QED
    BY <1>0, <1>4, <2>2, <2>3, FaultTyped, QuietTyped DEF CallFails
<1>5. ASSUME RecordFails(w) PROVE IndexInv' /\ KeepsSearchable
  <2>1. Held(w) /\ Settle(w)
    BY <1>5 DEF RecordFails, Held
  <2>2. CASE UNCHANGED msgs /\ Lost(worker[w].msg)
    <3>1. Moves
      BY <1>0, <2>1, <2>2, LostMoves
    <3> QED
      BY <1>0, <1>5, <3>1, FaultTyped, VecSame, QuietTyped DEF RecordFails
  <2>3. CASE /\ worker[w].msg.attempt < MaxRetry
             /\ msgs' = msgs \cup {[worker[w].msg EXCEPT !.attempt = @ + 1]} /\ UNCHANGED dead
    <3> DEFINE n == worker[w].msg.attempt + 1
    <3>1. n \in 0..MaxRetry
      BY <1>1, <2>3, RetrievalAssumption
    <3>2. msgs' = msgs \cup {[worker[w].msg EXCEPT !.attempt = n]}
      BY <2>3
    <3> HIDE DEF n
    <3>3. Moves
      BY <1>0, <2>1, <2>3, <3>1, <3>2, AgainMoves
    <3> QED
      BY <1>0, <1>5, <3>3, FaultTyped, VecSame, QuietTyped DEF RecordFails
  <2> QED
    BY <1>5, <2>2, <2>3 DEF RecordFails
<1>6. ASSUME DeleteFailedFails(w) PROVE IndexInv' /\ KeepsSearchable
  <2>1. Moves
    BY <1>0, <1>6, SettleMoves DEF DeleteFailedFails
  <2>2. VecTyped'
    <3>1. vec' = vec \/ vec' = WithoutPoints(worker[w].msg.v)
      BY <1>6 DEF DeleteFailedFails
    <3> QED
      BY <1>0, <3>1, VecSame, CleanedTyped
  <2> QED
    BY <1>0, <1>6, <2>1, <2>2, FaultTyped, QuietTyped DEF DeleteFailedFails
<1>7. ASSUME NEW m \in msgs, FirstCallFails(w, m) PROVE IndexInv' /\ KeepsSearchable
  <2>0. m \in Msgs /\ m.attempt \in 0..MaxRetry
    BY <1>0 DEF DeliveryTyped, Msgs
  <2>1. CASE /\ m.attempt < MaxRetry
             /\ msgs' = (msgs \ {m}) \cup {[m EXCEPT !.attempt = @ + 1]}
             /\ UNCHANGED <<worker, dead>>
    <3> DEFINE n == m.attempt + 1
               again == [m EXCEPT !.attempt = n]
    <3>1. n \in 0..MaxRetry
      BY <2>0, <2>1, RetrievalAssumption
    <3>2. msgs' = (msgs \ {m}) \cup {again}
      BY <2>1
    <3> HIDE DEF n
    <3>3. again \in Msgs /\ Same(again, m)
      BY <2>0, <3>1, Attempts
    <3> HIDE DEF again
    <3>4. Known(again)
      BY <3>3 DEF Known
    <3>5. \A x \in msgs' : Known(x)
      BY <3>2, <3>4, KnownThere
    <3>6. Moves
      BY <1>0, <2>1, <3>2, <3>3, <3>5, QueueMoves DEF DeliveryTyped
    <3> QED
      BY <1>0, <1>7, <3>6, FaultTyped, VecSame, QuietTyped DEF FirstCallFails
  <2>2. CASE msgs' = msgs \ {m} /\ Hold(w, m, "failing") /\ UNCHANGED dead
    <3>1. Moves
      BY <1>0, <2>2, HoldMoves DEF Steps, FinalSteps, FenceSteps
    <3> QED
      BY <1>0, <1>7, <3>1, FaultTyped, VecSame, QuietTyped DEF FirstCallFails
  <2>3. CASE Drop(w, m) /\ Lost(m)
    <3>1. Moves
      BY <1>0, <2>0, <2>3, LostTyped, DropMoves
    <3> QED
      BY <1>0, <1>7, <3>1, FaultTyped, VecSame, QuietTyped DEF FirstCallFails
  <2> QED
    BY <1>7, <2>1, <2>2, <2>3 DEF FirstCallFails
<1> QED
  BY <1>2, <1>3, <1>4, <1>5, <1>6, <1>7

LEMMA NothingMoves ==
    ASSUME DeliveryTyped, UNCHANGED <<msgs, worker, dead>>
    PROVE  Moves
<1>1. \A x \in msgs' : Known(x)
  BY KnownThere
<1> QED
  BY <1>1, QueueMoves DEF DeliveryTyped

LEMMA TickerQuiet ==
    ASSUME IndexInv
    PROVE  /\ \A v \in Versions : retryPendingVectorCleanup(v) => IndexInv' /\ KeepsSearchable
           /\ RetryDeletions \/ TickerStops => IndexInv' /\ KeepsSearchable
<1>0. DeliveryTyped /\ VecTyped /\ RestTyped
  BY TypeParts DEF IndexInv
<1>1. ASSUME NEW v \in Versions, retryPendingVectorCleanup(v) PROVE IndexInv' /\ KeepsSearchable
  <2>1. Moves
    BY <1>0, <1>1, NothingMoves DEF retryPendingVectorCleanup
  <2>2. VecTyped'
    BY <1>0, <1>1, VecCalls DEF retryPendingVectorCleanup
  <2>3. RestTyped'
    BY <1>0, <1>1 DEF retryPendingVectorCleanup, RestTyped
  <2> QED
    BY <1>1, <2>1, <2>2, <2>3, QuietTyped DEF retryPendingVectorCleanup
<1>2. ASSUME RetryDeletions PROVE IndexInv' /\ KeepsSearchable
  <2>1. Moves
    BY <1>0, <1>2, NothingMoves DEF RetryDeletions
  <2>2. VecTyped'
    BY <1>2 DEF RetryDeletions, NoPoints, VecTyped, PointStates
  <2>3. RestTyped'
    BY <1>0, <1>2 DEF RetryDeletions, RestTyped
  <2> QED
    BY <1>2, <2>1, <2>2, <2>3, QuietTyped DEF RetryDeletions
<1>3. ASSUME TickerStops PROVE IndexInv' /\ KeepsSearchable
  <2>1. Moves
    BY <1>0, <1>3, NothingMoves DEF TickerStops
  <2>2. faults' \in 0..MaxFaults
    BY <1>0, <1>3, RetrievalAssumption DEF TickerStops, RestTyped
  <2>3. RestTyped'
    BY <1>0, <1>3, <2>2 DEF TickerStops, RestTyped
  <2> QED
    BY <1>0, <1>3, <2>1, <2>3, VecSame, QuietTyped DEF TickerStops
<1> QED
  BY <1>1, <1>2, <1>3

-----------------------------------------------------------------------------
(* Batches, leases and cleanups: rows change, the states of jobs do not *)

LEMMA BatchCell ==
    ASSUME RowsTyped, NEW v \in Versions, NEW s, NEW st \in BatchStates,
           batch' = [batch EXCEPT ![v][s] = st]
    PROVE  /\ batch' \in [Versions -> [Shards -> BatchStates]]
           /\ \A u \in Versions, x \in Shards : (u # v \/ x # s) => batch'[u][x] = batch[u][x]
<1> DEFINE row == [batch[v] EXCEPT ![s] = st]
<1>1. batch \in [Versions -> [Shards -> BatchStates]] /\ batch[v] \in [Shards -> BatchStates]
  BY DEF RowsTyped
<1>2. row \in [Shards -> BatchStates] /\ \A x \in Shards : x # s => row[x] = batch[v][x]
  BY <1>1
<1>3. batch' = [batch EXCEPT ![v] = row]
  OBVIOUS
<1> HIDE DEF row
<1> QED
  BY <1>1, <1>2, <1>3

LEMMA LeaseField ==
    ASSUME RowsTyped, NEW v \in Versions, NEW b \in BOOLEAN,
           job' = [job EXCEPT ![v].inflight = b]
    PROVE  /\ job' \in [Versions -> Job]
           /\ job'[v].inflight = b /\ \A u \in Versions : u # v => job'[u] = job[u]
           /\ \A u \in Versions : job'[u].state = job[u].state
<1> DEFINE row == [job[v] EXCEPT !.inflight = b]
<1>1. job \in [Versions -> Job] /\ job[v] \in Job
  BY DEF RowsTyped
<1>2. row \in Job /\ row.inflight = b /\ row.state = job[v].state
  BY <1>1 DEF Job
<1>3. job' = [job EXCEPT ![v] = row]
  OBVIOUS
<1> HIDE DEF row
<1> QED
  BY <1>1, <1>2, <1>3

(* A generation's points were deleted. *)
LEMMA CleanedField ==
    ASSUME RowsTyped, NEW u, job' = [job EXCEPT ![u].vclean = FALSE]
    PROVE  /\ job' \in [Versions -> Job]
           /\ \A x \in Versions : /\ job'[x].state = job[x].state
                                  /\ job'[x].inflight = job[x].inflight
<1>1. job \in [Versions -> Job]
  BY DEF RowsTyped
<1>2. CASE u \in Versions
  <2> DEFINE row == [job[u] EXCEPT !.vclean = FALSE]
  <2>1. job[u] \in Job
    BY <1>1, <1>2
  <2>2. row \in Job /\ row.inflight = job[u].inflight /\ row.state = job[u].state
    BY <2>1 DEF Job
  <2>3. job' = [job EXCEPT ![u] = row]
    OBVIOUS
  <2> HIDE DEF row
  <2> QED
    BY <1>1, <2>2, <2>3
<1>3. CASE u \notin Versions
  <2>1. job' = job
    BY <1>1, <1>3
  <2> QED
    BY <1>1, <2>1
<1> QED
  BY <1>2, <1>3

LEMMA EmptyKept ==
    ASSUME IndexInv, UNCHANGED life, outbox' \subseteq outbox,
           life.state = "deleted" =>
               /\ UNCHANGED manifest /\ meta' # "full"
               /\ \A v \in Versions : /\ job'[v].state = "none" /\ ~ job'[v].inflight
                                      /\ \A s \in Shards : batch'[v][s] = "none"
    PROVE  EmptyInv'
  BY DEF IndexInv, EmptyInv

LEMMA RowStep ==
    ASSUME IndexInv, DeliveryTyped', Carries, RowsTyped', VecTyped', RestTyped',
           UNCHANGED <<meta, life, catalog, outbox, sent>>,
           \A v \in Versions : job'[v].state = job[v].state,
           life.state = "deleted" =>
               /\ UNCHANGED manifest
               /\ \A v \in Versions : /\ ~ job'[v].inflight
                                      /\ \A s \in Shards : batch'[v][s] = "none",
           LeaseInv'
    PROVE  IndexInv' /\ KeepsSearchable
<1>1. TypeOK'
  BY TypeParts
<1>2. EmptyInv'
  BY EmptyKept DEF IndexInv, EmptyInv
<1>3. \A kind \in {"indexed", "failed"}, v \in Versions : Told(kind, v)' => Told(kind, v)
  BY DEF Told
<1> QED
  BY <1>1, <1>2, <1>3, SameStates DEF IndexInv, StoreInv

(* Only w's finalization of v is new. *)
OnlyFinalizer(w, v) ==
    \A x \in Workers, u \in Versions : Finalizing(x, u)' => Finalizing(x, u) \/ (x = w /\ u = v)

LEMMA AcquireMoves ==
    ASSUME DeliveryTyped, NEW w \in Workers, NEW d \in Handler, Known(d.msg),
           d.at \notin FenceSteps, worker' = [worker EXCEPT ![w] = d], msgs' \subseteq msgs, UNCHANGED dead
    PROVE  DeliveryTyped' /\ Carries /\ OnlyFinalizer(w, d.msg.v)
<1>1. worker \in [Workers -> Handler]
  BY DEF DeliveryTyped
<1>2. /\ worker' \in [Workers -> Handler] /\ worker'[w] = d
      /\ \A x \in Workers : x # w => worker'[x] = worker[x]
  BY <1>1
<1>3. ASSUME NEW x \in Workers, Held(x)'
      PROVE  Known(worker'[x].msg)
  <2>1. CASE x = w
    BY <1>2, <2>1
  <2>2. CASE x # w
    BY <1>2, <1>3, <2>2, KnownHeld DEF Held
  <2> QED
    BY <2>1, <2>2
<1>4. OnlyFinalizer(w, d.msg.v)
  BY <1>2 DEF OnlyFinalizer, Finalizing
<1>5. \A m \in msgs' : Known(m)
  BY KnownThere
<1> QED
  BY <1>2, <1>3, <1>4, <1>5 DEF Carries, DeliveryTyped

(* The lease of a generation that nobody finalizes is acquired. *)
LEMMA Acquire ==
    ASSUME IndexInv, NEW v \in Versions, NEW w \in Workers, acquirable(v),
           job' = [job EXCEPT ![v].inflight = TRUE], OnlyFinalizer(w, v), UNCHANGED life
    PROVE  LeaseInv'
<1>0. RowsTyped /\ LeaseInv
  BY TypeParts DEF IndexInv
<1>1. /\ job'[v].inflight /\ \A u \in Versions : u # v => job'[u] = job[u]
      /\ \A u \in Versions : job'[u].state = job[u].state
  BY <1>0, LeaseField
<1>2. \A x \in Workers : ~ Finalizing(x, v)
  BY <1>0 DEF LeaseInv, acquirable
<1>3. job[v].state = "pending"
  BY DEF acquirable
<1>4. lifecycleDeletionFenced' <=> lifecycleDeletionFenced
  BY DEF lifecycleDeletionFenced
<1>5. ASSUME NEW u \in Versions, NEW x \in Workers, Finalizing(x, u)'
      PROVE  /\ job'[u].state = "pending" => job'[u].inflight
             /\ job'[u].state = "none" => lifecycleDeletionFenced'
  <2>1. CASE u = v
    BY <1>1, <1>3, <2>1
  <2>2. CASE u # v
    BY <1>0, <1>1, <1>4, <1>5, <2>2 DEF OnlyFinalizer, LeaseInv
  <2> QED
    BY <2>1, <2>2
<1>6. OneFinalizer'
  <2>1. ASSUME NEW u \in Versions, NEW x \in Workers, NEW y \in Workers,
               Finalizing(x, u)', Finalizing(y, u)'
        PROVE  x = y
    <3>1. CASE u = v
      BY <1>2, <2>1, <3>1 DEF OnlyFinalizer
    <3>2. CASE u # v
      <4>1. Finalizing(x, u) /\ Finalizing(y, u)
        BY <2>1, <3>2 DEF OnlyFinalizer
      <4> QED
        BY <1>0, <4>1 DEF LeaseInv, OneFinalizer
    <3> QED
      BY <3>1, <3>2
  <2> QED
    BY <2>1 DEF OneFinalizer
<1> QED
  BY <1>5, <1>6 DEF LeaseInv

(* A lease is given up: the job is not pending any more or nobody finalizes it. *)
LEMMA Release ==
    ASSUME IndexInv, NEW v \in Versions, NoNewFinalizer, UNCHANGED life,
           \A u \in Versions : job'[u].state = job[u].state,
           \A u \in Versions : u # v => job'[u].inflight = job[u].inflight,
           job[v].state = "pending" => \A x \in Workers : ~ Finalizing(x, v)'
    PROVE  LeaseInv'
<1>0. LeaseInv
  BY DEF IndexInv
<1>1. lifecycleDeletionFenced' <=> lifecycleDeletionFenced
  BY DEF lifecycleDeletionFenced
<1>2. ASSUME NEW u \in Versions, NEW x \in Workers, Finalizing(x, u)'
      PROVE  /\ job'[u].state = "pending" => job'[u].inflight
             /\ job'[u].state = "none" => lifecycleDeletionFenced'
  <2>1. Finalizing(x, u)
    BY <1>2 DEF NoNewFinalizer
  <2> QED
    BY <1>0, <1>1, <1>2, <2>1 DEF LeaseInv
<1>3. OneFinalizer'
  BY <1>0 DEF LeaseInv, OneFinalizer, NoNewFinalizer
<1> QED
  BY <1>2, <1>3 DEF LeaseInv

LEMMA Leaving ==
    ASSUME IndexInv, NEW w \in Workers, NEW v \in Versions, Finalizing(w, v), Settle(w)
    PROVE  \A x \in Workers : ~ Finalizing(x, v)'
<1>1. worker \in [Workers -> Handler]
  BY TypeParts DEF IndexInv, DeliveryTyped
<1>2. worker'[w] = Idle /\ \A x \in Workers : x # w => worker'[x] = worker[x]
  BY <1>1 DEF Settle
<1>3. ASSUME NEW x \in Workers, Finalizing(x, v)' PROVE FALSE
  <2>1. x # w
    BY <1>2, <1>3, IdleTyped DEF Finalizing
  <2>2. Finalizing(x, v)
    BY <1>2, <1>3, <2>1 DEF Finalizing
  <2> QED
    BY <2>1, <2>2 DEF IndexInv, LeaseInv, OneFinalizer
<1> QED
  BY <1>3

LEMMA BeginStep ==
    ASSUME IndexInv, NEW w \in Workers, NEW m \in msgs, BeginBatch(w, m)
    PROVE  IndexInv' /\ KeepsSearchable
<1>0. DeliveryTyped /\ VecTyped /\ RestTyped /\ RowsTyped
  BY TypeParts DEF IndexInv
<1> DEFINE v == m.v
<1>1. m \in Msgs /\ v \in Versions
  BY <1>0 DEF DeliveryTyped, Msgs
<1>2. /\ msgs' = msgs \ {m} /\ UNCHANGED <<meta, manifest, life, outbox, sent, vec, outside>>
  BY DEF BeginBatch
<1>3. VecTyped' /\ RestTyped' /\ UNCHANGED <<catalog, dead>>
  BY <1>0, <1>2, VecSame, RestSame DEF outside
<1>4. CASE UNCHANGED <<worker, job, batch>>
  <2>1. \A x \in msgs' : Known(x)
    BY <1>2, KnownThere
  <2>2. Moves
    BY <1>0, <1>2, <1>3, <1>4, <2>1, QueueMoves DEF DeliveryTyped
  <2> QED
    BY <1>2, <1>3, <1>4, <2>2, QuietTyped
<1>5. CASE /\ job[v].state = "pending" /\ acquirable(v)
           /\ job' = [job EXCEPT ![v].inflight = TRUE]
           /\ Hold(w, m, "acquired") /\ UNCHANGED batch
  <2> DEFINE d == [at |-> "acquired", msg |-> m, prior |-> {}]
  <2>1. d \in Handler /\ d.msg = m /\ d.at \notin FenceSteps
    BY <1>1 DEF Handler, Steps, FenceSteps
  <2>2. worker' = [worker EXCEPT ![w] = d]
    BY <1>5 DEF Hold
  <2>3. Known(d.msg)
    BY <2>1, KnownThere
  <2> HIDE DEF d
  <2>4. DeliveryTyped' /\ Carries /\ OnlyFinalizer(w, v)
    BY <1>0, <1>2, <1>3, <2>1, <2>2, <2>3, AcquireMoves
  <2>5. LeaseInv'
    BY <1>1, <1>2, <1>5, <2>4, Acquire
  <2>6. /\ job' \in [Versions -> Job]
        /\ \A u \in Versions : job'[u].state = job[u].state
    BY <1>0, <1>1, <1>5, LeaseField
  <2>7. RowsTyped'
    BY <1>0, <1>2, <1>5, <2>6 DEF RowsTyped
  <2>8. life.state # "deleted"
    BY <1>1, <1>5 DEF IndexInv, EmptyInv
  <2> QED
    BY <1>2, <1>3, <2>4, <2>5, <2>6, <2>7, <2>8, RowStep
<1>6. CASE /\ job[v].state = "pending"
           /\ batch' = [batch EXCEPT ![v][m.s] = "processing"]
           /\ Hold(w, m, "begun") /\ UNCHANGED job
  <2>1. Moves
    BY <1>0, <1>2, <1>3, <1>6, HoldMoves DEF Steps, FinalSteps, FenceSteps
  <2>2. LeaseInv'
    BY <1>2, <1>6, <2>1, LeaseKept DEF Moves, lifecycleDeletionFenced
  <2>3. batch' \in [Versions -> [Shards -> BatchStates]]
    BY <1>0, <1>1, <1>6, BatchCell DEF BatchStates
  <2>4. RowsTyped'
    BY <1>0, <1>2, <1>6, <2>3 DEF RowsTyped
  <2>5. life.state # "deleted"
    BY <1>1, <1>6 DEF IndexInv, EmptyInv
  <2> QED
    BY <1>2, <1>3, <1>6, <2>1, <2>2, <2>4, <2>5, RowStep DEF Moves
<1> QED
  BY <1>4, <1>5, <1>6 DEF BeginBatch

(* A batch in processing ends as failed. *)
LEMMA BatchFails ==
    ASSUME IndexInv, NEW v \in Versions, NEW s, Moves, UNCHANGED <<meta, manifest, life, job,
           outbox, sent, catalog>>, VecTyped', RestTyped',
           batch' = IF batch[v][s] = "processing" THEN [batch EXCEPT ![v][s] = "failed"] ELSE batch
    PROVE  IndexInv' /\ KeepsSearchable
<1>0. RowsTyped
  BY TypeParts DEF IndexInv
<1>1. LeaseInv'
  BY LeaseKept DEF Moves, lifecycleDeletionFenced
<1>2. CASE UNCHANGED batch
  <2>1. RowsTyped'
    BY <1>0, <1>2 DEF RowsTyped
  <2>2. TypeOK'
    BY <2>1, TypeParts DEF Moves
  <2> QED
    BY <1>2, <2>2, Quiet
<1>3. CASE batch[v][s] = "processing" /\ batch' = [batch EXCEPT ![v][s] = "failed"]
  <2>0. batch' = [batch EXCEPT ![v][s] = "failed"] /\ "failed" \in BatchStates /\ v \in Versions
    BY <1>3 DEF BatchStates
  <2>1. /\ batch' \in [Versions -> [Shards -> BatchStates]]
        /\ \A u \in Versions, x \in Shards : (u # v \/ x # s) => batch'[u][x] = batch[u][x]
    BY ONLY <1>0, <2>0, BatchCell
  <2>2. RowsTyped'
    BY <1>0, <2>1 DEF RowsTyped
  <2>3. life.state = "deleted" =>
            \A u \in Versions : /\ ~ job'[u].inflight
                                /\ \A x \in Shards : batch'[u][x] = "none"
    <3>1. SUFFICES ASSUME life.state = "deleted", NEW u \in Versions
                   PROVE  ~ job'[u].inflight /\ \A x \in Shards : batch'[u][x] = "none"
      OBVIOUS
    <3>2. /\ ~ job[u].inflight /\ \A x \in Shards : batch[u][x] = "none"
          /\ \A x \in Shards : batch[v][x] = "none"
      BY <3>1 DEF IndexInv, EmptyInv
    <3> QED
      BY <1>3, <2>1, <3>2
  <2> QED
    BY <1>1, <2>2, <2>3, RowStep DEF Moves
<1> QED
  BY <1>2, <1>3

LEMMA CheckStep ==
    ASSUME IndexInv, NEW w \in Workers, CheckBatchActive(w)
    PROVE  IndexInv' /\ KeepsSearchable
<1>0. DeliveryTyped /\ VecTyped /\ RestTyped
  BY TypeParts DEF IndexInv
<1>1. worker[w].msg.v \in Versions
  BY <1>0, HandlerTyped
<1>2. VecTyped' /\ RestTyped' /\ UNCHANGED <<meta, manifest, life, job, outbox, sent, catalog, dead>>
  BY <1>0, VecSame, RestSame DEF CheckBatchActive, outside
<1>3. CASE Continue(w, "checked") /\ UNCHANGED batch
  <2>1. Moves
    BY <1>0, <1>2, <1>3, ContinueMoves DEF CheckBatchActive, Held, Steps, FinalSteps, FenceSteps
  <2> QED
    BY <1>2, <1>3, <2>1, QuietTyped
<1>4. CASE /\ Settle(w) /\ UNCHANGED msgs
           /\ batch' = IF batch[worker[w].msg.v][worker[w].msg.s] = "processing"
                       THEN [batch EXCEPT ![worker[w].msg.v][worker[w].msg.s] = "failed"] ELSE batch
  <2>1. Moves
    BY <1>0, <1>2, <1>4, SettleMoves
  <2> QED
    BY <1>1, <1>2, <1>4, <2>1, BatchFails
<1> QED
  BY <1>3, <1>4 DEF CheckBatchActive

LEMMA CompleteBatchStep ==
    ASSUME IndexInv, NEW w \in Workers, CompleteBatch(w)
    PROVE  IndexInv' /\ KeepsSearchable
<1>0. DeliveryTyped /\ VecTyped /\ RestTyped /\ RowsTyped
  BY TypeParts DEF IndexInv
<1> DEFINE v == worker[w].msg.v
           s == worker[w].msg.s
           last == Remaining(v) \ {s} = {}
<1>1. v \in Versions /\ worker[w] \in Handler
  BY <1>0, HandlerTyped
<1>2. /\ VecTyped' /\ RestTyped' /\ Held(w)
      /\ UNCHANGED <<meta, manifest, life, outbox, sent, catalog>>
  BY <1>0, VecSame, RestSame DEF CompleteBatch, Held
<1>3. CASE RetryLater(w) /\ UNCHANGED <<job, batch>>
  BY <1>0, <1>2, <1>3, RetryMoves, QuietTyped
<1>4. CASE /\ batch' = IF batch[v][s] = "processing"
                       THEN [batch EXCEPT ![v][s] = "failed"] ELSE batch
           /\ Settle(w) /\ UNCHANGED <<job, msgs, dead>>
  <2>1. Moves
    BY <1>0, <1>4, SettleMoves
  <2> QED
    BY <1>1, <1>2, <1>4, <2>1, BatchFails
<1>5. CASE Settle(w) /\ UNCHANGED <<job, batch, msgs, dead>>
  BY <1>0, <1>2, <1>5, SettleMoves, QuietTyped
<1>6. CASE /\ job[v].state = "pending" /\ (last => acquirable(v))
           /\ batch' = [batch EXCEPT ![v][s] = "completed"]
           /\ UNCHANGED <<msgs, dead>>
           /\ IF last THEN job' = [job EXCEPT ![v].inflight = TRUE]
                           /\ worker' = [worker EXCEPT ![w].at = "acquired"]
              ELSE UNCHANGED job /\ Settle(w)
  <2>1. batch' \in [Versions -> [Shards -> BatchStates]]
    BY <1>0, <1>1, <1>6, BatchCell DEF BatchStates
  <2>2. life.state # "deleted"
    BY <1>1, <1>6 DEF IndexInv, EmptyInv
  <2>3. CASE last
    <3> DEFINE d == [worker[w] EXCEPT !.at = "acquired"]
    <3>1. d \in Handler /\ d.msg = worker[w].msg /\ d.at \notin FenceSteps
      BY <1>1 DEF Handler, Steps, FenceSteps
    <3>2. worker' = [worker EXCEPT ![w] = d] /\ job' = [job EXCEPT ![v].inflight = TRUE]
      BY <1>6, <2>3
    <3>3. Known(d.msg)
      BY <1>2, <3>1, KnownHeld
    <3> HIDE DEF d, last
    <3>4. DeliveryTyped' /\ Carries /\ OnlyFinalizer(w, v)
      BY <1>0, <1>6, <3>1, <3>2, <3>3, AcquireMoves
    <3>5. LeaseInv'
      BY <1>1, <1>2, <1>6, <2>3, <3>2, <3>4, Acquire
    <3>6. /\ job' \in [Versions -> Job]
          /\ \A u \in Versions : job'[u].state = job[u].state
      BY <1>0, <1>1, <3>2, LeaseField
    <3>7. RowsTyped'
      BY <1>0, <1>2, <2>1, <3>6 DEF RowsTyped
    <3> QED
      BY <1>2, <2>2, <3>4, <3>5, <3>6, <3>7, RowStep
  <2>4. CASE ~ last
    <3>1. Moves
      BY <1>0, <1>6, <2>4, SettleMoves
    <3>2. LeaseInv'
      BY <1>2, <1>6, <2>4, <3>1, LeaseKept DEF Moves, lifecycleDeletionFenced
    <3>3. RowsTyped'
      BY <1>0, <1>2, <1>6, <2>1, <2>4 DEF RowsTyped
    <3> QED
      BY <1>2, <1>6, <2>2, <2>4, <3>1, <3>2, <3>3, RowStep DEF Moves
  <2> QED
    BY <2>3, <2>4
<1> QED
  BY <1>3, <1>4, <1>5, <1>6 DEF CompleteBatch

(* The points of a generation are gone: CompleteVectorCleanup. *)
LEMMA CleanStep ==
    ASSUME IndexInv, Moves, NEW u, job' = [job EXCEPT ![u].vclean = FALSE], VecTyped', RestTyped',
           UNCHANGED <<meta, manifest, life, batch, outbox, sent, catalog>>
    PROVE  IndexInv' /\ KeepsSearchable
<1>0. RowsTyped
  BY TypeParts DEF IndexInv
<1>1. /\ job' \in [Versions -> Job]
      /\ \A x \in Versions : job'[x].state = job[x].state /\ job'[x].inflight = job[x].inflight
  BY <1>0, CleanedField
<1>2. RowsTyped'
  BY <1>0, <1>1 DEF RowsTyped
<1>3. LeaseInv'
  BY <1>1, LeaseKept DEF Moves, lifecycleDeletionFenced
<1>4. life.state = "deleted" =>
          \A x \in Versions : ~ job'[x].inflight /\ \A s \in Shards : batch'[x][s] = "none"
  BY <1>1 DEF IndexInv, EmptyInv
<1> QED
  BY <1>1, <1>2, <1>3, <1>4, RowStep DEF Moves

LEMMA CleanupSteps ==
    ASSUME IndexInv
    PROVE  /\ \A w \in Workers : CompletePriorCleanup(w) => IndexInv' /\ KeepsSearchable
           /\ \A w \in Workers : CompleteFailedCleanup(w) => IndexInv' /\ KeepsSearchable
           /\ CompleteVectorCleanup => IndexInv' /\ KeepsSearchable
<1>0. DeliveryTyped /\ VecTyped /\ RestTyped
  BY TypeParts DEF IndexInv
<1>1. ASSUME NEW w \in Workers, CompletePriorCleanup(w) PROVE IndexInv' /\ KeepsSearchable
  <2> DEFINE rest == worker[w].prior \ {OldestPrior(w)}
             d == [worker[w] EXCEPT !.at = "finalized", !.prior = rest]
  <2>1. worker[w] \in Handler /\ rest \in SUBSET Versions /\ Held(w)
    BY <1>0, <1>1, HandlerTyped DEF CompletePriorCleanup, Held
  <2>2. /\ UNCHANGED <<msgs, dead, meta, manifest, life, batch, outbox, sent, catalog>>
        /\ VecTyped' /\ RestTyped' /\ job' = [job EXCEPT ![OldestPrior(w)].vclean = FALSE]
    BY <1>0, <1>1, VecSame, RestSame DEF CompletePriorCleanup, outside
  <2>3. Settle(w) \/ worker' = [worker EXCEPT ![w] = d]
    BY <1>1 DEF CompletePriorCleanup, Settle
  <2> HIDE DEF rest
  <2>4. /\ d \in Handler /\ d.at = "finalized" /\ d.msg = worker[w].msg
        /\ d.at \notin FinalSteps \cup FenceSteps
    BY <2>1 DEF Handler, Steps, FinalSteps, FenceSteps
  <2> HIDE DEF d
  <2>5. \A m \in msgs' : Known(m)
    BY <2>2, KnownThere
  <2>6. Moves
    BY <1>0, <2>1, <2>2, <2>3, <2>4, <2>5, SettleMoves, KnownHeld, Move DEF DeliveryTyped
  <2> QED
    BY <2>2, <2>6, CleanStep
<1>2. ASSUME NEW w \in Workers, CompleteFailedCleanup(w) PROVE IndexInv' /\ KeepsSearchable
  <2>1. /\ UNCHANGED <<msgs, dead, meta, manifest, life, batch, outbox, sent, catalog>>
        /\ VecTyped' /\ RestTyped' /\ job' = [job EXCEPT ![worker[w].msg.v].vclean = FALSE]
    BY <1>0, <1>2, VecSame, RestSame DEF CompleteFailedCleanup, outside
  <2>2. Moves
    BY <1>0, <1>2, <2>1, SettleMoves DEF CompleteFailedCleanup
  <2> QED
    BY <2>1, <2>2, CleanStep
<1>3. ASSUME CompleteVectorCleanup PROVE IndexInv' /\ KeepsSearchable
  <2>1. /\ UNCHANGED <<msgs, dead, meta, manifest, life, batch, outbox, sent, catalog>>
        /\ VecTyped' /\ RestTyped' /\ job' = [job EXCEPT ![ticker.v].vclean = FALSE]
    BY <1>0, <1>3, VecSame DEF CompleteVectorCleanup, RestTyped
  <2>2. Moves
    BY <1>0, <1>3, NothingMoves DEF CompleteVectorCleanup
  <2> QED
    BY <2>1, <2>2, CleanStep
<1> QED
  BY <1>1, <1>2, <1>3

LEMMA ManifestStep ==
    ASSUME IndexInv, NEW w \in Workers, NEW m \in msgs, ProjectManifest(w, m)
    PROVE  IndexInv' /\ KeepsSearchable
<1>0. DeliveryTyped /\ VecTyped /\ RestTyped /\ RowsTyped
  BY TypeParts DEF IndexInv
<1>1. /\ msgs' = msgs \ {m} /\ UNCHANGED <<meta, life, job, batch, outbox, sent, catalog, dead>>
      /\ VecTyped' /\ RestTyped'
  BY <1>0, VecSame, RestSame DEF ProjectManifest, outside
<1>2. CASE UNCHANGED <<worker, manifest>>
  <2>1. \A x \in msgs' : Known(x)
    BY <1>1, KnownThere
  <2>2. Moves
    BY <1>0, <1>1, <1>2, <2>1, QueueMoves DEF DeliveryTyped
  <2> QED
    BY <1>1, <1>2, <2>2, QuietTyped
<1>3. CASE /\ ~ lifecycleDeletionFenced /\ Hold(w, m, "projected")
           /\ manifest' = IF manifest = "none" THEN "ok" ELSE manifest
  <2>1. Moves
    BY <1>0, <1>1, <1>3, HoldMoves DEF Steps, FinalSteps, FenceSteps
  <2>2. RowsTyped'
    BY <1>0, <1>1, <1>3 DEF RowsTyped
  <2>3. LeaseInv'
    BY <1>1, <2>1, LeaseKept DEF Moves, lifecycleDeletionFenced
  <2>4. life.state # "deleted"
    BY <1>3 DEF lifecycleDeletionFenced
  <2> QED
    BY <1>1, <2>1, <2>2, <2>3, <2>4, RowStep DEF Moves
<1> QED
  BY <1>2, <1>3 DEF ProjectManifest

LEMMA RowFields ==
    ASSUME NEW kind, NEW v, NEW s
    PROVE  /\ Row(kind, v, s).kind = kind /\ Row(kind, v, s).v = v /\ Row(kind, v, s).s = s
           /\ Msg(kind, v, s, 0).kind = kind
  BY DEF Row, Msg

LEMMA RequestTyped ==
    ASSUME NEW v \in Versions, NEW s \in Shards
    PROVE  Row("request", v, s) \in Rows
  BY DEF Row, Rows

LEMMA DispatchStep ==
    ASSUME IndexInv, NEW r \in outbox, dispatchOutbox(r)
    PROVE  IndexInv' /\ KeepsSearchable
<1>0. DeliveryTyped /\ VecTyped /\ RestTyped /\ RowsTyped
  BY TypeParts DEF IndexInv
<1>1. /\ UNCHANGED <<meta, manifest, life, job, batch, worker, catalog, dead>>
      /\ VecTyped' /\ RestTyped' /\ outbox' = outbox \ {r} /\ sent' = sent \cup {r}
  BY <1>0, VecSame, RestSame DEF dispatchOutbox, outside
<1>2. Moves
  <2>1. r \in Rows
    BY <1>0 DEF RowsTyped
  <2>2. r.kind = "request" => r.v \in Versions /\ r.s \in Shards
    BY <2>1 DEF Rows
  <2>3. r.kind = "request" => Msg("batch", r.v, r.s, 0) \in Msgs
    <3>1. 0 \in 0..MaxRetry
      BY RetrievalAssumption
    <3> QED
      BY <2>2, <3>1 DEF Msg, Msgs, Points
  <2>4. Known(Msg("batch", r.v, r.s, 0))
    BY RowFields DEF Known
  <2>5. msgs' = IF r.kind = "request" THEN msgs \cup {Msg("batch", r.v, r.s, 0)} ELSE msgs
    BY DEF dispatchOutbox
  <2>6. msgs' \subseteq Msgs /\ \A m \in msgs' : Known(m)
    BY <1>0, <2>3, <2>4, <2>5, KnownThere DEF DeliveryTyped
  <2> QED
    BY <1>0, <1>1, <2>6, QueueMoves DEF DeliveryTyped
<1>3. RowsTyped'
  BY <1>0, <1>1 DEF RowsTyped
<1>4. TypeOK'
  BY <1>1, <1>2, <1>3, TypeParts DEF Moves
<1>5. LeaseInv'
  BY <1>1, <1>2, LeaseKept DEF Moves, lifecycleDeletionFenced
<1>6. EmptyInv'
  BY <1>1 DEF IndexInv, EmptyInv
<1>7. outbox' \cup sent' = outbox \cup sent
  BY <1>1
<1>8. \A kind \in {"indexed", "failed"}, v \in Versions : Told(kind, v)' => Told(kind, v)
  BY <1>7 DEF Told
<1>9. meta' # "none" => life.state # "none"
  BY <1>1 DEF IndexInv, StoreInv
<1> QED
  BY <1>1, <1>2, <1>4, <1>5, <1>6, <1>8, <1>9, SameStates DEF Moves

(* A replayed request is told to nobody. *)
LEMMA ReplayTells ==
    ASSUME NEW r, r.kind = "request", Replay(r)
    PROVE  \A kind \in {"indexed", "failed"}, v \in Versions : Told(kind, v)' => Told(kind, v)
<1>1. SUFFICES ASSUME NEW kind \in {"indexed", "failed"}, NEW v \in Versions, Told(kind, v)'
               PROVE  Told(kind, v)
  OBVIOUS
<1>2. Row(kind, v, "document") # r
  BY RowFields
<1> HIDE DEF Row
<1>3. outbox' = outbox \cup {r} /\ sent' = sent \ {r}
  BY DEF Replay
<1> QED
  BY <1>1, <1>2, <1>3 DEF Told

(* What the recovery of crashed handlers has in common. *)
LEMMA RecoverStep ==
    ASSUME IndexInv, Moves, UNCHANGED <<meta, manifest, life, catalog, vec>>,
           life.state # "deleted", RowsTyped', RestTyped', LeaseInv',
           \A u \in Versions : job'[u].state = job[u].state,
           \/ UNCHANGED <<outbox, sent>>
           \/ \E v \in Versions, s \in Shards : Replay(Row("request", v, s))
    PROVE  IndexInv' /\ KeepsSearchable
<1>1. TypeOK'
  BY VecSame, TypeParts DEF Moves, IndexInv
<1>2. EmptyInv'
  BY DEF EmptyInv
<1>3. \A kind \in {"indexed", "failed"}, v \in Versions : Told(kind, v)' => Told(kind, v)
  <2>1. CASE UNCHANGED <<outbox, sent>>
    BY <2>1 DEF Told
  <2>2. CASE \E v \in Versions, s \in Shards : Replay(Row("request", v, s))
    <3>1. PICK v \in Versions, s \in Shards : Replay(Row("request", v, s))
      BY <2>2
    <3> QED
      BY <3>1, RowFields, ReplayTells
  <2> QED
    BY <2>1, <2>2
<1>4. meta' # "none" => life.state # "none"
  BY DEF IndexInv, StoreInv
<1> QED
  BY <1>1, <1>2, <1>3, <1>4, SameStates DEF Moves

LEMMA StaleBatchStep ==
    ASSUME IndexInv, NEW v \in Versions, NEW s \in Shards, RecoverStaleBatch(v, s)
    PROVE  IndexInv' /\ KeepsSearchable
<1>0. DeliveryTyped /\ VecTyped /\ RestTyped /\ RowsTyped
  BY TypeParts DEF IndexInv
<1>1. /\ UNCHANGED <<meta, manifest, life, job, msgs, vec, worker, ticker, catalog, faults, dead>>
      /\ batch[v][s] = "processing"
  BY DEF RecoverStaleBatch
<1>2. life.state # "deleted"
  BY <1>1 DEF IndexInv, EmptyInv
<1>3. Moves
  BY <1>0, <1>1, NothingMoves
<1>4. LeaseInv'
  BY <1>1, <1>3, LeaseKept DEF Moves, lifecycleDeletionFenced
<1>5. CASE /\ batch' = [batch EXCEPT ![v][s] = "pending"] /\ Replay(Row("request", v, s))
           /\ countDuplicate(v, s)
  <2>1. batch' \in [Versions -> [Shards -> BatchStates]]
    <3>1. batch' = [batch EXCEPT ![v][s] = "pending"] /\ "pending" \in BatchStates /\ v \in Versions
      BY <1>5 DEF BatchStates
    <3> QED
      BY ONLY <1>0, <3>1, BatchCell
  <2>2. outbox' \subseteq Rows /\ sent' \subseteq Rows
    BY <1>0, <1>5, RequestTyped DEF Replay, RowsTyped
  <2>3. RowsTyped'
    BY <1>0, <1>1, <2>1, <2>2 DEF RowsTyped
  <2>4. dups' \in 0..Duplicates
    BY <1>0, <1>5, RetrievalAssumption DEF countDuplicate, RestTyped
  <2>5. RestTyped'
    BY <1>0, <1>1, <2>4 DEF RestTyped
  <2> QED
    BY <1>1, <1>2, <1>3, <1>4, <1>5, <2>3, <2>5, RecoverStep
<1>6. CASE batch' = [batch EXCEPT ![v][s] = "failed"] /\ UNCHANGED <<outbox, sent, dups>>
  <2>1. batch' \in [Versions -> [Shards -> BatchStates]]
    <3>1. batch' = [batch EXCEPT ![v][s] = "failed"] /\ "failed" \in BatchStates /\ v \in Versions
      BY <1>6 DEF BatchStates
    <3> QED
      BY ONLY <1>0, <3>1, BatchCell
  <2>2. RowsTyped'
    BY <1>0, <1>1, <1>6, <2>1 DEF RowsTyped
  <2>3. RestTyped'
    BY <1>0, <1>1, <1>6 DEF RestTyped
  <2> QED
    BY <1>1, <1>2, <1>3, <1>4, <1>6, <2>2, <2>3, RecoverStep
<1> QED
  BY <1>5, <1>6 DEF RecoverStaleBatch

LEMMA StaleFinalizationStep ==
    ASSUME IndexInv, NEW v \in Versions, RecoverStaleFinalization(v)
    PROVE  IndexInv' /\ KeepsSearchable
<1>0. DeliveryTyped /\ VecTyped /\ RestTyped /\ RowsTyped
  BY TypeParts DEF IndexInv
<1>1. /\ UNCHANGED <<meta, manifest, life, batch, msgs, vec, worker, outside>>
      /\ job[v].inflight /\ \A w \in Workers : ~ Finalizing(w, v)
  BY DEF RecoverStaleFinalization
<1>2. life.state # "deleted"
  BY <1>1 DEF IndexInv, EmptyInv
<1>3. Moves /\ RestTyped'
  BY <1>0, <1>1, NothingMoves, RestSame DEF outside
<1>4. /\ job' \in [Versions -> Job] /\ \A u \in Versions : job'[u].state = job[u].state
      /\ \A u \in Versions : u # v => job'[u].inflight = job[u].inflight
  <2> DEFINE row == [job[v] EXCEPT !.inflight = FALSE,
                                   !.vclean = IF job[v].state = "failed" THEN TRUE ELSE @]
  <2>1. job \in [Versions -> Job] /\ job[v] \in Job
    BY <1>0 DEF RowsTyped
  <2>2. row \in Job /\ row.state = job[v].state
    BY <2>1 DEF Job
  <2>3. job' = [job EXCEPT ![v] = row]
    BY DEF RecoverStaleFinalization
  <2> HIDE DEF row
  <2> QED
    BY <2>1, <2>2, <2>3
<1>5. \A x \in Workers : ~ Finalizing(x, v)'
  BY <1>1 DEF Finalizing
<1>6. LeaseInv'
  BY <1>1, <1>3, <1>4, <1>5, Release DEF Moves
<1>7. /\ \/ UNCHANGED <<outbox, sent>>
         \/ \E s \in Shards : Replay(Row("request", v, s))
  BY DEF RecoverStaleFinalization
<1>8. outbox' \subseteq Rows /\ sent' \subseteq Rows
  BY <1>0, <1>7, RequestTyped DEF Replay, RowsTyped
<1>9. RowsTyped'
  BY <1>0, <1>1, <1>4, <1>8 DEF RowsTyped
<1>10. UNCHANGED catalog
  BY <1>1 DEF outside
<1> QED
  BY <1>1, <1>2, <1>3, <1>4, <1>6, <1>7, <1>9, <1>10, RecoverStep

-----------------------------------------------------------------------------
(* Steps that change the states of jobs *)

LEMMA LifeTyped ==
    ASSUME RowsTyped
    PROVE  /\ life.version \in 0..MaxVersion /\ life.active \in 0..MaxVersion
           /\ life.cleanup \in BOOLEAN /\ \A v \in Versions : job[v] \in Job
  BY DEF RowsTyped, Life

LEMMA OutcomeTyped ==
    ASSUME NEW kind \in {"indexed", "failed", "deleted"}, NEW v \in Versions
    PROVE  Row(kind, v, "document") \in Rows
  BY DEF Row, Rows

LEMMA FailedTyped == FailedJob \in Job /\ FailedJob.state = "failed"
  BY DEF FailedJob, NoJob, Job, JobStates

LEMMA PendingTyped == PendingJob \in Job /\ PendingJob.state = "pending"
  BY DEF PendingJob, NoJob, Job, JobStates

(* Nobody was told an outcome of a job that has none. *)
LEMMA Untold ==
    ASSUME IndexInv, NEW v \in Versions, job[v].state \in {"none", "pending"},
           life.state # "deleted"
    PROVE  ~ Told("indexed", v) /\ ~ Told("failed", v)
  BY DEF IndexInv, ToldInv

(* What Publish writes. *)
LEMMA PublishWrites ==
    ASSUME IndexInv, NEW v \in Versions, job[v].state = "pending", Current(v), Publish(v)
    PROVE  /\ job' \in [Versions -> Job] /\ outbox' \subseteq Rows
           /\ job'[v].state = "indexed"
           /\ \A u \in Versions : u # v =>
                  \/ job[u].state = "indexed" /\ u < v /\ job'[u].state = "failed"
                  \/ job'[u] = job[u] /\ job[u].state # "indexed"
           /\ life' \in Life /\ life'.active = v /\ life'.state = "active"
           /\ life'.version = life.version /\ ~ life'.cleanup
           /\ \A kind \in {"indexed", "failed"}, u \in Versions :
                  Row(kind, u, "document") \in outbox' =>
                      Row(kind, u, "document") \in outbox \/ (kind = "indexed" /\ u = v)
<1>0. RowsTyped /\ StoreInv /\ ~ lifecycleDeletionFenced /\ life.version = v
  BY TypeParts DEF IndexInv, Current, lifecycleDeletionFenced
<1> DEFINE old == PriorIndexed(v)
           done(u) == [job[u] EXCEPT !.state = "indexed", !.inflight = FALSE]
<1>1. job' = [u \in Versions |-> IF u = v THEN done(u) ELSE IF u \in old THEN FailedJob ELSE job[u]]
  BY DEF Publish
<1>2. \A u \in Versions : job[u] \in Job
  BY <1>0, LifeTyped
<1>3. \A u \in Versions : done(u) \in Job /\ done(u).state = "indexed"
  BY <1>2 DEF Job, JobStates
<1> HIDE DEF done
<1>4. \A u \in Versions : u \in old <=> u < v /\ job[u].state = "indexed"
  BY DEF PriorIndexed
<1>5. \A u \in Versions : job[u].state = "indexed" => u <= v
  BY <1>0 DEF StoreInv
<1>6. \A u \in Versions : u # v /\ u <= v => u < v
  BY DEF Versions
<1>7. \A u \in Versions : u # v /\ u \notin old => job[u].state # "indexed"
  BY <1>4, <1>5, <1>6
<1> HIDE DEF old
<1>8. job' \in [Versions -> Job]
  BY <1>1, <1>2, <1>3, FailedTyped
<1>9. job'[v].state = "indexed"
  BY <1>1, <1>3
<1>10. ASSUME NEW u \in Versions, u # v
       PROVE  \/ job[u].state = "indexed" /\ u < v /\ job'[u].state = "failed"
              \/ job'[u] = job[u] /\ job[u].state # "indexed"
  BY <1>1, <1>4, <1>7, <1>10, FailedTyped
<1>11. /\ life' \in Life /\ life'.active = v /\ life'.state = "active"
       /\ life'.version = life.version /\ ~ life'.cleanup
  <2>1. v \in 0..MaxVersion
    BY DEF Versions
  <2>2. life \in Life
    BY <1>0 DEF RowsTyped
  <2> QED
    BY <2>1, <2>2 DEF Publish, Life
<1>12. outbox' = (outbox \ UNION {RowsOf(u) : u \in old}) \cup {Row("indexed", v, "document")}
  BY DEF Publish, old
<1>13. outbox' \subseteq outbox \cup {Row("indexed", v, "document")}
  BY <1>12
<1>14. outbox' \subseteq Rows
  BY <1>0, <1>13, OutcomeTyped DEF RowsTyped
<1>15. ASSUME NEW kind \in {"indexed", "failed"}, NEW u \in Versions,
              Row(kind, u, "document") \in outbox', Row(kind, u, "document") \notin outbox
       PROVE  kind = "indexed" /\ u = v
  <2>1. Row(kind, u, "document") = Row("indexed", v, "document")
    BY <1>13, <1>15
  <2> QED
    BY <2>1, RowFields
<1> QED
  BY <1>8, <1>9, <1>10, <1>11, <1>14, <1>15

LEMMA PublishStep ==
    ASSUME IndexInv, NEW v \in Versions, job[v].state = "pending", Current(v), Publish(v), Moves,
           UNCHANGED <<meta, manifest, batch, sent, catalog>>, VecTyped', RestTyped'
    PROVE  IndexInv' /\ KeepsSearchable
<1>0. /\ RowsTyped /\ OrderInv /\ StoreInv /\ ToldInv /\ LeaseInv
      /\ ~ lifecycleDeletionFenced /\ life.state # "deleted" /\ life.state # "none"
      /\ life.version = v
  BY TypeParts DEF IndexInv, Current, lifecycleDeletionFenced
<1>1. /\ job' \in [Versions -> Job] /\ outbox' \subseteq Rows /\ job'[v].state = "indexed"
      /\ life' \in Life /\ life'.active = v /\ life'.state = "active"
      /\ life'.version = life.version /\ ~ life'.cleanup
  BY PublishWrites
<1>2. \A u \in Versions : u # v =>
          \/ job[u].state = "indexed" /\ u < v /\ job'[u].state = "failed"
          \/ job'[u] = job[u] /\ job[u].state # "indexed"
  BY PublishWrites
<1>3. ~ lifecycleDeletionFenced'
  BY <1>1 DEF lifecycleDeletionFenced
<1>4. \A u \in Versions :
          /\ Told("indexed", u)' => Told("indexed", u) \/ u = v
          /\ Told("failed", u)' => Told("failed", u)
  <2>1. \A kind \in {"indexed", "failed"}, u \in Versions :
            Row(kind, u, "document") \in outbox' =>
                Row(kind, u, "document") \in outbox \/ (kind = "indexed" /\ u = v)
    BY PublishWrites
  <2> QED
    BY <2>1 DEF Told
<1>5. ~ Told("indexed", v) /\ ~ Told("failed", v)
  BY <1>0, Untold
<1>6. TypeOK'
  <2>1. RowsTyped'
    BY <1>0, <1>1 DEF RowsTyped
  <2> QED
    BY <2>1, TypeParts DEF Moves
<1>7. OrderInv'
  BY <1>0, <1>1, <1>3, OrderKept DEF OrderInv, Moves
<1>8. StoreInv'
  <2>1. ASSUME NEW u \in Versions
        PROVE  /\ job'[u].state # "none" => u <= life'.version
               /\ job'[u].state = "indexed" => lifecycleDeletionFenced' \/ life'.active = u
    <3>1. CASE u = v
      BY <1>0, <1>1, <3>1 DEF Versions
    <3>2. CASE u # v
      BY <1>0, <1>1, <1>2, <3>2 DEF StoreInv
    <3> QED
      BY <3>1, <3>2
  <2>2. life'.active <= life'.version /\ life'.active \in Versions /\ v # 0
    BY <1>0, <1>1 DEF Versions
  <2> QED
    BY <1>0, <1>1, <1>3, <2>1, <2>2 DEF StoreInv
<1>9. EmptyInv'
  BY <1>1 DEF EmptyInv
<1>10. ToldInv'
  <2>1. ASSUME NEW u \in Versions
        PROVE  /\ ~ (Told("indexed", u)' /\ Told("failed", u)')
               /\ Told("indexed", u)' => job'[u].state \in {"indexed", "failed"}
               /\ Told("indexed", u)' => job'[u].state = "indexed" \/ life'.active > u
               /\ Told("failed", u)' => job'[u].state = "failed"
    <3>1. CASE u = v
      BY <1>1, <1>4, <1>5, <3>1
    <3>2. CASE u # v
      <4>1. /\ Told("indexed", u)' => Told("indexed", u)
            /\ Told("failed", u)' => Told("failed", u)
        BY <1>4, <3>2
      <4>2. /\ ~ (Told("indexed", u) /\ Told("failed", u))
            /\ Told("indexed", u) => job[u].state \in {"indexed", "failed"}
            /\ Told("indexed", u) => job[u].state = "indexed" \/ life.active > u
            /\ Told("failed", u) => job[u].state = "failed"
        BY <1>0 DEF ToldInv
      <4>3. life.active > u => v > u
        <5>1. life.active \in Nat /\ u \in Nat /\ v \in Nat /\ life.active <= v
          BY <1>0, LifeTyped DEF StoreInv, Versions
        <5> QED
          BY <5>1
      <4>4. u < v => v > u
        BY DEF Versions
      <4> QED
        BY <1>1, <1>2, <3>2, <4>1, <4>2, <4>3, <4>4
    <3> QED
      BY <3>1, <3>2
  <2> QED
    BY <2>1 DEF ToldInv
<1>11. LeaseInv'
  <2>1. ASSUME NEW u \in Versions, NEW x \in Workers, Finalizing(x, u)'
        PROVE  /\ job'[u].state = "pending" => job'[u].inflight
               /\ job'[u].state # "none"
    <3>1. Finalizing(x, u)
      BY <2>1 DEF Moves, NoNewFinalizer
    <3>2. /\ job[u].state = "pending" => job[u].inflight
          /\ job[u].state # "none"
      BY <1>0, <3>1 DEF LeaseInv
    <3> QED
      BY <1>1, <1>2, <3>2
  <2>2. OneFinalizer'
    BY <1>0 DEF LeaseInv, OneFinalizer, Moves, NoNewFinalizer
  <2> QED
    BY <2>1, <2>2 DEF LeaseInv
<1>12. KeepsSearchable
  <2>1. FilterIndexed(v)'
    BY <1>1 DEF FilterIndexed
  <2>2. \A u \in Versions : FilterIndexed(u) => v >= u
    BY <1>0 DEF FilterIndexed, StoreInv
  <2> QED
    BY <2>1, <2>2 DEF KeepsSearchable
<1> QED
  BY <1>6, <1>7, <1>8, <1>9, <1>10, <1>11, <1>12 DEF IndexInv

LEMMA FinalizeStep ==
    ASSUME IndexInv, NEW w \in Workers, FinalizeJob(w)
    PROVE  IndexInv' /\ KeepsSearchable
<1>0. DeliveryTyped /\ VecTyped /\ RestTyped /\ RowsTyped
  BY TypeParts DEF IndexInv
<1>1. PICK v \in Versions : v = worker[w].msg.v
  BY <1>0, HandlerTyped
<1>2. /\ UNCHANGED <<meta, manifest, batch, sent, catalog>> /\ VecTyped' /\ RestTyped'
      /\ Held(w) /\ Finalizing(w, v)
  BY <1>0, <1>1, VecSame, RestSame DEF FinalizeJob, Held, Finalizing
<1>3. CASE RetryLater(w) /\ UNCHANGED <<job, life, outbox>>
  BY <1>0, <1>2, <1>3, RetryMoves, QuietTyped
<1>4. CASE Settle(w) /\ UNCHANGED <<job, life, outbox, msgs, dead>>
  BY <1>0, <1>2, <1>4, SettleMoves, QuietTyped
<1>5. CASE /\ job[v].inflight /\ job' = [job EXCEPT ![v].inflight = FALSE]
           /\ Settle(w) /\ UNCHANGED <<life, outbox, msgs, dead>>
  <2>1. Moves
    BY <1>0, <1>5, SettleMoves
  <2>2. \A x \in Workers : ~ Finalizing(x, v)'
    BY <1>1, <1>2, <1>5, Leaving
  <2>3. /\ job' \in [Versions -> Job] /\ \A u \in Versions : job'[u].state = job[u].state
        /\ \A u \in Versions : u # v => job'[u].inflight = job[u].inflight
    BY <1>0, <1>1, <1>5, LeaseField
  <2>4. LeaseInv'
    BY <1>1, <1>5, <2>1, <2>2, <2>3, Release DEF Moves
  <2>5. RowsTyped'
    BY <1>0, <1>2, <1>5, <2>3 DEF RowsTyped
  <2>6. life.state # "deleted"
    BY <1>1, <1>5 DEF IndexInv, EmptyInv
  <2> QED
    BY <1>2, <1>5, <2>1, <2>3, <2>4, <2>5, <2>6, RowStep DEF Moves
<1>6. CASE /\ job[v].state = "pending" /\ Current(v) /\ Publish(v) /\ UNCHANGED <<msgs, dead>>
           /\ Settle(w) \/ worker' = [worker EXCEPT ![w].at = "finalized"]
  <2>1. CASE Settle(w)
    <3>1. Moves
      BY <1>0, <1>6, <2>1, SettleMoves
    <3> QED
      BY <1>1, <1>2, <1>6, <3>1, PublishStep
  <2>2. CASE worker' = [worker EXCEPT ![w].at = "finalized"]
    <3>1. Continue(w, "finalized")
      BY <1>6, <2>2 DEF Continue
    <3>2. Moves
      BY <1>0, <1>2, <1>6, <3>1, ContinueMoves DEF Steps, FinalSteps, FenceSteps
    <3> QED
      BY <1>1, <1>2, <1>6, <3>2, PublishStep
  <2> QED
    BY <1>6, <2>1, <2>2
<1> QED
  BY <1>1, <1>3, <1>4, <1>5, <1>6 DEF FinalizeJob

(***************************************************************************)
(* A job begins or fails.  The rows of other jobs stay, the lifecycle does *)
(* not go back, and only the outcome of the job that fails is told.        *)
(***************************************************************************)
JobStep(u) ==
    \/ job'[u].state = job[u].state /\ job'[u].inflight = job[u].inflight
    \/ job[u].state = "pending" /\ job'[u].state = "failed"
    \/ job[u].state = "none" /\ job'[u].state = "failed" /\ u <= life'.version
    \/ /\ job[u].state = "none" /\ job'[u].state = "pending" /\ u <= life'.version
       /\ ~ lifecycleDeletionFenced'

LifeStep ==
    /\ lifecycleDeletionFenced => lifecycleDeletionFenced'
    /\ life'.version <= catalog.version
    /\ lifecycleDeletionFenced' => catalog.deleted /\ life'.version = catalog.version
    /\ life'.state = "none" <=> life'.version = 0
    /\ life.version <= life'.version
    /\ life'.active = life.active \/ (lifecycleDeletionFenced' /\ life'.active = 0)
    /\ life'.active # 0 => life'.state \in {"active", "reindexing"}
    /\ life'.cleanup => life'.state = "deleting"

TellStep(u) ==
    /\ Told("indexed", u)' => Told("indexed", u)
    /\ Told("failed", u)' =>
           Told("failed", u) \/ (job[u].state \in {"none", "pending"} /\ job'[u].state = "failed")

LEMMA StateStep ==
    ASSUME IndexInv, TypeOK', Moves, UNCHANGED catalog, life.state # "deleted",
           life'.state # "deleted", LifeStep, meta' # "none" => life'.state # "none",
           \A u \in Versions : JobStep(u) /\ TellStep(u),
           \A u \in Versions : lifecycleDeletionFenced' => job'[u].state # "pending"
    PROVE  IndexInv' /\ KeepsSearchable
<1>0. /\ TypeOK /\ RowsTyped /\ RowsTyped' /\ OrderInv /\ StoreInv /\ ToldInv /\ LeaseInv
  BY TypeParts DEF IndexInv
<1>1. OrderInv'
  BY <1>0, OrderKept DEF LifeStep, Moves
<1>2. /\ life.version \in Nat /\ life'.version \in Nat /\ life.active \in Nat /\ life'.active \in Nat
      /\ life.active # 0 => life.active \in Versions
      /\ life'.active # 0 => life'.active \in Versions
  <2>1. /\ life.version \in 0..MaxVersion /\ life'.version \in 0..MaxVersion
        /\ life.active \in 0..MaxVersion /\ life'.active \in 0..MaxVersion
    BY <1>0 DEF RowsTyped, Life
  <2> QED
    BY <2>1, RetrievalAssumption DEF Versions
<1>3. StoreInv'
  <2>1. ASSUME NEW u \in Versions
        PROVE  /\ job'[u].state # "none" => u <= life'.version
               /\ job'[u].state = "indexed" => lifecycleDeletionFenced' \/ life'.active = u
    <3>1. /\ job[u].state # "none" => u <= life.version
          /\ job[u].state = "indexed" => lifecycleDeletionFenced \/ life.active = u
      BY <1>0 DEF StoreInv
    <3>2. u <= life.version => u <= life'.version
      BY <1>2 DEF LifeStep, Versions
    <3>3. JobStep(u)
      OBVIOUS
    <3> QED
      BY <3>1, <3>2, <3>3 DEF JobStep, LifeStep
  <2>2. life'.active <= life'.version
    BY <1>0, <1>2 DEF LifeStep, StoreInv
  <2>3. life'.active # 0 => job'[life'.active].state = "indexed"
    <3>1. SUFFICES ASSUME life'.active # 0 PROVE job'[life'.active].state = "indexed"
      OBVIOUS
    <3>2. life'.active = life.active /\ life.active \in Versions /\ job[life.active].state = "indexed"
      BY <1>0, <1>2, <3>1 DEF LifeStep, StoreInv
    <3>3. JobStep(life.active)
      BY <3>2
    <3> QED
      BY <3>2, <3>3 DEF JobStep
  <2> QED
    BY <2>1, <2>2, <2>3 DEF StoreInv, LifeStep
<1>4. EmptyInv'
  BY DEF EmptyInv
<1>5. ToldInv'
  <2>1. ASSUME NEW u \in Versions
        PROVE  /\ ~ (Told("indexed", u)' /\ Told("failed", u)')
               /\ Told("indexed", u)' => job'[u].state \in {"indexed", "failed"}
               /\ Told("indexed", u)' =>
                      \/ job'[u].state = "indexed" \/ lifecycleDeletionFenced'
                      \/ life'.active > u
               /\ Told("failed", u)' => job'[u].state = "failed"
    <3>1. /\ ~ (Told("indexed", u) /\ Told("failed", u))
          /\ Told("indexed", u) => job[u].state \in {"indexed", "failed"}
          /\ Told("indexed", u) =>
                 job[u].state = "indexed" \/ lifecycleDeletionFenced \/ life.active > u
          /\ Told("failed", u) => job[u].state = "failed"
      BY <1>0 DEF ToldInv
    <3>2. JobStep(u) /\ TellStep(u)
      OBVIOUS
    <3>3. life.active > u => life'.active > u \/ lifecycleDeletionFenced'
      BY DEF LifeStep
    <3> QED
      BY <3>1, <3>2, <3>3 DEF JobStep, TellStep, LifeStep
  <2> QED
    BY <2>1 DEF ToldInv
<1>6. LeaseInv'
  <2>1. ASSUME NEW u \in Versions, NEW x \in Workers, Finalizing(x, u)'
        PROVE  /\ job'[u].state = "pending" => job'[u].inflight
               /\ job'[u].state = "none" => lifecycleDeletionFenced'
    <3>1. Finalizing(x, u)
      BY <2>1 DEF Moves, NoNewFinalizer
    <3>2. /\ job[u].state = "pending" => job[u].inflight
          /\ job[u].state = "none" => lifecycleDeletionFenced
      BY <1>0, <3>1 DEF LeaseInv
    <3>3. JobStep(u)
      OBVIOUS
    <3> QED
      BY <3>2, <3>3 DEF JobStep, LifeStep
  <2>2. OneFinalizer'
    BY <1>0 DEF LeaseInv, OneFinalizer, Moves, NoNewFinalizer
  <2> QED
    BY <2>1, <2>2 DEF LeaseInv
<1>7. KeepsSearchable
  <2>1. ASSUME NEW v \in Versions, FilterIndexed(v), ~ lifecycleDeletionFenced'
        PROVE  FilterIndexed(v)' /\ v >= v
    <3>1. JobStep(v)
      OBVIOUS
    <3>2. job'[v].state = "indexed"
      BY <2>1, <3>1 DEF JobStep, FilterIndexed
    <3>3. life'.active = v /\ v # 0
      BY <2>1 DEF LifeStep, FilterIndexed, Versions
    <3>4. life'.state \in {"active", "reindexing"}
      BY <3>3 DEF LifeStep
    <3> QED
      BY <3>2, <3>3, <3>4 DEF FilterIndexed, Versions
  <2> QED
    BY <2>1 DEF KeepsSearchable
<1> QED
  BY <1>1, <1>3, <1>4, <1>5, <1>6, <1>7 DEF IndexInv

(* The first fact of a book opens its lifecycle. *)
Opens ==
    \/ UNCHANGED life
    \/ life.state = "none" /\ life' = [life EXCEPT !.version = 1, !.state = "active"]

LEMMA OpenLife ==
    ASSUME IndexInv, Opens
    PROVE  /\ life' \in Life /\ LifeStep /\ (lifecycleDeletionFenced' <=> lifecycleDeletionFenced)
           /\ life.state # "deleted" => life'.state # "deleted"
<1>0. RowsTyped /\ RestTyped /\ OrderInv /\ StoreInv
  BY TypeParts DEF IndexInv
<1>1. life \in Life /\ life.version \in Nat /\ catalog.version \in Nat /\ 1 <= catalog.version
  BY <1>0 DEF RowsTyped, RestTyped, Life, Versions
<1>2. CASE UNCHANGED life
  BY <1>0, <1>1, <1>2 DEF LifeStep, OrderInv, StoreInv, lifecycleDeletionFenced
<1>3. CASE life.state = "none" /\ life' = [life EXCEPT !.version = 1, !.state = "active"]
  <2>1. life.version = 0 /\ life.active = 0 /\ ~ life.cleanup
    BY <1>0, <1>3 DEF StoreInv
  <2>2. 1 \in 0..MaxVersion
    BY RetrievalAssumption
  <2>3. /\ life' \in Life /\ life'.version = 1 /\ life'.state = "active"
        /\ life'.active = life.active /\ life'.cleanup = life.cleanup
    BY <1>1, <1>3, <2>2 DEF Life
  <2>4. ~ lifecycleDeletionFenced /\ ~ lifecycleDeletionFenced'
    BY <1>3, <2>3 DEF lifecycleDeletionFenced
  <2> QED
    BY <1>1, <1>3, <2>1, <2>3, <2>4 DEF LifeStep
<1> QED
  BY <1>2, <1>3 DEF Opens

LEMMA FirstVersion == 1 \in Versions
  BY RetrievalAssumption DEF Versions

(* A failed manifest of a known book becomes a failed job. *)
LEMMA MaterializeStep ==
    ASSUME IndexInv, Moves, VecTyped', RestTyped', UNCHANGED <<batch, sent, catalog>>,
           meta' \in {"none", "full", "scrubbed"}, manifest' \in {"none", "ok", "failed"}, Opens,
           meta' # "none" => life'.state # "none",
           life.state = "deleted" => manifest' = "none" /\ meta' # "full",
           materializeFailed(meta', manifest')
    PROVE  IndexInv' /\ KeepsSearchable
<1>0. RowsTyped /\ OrderInv /\ StoreInv /\ ToldInv
  BY TypeParts DEF IndexInv
<1>1. /\ life' \in Life /\ LifeStep /\ (lifecycleDeletionFenced' <=> lifecycleDeletionFenced)
      /\ life.state # "deleted" => life'.state # "deleted"
  BY OpenLife
<1>2. CASE UNCHANGED <<job, outbox>>
  <2>1. RowsTyped'
    BY <1>0, <1>1, <1>2 DEF RowsTyped
  <2>2. TypeOK'
    BY <2>1, TypeParts DEF Moves
  <2>3. \A kind \in {"indexed", "failed"}, v \in Versions : Told(kind, v)' => Told(kind, v)
    BY <1>2 DEF Told
  <2>4. CASE life.state = "deleted"
    <3>1. UNCHANGED life
      BY <2>4 DEF Opens
    <3>2. LeaseInv'
      BY <1>1, <1>2, LeaseKept DEF Moves
    <3>3. EmptyInv'
      BY <1>2, <2>4, <3>1 DEF IndexInv, EmptyInv
    <3> QED
      BY <1>2, <2>2, <2>3, <3>1, <3>2, <3>3, SameStates DEF Moves
  <2>5. CASE life.state # "deleted"
    <3>1. \A u \in Versions : JobStep(u) /\ TellStep(u)
      BY <1>2, <2>3 DEF JobStep, TellStep
    <3>2. \A u \in Versions : lifecycleDeletionFenced' => job'[u].state # "pending"
      BY <1>0, <1>1, <1>2 DEF StoreInv
    <3> QED
      BY <1>1, <2>2, <2>5, <3>1, <3>2, StateStep
  <2> QED
    BY <2>4, <2>5
<1>3. CASE /\ meta' # "none" /\ manifest' = "failed" /\ job[1].state = "none"
           /\ job' = [job EXCEPT ![1].state = "failed"]
           /\ outbox' = outbox \cup {Row("failed", 1, "document")}
  <2>0. life.state # "deleted" /\ 1 \in Versions /\ 1 \in Nat
    BY <1>3, FirstVersion
  <2> DEFINE row == [job[1] EXCEPT !.state = "failed"]
  <2>1. job \in [Versions -> Job] /\ job[1] \in Job
    BY <1>0, <2>0 DEF RowsTyped
  <2>2. row \in Job /\ row.state = "failed"
    BY <2>1 DEF Job, JobStates
  <2>3. job' = [job EXCEPT ![1] = row]
    BY <1>3
  <2> HIDE DEF row
  <2>4. /\ job' \in [Versions -> Job] /\ job'[1].state = "failed"
        /\ \A u \in Versions : u # 1 => job'[u] = job[u]
    BY <2>0, <2>1, <2>2, <2>3
  <2>5. RowsTyped'
    <3>1. Row("failed", 1, "document") \in Rows
      BY <2>0, OutcomeTyped
    <3> QED
      BY <1>0, <1>1, <1>3, <2>4, <3>1 DEF RowsTyped
  <2>6. TypeOK'
    BY <2>5, TypeParts DEF Moves
  <2>7. \A u \in Versions : JobStep(u)
    <3>1. 1 <= life'.version
      <4>1. life'.state # "none" /\ life'.version \in Nat
        BY <1>1, <1>3 DEF Life
      <4> QED
        BY <1>1, <4>1 DEF LifeStep
    <3> QED
      BY <1>3, <2>4, <3>1 DEF JobStep
  <2>8. \A u \in Versions : TellStep(u)
    <3>1. ASSUME NEW kind \in {"indexed", "failed"}, NEW u \in Versions, Told(kind, u)',
                 kind # "failed" \/ u # 1
          PROVE  Told(kind, u)
      <4>1. Row(kind, u, "document") # Row("failed", 1, "document")
        BY <3>1, RowFields
      <4> QED
        BY <1>3, <3>1, <4>1 DEF Told
    <3> QED
      BY <1>3, <2>4, <3>1 DEF TellStep
  <2>9. \A u \in Versions : lifecycleDeletionFenced' => job'[u].state # "pending"
    BY <1>0, <1>1, <2>4 DEF StoreInv
  <2> QED
    BY <1>1, <2>0, <2>6, <2>7, <2>8, <2>9, StateStep
<1> QED
  BY <1>2, <1>3 DEF materializeFailed

LEMMA MetadataStep ==
    ASSUME IndexInv, NEW w \in Workers, NEW m \in msgs, ProjectMetadata(w, m)
    PROVE  IndexInv' /\ KeepsSearchable
<1>0. DeliveryTyped /\ VecTyped /\ RestTyped /\ RowsTyped
  BY TypeParts DEF IndexInv
<1>1. /\ UNCHANGED <<manifest, batch, sent, catalog, dead>> /\ VecTyped' /\ RestTyped'
      /\ msgs' = msgs \ {m} /\ Hold(w, m, "projected")
  BY <1>0, VecSame, RestSame DEF ProjectMetadata, outside
<1>2. Moves
  BY <1>0, <1>1, HoldMoves DEF Steps, FinalSteps, FenceSteps
<1>3. Opens
  BY DEF ProjectMetadata, Opens
<1>4. /\ meta' \in {"none", "full", "scrubbed"} /\ manifest' \in {"none", "ok", "failed"}
  BY <1>0, <1>1 DEF ProjectMetadata, RowsTyped
<1>5. life'.state # "none"
  <2>1. life' = IF life.state = "none" THEN [life EXCEPT !.version = 1, !.state = "active"] ELSE life
    BY DEF ProjectMetadata
  <2>2. life \in Life
    BY <1>0 DEF RowsTyped
  <2> QED
    BY <2>1, <2>2 DEF Life
<1>6. life.state = "deleted" => manifest' = "none" /\ meta' # "full"
  BY <1>1 DEF ProjectMetadata, IndexInv, EmptyInv, lifecycleDeletionFenced
<1>7. materializeFailed(meta', manifest')
  BY <1>1 DEF ProjectMetadata
<1> QED
  BY <1>1, <1>2, <1>3, <1>4, <1>5, <1>6, <1>7, MaterializeStep

LEMMA RecordStep ==
    ASSUME IndexInv, Moves, VecTyped', RestTyped', UNCHANGED <<meta, life, batch, sent, catalog>>,
           recordFailure
    PROVE  IndexInv' /\ KeepsSearchable
<1>0. RowsTyped
  BY TypeParts DEF IndexInv
<1>1. CASE UNCHANGED <<manifest, job, outbox>>
  BY <1>1, QuietTyped
<1>2. CASE /\ ~ lifecycleDeletionFenced /\ materializeFailed(meta, manifest')
           /\ manifest' = IF manifest = "none" THEN "failed" ELSE manifest
  <2>1. life.state # "deleted"
    BY <1>2 DEF lifecycleDeletionFenced
  <2>2. meta' \in {"none", "full", "scrubbed"} /\ manifest' \in {"none", "ok", "failed"}
    BY <1>0, <1>2 DEF RowsTyped
  <2>3. meta' # "none" => life'.state # "none"
    BY DEF IndexInv, StoreInv
  <2>4. Opens /\ materializeFailed(meta', manifest')
    BY <1>2 DEF Opens
  <2> QED
    BY <2>1, <2>2, <2>3, <2>4, MaterializeStep
<1> QED
  BY <1>1, <1>2 DEF recordFailure

LEMMA ManifestFailureSteps ==
    ASSUME IndexInv, NEW w \in Workers, NEW m \in msgs
    PROVE  FailManifest(w, m) \/ ManifestUnreadable(w, m) => IndexInv' /\ KeepsSearchable
<1>0. DeliveryTyped /\ VecTyped /\ RestTyped
  BY TypeParts DEF IndexInv
<1>1. ASSUME FailManifest(w, m) PROVE IndexInv' /\ KeepsSearchable
  <2>1. /\ UNCHANGED <<meta, life, batch, sent, catalog, dead>> /\ VecTyped' /\ RestTyped'
        /\ Drop(w, m) /\ recordFailure
    BY <1>0, <1>1, VecSame, RestSame DEF FailManifest, outside
  <2>2. Moves
    BY <1>0, <2>1, DropMoves DEF DeliveryTyped
  <2> QED
    BY <2>1, <2>2, RecordStep
<1>2. ASSUME ManifestUnreadable(w, m) PROVE IndexInv' /\ KeepsSearchable
  <2>1. /\ UNCHANGED <<meta, life, batch, sent, catalog, dead>> /\ VecTyped' /\ RestTyped'
        /\ Drop(w, m) /\ recordFailure
    BY <1>0, <1>2, VecSame, FaultTyped DEF ManifestUnreadable
  <2>2. Moves
    BY <1>0, <2>1, DropMoves DEF DeliveryTyped
  <2> QED
    BY <2>1, <2>2, RecordStep
<1> QED
  BY <1>1, <1>2

(* Requests tell nobody an outcome. *)
LEMMA RequestsTell ==
    ASSUME NEW kind \in {"indexed", "failed"}, NEW u, NEW v
    PROVE  Row(kind, u, "document") \notin Requests(v)
<1>1. SUFFICES ASSUME NEW s \in Shards, Row(kind, u, "document") = Row("request", v, s)
               PROVE  FALSE
  BY DEF Requests
<1> QED
  BY <1>1, RowFields

LEMMA RequestsTyped ==
    ASSUME NEW v \in Versions
    PROVE  Requests(v) \subseteq Rows
  BY RequestTyped DEF Requests

LEMMA PlanStep ==
    ASSUME IndexInv, NEW w \in Workers, CommitPlan(w)
    PROVE  IndexInv' /\ KeepsSearchable
<1>0. DeliveryTyped /\ VecTyped /\ RestTyped /\ RowsTyped /\ StoreInv
  BY TypeParts DEF IndexInv
<1>1. /\ UNCHANGED <<meta, manifest, sent, msgs, catalog, dead>> /\ VecTyped' /\ RestTyped'
      /\ Settle(w)
  BY <1>0, VecSame, RestSame DEF CommitPlan, outside
<1>2. Moves
  BY <1>0, <1>1, SettleMoves
<1>3. CASE UNCHANGED <<life, job, batch, outbox>>
  BY <1>1, <1>2, <1>3, QuietTyped
<1>4. CASE /\ ~ lifecycleDeletionFenced /\ job[1].state = "none"
           /\ job' = [job EXCEPT ![1] = PendingJob]
           /\ life' = IF life.state = "none" THEN [life EXCEPT !.version = 1, !.state = "active"]
                      ELSE life
           /\ batch' = [batch EXCEPT ![1] = [s \in Shards |-> "pending"]]
           /\ outbox' = outbox \cup Requests(1)
  <2>1. Opens
    BY <1>4 DEF Opens
  <2>2. /\ life' \in Life /\ LifeStep /\ (lifecycleDeletionFenced' <=> lifecycleDeletionFenced)
        /\ life.state # "deleted" => life'.state # "deleted"
    BY <2>1, OpenLife
  <2>3. life.state # "deleted" /\ life'.state # "none"
    BY <1>0, <1>4 DEF lifecycleDeletionFenced, RowsTyped, Life
  <2>4. /\ job' \in [Versions -> Job] /\ job'[1].state = "pending"
        /\ \A u \in Versions : u # 1 => job'[u] = job[u]
    BY <1>0, <1>4, FirstVersion, PendingTyped DEF RowsTyped
  <2>5. batch' \in [Versions -> [Shards -> BatchStates]]
    <3> DEFINE row == [s \in Shards |-> "pending"]
    <3>1. row \in [Shards -> BatchStates]
      BY DEF BatchStates
    <3>2. batch' = [batch EXCEPT ![1] = row]
      BY <1>4
    <3> HIDE DEF row
    <3> QED
      BY <1>0, <3>1, <3>2 DEF RowsTyped
  <2>6. RowsTyped'
    BY <1>0, <1>1, <1>4, <2>2, <2>4, <2>5, FirstVersion, RequestsTyped DEF RowsTyped
  <2>7. TypeOK'
    BY <1>1, <1>2, <2>6, TypeParts DEF Moves
  <2>8. \A u \in Versions : JobStep(u)
    <3>1. 1 <= life'.version
      <4>1. life'.version \in Nat
        BY <2>2 DEF Life
      <4> QED
        BY <2>2, <2>3, <4>1 DEF LifeStep
    <3> QED
      BY <1>4, <2>2, <2>4, <3>1 DEF JobStep
  <2>9. \A u \in Versions : TellStep(u)
    BY <1>1, <1>4, RequestsTell DEF TellStep, Told
  <2> QED
    BY <1>1, <1>2, <1>4, <2>2, <2>3, <2>7, <2>8, <2>9, StateStep
<1> QED
  BY <1>3, <1>4 DEF CommitPlan

(* While no deletion is fenced, the newest earlier generation is the searched one. *)
LEMMA NewestIsActive ==
    ASSUME IndexInv, NEW v \in Versions, life.version = v, job[v].state = "pending"
    PROVE  NewestPrior(v) = life.active
<1>0. RowsTyped /\ StoreInv
  BY TypeParts DEF IndexInv
<1>1. ~ lifecycleDeletionFenced /\ life.active \in 0..MaxVersion /\ life.active <= v
  BY <1>0, LifeTyped DEF StoreInv
<1>2. CASE life.active = 0
  <2>1. \A u \in Versions : u # 0
    BY DEF Versions
  <2>2. PriorIndexed(v) = {}
    BY <1>0, <1>1, <1>2, <2>1 DEF PriorIndexed, StoreInv
  <2>3. NewestPrior(v) \in {0}
    BY <2>2 DEF NewestPrior
  <2> QED
    BY <1>2, <2>3
<1>3. CASE life.active # 0
  <2>1. life.active \in Versions /\ job[life.active].state = "indexed" /\ life.active # v
    BY <1>0, <1>1, <1>3 DEF StoreInv, Versions
  <2>2. life.active < v
    BY <1>1, <2>1 DEF Versions
  <2>3. PriorIndexed(v) = {life.active}
    BY <1>0, <1>1, <2>1, <2>2 DEF PriorIndexed, StoreInv
  <2> DEFINE a == life.active
  <2>4. a \in Nat \ {0}
    BY <2>1 DEF Versions
  <2> HIDE DEF a
  <2>5. (CHOOSE u \in {a} \cup {0} : \A x \in {a} : x <= u) = a
    BY <2>4
  <2> QED
    BY <2>3, <2>5 DEF NewestPrior, a
<1> QED
  BY <1>2, <1>3

LEMMA FailStep ==
    ASSUME IndexInv, NEW w \in Workers, FailBatch(w)
    PROVE  IndexInv' /\ KeepsSearchable
<1>0. DeliveryTyped /\ VecTyped /\ RestTyped /\ RowsTyped /\ StoreInv /\ OrderInv
  BY TypeParts DEF IndexInv
<1>1. PICK v \in Versions : v = worker[w].msg.v
  BY <1>0, HandlerTyped
<1>2. PICK s : s = worker[w].msg.s
  OBVIOUS
<1>3. /\ UNCHANGED <<meta, manifest, sent, msgs, catalog, dead>> /\ VecTyped' /\ RestTyped'
      /\ Held(w) /\ worker[w].at = "failing"
  BY <1>0, VecSame, RestSame DEF FailBatch, outside, Held
<1>4. \/ UNCHANGED batch
      \/ batch[v][s] # "none" /\ batch' = [batch EXCEPT ![v][s] = "failed"]
  BY <1>1, <1>2 DEF FailBatch
<1>5. /\ batch' \in [Versions -> [Shards -> BatchStates]]
      /\ (\A x \in Shards : batch[v][x] = "none") =>
             \A u \in Versions, x \in Shards : batch'[u][x] = batch[u][x]
  <2>1. CASE UNCHANGED batch
    BY <1>0, <2>1 DEF RowsTyped
  <2>2. CASE batch[v][s] # "none" /\ batch' = [batch EXCEPT ![v][s] = "failed"]
    <3>1. batch' = [batch EXCEPT ![v][s] = "failed"] /\ "failed" \in BatchStates /\ v \in Versions
      BY <2>2 DEF BatchStates
    <3>2. /\ batch' \in [Versions -> [Shards -> BatchStates]]
          /\ \A u \in Versions, x \in Shards : (u # v \/ x # s) => batch'[u][x] = batch[u][x]
      BY ONLY <1>0, <3>1, BatchCell
    <3> QED
      BY <2>2, <3>2
  <2> QED
    BY <1>4, <2>1, <2>2
<1>6. CASE /\ job[v].state # "pending" /\ job' = [job EXCEPT ![v].inflight = FALSE]
           /\ Settle(w) /\ UNCHANGED <<life, outbox>>
  <2>1. Moves
    BY <1>0, <1>3, <1>6, SettleMoves
  <2>2. /\ job' \in [Versions -> Job] /\ \A u \in Versions : job'[u].state = job[u].state
        /\ \A u \in Versions : u # v => job'[u].inflight = job[u].inflight
        /\ ~ job'[v].inflight
    BY <1>0, <1>6, LeaseField
  <2>3. LeaseInv'
    BY <1>6, <2>1, <2>2, Release DEF Moves
  <2>4. RowsTyped'
    BY <1>0, <1>3, <1>5, <1>6, <2>2 DEF RowsTyped
  <2>5. life.state = "deleted" =>
            \A u \in Versions : ~ job'[u].inflight /\ \A x \in Shards : batch'[u][x] = "none"
    <3>1. SUFFICES ASSUME life.state = "deleted", NEW u \in Versions
                   PROVE  ~ job'[u].inflight /\ \A x \in Shards : batch'[u][x] = "none"
      OBVIOUS
    <3>2. /\ ~ job[u].inflight /\ \A x \in Shards : batch[u][x] = "none"
          /\ \A x \in Shards : batch[v][x] = "none"
      BY <3>1 DEF IndexInv, EmptyInv
    <3> QED
      BY <1>5, <2>2, <3>2
  <2> QED
    BY <1>3, <1>6, <2>1, <2>2, <2>3, <2>4, <2>5, RowStep DEF Moves
<1>7. CASE /\ job[v].state = "pending" /\ job' = [job EXCEPT ![v] = FailedJob]
           /\ life' = IF life.version = v /\ life.state = "reindexing"
                      THEN [life EXCEPT !.state = "active", !.active = NewestPrior(v),
                                        !.cleanup = FALSE]
                      ELSE life
           /\ outbox' = outbox \cup {Row("failed", v, "document")}
           /\ worker' = [worker EXCEPT ![w].at = "failed"]
  <2>1. Moves
    <3>1. Continue(w, "failed")
      BY <1>3, <1>7 DEF Continue
    <3> QED
      BY <1>0, <1>3, <3>1, ContinueMoves DEF Steps, FinalSteps, FenceSteps
  <2>2. ~ lifecycleDeletionFenced
    BY <1>0, <1>7 DEF StoreInv
  <2>3. /\ life' \in Life /\ life'.version = life.version /\ life'.active = life.active
        /\ \/ life'.state = life.state /\ life'.cleanup = life.cleanup
           \/ life.state = "reindexing" /\ life'.state = "active" /\ ~ life'.cleanup
    <3>1. life \in Life
      BY <1>0 DEF RowsTyped
    <3>2. CASE life.version = v /\ life.state = "reindexing"
      <4>1. NewestPrior(v) = life.active
        BY <1>7, <3>2, NewestIsActive
      <4>2. life' = [life EXCEPT !.state = "active", !.active = life.active, !.cleanup = FALSE]
        BY <1>7, <3>2, <4>1
      <4> QED
        BY <3>1, <3>2, <4>2 DEF Life
    <3>3. CASE ~ (life.version = v /\ life.state = "reindexing")
      BY <1>7, <3>1, <3>3
    <3> QED
      BY <3>2, <3>3
  <2>4. /\ ~ lifecycleDeletionFenced' /\ life.state # "deleted" /\ life'.state # "deleted"
        /\ life.state = "none" <=> life'.state = "none"
    BY <2>2, <2>3 DEF lifecycleDeletionFenced
  <2>5. LifeStep
    <3>1. life.version \in Nat
      BY <1>0, LifeTyped
    <3> QED
      BY <1>0, <2>2, <2>3, <2>4, <3>1 DEF LifeStep, OrderInv, StoreInv
  <2>6. /\ job' \in [Versions -> Job] /\ job'[v].state = "failed"
        /\ \A u \in Versions : u # v => job'[u] = job[u]
    BY <1>0, <1>7, FailedTyped DEF RowsTyped
  <2>7. RowsTyped'
    <3>1. Row("failed", v, "document") \in Rows
      BY OutcomeTyped
    <3> QED
      BY <1>0, <1>3, <1>5, <1>7, <2>3, <2>6, <3>1 DEF RowsTyped
  <2>8. TypeOK'
    BY <1>3, <2>1, <2>7, TypeParts DEF Moves
  <2>9. \A u \in Versions : JobStep(u)
    BY <1>7, <2>6 DEF JobStep
  <2>10. \A u \in Versions : TellStep(u)
    <3>1. ASSUME NEW kind \in {"indexed", "failed"}, NEW u \in Versions, Told(kind, u)',
                 kind # "failed" \/ u # v
          PROVE  Told(kind, u)
      <4>1. Row(kind, u, "document") # Row("failed", v, "document")
        BY <3>1, RowFields
      <4> QED
        BY <1>3, <1>7, <3>1, <4>1 DEF Told
    <3> QED
      BY <1>7, <2>6, <3>1 DEF TellStep
  <2>11. meta' # "none" => life'.state # "none"
    BY <1>0, <1>3, <2>4 DEF StoreInv
  <2> QED
    BY <1>3, <2>1, <2>4, <2>5, <2>8, <2>9, <2>10, <2>11, StateStep
<1> QED
  BY <1>1, <1>2, <1>6, <1>7 DEF FailBatch

(* A lifecycle event that is newer than the stored one finds no fence. *)
LEMMA NewerUnfenced ==
    ASSUME IndexInv, NEW m \in msgs, m.kind \in {"reindex", "delete"}, Newer(m)
    PROVE  /\ ~ lifecycleDeletionFenced /\ m.v \in Versions /\ m.v <= catalog.version
           /\ life.version \in Nat /\ life.version < m.v /\ job[m.v].state = "none"
           /\ m.kind = "delete" => catalog.deleted /\ m.v = catalog.version
           /\ \A u \in Versions : job[u].state # "none" => u <= m.v
<1>0. DeliveryTyped /\ RestTyped /\ RowsTyped /\ OrderInv /\ StoreInv
  BY TypeParts DEF IndexInv
<1>1. m.v \in Versions /\ Ordered(m) /\ life.version < m.v
  BY <1>0 DEF DeliveryTyped, Msgs, OrderInv, Newer
<1>2. life.version \in Nat /\ m.v \in Nat /\ catalog.version \in Nat
  BY <1>0, <1>1, LifeTyped DEF RestTyped, Versions
<1>3. ~ lifecycleDeletionFenced
  <2>1. SUFFICES ASSUME lifecycleDeletionFenced PROVE FALSE
    OBVIOUS
  <2>2. catalog.deleted /\ life.version = catalog.version
    BY <1>0, <2>1 DEF OrderInv
  <2> QED
    BY <1>1, <1>2, <2>2 DEF Ordered
<1>4. ~ (m.v <= life.version)
  BY <1>1, <1>2
<1>5. job[m.v].state = "none"
  BY <1>0, <1>1, <1>4 DEF StoreInv
<1>6. ASSUME NEW u \in Versions, job[u].state # "none" PROVE u <= m.v
  <2>1. u <= life.version /\ u \in Nat
    BY <1>0, <1>6 DEF StoreInv, Versions
  <2> QED
    BY <1>1, <1>2, <2>1
<1>7. m.v <= catalog.version
  BY <1>1, <1>2 DEF Ordered
<1> QED
  BY <1>1, <1>2, <1>3, <1>5, <1>6, <1>7 DEF Ordered

LEMMA ReindexStep ==
    ASSUME IndexInv, NEW w \in Workers, NEW m \in msgs, ApplyReindex(w, m)
    PROVE  IndexInv' /\ KeepsSearchable
<1>0. DeliveryTyped /\ VecTyped /\ RestTyped /\ RowsTyped /\ StoreInv /\ OrderInv
  BY TypeParts DEF IndexInv
<1>1. /\ UNCHANGED <<meta, manifest, catalog, dead>> /\ VecTyped' /\ RestTyped'
      /\ Drop(w, m) /\ m.kind = "reindex"
  BY <1>0, VecSame, RestSame DEF ApplyReindex, outside
<1>2. Moves
  BY <1>0, <1>1, DropMoves DEF DeliveryTyped
<1>3. CASE UNCHANGED <<life, job, batch, outbox, sent>>
  BY <1>1, <1>2, <1>3, QuietTyped
<1>4. CASE /\ life.state # "none" /\ Newer(m)
           /\ life' = [life EXCEPT !.version = m.v, !.state = "reindexing", !.cleanup = FALSE]
           /\ prepareReindexJob(m.v)
  <2>0. PICK v \in Versions : v = m.v
    BY <1>1, <1>4, NewerUnfenced
  <2>1. /\ ~ lifecycleDeletionFenced /\ v <= catalog.version /\ life.version \in Nat
        /\ life.version < v /\ job[v].state = "none"
        /\ \A u \in Versions : job[u].state # "none" => u <= v
    BY <1>1, <1>4, <2>0, NewerUnfenced
  <2>2. /\ life' \in Life /\ life'.version = v /\ life'.active = life.active
        /\ life'.state = "reindexing" /\ ~ life'.cleanup
    <3>1. life \in Life /\ v \in 0..MaxVersion
      BY <1>0 DEF RowsTyped, Versions
    <3> QED
      BY <1>4, <2>0, <3>1 DEF Life
  <2>3. ~ lifecycleDeletionFenced' /\ life.state # "deleted"
    BY <2>1, <2>2 DEF lifecycleDeletionFenced
  <2>4. LifeStep
    <3>1. v \in Nat /\ v # 0 /\ life.version <= v
      BY <2>1 DEF Versions
    <3> QED
      BY <2>1, <2>2, <2>3, <3>1 DEF LifeStep
  <2> DEFINE stop(u) == [job[u] EXCEPT !.state = "failed", !.vclean = TRUE]
  <2>5. job' = [u \in Versions |-> IF u = v THEN PendingJob
                                  ELSE IF job[u].state = "pending" THEN stop(u) ELSE job[u]]
    BY <1>4, <2>0 DEF prepareReindexJob
  <2>6. \A u \in Versions : job[u] \in Job /\ stop(u) \in Job /\ stop(u).state = "failed"
    BY <1>0, LifeTyped DEF Job, JobStates
  <2> HIDE DEF stop
  <2>7. job' \in [Versions -> Job]
    BY <2>5, <2>6, PendingTyped
  <2>8. \A u \in Versions : JobStep(u)
    <3>1. v <= v
      BY DEF Versions
    <3> QED
      BY <2>1, <2>2, <2>3, <2>5, <2>6, <3>1, PendingTyped DEF JobStep
  <2>9. outbox' = (outbox \ RowsOf(v)) \cup Requests(v) /\ sent' = sent \ RowsOf(v)
    BY <1>4, <2>0 DEF prepareReindexJob
  <2>10. batch' \in [Versions -> [Shards -> BatchStates]]
    <3> DEFINE row == [s \in Shards |-> "pending"]
    <3>1. row \in [Shards -> BatchStates]
      BY DEF BatchStates
    <3>2. batch' = [batch EXCEPT ![v] = row]
      BY <1>4, <2>0 DEF prepareReindexJob
    <3> HIDE DEF row
    <3> QED
      BY <1>0, <3>1, <3>2 DEF RowsTyped
  <2>11. RowsTyped'
    BY <1>0, <1>1, <2>2, <2>7, <2>9, <2>10, RequestsTyped DEF RowsTyped
  <2>12. TypeOK'
    BY <1>1, <1>2, <2>11, TypeParts DEF Moves
  <2>13. \A u \in Versions : TellStep(u)
    BY <2>9, RequestsTell DEF TellStep, Told
  <2> QED
    BY <1>1, <1>2, <2>2, <2>3, <2>4, <2>8, <2>12, <2>13, StateStep
<1> QED
  BY <1>3, <1>4 DEF ApplyReindex

LEMMA FenceStep ==
    ASSUME IndexInv, NEW w \in Workers, NEW m \in msgs, FenceDeletion(w, m)
    PROVE  IndexInv' /\ KeepsSearchable
<1>0. DeliveryTyped /\ VecTyped /\ RestTyped /\ RowsTyped /\ StoreInv /\ OrderInv
  BY TypeParts DEF IndexInv
<1>1. /\ UNCHANGED <<meta, manifest, batch, outbox, sent, catalog, dead>> /\ VecTyped'
      /\ RestTyped' /\ msgs' = msgs \ {m} /\ m.kind = "delete"
  BY <1>0, VecSame, RestSame DEF FenceDeletion, outside
<1>2. CASE UNCHANGED <<life, job, worker>>
  <2>1. \A x \in msgs' : Known(x)
    BY <1>1, KnownThere
  <2>2. Moves
    BY <1>0, <1>1, <1>2, <2>1, QueueMoves DEF DeliveryTyped
  <2> QED
    BY <1>1, <1>2, <2>2, QuietTyped
<1>3. CASE UNCHANGED <<life, job>> /\ m.v = life.version /\ Hold(w, m, "fenced") /\ life.cleanup
  <2>1. lifecycleDeletionFenced'
    BY <1>0, <1>3 DEF StoreInv, lifecycleDeletionFenced
  <2>2. Moves
    BY <1>0, <1>1, <1>3, <2>1, HoldMoves DEF Steps, FinalSteps
  <2> QED
    BY <1>1, <1>3, <2>2, QuietTyped
<1>4. CASE /\ Newer(m) /\ Hold(w, m, "fenced")
           /\ life' = [version |-> m.v, state |-> "deleting", active |-> 0, cleanup |-> TRUE]
           /\ job' = [u \in Versions |-> IF job[u].state = "pending"
                                         THEN [job[u] EXCEPT !.state = "failed", !.vclean = FALSE]
                                         ELSE job[u]]
  <2>0. PICK v \in Versions : v = m.v
    BY <1>1, <1>4, NewerUnfenced
  <2>1. /\ ~ lifecycleDeletionFenced /\ v = catalog.version /\ catalog.deleted
        /\ life.version \in Nat /\ life.version < v
    BY <1>1, <1>4, <2>0, NewerUnfenced
  <2>2. /\ life' \in Life /\ life'.version = v /\ life'.active = 0 /\ life'.state = "deleting"
    <3>1. v \in 0..MaxVersion /\ 0 \in 0..MaxVersion
      BY RetrievalAssumption DEF Versions
    <3>2. life' = [version |-> v, state |-> "deleting", active |-> 0, cleanup |-> TRUE]
      BY <1>4, <2>0
    <3> QED
      BY <3>1, <3>2 DEF Life
  <2>3. lifecycleDeletionFenced' /\ life.state # "deleted"
    BY <2>1, <2>2 DEF lifecycleDeletionFenced
  <2>4. LifeStep
    <3>1. v \in Nat /\ v # 0 /\ life.version <= v /\ v <= v
      BY <2>1 DEF Versions
    <3> QED
      BY <2>1, <2>2, <2>3, <3>1 DEF LifeStep
  <2> DEFINE stop(u) == [job[u] EXCEPT !.state = "failed", !.vclean = FALSE]
  <2>5. job' = [u \in Versions |-> IF job[u].state = "pending" THEN stop(u) ELSE job[u]]
    BY <1>4
  <2>6. \A u \in Versions : job[u] \in Job /\ stop(u) \in Job /\ stop(u).state = "failed"
    BY <1>0, LifeTyped DEF Job, JobStates
  <2> HIDE DEF stop
  <2>7. job' \in [Versions -> Job] /\ \A u \in Versions : job'[u].state # "pending"
    BY <2>5, <2>6
  <2>8. \A u \in Versions : JobStep(u)
    BY <2>5, <2>6 DEF JobStep
  <2>9. RowsTyped'
    BY <1>0, <1>1, <2>2, <2>7 DEF RowsTyped
  <2>10. Moves
    BY <1>0, <1>1, <1>4, <2>3, HoldMoves DEF Steps, FinalSteps
  <2>11. TypeOK'
    BY <1>1, <2>9, <2>10, TypeParts DEF Moves
  <2>12. \A u \in Versions : TellStep(u)
    BY <1>1 DEF TellStep, Told
  <2> QED
    BY <1>1, <2>2, <2>3, <2>4, <2>7, <2>8, <2>10, <2>11, <2>12, StateStep
<1> QED
  BY <1>2, <1>3, <1>4 DEF FenceDeletion

-----------------------------------------------------------------------------
(* Deletion of the rows, and Catalog's requests *)

(* Every row of the outbox but a confirmation belongs to a version. *)
LEMMA RowOfVersion ==
    ASSUME NEW r \in Rows, r.kind # "deleted"
    PROVE  \E v \in Versions : r \in RowsOf(v)
<1>1. CASE r \in [kind : {"request"}, v : Versions, s : Shards]
  <2>1. r.v \in Versions /\ r.s \in Shards /\ r = Row("request", r.v, r.s)
    BY <1>1 DEF Row
  <2>2. r \in Requests(r.v)
    BY <2>1 DEF Requests
  <2> QED
    BY <2>1, <2>2 DEF RowsOf
<1>2. CASE r \in [kind : {"indexed", "failed", "deleted"}, v : Versions, s : {"document"}]
  <2>1. /\ r.v \in Versions /\ r.kind \in {"indexed", "failed"}
        /\ r = Row(r.kind, r.v, "document")
    BY <1>2 DEF Row
  <2> QED
    BY <2>1 DEF RowsOf
<1> QED
  BY <1>1, <1>2 DEF Rows

LEMMA DeleteStep ==
    ASSUME IndexInv, Moves, lifecycleDeletionFenced, deleteRows, UNCHANGED <<sent, catalog>>,
           VecTyped', RestTyped'
    PROVE  IndexInv' /\ KeepsSearchable
<1>0. RowsTyped /\ OrderInv /\ StoreInv /\ ToldInv /\ LeaseInv
  BY TypeParts DEF IndexInv
<1>1. life.version \in Versions
  <2>1. life.version \in 0..MaxVersion /\ life.version # 0
    BY <1>0, LifeTyped DEF StoreInv, lifecycleDeletionFenced
  <2> QED
    BY <2>1, RetrievalAssumption DEF Versions
<1>2. /\ life' \in Life /\ life'.state = "deleted" /\ life'.active = 0 /\ ~ life'.cleanup
      /\ life'.version = life.version
  <2>1. life \in Life /\ 0 \in 0..MaxVersion
    BY <1>0, RetrievalAssumption DEF RowsTyped
  <2> QED
    BY <2>1 DEF deleteRows, Life
<1>3. lifecycleDeletionFenced'
  BY <1>2 DEF lifecycleDeletionFenced
<1>4. /\ job' \in [Versions -> Job]
      /\ \A v \in Versions : job'[v].state = "none" /\ ~ job'[v].inflight
  BY DEF deleteRows, NoJob, Job, JobStates
<1>5. /\ batch' \in [Versions -> [Shards -> BatchStates]]
      /\ \A v \in Versions, s \in Shards : batch'[v][s] = "none"
  BY DEF deleteRows, BatchStates
<1>6. \A r \in outbox' : r \in Rows /\ r.kind = "deleted"
  <2> DEFINE gone == UNION {RowsOf(v) : v \in Versions}
             told == Row("deleted", life.version, "document")
  <2>1. outbox' = (outbox \ gone) \cup {told}
    BY DEF deleteRows
  <2>2. told \in Rows /\ told.kind = "deleted"
    BY <1>1, OutcomeTyped, RowFields
  <2>3. \A r \in Rows : r.kind # "deleted" => r \in gone
    BY RowOfVersion
  <2> HIDE DEF gone, told
  <2> QED
    BY <1>0, <2>1, <2>2, <2>3 DEF RowsTyped
<1>7. meta' \in {"none", "scrubbed"} /\ manifest' = "none"
  BY DEF deleteRows
<1>8. RowsTyped'
  BY <1>0, <1>2, <1>4, <1>5, <1>6, <1>7 DEF RowsTyped
<1>9. TypeOK'
  BY <1>8, TypeParts DEF Moves
<1>10. OrderInv'
  BY <1>0, <1>2, <1>3, OrderKept DEF OrderInv, Moves
<1>11. StoreInv'
  <2>1. 0 <= life.version /\ life.version # 0
    BY <1>1 DEF Versions
  <2> QED
    BY <1>2, <1>4, <2>1 DEF StoreInv
<1>12. EmptyInv'
  BY <1>4, <1>5, <1>6, <1>7 DEF EmptyInv
<1>13. ToldInv'
  <2>1. ASSUME NEW kind \in {"indexed", "failed"}, NEW v \in Versions, Told(kind, v)'
        PROVE  Told(kind, v)
    <3>1. Row(kind, v, "document").kind # "deleted"
      BY RowFields
    <3>2. Row(kind, v, "document") \notin outbox'
      BY <1>6, <3>1
    <3> QED
      BY <2>1, <3>2 DEF Told
  <2>2. ASSUME NEW v \in Versions PROVE ~ (Told("indexed", v)' /\ Told("failed", v)')
    BY <1>0, <2>1 DEF ToldInv
  <2> QED
    BY <1>2, <1>3, <2>2 DEF ToldInv
<1>14. LeaseInv'
  <2>1. OneFinalizer'
    BY <1>0 DEF LeaseInv, OneFinalizer, Moves, NoNewFinalizer
  <2> QED
    BY <1>3, <1>4, <2>1 DEF LeaseInv
<1>15. KeepsSearchable
  BY <1>3 DEF KeepsSearchable
<1> QED
  BY <1>9, <1>10, <1>11, <1>12, <1>13, <1>14, <1>15 DEF IndexInv

LEMMA DeletionSteps ==
    ASSUME IndexInv
    PROVE  /\ \A w \in Workers : CompleteDeletion(w) => IndexInv' /\ KeepsSearchable
           /\ TickerCompletesDeletion => IndexInv' /\ KeepsSearchable
<1>0. DeliveryTyped /\ VecTyped /\ RestTyped
  BY TypeParts DEF IndexInv
<1>1. ASSUME NEW w \in Workers, CompleteDeletion(w) PROVE IndexInv' /\ KeepsSearchable
  <2>1. /\ UNCHANGED <<sent, catalog>> /\ VecTyped' /\ RestTyped' /\ Held(w)
        /\ lifecycleDeletionFenced
    BY <1>0, <1>1, VecSame, RestSame DEF CompleteDeletion, Held, IndexInv, OrderInv, FenceSteps
  <2>2. CASE Settle(w) /\ UNCHANGED <<meta, manifest, life, job, batch, outbox, msgs, dead>>
    BY <1>0, <2>1, <2>2, SettleMoves, QuietTyped
  <2>3. CASE RetryLater(w) /\ UNCHANGED <<meta, manifest, life, job, batch, outbox>>
    BY <1>0, <2>1, <2>3, RetryMoves, QuietTyped
  <2>4. CASE deleteRows /\ Settle(w) /\ UNCHANGED <<msgs, dead>>
    BY <1>0, <2>1, <2>4, SettleMoves, DeleteStep
  <2> QED
    BY <1>1, <2>2, <2>3, <2>4 DEF CompleteDeletion
<1>2. ASSUME TickerCompletesDeletion PROVE IndexInv' /\ KeepsSearchable
  <2>1. UNCHANGED <<sent, msgs, worker, catalog, dead>> /\ VecTyped'
    BY <1>0, <1>2, VecSame DEF TickerCompletesDeletion
  <2>2. RestTyped'
    BY <1>0, <1>2 DEF TickerCompletesDeletion, RestTyped
  <2>3. Moves
    BY <1>0, <2>1, NothingMoves
  <2>4. CASE life.state = "deleting" /\ deleteRows
    <3>1. lifecycleDeletionFenced
      BY <2>4 DEF lifecycleDeletionFenced
    <3> QED
      BY <2>1, <2>2, <2>3, <2>4, <3>1, DeleteStep
  <2>5. CASE UNCHANGED <<meta, manifest, life, job, batch, outbox>>
    BY <2>1, <2>2, <2>3, <2>5, QuietTyped
  <2> QED
    BY <1>2, <2>4, <2>5 DEF TickerCompletesDeletion
<1> QED
  BY <1>1, <1>2

(* A request of Catalog is newer than every event before it. *)
LEMMA RequestStep ==
    ASSUME IndexInv, NEW m \in Msgs, msgs' = msgs \cup {m}, ~ catalog.deleted,
           catalog.version < MaxVersion, catalog'.version = catalog.version + 1,
           catalog'.deleted \in BOOLEAN, catalog' \in [version : Versions, deleted : BOOLEAN],
           m.v = catalog.version + 1,
           m.kind = (IF catalog'.deleted THEN "delete" ELSE "reindex"),
           UNCHANGED <<meta, manifest, life, job, batch, outbox, sent, vec, worker, ticker, faults,
                       dups, dead>>
    PROVE  IndexInv' /\ KeepsSearchable
<1>0. DeliveryTyped /\ VecTyped /\ RestTyped /\ RowsTyped /\ OrderInv
  BY TypeParts DEF IndexInv
<1>1. catalog.version \in Nat /\ life.version \in Nat
  BY <1>0, LifeTyped DEF RestTyped, Versions
<1>2. TypeOK'
  <2>1. RowsTyped' /\ VecTyped'
    BY <1>0, RowsSame, VecSame
  <2>2. DeliveryTyped' /\ RestTyped'
    BY <1>0 DEF DeliveryTyped, RestTyped
  <2> QED
    BY <2>1, <2>2, TypeParts
<1>3. ~ lifecycleDeletionFenced /\ ~ lifecycleDeletionFenced'
  BY <1>0 DEF OrderInv, lifecycleDeletionFenced
<1>4. ASSUME NEW n, Ordered(n), n.kind \in {"reindex", "delete"} => n.v \in Nat
      PROVE  Ordered(n)'
  BY <1>1, <1>4 DEF Ordered
<1>5. Ordered(m)'
  BY <1>1 DEF Ordered
<1>6. \A n \in msgs : n.v \in Nat
  BY <1>0 DEF Msgs, Versions, DeliveryTyped
<1>7. \A n \in msgs' : Ordered(n)'
  BY <1>0, <1>4, <1>5, <1>6 DEF OrderInv
<1>8. \A w \in Workers : Held(w)' => Ordered(worker[w].msg)'
  <2>1. \A w \in Workers : worker[w].msg.v \in Nat
    BY <1>0, HandlerTyped DEF Versions
  <2> QED
    BY <1>0, <1>4, <2>1 DEF OrderInv, Held
<1>9. OrderInv'
  <2>1. life'.version <= catalog'.version
    BY <1>0, <1>1 DEF OrderInv
  <2>2. \A w \in Workers : worker'[w].at \in FenceSteps => lifecycleDeletionFenced'
    BY <1>0, <1>3 DEF OrderInv
  <2> QED
    BY <1>3, <1>7, <1>8, <2>1, <2>2 DEF OrderInv
<1>10. StoreInv' /\ EmptyInv' /\ ToldInv'
  BY DEF IndexInv, StoreInv, EmptyInv, ToldInv, Told, lifecycleDeletionFenced
<1>11. LeaseInv'
  BY DEF IndexInv, LeaseInv, OneFinalizer, Finalizing, lifecycleDeletionFenced
<1>12. ASSUME NEW v \in Versions, FilterIndexed(v) PROVE FilterIndexed(v)' /\ v >= v
  BY <1>12 DEF FilterIndexed, Versions
<1>13. KeepsSearchable
  BY <1>12 DEF KeepsSearchable
<1> QED
  BY <1>2, <1>9, <1>10, <1>11, <1>13 DEF IndexInv

LEMMA CatalogSteps ==
    ASSUME IndexInv
    PROVE  CatalogReindex \/ CatalogDelete => IndexInv' /\ KeepsSearchable
<1>0. RestTyped
  BY TypeParts DEF IndexInv
<1> DEFINE n == catalog.version + 1
<1>1. ASSUME catalog.version < MaxVersion, NEW kind \in {"reindex", "delete"}
      PROVE  n \in Versions /\ Msg(kind, n, "document", 0) \in Msgs
  <2>1. n \in Versions /\ 0 \in 0..MaxRetry
    BY <1>0, <1>1, RetrievalAssumption DEF RestTyped, Versions
  <2> HIDE DEF n
  <2> QED
    BY <2>1 DEF Msg, Msgs, Points
<1>2. ASSUME CatalogReindex PROVE IndexInv' /\ KeepsSearchable
  <2>1. PICK m : m = Msg("reindex", n, "document", 0)
    OBVIOUS
  <2>2. /\ ~ catalog.deleted /\ catalog.version < MaxVersion /\ msgs' = msgs \cup {m}
        /\ catalog' = [catalog EXCEPT !.version = n]
        /\ UNCHANGED <<meta, manifest, life, job, batch, outbox, sent, vec, worker, ticker, faults,
                       dups, dead>>
    BY <1>2, <2>1 DEF CatalogReindex
  <2>3. n \in Versions /\ m \in Msgs /\ m.kind = "reindex" /\ m.v = n
    BY <1>1, <2>1, <2>2 DEF Msg
  <2>4. /\ catalog' \in [version : Versions, deleted : BOOLEAN] /\ catalog'.version = n
        /\ ~ catalog'.deleted
    BY <1>0, <2>2, <2>3 DEF RestTyped
  <2> QED
    BY <2>2, <2>3, <2>4, RequestStep
<1>3. ASSUME CatalogDelete PROVE IndexInv' /\ KeepsSearchable
  <2>1. PICK m : m = Msg("delete", n, "document", 0)
    OBVIOUS
  <2>2. /\ ~ catalog.deleted /\ catalog.version < MaxVersion /\ msgs' = msgs \cup {m}
        /\ catalog' = [version |-> n, deleted |-> TRUE]
        /\ UNCHANGED <<meta, manifest, life, job, batch, outbox, sent, vec, worker, ticker, faults,
                       dups, dead>>
    BY <1>3, <2>1 DEF CatalogDelete
  <2>3. n \in Versions /\ m \in Msgs /\ m.kind = "delete" /\ m.v = n
    BY <1>1, <2>1, <2>2 DEF Msg
  <2>4. /\ catalog' \in [version : Versions, deleted : BOOLEAN] /\ catalog'.version = n
        /\ catalog'.deleted
    BY <1>0, <2>2, <2>3 DEF RestTyped
  <2> QED
    BY <2>2, <2>3, <2>4, RequestStep
<1> QED
  BY <1>2, <1>3

-----------------------------------------------------------------------------
(* The theorems *)

LEMMA IndexInit ==
    ASSUME Init
    PROVE  IndexInv
<1>1. 1 \in Versions /\ 0 \in 0..MaxRetry /\ 0 \in 0..MaxVersion /\ 1 \in Nat
  BY RetrievalAssumption DEF Versions
<1>2. RowsTyped
  <2>1. life \in Life
    BY <1>1 DEF Init, Life
  <2>2. job \in [Versions -> Job]
    BY DEF Init, NoJob, Job, JobStates
  <2>3. batch \in [Versions -> [Shards -> BatchStates]]
    BY DEF Init, BatchStates
  <2> QED
    BY <2>1, <2>2, <2>3 DEF Init, RowsTyped
<1>3. DeliveryTyped
  <2>1. msgs \subseteq Msgs
    BY <1>1 DEF Init, Msg, Msgs, Points
  <2>2. worker \in [Workers -> Handler] /\ dead \subseteq Dead
    BY IdleTyped DEF Init
  <2> QED
    BY <2>1, <2>2 DEF DeliveryTyped
<1>4. VecTyped /\ RestTyped
  BY <1>1, RetrievalAssumption DEF Init, VecTyped, RestTyped, PointStates
<1>5. \A w \in Workers : worker[w].at = "idle"
  BY IdleTyped DEF Init
<1>6. /\ life.version = 0 /\ life.state = "none" /\ life.active = 0 /\ ~ life.cleanup
      /\ meta = "none" /\ ~ lifecycleDeletionFenced /\ catalog.version = 1 /\ outbox \cup sent = {}
  BY DEF Init, lifecycleDeletionFenced
<1>7. \A v \in Versions : job[v].state = "none"
  BY DEF Init, NoJob
<1>8. OrderInv
  <2>1. \A m \in msgs : m.kind \in {"metadata", "manifest"}
    BY DEF Init, Msg
  <2> QED
    BY <1>5, <1>6, <2>1 DEF OrderInv, Ordered, Held, FenceSteps
<1>9. StoreInv
  BY <1>6, <1>7 DEF StoreInv
<1>10. EmptyInv /\ ToldInv
  BY <1>6 DEF EmptyInv, ToldInv, Told
<1>11. LeaseInv
  BY <1>5 DEF LeaseInv, OneFinalizer, Finalizing
<1> QED
  BY <1>2, <1>3, <1>4, <1>8, <1>9, <1>10, <1>11, TypeParts DEF IndexInv

LEMMA IndexStep ==
    ASSUME IndexInv, Next
    PROVE  IndexInv' /\ KeepsSearchable
<1>1. ASSUME NEW w \in Workers, Receive(w) PROVE IndexInv' /\ KeepsSearchable
  <2>1. PICK m \in msgs :
              \/ ProjectMetadata(w, m) \/ ProjectManifest(w, m) \/ FailManifest(w, m)
              \/ BeginBatch(w, m) \/ ApplyReindex(w, m) \/ FenceDeletion(w, m)
    BY <1>1 DEF Receive
  <2> QED
    BY <2>1, MetadataStep, ManifestStep, ManifestFailureSteps, BeginStep, ReindexStep, FenceStep
<1>2. ASSUME NEW w \in Workers, Handle(w) PROVE IndexInv' /\ KeepsSearchable
  BY <1>2, HandlerQuiet, FinalizerQuiet, PlanStep, CheckStep, CompleteBatchStep, FinalizeStep,
     CleanupSteps, FailStep, DeletionSteps DEF Handle
<1>3. ASSUME NEW r \in outbox, dispatchOutbox(r) PROVE IndexInv' /\ KeepsSearchable
  BY <1>3, DispatchStep
<1>4. ASSUME Recover PROVE IndexInv' /\ KeepsSearchable
  BY <1>4, StaleBatchStep, StaleFinalizationStep DEF Recover
<1>5. ASSUME Cleanup PROVE IndexInv' /\ KeepsSearchable
  BY <1>5, TickerQuiet, CleanupSteps, DeletionSteps DEF Cleanup
<1>6. ASSUME Fault PROVE IndexInv' /\ KeepsSearchable
  BY <1>6, FaultQuiet, TickerQuiet, ManifestFailureSteps DEF Fault
<1> QED
  BY <1>1, <1>2, <1>3, <1>4, <1>5, <1>6, CatalogSteps DEF Next

LEMMA IndexStutters ==
    ASSUME IndexInv, UNCHANGED vars
    PROVE  IndexInv'
<1>1. DeliveryTyped /\ VecTyped /\ RestTyped
  BY TypeParts DEF IndexInv
<1>2. Moves
  BY <1>1, NothingMoves DEF vars
<1> QED
  BY <1>1, <1>2, VecSame, RestSame, QuietTyped DEF vars

(***************************************************************************)
(* IndexInv, the inductive invariant of Retrieval's rows, deliveries and   *)
(* lifecycle, holds in every reachable state.                              *)
(***************************************************************************)
THEOREM IndexInvariant == Spec => []IndexInv
<1>1. Init => IndexInv
  BY IndexInit
<1>2. IndexInv /\ [Next]_vars => IndexInv'
  BY IndexStep, IndexStutters
<1> QED
  BY <1>1, <1>2, PTL DEF Spec

(***************************************************************************)
(* Catalog is told one outcome of a generation, that of its job, and one   *)
(* handler at a time finalizes it: whatever is delivered twice, crashes or *)
(* fails, for any number of handlers, shards and versions.                 *)
(***************************************************************************)
THEOREM OutcomesAgreed == Spec => []OneOutcome
<1>1. IndexInv => OneOutcome
  <2>1. SUFFICES ASSUME IndexInv PROVE OutcomesAgree
    BY DEF OneOutcome, IndexInv, LeaseInv
  <2>2. SUFFICES ASSUME NEW v \in Versions
                 PROVE  /\ ~ (Told("indexed", v) /\ Told("failed", v))
                        /\ Told("indexed", v) => \/ FilterIndexed(v) \/ lifecycleDeletionFenced
                                                 \/ job[v].state = "failed" /\ life.active > v
                        /\ Told("failed", v) => job[v].state = "failed" \/ life.state = "deleted"
    BY DEF OutcomesAgree, Told
  <2>3. /\ ~ (Told("indexed", v) /\ Told("failed", v))
        /\ Told("failed", v) => job[v].state = "failed" \/ life.state = "deleted"
    BY <2>1 DEF IndexInv, ToldInv
  <2>4. ASSUME Told("indexed", v), ~ lifecycleDeletionFenced
        PROVE  FilterIndexed(v) \/ (job[v].state = "failed" /\ life.active > v)
    <3>1. /\ job[v].state \in {"indexed", "failed"}
          /\ job[v].state = "indexed" \/ life.active > v
      BY <2>1, <2>4 DEF IndexInv, ToldInv, lifecycleDeletionFenced
    <3>2. CASE job[v].state = "indexed"
      <4>1. life.active = v /\ v # 0
        BY <2>1, <2>4, <3>2 DEF IndexInv, StoreInv, Versions
      <4> QED
        BY <2>1, <3>2, <4>1 DEF IndexInv, StoreInv, FilterIndexed
    <3>3. CASE job[v].state = "failed"
      BY <3>1, <3>3
    <3> QED
      BY <3>1, <3>2, <3>3
  <2> QED
    BY <2>3, <2>4
<1> QED
  BY <1>1, IndexInvariant, PTL

(***************************************************************************)
(* Once the deletion of a book is complete no message, retry or late       *)
(* handler brings back a job, a batch, the manifest or the metadata, or    *)
(* leaves an event but the confirmation.                                   *)
(***************************************************************************)
THEOREM DeletedStaysEmpty == Spec => []DeletedBookHoldsNothing
<1>1. IndexInv => DeletedBookHoldsNothing
  BY DEF IndexInv, EmptyInv, DeletedBookHoldsNothing
<1> QED
  BY <1>1, IndexInvariant, PTL

(***************************************************************************)
(* From its first finalization until its deletion is fenced a book stays   *)
(* searchable: no step takes away the generation search returns without    *)
(* putting the same or a newer one in its place.                           *)
(***************************************************************************)
THEOREM SearchKept == Spec => StaysSearchable
<1>1. IndexInv /\ [Next]_vars => [KeepsSearchable]_vars
  BY IndexStep
<1> QED
  BY <1>1, IndexInvariant, PTL DEF Spec, StaysSearchable
=============================================================================
