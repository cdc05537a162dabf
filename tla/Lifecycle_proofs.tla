--------------------------- MODULE Lifecycle_proofs ---------------------------
(***************************************************************************)
(* Proofs about Lifecycle, for any number of DSOs, threads and cores and   *)
(* any set of configurations.                                              *)
(***************************************************************************)
EXTENDS Lifecycle, FiniteSetTheorems, TLAPS

(***************************************************************************)
(* Types.  A core that is alive was constructed from a configuration whose *)
(* sizes could be read.                                                    *)
(***************************************************************************)
AliveCore ==
    [st : {"alive"}, refs : Int, ok : {TRUE}, cfg : {cfg \in Configs : PoolConfigured(cfg)},
     mz_max : Int, initial : Int, sink : {"file", "null"}]
DeadCore == [st : {"none", "deleted"}, refs : Int]

CoreTypes == core \in [Cores -> AliveCore \cup DeadCore]

\* The sizes of a core are those of its configuration.
SizesInv ==
    \A c \in Cores :
        core[c].st = "alive" =>
            /\ core[c].mz_max = MaxOf(core[c].cfg)
            /\ core[c].initial = InitialBuffers(core[c].cfg)

-------------------------------------------------------------------------------
(***************************************************************************)
(* What the operators compute.                                             *)
(***************************************************************************)
LEMMA MinOfTwo ==
    ASSUME NEW a \in Int, NEW b \in Int
    PROVE  Min({a, b}) \in Int /\ Min({a, b}) <= a /\ Min({a, b}) <= b
<1>1. \E x \in {a, b} : \A y \in {a, b} : x <= y
  OBVIOUS
<1> QED
  BY <1>1 DEF Min

LEMMA RemainderBounds ==
    ASSUME NEW n \in Nat, NEW m \in Nat \ {0}
    PROVE  n % m \in Nat /\ n % m <= n /\ (n < m => n % m = n)
  OBVIOUS

LEMMA QuotientBound ==
    ASSUME NEW n \in Nat, NEW m \in Nat \ {0}
    PROVE  n \div m \in Nat /\ (n \div m) * m <= n
  OBVIOUS

LEMMA ProductMonotone ==
    ASSUME NEW a \in Nat, NEW b \in Nat, NEW k \in Nat, a <= b
    PROVE  a * k \in Nat /\ a * k <= b * k
  OBVIOUS

LEMMA SizesAsWritten ==
    ASSUME NEW cfg \in Configs, PoolConfigured(cfg)
    PROVE  /\ MaxOf(cfg) \in Nat /\ InitialBuffers(cfg) \in Nat
           /\ MaxOf(cfg) <= WrittenMax(cfg)
           /\ WrittenMax(cfg) < SizeMod => MaxOf(cfg) = WrittenMax(cfg)
           /\ InitialBuffers(cfg) * BufSize <= MaxOf(cfg)
<1>1. /\ SizeMod \in Nat \ {0} /\ Kilo \in Nat \ {0} /\ BufSize \in Nat \ {0}
      /\ 16 * Kilo * Kilo < SizeMod
      /\ cfg.max.unit \in Units /\ cfg.max.num \in Nat
      /\ cfg.init.unit \in Units /\ cfg.init.num \in Nat
  BY LifecycleAssumption
<1>2. MaxOf(cfg) # -1 /\ SizeOr(cfg.init, DefaultInitial) # -1
  BY DEF PoolConfigured
<1>3. DefaultInitial \in Nat /\ DefaultMax \in Nat /\ DefaultMax < SizeMod
  BY <1>1 DEF DefaultInitial, DefaultMax
<1>4. ASSUME NEW s, s.unit \in Units, s.num \in Nat
      PROVE  ParseSize(s) \in Nat \cup {-1}
  <2> DEFINE val == IF s.num < SizeMod THEN s.num ELSE SizeMod - 1
  <2>1. val \in Nat
    BY <1>1, <1>4
  <2>2. val * Kilo \in Nat /\ val * Kilo * Kilo \in Nat
    BY <1>1, <2>1, ProductMonotone
  <2>3. (val * Kilo) % SizeMod \in Nat /\ (val * Kilo * Kilo) % SizeMod \in Nat
    BY <1>1, <2>2, RemainderBounds, Zenon
  <2>4. CASE s.unit \in {"infinite", "bytes"}
    BY <1>1, <2>1, <2>4 DEF ParseSize
  <2>5. CASE s.unit = "KB"
    <3>1. ParseSize(s) = (val * Kilo) % SizeMod
      BY <2>5 DEF ParseSize
    <3> QED
      BY <2>3, <3>1
  <2>6. CASE s.unit = "MB"
    <3>1. ParseSize(s) = (val * Kilo * Kilo) % SizeMod
      BY <2>6 DEF ParseSize
    <3> QED
      BY <2>3, <3>1
  <2>7. CASE s.unit \in {"absent", "bad"}
    BY <2>7 DEF ParseSize
  <2> QED
    BY <1>4, <2>4, <2>5, <2>6, <2>7 DEF Units
<1>5. MaxOf(cfg) \in Nat /\ SizeOr(cfg.init, DefaultInitial) \in Nat
  <2>1. ParseSize(cfg.max) \in Nat \cup {-1} /\ ParseSize(cfg.init) \in Nat \cup {-1}
    BY <1>1, <1>4
  <2> QED
    BY <1>2, <1>3, <2>1 DEF MaxOf, SizeOr
<1>6. MaxOf(cfg) <= WrittenMax(cfg) /\ (WrittenMax(cfg) < SizeMod => MaxOf(cfg) = WrittenMax(cfg))
  <2> DEFINE num == cfg.max.num
             val == IF num < SizeMod THEN num ELSE SizeMod - 1
  <2>1. val \in Nat /\ num \in Nat /\ val <= num /\ (num < SizeMod => val = num)
    BY <1>1
  <2>2. CASE cfg.max.unit \in {"absent", "infinite", "bytes"}
    BY <1>1, <1>3, <2>2 DEF MaxOf, SizeOr, ParseSize, WrittenMax
  <2>3. ASSUME NEW k \in Nat \ {0}, MaxOf(cfg) = (val * k) % SizeMod, WrittenMax(cfg) = num * k
        PROVE  MaxOf(cfg) <= WrittenMax(cfg) /\ (WrittenMax(cfg) < SizeMod => MaxOf(cfg) = WrittenMax(cfg))
    <3>1. /\ val * k \in Nat /\ val * k <= num * k
          /\ num * k \in Nat /\ num <= num * k
      BY <2>1, <2>3
    <3>2. (val * k) % SizeMod <= val * k /\ (val * k) % SizeMod \in Nat
          /\ (val * k < SizeMod => (val * k) % SizeMod = val * k)
      BY <1>1, <3>1, RemainderBounds, Zenon
    <3>3. num * k < SizeMod => val = num
      BY <1>1, <2>1, <3>1
    <3> HIDE DEF val, num
    <3> QED
      BY <1>1, <2>1, <2>3, <3>1, <3>2, <3>3
  <2>4. CASE cfg.max.unit = "KB"
    <3>1. MaxOf(cfg) = (val * Kilo) % SizeMod /\ WrittenMax(cfg) = num * Kilo
      BY <2>4 DEF MaxOf, SizeOr, ParseSize, WrittenMax
    <3> QED
      BY <1>1, <2>3, <3>1
  <2>5. CASE cfg.max.unit = "MB"
    <3>1. MaxOf(cfg) = (val * Kilo * Kilo) % SizeMod /\ WrittenMax(cfg) = num * Kilo * Kilo
      BY <2>5 DEF MaxOf, SizeOr, ParseSize, WrittenMax
    <3>2. /\ val * Kilo * Kilo = val * (Kilo * Kilo) /\ num * Kilo * Kilo = num * (Kilo * Kilo)
          /\ Kilo * Kilo \in Nat \ {0}
      BY <1>1, <2>1
    <3> QED
      BY <2>3, <3>1, <3>2
  <2>6. CASE cfg.max.unit = "bad"
    BY <1>2, <2>6 DEF MaxOf, SizeOr, ParseSize
  <2> QED
    BY <1>1, <2>2, <2>4, <2>5, <2>6 DEF Units
<1>7. InitialBuffers(cfg) \in Nat /\ InitialBuffers(cfg) * BufSize <= MaxOf(cfg)
  <2> DEFINE m == Min({SizeOr(cfg.init, DefaultInitial), MaxOf(cfg)})
  <2>1. m \in Nat /\ m <= MaxOf(cfg)
    BY <1>5, MinOfTwo DEF Min
  <2>2. m \div BufSize \in Nat /\ (m \div BufSize) * BufSize <= m
    BY <1>1, <2>1, QuotientBound
  <2> QED
    BY <1>1, <1>5, <2>1, <2>2 DEF InitialBuffers
<1> QED
  BY <1>5, <1>6, <1>7

-------------------------------------------------------------------------------
(***************************************************************************)
(* Cores: their types and sizes.                                           *)
(***************************************************************************)

\* What a constructor leaves initialized.
LEMMA ConstructedTypes ==
    ASSUME NEW cfg \in Configs, NEW new \in Constructed(cfg), new.ok
    PROVE  /\ new \in AliveCore /\ new.refs = 1
           /\ new.mz_max = MaxOf(new.cfg) /\ new.initial = InitialBuffers(new.cfg)
<1>1. PICK s \in SinksFor(cfg) \ {"none"} : new = NewCore(cfg, s) /\ PoolConfigured(cfg)
  BY DEF Constructed, FailedCore
<1>2. s \in {"file", "null"}
  BY DEF SinksFor, CreateSink
<1>3. MaxOf(cfg) \in Nat /\ InitialBuffers(cfg) \in Nat
  BY <1>1, SizesAsWritten
<1> QED
  BY <1>1, <1>2, <1>3 DEF NewCore, AliveCore

\* Another count of references.
LEMMA RefsChanged ==
    ASSUME NEW r \in AliveCore \cup DeadCore, NEW n \in Int
    PROVE  /\ [r EXCEPT !.refs = n] \in AliveCore \cup DeadCore
           /\ [r EXCEPT !.refs = n].refs = n /\ [r EXCEPT !.refs = n].st = r.st
           /\ r.st = "alive" => /\ [r EXCEPT !.refs = n].cfg = r.cfg
                                /\ [r EXCEPT !.refs = n].mz_max = r.mz_max
                                /\ [r EXCEPT !.refs = n].initial = r.initial
<1>1. CASE r \in AliveCore
  BY <1>1 DEF AliveCore
<1>2. CASE r \in DeadCore
  BY <1>2 DEF DeadCore
<1> QED
  BY <1>1, <1>2

LEMMA DeletedTypes == Deleted \in AliveCore \cup DeadCore /\ Deleted.st = "deleted"
BY DEF Deleted, DeadCore

LEMMA RefsAreNumbers == CoreTypes => \A c \in Cores : core[c].refs \in Int
BY DEF CoreTypes, AliveCore, DeadCore

\* A reference less, or the deletion.
LEMMA ReleaseOfTypes ==
    ASSUME CoreTypes, NEW c \in Cores
    PROVE  /\ ReleaseOf(c) \in [Cores -> AliveCore \cup DeadCore]
           /\ core[c].refs = 1 => ReleaseOf(c)[c] = Deleted
           /\ core[c].refs # 1 => ReleaseOf(c)[c] = [core[c] EXCEPT !.refs = core[c].refs - 1]
           /\ \A e \in Cores \ {c} : ReleaseOf(c)[e] = core[e]
<1>1. core[c] \in AliveCore \cup DeadCore /\ core[c].refs - 1 \in Int
  BY RefsAreNumbers DEF CoreTypes
<1>2. [core[c] EXCEPT !.refs = core[c].refs - 1] \in AliveCore \cup DeadCore
  BY <1>1, RefsChanged, Zenon
<1>3. ReleaseOf(c) =
        [core EXCEPT ![c] = IF core[c].refs = 1 THEN Deleted ELSE [core[c] EXCEPT !.refs = core[c].refs - 1]]
  BY Zenon DEF ReleaseOf
<1> QED
  BY <1>2, <1>3, DeletedTypes DEF CoreTypes

CoreInv == CoreTypes /\ SizesInv

LEMMA CoreInvInit == Init => CoreInv
BY DEF Init, CoreInv, CoreTypes, SizesInv, NeverMade, DeadCore

LEMMA CoreInvStep == CoreInv /\ [Next]_vars => CoreInv'
<1> SUFFICES ASSUME CoreInv, [Next]_vars PROVE CoreInv'
  OBVIOUS
<1> USE DEF CoreInv
<1>1. ASSUME UNCHANGED core PROVE CoreInv'
  BY <1>1 DEF CoreTypes, SizesInv
<1>2. ASSUME NEW c, core' = ReleaseOf(c) PROVE CoreInv'
  <2>1. CASE c \in Cores
    <3>1. CoreTypes'
      BY <1>2, <2>1, ReleaseOfTypes DEF CoreTypes
    <3>2. ASSUME NEW e \in Cores, core'[e].st = "alive"
          PROVE  /\ core[e].st = "alive" /\ core'[e].cfg = core[e].cfg
                 /\ core'[e].mz_max = core[e].mz_max /\ core'[e].initial = core[e].initial
      <4>1. core[e] \in AliveCore \cup DeadCore /\ core[e].refs \in Int
        BY DEF CoreTypes, AliveCore, DeadCore
      <4>2. core'[e] = core[e] \/ core'[e] = Deleted
            \/ core'[e] = [core[e] EXCEPT !.refs = core[e].refs - 1]
        BY <1>2, <2>1, ReleaseOfTypes
      <4>3. core[e].refs - 1 \in Int
        BY <4>1
      <4>4. CASE core'[e] = [core[e] EXCEPT !.refs = core[e].refs - 1]
        BY <3>2, <4>1, <4>3, <4>4, RefsChanged
      <4> QED
        BY <3>2, <4>2, <4>4, DeletedTypes
    <3> QED
      BY <3>1, <3>2 DEF SizesInv
  <2>2. CASE c \notin Cores
    <3>1. core' = core
      BY <1>2, <2>2 DEF CoreTypes, ReleaseOf
    <3> QED
      BY <1>1, <3>1
  <2> QED
    BY <2>1, <2>2
<1>3. ASSUME NEW c, core' = [core EXCEPT ![c] = Deleted] PROVE CoreInv'
  <2>1. CoreTypes'
    BY <1>3, DeletedTypes DEF CoreTypes
  <2>2. \A e \in Cores : core'[e] = core[e] \/ core'[e] = Deleted
    BY <1>3 DEF CoreTypes
  <2> QED
    BY <2>1, <2>2, DeletedTypes DEF SizesInv
<1>4. ASSUME NEW d \in DSOs, NEW cfg \in Configs, Construct(d, cfg) PROVE CoreInv'
  <2>1. PICK c \in Cores, new \in Constructed(cfg) :
           IF new.ok THEN core' = [core EXCEPT ![c] = new] ELSE core' = [core EXCEPT ![c] = Deleted]
    BY <1>4 DEF Construct
  <2>2. CASE new.ok
    <3>1. /\ new \in AliveCore
          /\ new.mz_max = MaxOf(new.cfg) /\ new.initial = InitialBuffers(new.cfg)
      BY <2>2, ConstructedTypes
    <3> QED
      BY <2>1, <2>2, <3>1 DEF CoreTypes, SizesInv
  <2> QED
    BY <1>3, <2>1, <2>2
<1>5. ASSUME NEW t \in Threads, AddRef(t) PROVE CoreInv'
  <2>1. core' = [core EXCEPT ![mp_core[t]].refs = @ + 1]
    BY <1>5 DEF AddRef
  <2>2. ASSUME NEW e \in Cores
        PROVE  /\ core'[e] \in AliveCore \cup DeadCore
               /\ core'[e].st = "alive" =>
                     /\ core[e].st = "alive" /\ core'[e].cfg = core[e].cfg
                     /\ core'[e].mz_max = core[e].mz_max /\ core'[e].initial = core[e].initial
    <3>1. core[e] \in AliveCore \cup DeadCore /\ core[e].refs \in Int
      BY DEF CoreTypes, AliveCore, DeadCore
    <3>2. core'[e] = core[e] \/ core'[e] = [core[e] EXCEPT !.refs = core[e].refs + 1]
      BY <2>1 DEF CoreTypes
    <3>3. core[e].refs + 1 \in Int
      BY <3>1
    <3>4. CASE core'[e] = [core[e] EXCEPT !.refs = core[e].refs + 1]
      BY <3>1, <3>3, <3>4, RefsChanged
    <3> QED
      BY <3>1, <3>2, <3>4
  <2>3. core' \in [Cores -> AliveCore \cup DeadCore]
    BY <2>1, <2>2 DEF CoreTypes
  <2> QED
    BY <2>2, <2>3 DEF CoreTypes, SizesInv
<1>6. ASSUME NEW d \in DSOs, Publish(d) PROVE CoreInv'
  BY <1>1, <1>3, <1>6 DEF Publish
<1>7. ASSUME NEW d \in DSOs, OwnerRelease(d) PROVE CoreInv'
  BY <1>2, <1>7 DEF OwnerRelease
<1>8. ASSUME NEW t \in Threads, WriterGone(t) PROVE CoreInv'
  BY <1>2, <1>8 DEF WriterGone
<1>9. ASSUME NEW d \in DSOs,
             InitCall(d) \/ ReleaseCall(d) \/ Adopt(d) \/ NoConstruct(d) \/ Lost(d) \/ Unlink(d) \/ Reset(d)
      PROVE  UNCHANGED core
  BY <1>9 DEF InitCall, ReleaseCall, Adopt, NoConstruct, Lost, Unlink, Reset
<1>10. ASSUME NEW t \in Threads,
              GetGlobalCore(t) \/ FindCore(t) \/ ApiCall(t) \/ StoreCore(t) \/ ApiReturn(t)
       PROVE  UNCHANGED core
  BY <1>10 DEF GetGlobalCore, FindCore, ApiCall, StoreCore, ApiReturn
<1>11. CASE UNCHANGED vars
  BY <1>1, <1>11 DEF vars
<1> QED
  BY <1>1, <1>4, <1>5, <1>6, <1>7, <1>8, <1>9, <1>10, <1>11 DEF Next, CallerStep, ThreadStep

(***************************************************************************)
(* The budget of a core is the size its configuration names, or what the   *)
(* multiplication by the unit left of it, and the buffers asked for up     *)
(* front fit in it, whatever the application's discipline.                 *)
(***************************************************************************)
THEOREM BudgetAsWrittenCorrect == Spec => []BudgetAsWritten
<1>1. CoreInv => BudgetAsWritten
  <2> SUFFICES ASSUME CoreInv, NEW c \in Cores, core[c].st = "alive"
               PROVE  /\ core[c].mz_max <= WrittenMax(core[c].cfg)
                      /\ WrittenMax(core[c].cfg) < SizeMod => core[c].mz_max = WrittenMax(core[c].cfg)
                      /\ core[c].initial * BufSize <= core[c].mz_max
    BY DEF BudgetAsWritten
  <2>1. core[c] \in AliveCore
    BY DEF CoreInv, CoreTypes, DeadCore
  <2>2. core[c].cfg \in Configs /\ PoolConfigured(core[c].cfg)
    BY <2>1 DEF AliveCore
  <2> QED
    BY <2>2, SizesAsWritten DEF CoreInv, SizesInv
<1> QED
  BY <1>1, CoreInvInit, CoreInvStep, PTL DEF Spec

-------------------------------------------------------------------------------
(***************************************************************************)
(* The inductive invariant.                                                *)
(***************************************************************************)
CallPlaces   == {"out", "existing", "construct", "publish", "lost"} \cup InRelease
ThreadPlaces == {"unborn", "found", "got", "in", "api", "gone"}

TypeOK ==
    /\ gp_instance \in [DSOs -> Cores \cup {NoCore}]
    /\ shm \in Cores \cup {NoCore}
    /\ released \subseteq Cores
    /\ ipc \in [DSOs -> CallPlaces]
    /\ lp \in [DSOs -> Cores \cup {NoCore}]
    /\ tpc \in [Threads -> ThreadPlaces]
    /\ mp_core \in [Threads -> Cores \cup {NoCore}]

Alive(c) == c \in Cores /\ core[c].st = "alive"

\* While a DSO is inside p8_release no other DSO is inside a call, and no thread uses the
\* core without a reference.
QuietInv ==
    \A d \in DSOs :
        ipc[d] \in InRelease => Borrowing = {} /\ \A e \in DSOs \ {d} : ipc[e] = "out"

\* The segment holds a core that is alive, that some DSO uses, and that nobody has
\* released but a DSO that is about to remove the segment.
ShmInv ==
    shm # NoCore =>
        /\ Alive(shm)
        /\ \E d \in DSOs : gp_instance[d] = shm /\ (shm \in released => ipc[d] = "unlink")

\* A DSO uses the core of the segment, or one that was released.
InstanceInv == \A d \in DSOs : gp_instance[d] \in released \cup {NoCore, shm}

\* A core that waits to be published is known to nobody else.
PublishInv ==
    \A d \in DSOs :
        ipc[d] = "publish" =>
            /\ Alive(lp[d]) /\ lp[d] \notin released \cup {shm} /\ Held(lp[d]) = {}
            /\ \A e \in DSOs : e # d /\ ipc[e] = "publish" => lp[e] # lp[d]

\* The core a DSO is about to adopt is still that of the segment.
AdoptInv == \A d \in DSOs : ipc[d] = "existing" => lp[d] = shm /\ shm # NoCore

\* p8_release removes the segment of the core it releases, and gives the owner's
\* reference back once.
ReleaseInv ==
    \A d \in DSOs :
        /\ ipc[d] \in InRelease => gp_instance[d] \in released
        /\ ipc[d] = "unlink" => gp_instance[d] = shm
        /\ ipc[d] \in {"release", "reset"} => shm = NoCore
        /\ ipc[d] = "release" => Alive(gp_instance[d])

\* Who uses a core without a reference uses that of the segment.
UserInv ==
    \A t \in Threads :
        /\ t \in Borrowing => mp_core[t] = shm /\ shm # NoCore
        /\ tpc[t] = "in" => Alive(mp_core[t])
        /\ tpc[t] \in {"unborn", "gone"} => mp_core[t] = NoCore

\* The owner of a core still has its reference.
Owned(c) ==
    c \notin released \/ \E d \in DSOs : gp_instance[d] = c /\ ipc[d] \in {"unlink", "release"}

\* References are the owner's and one of each writer, and without any the core is gone.
RefsRight(c) ==
    /\ core[c].refs = Cardinality(Held(c)) + (IF Owned(c) THEN 1 ELSE 0)
    /\ core[c].refs > 0
RefInv == \A c \in Cores : core[c].st = "alive" => RefsRight(c)

\* A core is released once it was constructed, and until then is in the segment or on
\* its way there.
FoundInv ==
    \A c \in Cores :
        /\ core[c].st = "none" => c \notin released
        /\ core[c].st = "alive" /\ c \notin released =>
              c = shm \/ \E d \in DSOs : ipc[d] = "publish" /\ lp[d] = c

IInv ==
    /\ CoreInv /\ TypeOK /\ QuietInv /\ ShmInv /\ InstanceInv /\ PublishInv /\ AdoptInv
    /\ ReleaseInv /\ UserInv /\ RefInv /\ FoundInv

-------------------------------------------------------------------------------
(***************************************************************************)
(* What a step does to the cores, their references and their owners.       *)
(***************************************************************************)

\* A core that was released keeps its state and loses one reference, or is gone.
LEMMA ReleaseOfFields ==
    ASSUME CoreTypes, NEW c \in Cores, core' = ReleaseOf(c)
    PROVE  /\ \A e \in Cores \ {c} : core'[e] = core[e]
           /\ core[c].refs = 1 => core'[c].st = "deleted"
           /\ core[c].refs # 1 => core'[c].st = core[c].st /\ core'[c].refs = core[c].refs - 1
<1>1. core[c] \in AliveCore \cup DeadCore /\ core[c].refs - 1 \in Int
  BY RefsAreNumbers DEF CoreTypes
<1>2. core[c].refs # 1 => core'[c] = [core[c] EXCEPT !.refs = core[c].refs - 1]
  BY ReleaseOfTypes
<1> DEFINE less == [core[c] EXCEPT !.refs = core[c].refs - 1]
<1>3. less.st = core[c].st /\ less.refs = core[c].refs - 1
  BY <1>1, RefsChanged, Zenon
<1> QED
  BY <1>2, <1>3, ReleaseOfTypes, DeletedTypes

\* The references of a core are right as long as its holders and its owner are the same.
LEMMA RefsKept ==
    ASSUME NEW c, RefsRight(c), core'[c].refs = core[c].refs,
           Held(c)' = Held(c), Owned(c)' <=> Owned(c)
    PROVE  RefsRight(c)'
BY DEF RefsRight

\* A thread more, or less, holds a core.
LEMMA HeldFinite == \A c : IsFiniteSet(Held(c)) /\ Cardinality(Held(c)) \in Nat
<1> SUFFICES ASSUME NEW c PROVE IsFiniteSet(Held(c))
  BY FS_CardinalityType
<1> QED
  BY LifecycleAssumption, FS_Subset DEF Held

-------------------------------------------------------------------------------
(***************************************************************************)
(* The steps of p8_initialize that touch no core, and those of the threads *)
(* without a reference, happen outside every p8_release and leave a DSO    *)
(* with the core it had or that of the segment.                            *)
(***************************************************************************)
LEMMA CallerKeeps ==
    ASSUME QuietRelease, IInv, CoreInv', NEW d \in DSOs,
           InitCall(d) \/ Adopt(d) \/ NoConstruct(d) \/ Lost(d)
    PROVE  IInv'
<1> USE DEF TypeOK
<1>1. TypeOK'
  BY DEF IInv, InitCall, Adopt, NoConstruct, Lost, Goto, CallPlaces
<1>2. \A e \in DSOs : ipc[e] \notin InRelease
  BY DEF IInv, QuietInv, InitCall, Adopt, NoConstruct, Lost, MayCall, InRelease
<1>3. UNCHANGED <<shm, core, released, tpc, mp_core>>
  BY DEF InitCall, Adopt, NoConstruct, Lost
<1>4. \A e \in DSOs \ {d} : gp_instance'[e] = gp_instance[e] /\ ipc'[e] = ipc[e] /\ lp'[e] = lp[e]
  BY DEF IInv, InitCall, Adopt, NoConstruct, Lost, Goto
<1>5. /\ gp_instance'[d] \in {gp_instance[d], shm}
      /\ ipc'[d] \in {"out", "existing", "construct", "lost"}
      /\ ipc'[d] = "existing" => lp'[d] = shm /\ shm # NoCore
  BY DEF IInv, AdoptInv, InitCall, Adopt, NoConstruct, Lost, Goto
<1>6. /\ \A e \in DSOs : ipc'[e] \notin InRelease
      /\ ipc[d] # "publish" /\ ipc'[d] # "publish"
  BY <1>2, <1>4, <1>5 DEF InRelease, InitCall, Adopt, NoConstruct, Lost
<1>7. \A c : Held(c)' = Held(c) /\ (Owned(c)' <=> Owned(c))
  BY <1>2, <1>3, <1>6 DEF Held, Owned, InRelease
<1>8. QuietInv' /\ ReleaseInv'
  BY <1>6 DEF QuietInv, ReleaseInv, InRelease
<1>9. ShmInv'
  BY <1>2, <1>3, <1>4, <1>5 DEF IInv, ShmInv, Alive, InRelease
<1>10. InstanceInv'
  BY <1>3, <1>4, <1>5 DEF IInv, InstanceInv
<1>11. PublishInv'
  BY <1>3, <1>4, <1>6, <1>7 DEF IInv, PublishInv, Alive
<1>12. AdoptInv'
  BY <1>3, <1>4, <1>5 DEF IInv, AdoptInv
<1>13. UserInv'
  BY <1>3 DEF IInv, UserInv, Borrowing, Alive
<1>14. RefInv'
  BY <1>3, <1>7, RefsKept DEF IInv, RefInv
<1>15. FoundInv'
  BY <1>3, <1>4, <1>6 DEF IInv, FoundInv
<1> QED
  BY <1>1, <1>8, <1>9, <1>10, <1>11, <1>12, <1>13, <1>14, <1>15 DEF IInv

LEMMA BorrowerKeeps ==
    ASSUME QuietRelease, NoStaleCalls, IInv, CoreInv', NEW t \in Threads,
           GetGlobalCore(t) \/ FindCore(t) \/ ApiCall(t) \/ StoreCore(t) \/ ApiReturn(t)
    PROVE  IInv'
<1> USE DEF TypeOK
<1>1. TypeOK'
  BY LifecycleAssumption DEF IInv, GetGlobalCore, FindCore, ApiCall, StoreCore, ApiReturn, Move, ThreadPlaces
<1>2. UNCHANGED <<shm, core, released, ipc, lp>>
  BY DEF GetGlobalCore, FindCore, ApiCall, StoreCore, ApiReturn
<1>3. \A u \in Threads \ {t} : tpc'[u] = tpc[u] /\ mp_core'[u] = mp_core[u]
  BY DEF IInv, GetGlobalCore, FindCore, ApiCall, StoreCore, ApiReturn, Move
<1>4. /\ tpc[t] # "in" /\ tpc'[t] \in {"found", "got", "api", "gone"}
      /\ tpc'[t] = "gone" => mp_core'[t] = NoCore /\ gp_instance' = gp_instance
      /\ tpc'[t] # "gone" => mp_core'[t] = shm /\ shm # NoCore /\ \A e \in DSOs : ipc[e] \notin InRelease
  <2>1. CASE GetGlobalCore(t) \/ ApiCall(t)
    BY <2>1, LifecycleAssumption DEF IInv, InstanceInv, GetGlobalCore, ApiCall, MayCall, Move
  <2>2. CASE FindCore(t)
    BY <2>2 DEF IInv, FindCore, MayCall, Move
  <2>3. CASE StoreCore(t)
    <3>1. t \in Borrowing
      BY <2>3 DEF StoreCore, Borrowing
    <3> QED
      BY <2>3, <3>1 DEF IInv, UserInv, QuietInv, StoreCore, Move
  <2>4. CASE ApiReturn(t)
    BY <2>4 DEF IInv, ApiReturn, Move
  <2> QED
    BY <2>1, <2>2, <2>3, <2>4
<1>5. \A e \in DSOs : gp_instance'[e] \in {gp_instance[e], shm}
  BY <1>4 DEF IInv, UserInv, Borrowing, GetGlobalCore, FindCore, ApiCall, StoreCore, ApiReturn
<1>6. \A e \in DSOs : ipc[e] \in InRelease => gp_instance' = gp_instance /\ Borrowing' = {}
  BY <1>2, <1>3, <1>4 DEF IInv, QuietInv, Borrowing
<1>7. \A c : Held(c)' = Held(c) /\ (Owned(c)' <=> Owned(c))
  <2>1. \A c : Held(c)' = Held(c)
    BY <1>3, <1>4 DEF Held
  <2>2. CASE \E e \in DSOs : ipc[e] \in InRelease
    <3>1. gp_instance' = gp_instance
      BY <1>6, <2>2
    <3> QED
      BY <1>2, <2>1, <3>1, Zenon DEF Owned
  <2>3. CASE \A e \in DSOs : ipc[e] \notin InRelease
    <3>1. \A e \in DSOs : ipc[e] \notin {"unlink", "release"}
      BY <2>3 DEF InRelease
    <3> QED
      BY <1>2, <2>1, <3>1, Zenon DEF Owned
  <2> QED
    BY <2>1, <2>2, <2>3
<1>8. QuietInv'
  BY <1>2, <1>6 DEF IInv, QuietInv
<1>9. ReleaseInv'
  BY <1>2, <1>6 DEF IInv, ReleaseInv, Alive, InRelease
<1>10. ShmInv'
  BY <1>2, <1>5 DEF IInv, ShmInv, Alive
<1>11. InstanceInv'
  BY <1>2, <1>5 DEF IInv, InstanceInv
<1>12. PublishInv' /\ AdoptInv'
  BY <1>2, <1>7 DEF IInv, PublishInv, AdoptInv, Alive
<1>13. UserInv'
  BY <1>2, <1>3, <1>4 DEF IInv, UserInv, Borrowing, Alive
<1>14. RefInv'
  BY <1>2, <1>7, RefsKept DEF IInv, RefInv
<1>15. FoundInv'
  BY <1>2 DEF IInv, FoundInv
<1> QED
  BY <1>1, <1>8, <1>9, <1>10, <1>11, <1>12, <1>13, <1>14, <1>15 DEF IInv

-------------------------------------------------------------------------------
(***************************************************************************)
(* The steps that make, publish, count or delete a core.                   *)
(***************************************************************************)
LEMMA ConstructKeeps ==
    ASSUME IInv, CoreInv', NEW d \in DSOs, NEW cfg \in Configs, Construct(d, cfg)
    PROVE  IInv'
<1> USE DEF TypeOK
<1>1. UNCHANGED <<gp_instance, shm, released, tpc, mp_core>> /\ ipc[d] = "construct"
  BY DEF Construct
<1>2. PICK c \in Cores :
        /\ core[c].st = "none" /\ \A e \in Cores \ {c} : core'[e] = core[e]
        /\ \/ core'[c].st = "alive" /\ core'[c].refs = 1
              /\ lp' = [lp EXCEPT ![d] = c] /\ ipc' = [ipc EXCEPT ![d] = "publish"]
           \/ core'[c].st = "deleted" /\ lp' = lp /\ ipc' = [ipc EXCEPT ![d] = "out"]
  <2>1. PICK c \in Cores, new \in Constructed(cfg) :
          /\ core[c].st = "none"
          /\ IF new.ok
             THEN core' = [core EXCEPT ![c] = new] /\ lp' = [lp EXCEPT ![d] = c] /\ Goto(d, "publish")
             ELSE core' = [core EXCEPT ![c] = Deleted] /\ Goto(d, "out") /\ UNCHANGED lp
    BY DEF Construct
  <2>2. core = [e \in Cores |-> core[e]]
    BY DEF IInv, CoreInv, CoreTypes
  <2>3. CASE new.ok
    <3>1. new.st = "alive" /\ new.refs = 1
      BY <2>3, ConstructedTypes DEF AliveCore
    <3> QED
      BY <2>1, <2>2, <2>3, <3>1 DEF Goto
  <2>4. CASE ~ new.ok
    BY <2>1, <2>2, <2>4, DeletedTypes DEF Goto
  <2> QED
    BY <2>3, <2>4
<1>3. /\ c # shm /\ c \notin released /\ c # NoCore /\ Held(c) = {}
      /\ \A e \in DSOs : gp_instance[e] # c /\ (ipc[e] = "publish" => lp[e] # c)
  BY <1>2, LifecycleAssumption DEF IInv, ShmInv, FoundInv, UserInv, InstanceInv, PublishInv, Alive, Held
<1>4. /\ \A e \in DSOs : ipc[e] \notin InRelease /\ ipc'[e] \notin InRelease
      /\ \A e \in DSOs \ {d} : ipc'[e] = ipc[e] /\ lp'[e] = lp[e]
      /\ ipc'[d] \in {"publish", "out"} /\ (ipc'[d] = "publish" => lp'[d] = c /\ core'[c].st = "alive")
  BY <1>1, <1>2 DEF IInv, QuietInv, InRelease
<1>5. \A e : Held(e)' = Held(e) /\ (Owned(e)' <=> Owned(e))
  BY <1>1, <1>4 DEF Held, Owned, InRelease
<1>6. TypeOK'
  BY <1>1, <1>2 DEF IInv, CallPlaces
<1>7. QuietInv' /\ ReleaseInv'
  BY <1>4 DEF QuietInv, ReleaseInv, InRelease
<1>8. ShmInv'
  BY <1>1, <1>2, <1>3, <1>4 DEF IInv, ShmInv, Alive, InRelease
<1>9. InstanceInv' /\ AdoptInv'
  BY <1>1, <1>4 DEF IInv, InstanceInv, AdoptInv
<1>10. PublishInv'
  BY <1>1, <1>2, <1>3, <1>4, <1>5 DEF IInv, PublishInv, Alive
<1>11. UserInv'
  BY <1>1, <1>2 DEF IInv, UserInv, Borrowing, Alive
<1>12. RefInv'
  <2>1. core'[c].st = "alive" => RefsRight(c)'
    <3>1. Held(c)' = {} /\ Cardinality({}) = 0
      BY <1>3, <1>5, FS_EmptySet
    <3>2. Owned(c)'
      BY <1>1, <1>3 DEF Owned
    <3>3. core'[c].st = "alive" => core'[c].refs = 1
      BY <1>2
    <3> QED
      BY <3>1, <3>2, <3>3 DEF RefsRight
  <2>2. ASSUME NEW e \in Cores \ {c}, core'[e].st = "alive" PROVE RefsRight(e)'
    BY <1>2, <1>5, <2>2, RefsKept DEF IInv, RefInv
  <2> QED
    BY <2>1, <2>2 DEF RefInv
<1>13. FoundInv'
  BY <1>1, <1>2, <1>3, <1>4 DEF IInv, FoundInv
<1> QED
  BY <1>6, <1>7, <1>8, <1>9, <1>10, <1>11, <1>12, <1>13 DEF IInv

LEMMA PublishKeeps ==
    ASSUME IInv, CoreInv', NEW d \in DSOs, Publish(d)
    PROVE  IInv'
<1> USE DEF TypeOK
<1>1. /\ UNCHANGED <<released, tpc, mp_core>> /\ ipc[d] = "publish"
      /\ lp' = [lp EXCEPT ![d] = NoCore]
  BY DEF Publish
<1>2. /\ lp[d] \in Cores /\ core[lp[d]].st = "alive" /\ lp[d] \notin released \cup {shm}
      /\ Held(lp[d]) = {} /\ \A e \in DSOs : gp_instance[e] # lp[d]
      /\ \A e \in DSOs \ {d} : ipc[e] = "publish" => lp[e] # lp[d]
  BY <1>1, LifecycleAssumption DEF IInv, PublishInv, InstanceInv, Alive
<1>3. \A e \in DSOs : ipc[e] \notin InRelease
  BY <1>1 DEF IInv, QuietInv, InRelease
<1>4. CASE shm = NoCore
  <2>1. /\ shm' = lp[d] /\ gp_instance' = [gp_instance EXCEPT ![d] = lp[d]]
        /\ ipc' = [ipc EXCEPT ![d] = "out"] /\ core' = core
    BY <1>4 DEF Publish, Goto
  <2>2. /\ \A e \in DSOs : ipc'[e] \notin InRelease
        /\ \A e \in DSOs \ {d} : ipc'[e] = ipc[e] /\ lp'[e] = lp[e] /\ gp_instance'[e] = gp_instance[e]
        /\ ipc'[d] = "out" /\ gp_instance'[d] = lp[d]
    BY <1>1, <1>3, <2>1 DEF IInv, InRelease
  <2>3. \A e : Held(e)' = Held(e) /\ (Owned(e)' <=> Owned(e))
    BY <1>1, <1>3, <2>2 DEF Held, Owned, InRelease
  <2>4. TypeOK'
    BY <1>1, <1>2, <2>1 DEF IInv, CallPlaces
  <2>5. QuietInv' /\ ReleaseInv'
    BY <2>2 DEF QuietInv, ReleaseInv, InRelease
  <2>6. ShmInv'
    BY <1>1, <1>2, <2>1, <2>2 DEF ShmInv, Alive
  <2>7. InstanceInv'
    BY <1>1, <1>4, <2>1, <2>2 DEF IInv, InstanceInv
  <2>8. PublishInv' /\ AdoptInv'
    BY <1>1, <1>2, <1>4, <2>1, <2>2, <2>3 DEF IInv, PublishInv, AdoptInv, Alive
  <2>9. UserInv'
    BY <1>1, <1>4, <2>1 DEF IInv, UserInv, Borrowing, Alive
  <2>10. RefInv'
    BY <2>1, <2>3, RefsKept DEF IInv, RefInv
  <2>11. FoundInv'
    BY <1>1, <1>4, <2>1, <2>2, LifecycleAssumption DEF IInv, FoundInv
  <2> QED
    BY <2>4, <2>5, <2>6, <2>7, <2>8, <2>9, <2>10, <2>11 DEF IInv
<1>5. CASE shm # NoCore
  <2>1. /\ UNCHANGED <<shm, gp_instance>>
        /\ ipc' = [ipc EXCEPT ![d] = "lost"] /\ core' = [core EXCEPT ![lp[d]] = Deleted]
    BY <1>5 DEF Publish, Goto
  <2>2. /\ core'[lp[d]].st = "deleted"
        /\ \A e \in Cores \ {lp[d]} : core'[e] = core[e]
    BY <1>2, <2>1, DeletedTypes DEF IInv, CoreInv, CoreTypes
  <2>3. /\ \A e \in DSOs : ipc'[e] \notin InRelease
        /\ \A e \in DSOs \ {d} : ipc'[e] = ipc[e] /\ lp'[e] = lp[e]
        /\ ipc'[d] = "lost"
    BY <1>1, <1>3, <2>1 DEF IInv, InRelease
  <2>4. \A e : Held(e)' = Held(e) /\ (Owned(e)' <=> Owned(e))
    BY <1>1, <1>3, <2>1, <2>3 DEF Held, Owned, InRelease
  <2>5. TypeOK'
    BY <1>1, <1>2, <2>1 DEF IInv, CallPlaces
  <2>6. QuietInv' /\ ReleaseInv'
    BY <2>3 DEF QuietInv, ReleaseInv, InRelease
  <2>7. ShmInv'
    BY <1>1, <1>2, <1>3, <2>1, <2>2, <2>3 DEF IInv, ShmInv, Alive, InRelease
  <2>8. InstanceInv'
    BY <1>1, <2>1 DEF IInv, InstanceInv
  <2>9. PublishInv' /\ AdoptInv'
    BY <1>1, <1>2, <2>1, <2>2, <2>3, <2>4 DEF IInv, PublishInv, AdoptInv, Alive
  <2>10. UserInv'
    <3>1. \A t \in Threads : tpc[t] = "in" => mp_core[t] # lp[d]
      BY <1>2 DEF Held
    <3> QED
      BY <1>1, <2>1, <2>2, <3>1 DEF IInv, UserInv, Borrowing, Alive
  <2>11. RefInv'
    BY <2>2, <2>4, RefsKept DEF IInv, RefInv
  <2>12. FoundInv'
    BY <1>1, <1>2, <2>1, <2>2, <2>3 DEF IInv, FoundInv
  <2> QED
    BY <2>5, <2>6, <2>7, <2>8, <2>9, <2>10, <2>11, <2>12 DEF IInv
<1> QED
  BY <1>4, <1>5

LEMMA ReleaseCallKeeps ==
    ASSUME QuietRelease, OneRelease, IInv, CoreInv', NEW d \in DSOs, ReleaseCall(d)
    PROVE  IInv'
<1> USE DEF TypeOK
<1> PICK c : c = gp_instance[d]
  OBVIOUS
<1>1. /\ UNCHANGED <<gp_instance, shm, core, lp, tpc, mp_core>>
      /\ released' = released \cup {c} /\ ipc' = [ipc EXCEPT ![d] = "unlink"]
  BY DEF ReleaseCall, Goto
<1>2. /\ Borrowing = {} /\ (\A e \in DSOs : ipc[e] = "out")
      /\ c \notin released /\ c = shm /\ shm # NoCore /\ c \in Cores
  BY DEF IInv, InstanceInv, ReleaseCall, MayRelease
<1>3. ipc'[d] = "unlink" /\ \A e \in DSOs \ {d} : ipc'[e] = "out"
  BY <1>1, <1>2 DEF IInv
<1>4. \A e : Held(e)' = Held(e) /\ (Owned(e)' <=> Owned(e))
  <2>1. \A e : Held(e)' = Held(e)
    BY <1>1 DEF Held
  <2>2. \A e : Owned(e) <=> e \notin released
    BY <1>2 DEF Owned
  <2>3. \A e : Owned(e)' <=> e \notin released' \/ gp_instance'[d] = e
    BY <1>3 DEF Owned
  <2> QED
    BY <1>1, <1>2, <2>1, <2>2, <2>3
<1>5. TypeOK'
  BY <1>1, <1>2 DEF IInv, CallPlaces, InRelease
<1>6. QuietInv'
  BY <1>1, <1>2, <1>3 DEF QuietInv, InRelease, Borrowing
<1>7. ShmInv'
  BY <1>1, <1>3, <1>2 DEF IInv, ShmInv, Alive
<1>8. InstanceInv'
  BY <1>1 DEF IInv, InstanceInv
<1>9. PublishInv' /\ AdoptInv'
  BY <1>3 DEF PublishInv, AdoptInv
<1>10. ReleaseInv'
  BY <1>1, <1>2, <1>3 DEF ReleaseInv, InRelease
<1>11. UserInv'
  BY <1>1 DEF IInv, UserInv, Borrowing, Alive
<1>12. RefInv'
  BY <1>1, <1>4, RefsKept DEF IInv, RefInv
<1>13. FoundInv'
  BY <1>1, <1>2 DEF IInv, ShmInv, FoundInv, Alive
<1> QED
  BY <1>5, <1>6, <1>7, <1>8, <1>9, <1>10, <1>11, <1>12, <1>13 DEF IInv

LEMMA UnlinkKeeps ==
    ASSUME IInv, CoreInv', NEW d \in DSOs, Unlink(d)
    PROVE  IInv'
<1> USE DEF TypeOK
<1>1. /\ UNCHANGED <<gp_instance, core, released, lp, tpc, mp_core>>
      /\ shm' = NoCore /\ ipc' = [ipc EXCEPT ![d] = "release"]
  BY DEF Unlink, Goto
<1>2. /\ ipc[d] = "unlink" /\ Borrowing = {} /\ \A e \in DSOs \ {d} : ipc[e] = "out"
      /\ gp_instance[d] = shm /\ shm \in released
  BY DEF IInv, QuietInv, ReleaseInv, Unlink, InRelease
<1>3. ipc'[d] = "release" /\ \A e \in DSOs \ {d} : ipc'[e] = "out"
  BY <1>1, <1>2 DEF IInv
<1>4. \A e : Held(e)' = Held(e) /\ (Owned(e)' <=> Owned(e))
  BY <1>1, <1>2, <1>3 DEF Held, Owned
<1>5. TypeOK'
  BY <1>1 DEF IInv, CallPlaces, InRelease
<1>6. QuietInv'
  BY <1>1, <1>2, <1>3 DEF QuietInv, InRelease, Borrowing
<1>7. ShmInv' /\ PublishInv' /\ AdoptInv'
  BY <1>1, <1>3 DEF ShmInv, PublishInv, AdoptInv
<1>8. InstanceInv'
  BY <1>1, <1>2 DEF IInv, InstanceInv
<1>9. ReleaseInv'
  BY <1>1, <1>2, <1>3, LifecycleAssumption DEF IInv, ReleaseInv, ShmInv, InRelease, Alive
<1>10. UserInv'
  BY <1>1, <1>2 DEF IInv, UserInv, Borrowing, Alive
<1>11. RefInv'
  BY <1>1, <1>4, RefsKept DEF IInv, RefInv
<1>12. FoundInv'
  BY <1>1, <1>2 DEF IInv, FoundInv
<1> QED
  BY <1>5, <1>6, <1>7, <1>8, <1>9, <1>10, <1>11, <1>12 DEF IInv

\* Without another reference than its owner's the core has no holder.
LEMMA OwnerReleaseKeeps ==
    ASSUME IInv, CoreInv', NEW d \in DSOs, OwnerRelease(d)
    PROVE  IInv'
<1> USE DEF TypeOK
<1> PICK c : c = gp_instance[d]
  OBVIOUS
<1>1. /\ UNCHANGED <<gp_instance, shm, released, lp, tpc, mp_core>>
      /\ core' = ReleaseOf(c) /\ ipc' = [ipc EXCEPT ![d] = "reset"]
  BY DEF OwnerRelease, Goto
<1>2. /\ ipc[d] = "release" /\ Borrowing = {} /\ (\A e \in DSOs \ {d} : ipc[e] = "out")
      /\ shm = NoCore /\ c \in released /\ c \in Cores /\ core[c].st = "alive"
  BY DEF IInv, QuietInv, ReleaseInv, OwnerRelease, InRelease, Alive
<1>3. ipc'[d] = "reset" /\ \A e \in DSOs \ {d} : ipc'[e] = "out"
  BY <1>1, <1>2 DEF IInv
<1>4. /\ \A e : Held(e)' = Held(e)
      /\ \A e : e # c => (Owned(e)' <=> Owned(e))
      /\ Owned(c) /\ ~ Owned(c)'
  BY <1>1, <1>2, <1>3 DEF Held, Owned
<1>5. /\ \A e \in Cores \ {c} : core'[e] = core[e]
      /\ core[c].refs = 1 => core'[c].st = "deleted"
      /\ core[c].refs # 1 => core'[c].st = "alive" /\ core'[c].refs = core[c].refs - 1
  BY <1>1, <1>2, ReleaseOfFields DEF IInv, CoreInv
<1>6. core[c].refs = Cardinality(Held(c)) + 1
  BY <1>2, <1>4 DEF IInv, RefInv, RefsRight
<1>7. core[c].refs = 1 => Held(c) = {}
  BY <1>6, HeldFinite, FS_EmptySet
<1>8. TypeOK'
  BY <1>1 DEF IInv, CallPlaces, InRelease
<1>9. QuietInv'
  BY <1>1, <1>2, <1>3 DEF QuietInv, InRelease, Borrowing
<1>10. ShmInv' /\ PublishInv' /\ AdoptInv'
  BY <1>1, <1>2, <1>3 DEF ShmInv, PublishInv, AdoptInv
<1>11. InstanceInv'
  BY <1>1 DEF IInv, InstanceInv
<1>12. ReleaseInv'
  BY <1>1, <1>2, <1>3 DEF ReleaseInv, InRelease
<1>13. UserInv'
  <2>1. \A t \in Threads : tpc[t] = "in" /\ mp_core[t] = c => core'[c].st = "alive"
    BY <1>5, <1>7 DEF Held
  <2> QED
    BY <1>1, <1>5, <2>1 DEF IInv, UserInv, Borrowing, Alive
<1>14. RefInv'
  <2>1. core'[c].st = "alive" => RefsRight(c)'
    BY <1>4, <1>5, <1>6, HeldFinite DEF IInv, RefInv, RefsRight
  <2>2. ASSUME NEW e \in Cores \ {c}, core'[e].st = "alive" PROVE RefsRight(e)'
    BY <1>4, <1>5, <2>2, RefsKept DEF IInv, RefInv
  <2> QED
    BY <2>1, <2>2 DEF RefInv
<1>15. FoundInv'
  BY <1>1, <1>2, <1>3, <1>5 DEF IInv, FoundInv
<1> QED
  BY <1>8, <1>9, <1>10, <1>11, <1>12, <1>13, <1>14, <1>15 DEF IInv

LEMMA ResetKeeps ==
    ASSUME IInv, CoreInv', NEW d \in DSOs, Reset(d)
    PROVE  IInv'
<1> USE DEF TypeOK
<1>1. /\ UNCHANGED <<shm, core, released, lp, tpc, mp_core>>
      /\ gp_instance' = [gp_instance EXCEPT ![d] = NoCore] /\ ipc' = [ipc EXCEPT ![d] = "out"]
  BY DEF Reset, Goto
<1>2. /\ ipc[d] = "reset" /\ Borrowing = {} /\ \A e \in DSOs \ {d} : ipc[e] = "out"
      /\ shm = NoCore
  BY DEF IInv, QuietInv, ReleaseInv, Reset, InRelease
<1>3. \A e \in DSOs : ipc'[e] = "out"
  BY <1>1, <1>2 DEF IInv
<1>4. \A e : Held(e)' = Held(e) /\ (Owned(e)' <=> Owned(e))
  BY <1>1, <1>2, <1>3 DEF Held, Owned
<1>5. TypeOK'
  BY <1>1 DEF IInv, CallPlaces
<1>6. QuietInv' /\ ReleaseInv' /\ PublishInv' /\ AdoptInv' /\ ShmInv'
  BY <1>1, <1>2, <1>3 DEF QuietInv, ReleaseInv, PublishInv, AdoptInv, ShmInv, InRelease
<1>7. InstanceInv'
  BY <1>1 DEF IInv, InstanceInv
<1>8. UserInv'
  BY <1>1 DEF IInv, UserInv, Borrowing, Alive
<1>9. RefInv'
  BY <1>1, <1>4, RefsKept DEF IInv, RefInv
<1>10. FoundInv'
  BY <1>1, <1>2 DEF IInv, FoundInv
<1> QED
  BY <1>5, <1>6, <1>7, <1>8, <1>9, <1>10 DEF IInv

LEMMA AddRefKeeps ==
    ASSUME IInv, CoreInv', NEW t \in Threads, AddRef(t)
    PROVE  IInv'
<1> USE DEF TypeOK
<1> PICK c : c = mp_core[t]
  OBVIOUS
<1>1. /\ UNCHANGED <<gp_instance, shm, released, ipc, lp>>
      /\ tpc' = [tpc EXCEPT ![t] = "in"] /\ mp_core' = mp_core
  BY DEF IInv, AddRef, Move
<1>2. /\ t \in Borrowing /\ tpc[t] = "got" /\ c = shm /\ c \in Cores /\ core[c].st = "alive"
      /\ \A d \in DSOs : ipc[d] \notin InRelease
  BY DEF IInv, UserInv, ShmInv, QuietInv, AddRef, Borrowing, Alive
<1>3. /\ \A e \in Cores \ {c} : core'[e] = core[e]
      /\ core'[c].st = "alive" /\ core'[c].refs = core[c].refs + 1
  <2>1. core' = [core EXCEPT ![c] = [core[c] EXCEPT !.refs = core[c].refs + 1]]
    BY DEF AddRef
  <2>2. core[c] \in AliveCore \cup DeadCore /\ core[c].refs + 1 \in Int
    BY <1>2, RefsAreNumbers DEF IInv, CoreInv, CoreTypes
  <2> DEFINE more == [core[c] EXCEPT !.refs = core[c].refs + 1]
  <2>3. more.st = core[c].st /\ more.refs = core[c].refs + 1
    BY <2>2, RefsChanged, Zenon
  <2> HIDE DEF more
  <2> QED
    BY <1>2, <2>1, <2>3 DEF IInv, CoreInv, CoreTypes, more
<1>4. /\ \A e : Owned(e)' <=> Owned(e)
      /\ \A e : e # c => Held(e)' = Held(e)
      /\ Held(c)' = Held(c) \cup {t} /\ t \notin Held(c)
  BY <1>1, <1>2 DEF IInv, Owned, Held
<1>5. Cardinality(Held(c)') = Cardinality(Held(c)) + 1
  BY <1>4, HeldFinite, FS_AddElement
<1>6. TypeOK'
  BY <1>1 DEF IInv, ThreadPlaces
<1>7. QuietInv' /\ ReleaseInv'
  BY <1>1, <1>2 DEF QuietInv, ReleaseInv, InRelease
<1>8. ShmInv'
  BY <1>1, <1>2, <1>3 DEF IInv, ShmInv, Alive
<1>9. InstanceInv' /\ AdoptInv'
  BY <1>1 DEF IInv, InstanceInv, AdoptInv
<1>10. PublishInv'
  BY <1>1, <1>2, <1>3, <1>4 DEF IInv, PublishInv, Alive
<1>11. UserInv'
  BY <1>1, <1>2, <1>3 DEF IInv, UserInv, Borrowing, Alive
<1>12. RefInv'
  <2>1. RefsRight(c)'
    BY <1>2, <1>3, <1>4, <1>5, HeldFinite DEF IInv, RefInv, RefsRight
  <2>2. ASSUME NEW e \in Cores \ {c}, core'[e].st = "alive" PROVE RefsRight(e)'
    BY <1>3, <1>4, <2>2, RefsKept DEF IInv, RefInv
  <2> QED
    BY <2>1, <2>2 DEF RefInv
<1>13. FoundInv'
  BY <1>1, <1>2, <1>3 DEF IInv, FoundInv
<1> QED
  BY <1>6, <1>7, <1>8, <1>9, <1>10, <1>11, <1>12, <1>13 DEF IInv

\* The last writer of a core deletes it only after its owner released it.
LEMMA WriterGoneKeeps ==
    ASSUME IInv, CoreInv', NEW t \in Threads, WriterGone(t)
    PROVE  IInv'
<1> USE DEF TypeOK
<1> PICK c : c = mp_core[t]
  OBVIOUS
<1>1. /\ UNCHANGED <<gp_instance, shm, released, ipc, lp>> /\ core' = ReleaseOf(c)
      /\ tpc' = [tpc EXCEPT ![t] = "gone"] /\ mp_core' = [mp_core EXCEPT ![t] = NoCore]
  BY DEF WriterGone, Move
<1>2. tpc[t] = "in" /\ c \in Cores /\ core[c].st = "alive" /\ t \in Held(c)
  BY DEF IInv, UserInv, WriterGone, Alive, Held
<1>3. /\ \A e \in Cores \ {c} : core'[e] = core[e]
      /\ core[c].refs = 1 => core'[c].st = "deleted"
      /\ core[c].refs # 1 => core'[c].st = "alive" /\ core'[c].refs = core[c].refs - 1
  BY <1>1, <1>2, ReleaseOfFields DEF IInv, CoreInv
<1>4. /\ \A e : Owned(e)' <=> Owned(e)
      /\ \A e \in Cores : e # c => Held(e)' = Held(e)
      /\ Held(c)' = Held(c) \ {t}
  BY <1>1, <1>2, LifecycleAssumption DEF IInv, Owned, Held
<1>5. Cardinality(Held(c)') = Cardinality(Held(c)) - 1 /\ Cardinality(Held(c)') \in Nat
  BY <1>2, <1>4, HeldFinite, FS_RemoveElement, FS_Subset, FS_CardinalityType
<1>6. RefsRight(c)
  BY <1>2 DEF IInv, RefInv
<1>7. core[c].refs = 1 => ~ Owned(c) /\ Held(c)' = {}
  <2>1. core[c].refs = 1 => ~ Owned(c) /\ Cardinality(Held(c)') = 0
    BY <1>5, <1>6, HeldFinite DEF RefsRight
  <2>2. IsFiniteSet(Held(c)')
    BY <1>4, HeldFinite, FS_Subset
  <2> QED
    BY <2>1, <2>2, FS_EmptySet
<1>8. /\ c = shm => Owned(c)
      /\ \A d \in DSOs : ipc[d] = "publish" => lp[d] # c
      /\ \A d \in DSOs : ipc[d] = "release" /\ gp_instance[d] = c => Owned(c)
  BY <1>2, LifecycleAssumption DEF IInv, ShmInv, PublishInv, Owned
<1>9. TypeOK'
  BY <1>1 DEF IInv, ThreadPlaces
<1>10. QuietInv'
  BY <1>1 DEF IInv, QuietInv, Borrowing
<1>11. ShmInv'
  BY <1>1, <1>3, <1>7, <1>8 DEF IInv, ShmInv, Alive
<1>12. InstanceInv' /\ AdoptInv'
  BY <1>1 DEF IInv, InstanceInv, AdoptInv
<1>13. PublishInv'
  BY <1>1, <1>3, <1>4, <1>8 DEF IInv, PublishInv, Alive
<1>14. ReleaseInv'
  BY <1>1, <1>3, <1>7, <1>8 DEF IInv, ReleaseInv, Alive
<1>15. UserInv'
  <2>1. \A u \in Threads \ {t} : tpc[u] = "in" /\ mp_core[u] = c => u \in Held(c)'
    BY <1>1 DEF Held
  <2> QED
    BY <1>1, <1>3, <1>7, <2>1 DEF IInv, UserInv, Borrowing, Alive
<1>16. RefInv'
  <2>1. core'[c].st = "alive" => RefsRight(c)'
    BY <1>3, <1>4, <1>5, <1>6, HeldFinite DEF RefsRight
  <2>2. ASSUME NEW e \in Cores \ {c}, core'[e].st = "alive" PROVE RefsRight(e)'
    BY <1>3, <1>4, <2>2, RefsKept DEF IInv, RefInv
  <2> QED
    BY <2>1, <2>2 DEF RefInv
<1>17. FoundInv'
  BY <1>1, <1>2, <1>3 DEF IInv, FoundInv
<1> QED
  BY <1>9, <1>10, <1>11, <1>12, <1>13, <1>14, <1>15, <1>16, <1>17 DEF IInv

-------------------------------------------------------------------------------
(***************************************************************************)
(* The invariant holds, and what follows from it.                          *)
(***************************************************************************)
LEMMA IInvInit == Init => IInv
<1> SUFFICES ASSUME Init PROVE IInv
  OBVIOUS
<1> USE DEF Init
<1>1. CoreInv
  BY CoreInvInit
<1>2. TypeOK
  BY DEF TypeOK, CallPlaces, ThreadPlaces
<1>3. QuietInv /\ ShmInv /\ InstanceInv /\ PublishInv /\ AdoptInv /\ ReleaseInv
  BY DEF QuietInv, ShmInv, InstanceInv, PublishInv, AdoptInv, ReleaseInv, InRelease
<1>4. UserInv
  BY DEF UserInv, Borrowing
<1>5. RefInv /\ FoundInv
  BY DEF RefInv, FoundInv, NeverMade
<1> QED
  BY <1>1, <1>2, <1>3, <1>4, <1>5 DEF IInv

\* Nothing happened.
LEMMA StutterKeeps == IInv /\ UNCHANGED vars => IInv'
<1> SUFFICES ASSUME IInv, UNCHANGED vars PROVE IInv'
  OBVIOUS
<1>1. CoreInv' /\ TypeOK'
  BY DEF IInv, CoreInv, CoreTypes, SizesInv, TypeOK, vars
<1>2. QuietInv' /\ ShmInv' /\ InstanceInv' /\ PublishInv' /\ AdoptInv' /\ ReleaseInv' /\ UserInv'
  BY DEF IInv, QuietInv, ShmInv, InstanceInv, PublishInv, AdoptInv, ReleaseInv, UserInv,
         Borrowing, Held, Alive, vars
<1>3. \A c : Held(c)' = Held(c) /\ (Owned(c)' <=> Owned(c))
  BY DEF Held, Owned, vars
<1>4. RefInv' /\ FoundInv'
  BY <1>3, RefsKept DEF IInv, RefInv, FoundInv, vars
<1> QED
  BY <1>1, <1>2, <1>4 DEF IInv

LEMMA IInvStep ==
    ASSUME QuietRelease, OneRelease, NoStaleCalls, IInv, [Next]_vars
    PROVE  IInv'
<1>1. CoreInv'
  BY CoreInvStep DEF IInv
<1>2. ASSUME NEW d \in DSOs, InitCall(d) \/ ReleaseCall(d) \/ CallerStep(d) PROVE IInv'
  BY <1>1, <1>2, CallerKeeps, ConstructKeeps, PublishKeeps, ReleaseCallKeeps, UnlinkKeeps,
     OwnerReleaseKeeps, ResetKeeps DEF CallerStep
<1>3. ASSUME NEW t \in Threads, GetGlobalCore(t) \/ FindCore(t) \/ ApiCall(t) \/ ThreadStep(t) PROVE IInv'
  BY <1>1, <1>3, BorrowerKeeps, AddRefKeeps, WriterGoneKeeps DEF ThreadStep
<1>4. CASE UNCHANGED vars
  BY <1>4, StutterKeeps
<1> QED
  BY <1>2, <1>3, <1>4 DEF Next

THEOREM InvariantHolds ==
    ASSUME QuietRelease, OneRelease, NoStaleCalls
    PROVE  Spec => []IInv
<1>1. IInv /\ [Next]_vars => IInv'
  BY IInvStep
<1> QED
  BY <1>1, IInvInit, PTL DEF Spec

(***************************************************************************)
(* While the application calls p8_release only when no other thread is on  *)
(* its way to a core, once per core, and makes no call through a pointer   *)
(* to a core that was released, nobody who uses a core or is about to take *)
(* a reference meets a deleted one.                                        *)
(***************************************************************************)
THEOREM CoreOutlivesUsersCorrect ==
    ASSUME QuietRelease, OneRelease, NoStaleCalls
    PROVE  Spec => []CoreOutlivesUsers
<1>1. IInv => CoreOutlivesUsers
  BY DEF IInv, TypeOK, ThreadPlaces, ShmInv, UserInv, Borrowing, Alive, CoreOutlivesUsers
<1> QED
  BY <1>1, InvariantHolds, PTL

(***************************************************************************)
(* Under the same rules every DSO whose core was not released uses the one *)
(* core of the segment, and it is initialized.                             *)
(***************************************************************************)
THEOREM OneCoreCorrect ==
    ASSUME QuietRelease, OneRelease, NoStaleCalls
    PROVE  Spec => []OneCore
<1>1. IInv => OneCore
  <2> SUFFICES ASSUME IInv, NEW d \in DSOs, gp_instance[d] \notin released \cup {NoCore}
               PROVE  /\ core[gp_instance[d]].st = "alive" /\ core[gp_instance[d]].ok
                      /\ shm = gp_instance[d]
                      /\ \A e \in DSOs : gp_instance[e] \notin released \cup {NoCore}
                                         => gp_instance[e] = gp_instance[d]
    BY DEF OneCore
  <2>1. \A e \in DSOs : gp_instance[e] \notin released \cup {NoCore} => gp_instance[e] = shm
    BY DEF IInv, InstanceInv
  <2>2. Alive(shm)
    BY <2>1 DEF IInv, ShmInv
  <2>3. core[shm].ok
    BY <2>2 DEF IInv, CoreInv, CoreTypes, AliveCore, DeadCore, Alive
  <2> QED
    BY <2>1, <2>2, <2>3 DEF Alive
<1> QED
  BY <1>1, InvariantHolds, PTL

(***************************************************************************)
(* Under the same rules no core is forgotten: whoever loses the race to    *)
(* publish deletes its own, and a released core is still held by the       *)
(* p8_release that is under way or by a thread.                            *)
(***************************************************************************)
THEOREM NoLeakCorrect ==
    ASSUME QuietRelease, OneRelease, NoStaleCalls
    PROVE  Spec => []NoLeak
<1>1. IInv => NoLeak
  <2> SUFFICES ASSUME IInv, NEW c \in Cores, core[c].st = "alive"
               PROVE  \/ \E d \in DSOs : lp[d] = c /\ ipc[d] = "publish"
                      \/ \E d \in DSOs : gp_instance[d] = c /\ (c \notin released \/ ipc[d] \in InRelease)
                      \/ Held(c) # {}
    BY DEF NoLeak
  <2>1. CASE c \notin released
    <3>1. CASE c = shm
      BY <2>1, <3>1, LifecycleAssumption DEF IInv, ShmInv
    <3> QED
      BY <2>1, <3>1 DEF IInv, FoundInv
  <2>2. CASE c \in released /\ Owned(c)
    BY <2>2 DEF Owned, InRelease
  <2>3. CASE ~ Owned(c)
    <3>1. Cardinality(Held(c)) > 0
      BY <2>3, HeldFinite DEF IInv, RefInv, RefsRight
    <3> QED
      BY <3>1, FS_EmptySet
  <2> QED
    BY <2>1, <2>2, <2>3
<1> QED
  BY <1>1, InvariantHolds, PTL
===============================================================================
