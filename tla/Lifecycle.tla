------------------------------- MODULE Lifecycle -------------------------------
(***************************************************************************)
(* The life of a core: p8_initialize and p8_release in the DSOs of one     *)
(* process, which find each other's core through a shared memory segment,  *)
(* and the threads whose writers take and give back references.            *)
(*                                                                         *)
(* Every DSO links its own engine and so has its own gp_instance and       *)
(* gp_shm_handle.  One thread per DSO calls p8_initialize and p8_release;  *)
(* the threads of Threads log through some DSO and end.  Nothing but the   *)
(* segment's O_EXCL creation and its semaphore orders them, so a read of   *)
(* the segment and the use of the pointer found there are separate steps.  *)
(***************************************************************************)
EXTENDS Integers, FiniteSets, FiniteSetsExt

CONSTANTS
    DSOs,         \* the DSOs of the process that link the engine
    Threads,      \* threads that write or register attributes
    DsoOf,        \* the DSO each of them makes its call in
    NoCore,       \* the null pointer
    MaxCores,     \* bound: cores ever constructed
    Configs,      \* configurations p8_initialize is called with
    SizeMod,      \* 2^64, the range of size_t
    Kilo,         \* 1024, the factor of KB and Ki
    BufSize,      \* mz_data_buffer_size
    QuietRelease, \* the application calls p8_release only while no other thread
                  \* initializes, makes its first call or registers an attribute
    OneRelease,   \* of the DSOs that share a core only one calls p8_release
    NoStaleCalls  \* no call begins in a DSO whose gp_instance another DSO has released

Cores == 1 .. MaxCores

\* A size in the configuration: a number and its unit.  "bytes" stands for a number
\* alone, "absent" for a missing or empty key, "bad" for text parse_size rejects.
Units == {"bytes", "KB", "MB", "infinite", "absent", "bad"}
Sinks == {"absent", "file.bin", "network.tcp", "null", "other"}

ASSUME LifecycleAssumption ==
    /\ IsFiniteSet(DSOs) /\ IsFiniteSet(Threads) /\ NoCore \notin Cores
    /\ DsoOf \in [Threads -> DSOs]
    /\ {MaxCores, SizeMod, Kilo, BufSize} \subseteq Nat \ {0} /\ 16 * Kilo * Kilo < SizeMod
    /\ {QuietRelease, OneRelease, NoStaleCalls} \subseteq BOOLEAN
    /\ \A c \in Configs :
          /\ c.json \in BOOLEAN /\ c.sink \in Sinks
          /\ c.max.unit \in Units /\ c.max.num \in Nat
          /\ c.init.unit \in Units /\ c.init.num \in Nat

VARIABLES
    gp_instance,   \* per DSO
    gp_shm_handle, \* per DSO: TRUE while it holds the segment it created
    shm,           \* the pointer in the segment, NoCore when there is no segment
    core,          \* every core: its state, mu_ref_count, and what it was configured to
    released,      \* cores for which some p8_release has begun
    ipc,           \* per DSO: where the thread inside p8_initialize or p8_release is
    lp,            \* per DSO: lp_new or lp_existing of that call
    tpc,           \* per thread
    mp_core        \* per thread: the core its writer or its call uses

vars == <<gp_instance, gp_shm_handle, shm, core, released, ipc, lp, tpc, mp_core>>

Held(c) == {t \in Threads : tpc[t] = "in" /\ mp_core[t] = c}
-------------------------------------------------------------------------------
(***************************************************************************)
(* What the constructor makes of a configuration.                          *)
(***************************************************************************)

\* strtoull saturates; the multiplication by the unit wraps.  -1 is a rejected text.
ParseSize(s) ==
    LET val == IF s.num < SizeMod THEN s.num ELSE SizeMod - 1
    IN  CASE s.unit = "infinite" -> SizeMod - 1
          [] s.unit = "bytes"    -> val
          [] s.unit = "KB"       -> (val * Kilo) % SizeMod
          [] s.unit = "MB"       -> (val * Kilo * Kilo) % SizeMod
          [] OTHER               -> -1

\* The sizes when the keys are missing: 1 MB to begin with, 16 MB at most.
DefaultInitial == Kilo * Kilo
DefaultMax     == 16 * DefaultInitial

SizeOr(s, default) == IF s.unit = "absent" THEN default ELSE ParseSize(s)
MaxOf(cfg)         == SizeOr(cfg.max, DefaultMax)

\* Mutated form: the initial size is not limited by the maximum.
InitialBuffers_Unlimited(cfg) == SizeOr(cfg.init, DefaultInitial) \div BufSize

\* The buffers init_buffer_pool asks for up front.
InitialBuffers(cfg) == Min({SizeOr(cfg.init, DefaultInitial), MaxOf(cfg)}) \div BufSize

PoolConfigured(cfg) == MaxOf(cfg) # -1 /\ SizeOr(cfg.init, DefaultInitial) # -1

\* create_sink makes no sink for a network or an unknown value.
CreateSink(value) ==
    CASE value \in {"absent", "null"} -> "null"
      [] value = "file.bin"           -> "file"
      [] OTHER                        -> "none"

\* The sink the core ends up with: a file sink that cannot be opened is replaced.
SinksFor(cfg) == IF CreateSink(cfg.sink) = "file" THEN {"file", "null"} ELSE {CreateSink(cfg.sink)}

\* A new core has one reference, its owner's.  It is not initialized when the
\* configuration, the pool or the sink fails; the constructor then returns early.
NewCore(cfg, sink) ==
    [st |-> "alive", refs |-> 1, ok |-> TRUE, cfg |-> cfg, mz_max |-> MaxOf(cfg),
     initial |-> InitialBuffers(cfg), sink |-> sink]
FailedCore(cfg) ==
    [st |-> "alive", refs |-> 1, ok |-> FALSE, cfg |-> cfg, mz_max |-> 0,
     initial |-> 0, sink |-> "none"]
Constructed(cfg) ==
    {FailedCore(cfg)} \cup
    IF cfg.json /\ PoolConfigured(cfg)
    THEN {NewCore(cfg, s) : s \in SinksFor(cfg) \ {"none"}}
    ELSE {}
NeverMade == [st |-> "none", refs |-> 0]
\* ~cp8_core stops the worker, closes the sink and frees the pool.
Deleted   == [st |-> "deleted", refs |-> 0]
-------------------------------------------------------------------------------
Init ==
    /\ gp_instance = [d \in DSOs |-> NoCore] /\ gp_shm_handle = [d \in DSOs |-> FALSE]
    /\ shm = NoCore
    /\ core = [c \in Cores |-> NeverMade] /\ released = {}
    /\ ipc = [d \in DSOs |-> "out"] /\ lp = [d \in DSOs |-> NoCore]
    /\ tpc = [t \in Threads |-> "unborn"] /\ mp_core = [t \in Threads |-> NoCore]

\* Inside p8_release: before unlink, before release(), before the reset of gp_instance.
InRelease == {"unlink", "release", "reset"}
Goto(d, p) == ipc' = [ipc EXCEPT ![d] = p]

\* A thread has a core's address and not yet a reference: from get_global_core to addref,
\* and throughout a registry call.
Borrowing == {t \in Threads : tpc[t] \in {"found", "got", "api"}}

\* What the application's discipline allows.  Nothing resets the gp_instance of a DSO when
\* another one releases the core it points to.
MayCall(d)    == /\ QuietRelease => \A e \in DSOs : ipc[e] \notin InRelease
                 /\ NoStaleCalls => gp_instance[d] \notin released
MayRelease(d) == /\ QuietRelease => Borrowing = {} /\ \A e \in DSOs : ipc[e] = "out"
                 /\ OneRelease => gp_instance[d] \notin released

\* cp8_core::release: the last reference deletes the core.
ReleaseOf(c) == LET less == [core[c] EXCEPT !.refs = @ - 1] IN
    [core EXCEPT ![c] = IF core[c].refs = 1 THEN Deleted ELSE less]
-------------------------------------------------------------------------------
(***************************************************************************)
(* p8_initialize                                                           *)
(***************************************************************************)

\* The segment is read without its lock.  With a core in this DSO the call returns at
\* once, which changes nothing.
InitCall(d) ==
    /\ ipc[d] = "out" /\ gp_instance[d] = NoCore /\ MayCall(d)
    /\ lp' = [lp EXCEPT ![d] = shm]
    /\ Goto(d, IF shm # NoCore THEN "existing" ELSE "construct")
    /\ UNCHANGED <<gp_instance, gp_shm_handle, shm, core, released, tpc, mp_core>>

\* Another DSO's core is used without a reference.
Adopt(d) ==
    /\ ipc[d] = "existing"
    /\ gp_instance' = [gp_instance EXCEPT ![d] = lp[d]]
    /\ lp' = [lp EXCEPT ![d] = NoCore]
    /\ Goto(d, "out")
    /\ UNCHANGED <<gp_shm_handle, shm, core, released, tpc, mp_core>>

\* A null configuration, or an allocation that fails, ends the call.
NoConstruct(d) ==
    /\ ipc[d] = "construct"
    /\ Goto(d, "out")
    /\ UNCHANGED <<gp_instance, gp_shm_handle, shm, core, released, lp, tpc, mp_core>>

\* A core that is not initialized is deleted again before the call returns.
Construct(d, cfg) ==
    /\ ipc[d] = "construct"
    /\ \E c \in Cores :
          /\ core[c].st = "none" /\ \A e \in 1 .. c - 1 : core[e].st # "none"
          /\ \E new \in Constructed(cfg) :
                IF new.ok
                THEN /\ core' = [core EXCEPT ![c] = new]
                     /\ lp' = [lp EXCEPT ![d] = c] /\ Goto(d, "publish")
                ELSE /\ core' = [core EXCEPT ![c] = Deleted]
                     /\ Goto(d, "out") /\ UNCHANGED lp
    /\ UNCHANGED <<gp_instance, gp_shm_handle, shm, released, tpc, mp_core>>

\* Mutated form: the segment is created without O_EXCL.
Publish_NotExclusive(d) ==
    /\ ipc[d] = "publish"
    /\ lp' = [lp EXCEPT ![d] = NoCore]
    /\ shm' = lp[d]
    /\ gp_instance' = [gp_instance EXCEPT ![d] = lp[d]]
    /\ gp_shm_handle' = [gp_shm_handle EXCEPT ![d] = TRUE]
    /\ Goto(d, "out")
    /\ UNCHANGED <<core, released, tpc, mp_core>>

\* Mutated form: the loser of the race keeps its own core.
Publish_Leaks(d) ==
    /\ ipc[d] = "publish"
    /\ lp' = [lp EXCEPT ![d] = NoCore]
    /\ \/ /\ shm = NoCore
          /\ shm' = lp[d]
          /\ gp_instance' = [gp_instance EXCEPT ![d] = lp[d]]
          /\ gp_shm_handle' = [gp_shm_handle EXCEPT ![d] = TRUE]
          /\ Goto(d, "out")
       \/ /\ shm # NoCore
          /\ Goto(d, "lost")
          /\ UNCHANGED <<gp_instance, gp_shm_handle, shm>>
    /\ UNCHANGED <<core, released, tpc, mp_core>>

\* c_shared::create fails when the segment exists.
Publish(d) ==
    /\ ipc[d] = "publish"
    /\ lp' = [lp EXCEPT ![d] = NoCore]
    /\ \/ /\ shm = NoCore
          /\ shm' = lp[d]
          /\ gp_instance' = [gp_instance EXCEPT ![d] = lp[d]]
          /\ gp_shm_handle' = [gp_shm_handle EXCEPT ![d] = TRUE]
          /\ Goto(d, "out")
          /\ UNCHANGED core
       \/ /\ shm # NoCore
          /\ core' = [core EXCEPT ![lp[d]] = Deleted]
          /\ Goto(d, "lost")
          /\ UNCHANGED <<gp_instance, gp_shm_handle, shm>>
    /\ UNCHANGED <<released, tpc, mp_core>>

\* The loser reads the winner's pointer under the semaphore; a timeout of the lock, or a
\* segment that is gone, is an error.
Lost(d) ==
    /\ ipc[d] = "lost"
    /\ \/ shm # NoCore /\ lp' = [lp EXCEPT ![d] = shm] /\ Goto(d, "existing")
       \/ Goto(d, "out") /\ UNCHANGED lp
    /\ UNCHANGED <<gp_instance, gp_shm_handle, shm, core, released, tpc, mp_core>>
-------------------------------------------------------------------------------
(***************************************************************************)
(* p8_release                                                              *)
(***************************************************************************)
ReleaseCall(d) ==
    /\ ipc[d] = "out" /\ gp_instance[d] # NoCore /\ MayRelease(d)
    /\ released' = released \cup {gp_instance[d]}
    /\ gp_shm_handle' = [gp_shm_handle EXCEPT ![d] = FALSE]
    /\ Goto(d, "unlink")
    /\ UNCHANGED <<gp_instance, shm, core, lp, tpc, mp_core>>

\* Whatever segment has the name now is removed.
Unlink(d) ==
    /\ ipc[d] = "unlink"
    /\ shm' = NoCore
    /\ Goto(d, "release")
    /\ UNCHANGED <<gp_instance, gp_shm_handle, core, released, lp, tpc, mp_core>>

OwnerRelease(d) ==
    /\ ipc[d] = "release"
    /\ core' = ReleaseOf(gp_instance[d])
    /\ Goto(d, "reset")
    /\ UNCHANGED <<gp_instance, gp_shm_handle, shm, released, lp, tpc, mp_core>>

Reset(d) ==
    /\ ipc[d] = "reset"
    /\ gp_instance' = [gp_instance EXCEPT ![d] = NoCore]
    /\ Goto(d, "out")
    /\ UNCHANGED <<gp_shm_handle, shm, core, released, lp, tpc, mp_core>>
-------------------------------------------------------------------------------
(***************************************************************************)
(* Threads                                                                 *)
(***************************************************************************)
Move(t, p, c) == tpc' = [tpc EXCEPT ![t] = p] /\ mp_core' = [mp_core EXCEPT ![t] = c]

\* get_global_core, called by the constructor of the thread's writer: the DSO's core, or
\* the one in the segment, or none when the timeout passes.
GetGlobalCore(t) == LET d == DsoOf[t] IN
    /\ tpc[t] = "unborn" /\ MayCall(d)
    /\ \/ gp_instance[d] # NoCore /\ Move(t, "got", gp_instance[d])
       \/ gp_instance[d] = NoCore /\ Move(t, "gone", NoCore)
    /\ UNCHANGED <<gp_instance, gp_shm_handle, shm, core, released, ipc, lp>>

\* The segment is read under its semaphore and the pointer stored after the unlock.
FindCore(t) == LET d == DsoOf[t] IN
    /\ tpc[t] = "unborn" /\ gp_instance[d] = NoCore /\ shm # NoCore /\ MayCall(d)
    /\ Move(t, "found", shm)
    /\ UNCHANGED <<gp_instance, gp_shm_handle, shm, core, released, ipc, lp>>

StoreCore(t) == LET d == DsoOf[t] IN
    /\ tpc[t] = "found"
    /\ gp_instance' = [gp_instance EXCEPT ![d] = mp_core[t]]
    /\ Move(t, "got", mp_core[t])
    /\ UNCHANGED <<gp_shm_handle, shm, core, released, ipc, lp>>

\* Mutated form: the writer's constructor takes no reference.
AddRef_None(t) ==
    /\ tpc[t] = "got"
    /\ Move(t, "in", mp_core[t])
    /\ UNCHANGED <<gp_instance, gp_shm_handle, shm, core, released, ipc, lp>>

\* The rest of cp8_tls_writer's constructor.
AddRef(t) ==
    /\ tpc[t] = "got"
    /\ core' = [core EXCEPT ![mp_core[t]].refs = @ + 1]
    /\ Move(t, "in", mp_core[t])
    /\ UNCHANGED <<gp_instance, gp_shm_handle, shm, released, ipc, lp>>

\* Mutated form: the writer's destructor keeps its reference.
WriterGone_Keeps(t) ==
    /\ tpc[t] = "in"
    /\ Move(t, "gone", NoCore)
    /\ UNCHANGED <<gp_instance, gp_shm_handle, shm, core, released, ipc, lp>>

\* ~cp8_tls_writer at the end of the thread.
WriterGone(t) ==
    /\ tpc[t] = "in"
    /\ core' = ReleaseOf(mp_core[t])
    /\ Move(t, "gone", NoCore)
    /\ UNCHANGED <<gp_instance, gp_shm_handle, shm, released, ipc, lp>>

\* p8_attr_register, p8_attr_get and p8_get_initialized use gp_instance without a
\* reference.
ApiCall(t) == LET d == DsoOf[t] IN
    /\ tpc[t] = "unborn" /\ gp_instance[d] # NoCore /\ MayCall(d)
    /\ Move(t, "api", gp_instance[d])
    /\ UNCHANGED <<gp_instance, gp_shm_handle, shm, core, released, ipc, lp>>

ApiReturn(t) ==
    /\ tpc[t] = "api"
    /\ Move(t, "gone", NoCore)
    /\ UNCHANGED <<gp_instance, gp_shm_handle, shm, core, released, ipc, lp>>

CallerStep(d) ==
    \/ Adopt(d) \/ NoConstruct(d) \/ (\E cfg \in Configs : Construct(d, cfg)) \/ Publish(d) \/ Lost(d)
    \/ Unlink(d) \/ OwnerRelease(d) \/ Reset(d)
ThreadStep(t) ==
    StoreCore(t) \/ AddRef(t) \/ WriterGone(t) \/ ApiReturn(t)

Next ==
    \/ \E d \in DSOs : InitCall(d) \/ ReleaseCall(d) \/ CallerStep(d)
    \/ \E t \in Threads : GetGlobalCore(t) \/ FindCore(t) \/ ApiCall(t) \/ ThreadStep(t)

Spec == Init /\ [][Next]_vars

\* A call that has begun returns, and a thread ends.
FairSpec == Spec /\ \A d \in DSOs : WF_vars(CallerStep(d))
                 /\ \A t \in Threads : WF_vars(ThreadStep(t))
-------------------------------------------------------------------------------
\* p8_release leaves the core to the threads that hold references: no thread that has a
\* writer's reference, or has taken the core's address to get one or to register an
\* attribute, ever meets a deleted core (cp8_tls_writer's constructor and destructor,
\* addref, release, p8_release).
CoreOutlivesUsers ==
    \A t \in Threads : mp_core[t] # NoCore => core[mp_core[t]].st = "alive"

\* The part of it the documentation of p8_release states: "it stays alive until the last
\* thread-local destructor releases its reference".
AliveWhileReferenced ==
    \A t \in Threads : tpc[t] = "in" => core[mp_core[t]].st = "alive"

\* However the initializations of several DSOs and the lookups of their threads race,
\* every DSO that has not seen its core released uses the same one, it is initialized,
\* and it is the one in the segment, so later arrivals find it too (p8_initialize,
\* get_global_core).
OneCore ==
    \A d \in DSOs :
        gp_instance[d] \notin released \cup {NoCore} =>
            /\ core[gp_instance[d]].st = "alive" /\ core[gp_instance[d]].ok
            /\ shm = gp_instance[d]
            /\ \A e \in DSOs : gp_instance[e] \notin released \cup {NoCore}
                               => gp_instance[e] = gp_instance[d]

\* No core is forgotten: one that is alive is being constructed or published by some
\* call, is in use by a DSO that can still release it, or is held by a thread; the loser
\* of the race to publish does not leak its own (p8_initialize, release).
NoLeak ==
    \A c \in Cores :
        core[c].st = "alive" =>
            \/ \E d \in DSOs : lp[d] = c /\ ipc[d] = "publish"
            \/ \E d \in DSOs : gp_instance[d] = c /\ (c \notin released \/ ipc[d] \in InRelease)
            \/ Held(c) # {}

\* The budget of a core never exceeds the size its configuration names, and is that size
\* unless the multiplication by the unit wrapped; the buffers asked for up front fit in it
\* (parse_size, init_buffer_pool).
WrittenMax(cfg) ==
    CASE cfg.max.unit = "bytes"  -> cfg.max.num
      [] cfg.max.unit = "KB"     -> cfg.max.num * Kilo
      [] cfg.max.unit = "MB"     -> cfg.max.num * Kilo * Kilo
      [] cfg.max.unit = "absent" -> DefaultMax
      [] OTHER                   -> SizeMod - 1
BudgetAsWritten ==
    \A c \in Cores :
        core[c].st = "alive" =>
            /\ core[c].mz_max <= WrittenMax(core[c].cfg)
            /\ WrittenMax(core[c].cfg) < SizeMod => core[c].mz_max = WrittenMax(core[c].cfg)
            /\ core[c].initial * BufSize <= core[c].mz_max

\* A released core dies once the threads that hold it have ended: no reference is lost
\* (p8_release, ~cp8_tls_writer).
ReleasedDies == \A c \in Cores : c \in released ~> core[c].st = "deleted"
===============================================================================
