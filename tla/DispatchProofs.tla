--------------------------- MODULE DispatchProofs ---------------------------
(****************************************************************************)
(* The dispatcher, proved for every set of entries, addresses, priorities   *)
(* and connections, any number of chains and every fault.                   *)
(****************************************************************************)
EXTENDS Dispatch, ListLemmas, FiniteSetTheorems, TLAPS

(****************************************************************************)
(* The inductive invariant.                                                 *)
(****************************************************************************)
(* Who holds dispatch_lock, and who has a reference to a chain. *)
Locking == {"lookup", "insert", "unlock", "remove", "destroy", "exit", "cancel", "unref"}
Leaving == {"destroy", "exit", "cancel", "unref"}
Holding(e) == pc[e] \in {"insert"} \union Leaving \/ state[e] = "in"
Working == {"walk", "call"}

JobType == [at : {"none", "idle", "push", "lock", "walk", "call"}, chain : Chains \union {None},
            conn : Conns \union {Null}, entry : Entries \union {Null}]

ChainType == [key : Keys \union {Null}, maker : Entries \union {Null}, ref : Int, threaded : BOOLEAN,
              queue : Seq(Conns \union {ExitMagic}), elements : Seq(Entries), listening : BOOLEAN]

Types ==
    /\ addr \in Layouts /\ created \in 0 .. MaxChains
    /\ table \in [Keys -> 0 .. created] /\ chain \in [Chains -> ChainType]
    /\ chainLock \in [Chains -> BOOLEAN] /\ lock \in BOOLEAN /\ gil \in BOOLEAN
    /\ pc \in [Entries -> {"idle", "register", "lookup", "insert", "unlock", "return",
                           "unregister", "remove", "destroy", "exit", "cancel", "unref"}]
    /\ of \in [Entries -> 0 .. created]
    /\ state \in [Entries -> {"new", "in", "out", "failed"}]
    /\ busy \in [Related -> BOOLEAN] /\ job \in [Actors -> JobType]
    /\ conn \in [Conns -> {"new", "accepted", "queued", "destroyed"} \union Entries]

(* dispatch_lock keeps the calls apart. *)
TableLocked ==
    \A e \in Entries : pc[e] \in Locking => lock /\ \A f \in Entries : pc[f] \in Locking => f = e

(* What a call has made of its entry. *)
CallAt(e) ==
    /\ pc[e] \in {"register", "lookup", "insert"} => state[e] = "new"
    /\ pc[e] \in {"unlock", "return"} => state[e] # "new"
    /\ pc[e] \in {"unregister", "remove"} => state[e] = "in"
    /\ pc[e] \in Leaving => state[e] = "out"
    /\ Holding(e) => of[e] \in 1 .. created
    /\ pc[e] \in {"exit", "cancel"} => Holders(of[e]) = {e}

(* The lists of a chain: its entries, in the order of their priorities. *)
ListAt(i) ==
    /\ NoDup(chain[i].elements)
    /\ \A e \in Entries : e \in ToSet(chain[i].elements) <=> of[e] = i /\ state[e] = "in"
    /\ \A m, n \in 1 .. Len(chain[i].elements) :
          m <= n => Prio[chain[i].elements[m]] <= Prio[chain[i].elements[n]]

(* A chain with entries has its place in the table, and keeps it until the  *)
(* last of them goes.                                                       *)
Tabled(i) == chain[i].key \in Keys /\ table[chain[i].key] = i

TableAt(i) ==
    /\ \A k \in Keys : table[k] = i => chain[i].key = k /\ \E e \in Holders(i) : pc[e] # "unref"
    /\ \A e \in Holders(i) : pc[e] # "unref" => Tabled(i)
    /\ chain[i].listening => Tabled(i)
    /\ i > created => chain[i] = NoChain

(* The thread of a chain: once it has been told to end, the chain has no    *)
(* entry that could still need it.                                          *)
Told(i) == ExitMagic \in ToSet(chain[i].queue) \/ (chain[i].threaded /\ job[i].at = "none")
ThreadAt(i) ==
    /\ Told(i) => \A e \in Holders(i) : pc[e] \in {"cancel", "unref"}
    /\ ~chain[i].threaded => job[i].at = "none" /\ chain[i].queue = <<>>
    /\ job[i].at # "push" /\ job[i].chain \in {None, i}

(* A connection on its way. *)
JobAt(a) ==
    /\ job[a].chain = None <=> job[a].at \in {"none", "idle"}
    /\ job[a].at = "push" => chain[job[a].chain].threaded /\ job[a].conn \in Conns
    /\ job[a].at \in Working => chainLock[job[a].chain]
    /\ job[a].at \in Working => \A b \in Actors : job[b].at \in Working /\ job[b].chain = job[a].chain => b = a
    /\ job[a].at = "call" => job[a].entry \in ToSet(chain[job[a].chain].elements)

(* The lock of a chain. *)
ChainLocked ==
    /\ \A e \in Entries : pc[e] = "destroy" =>
          chainLock[of[e]] /\ \A a \in Actors : job[a].at \in Working => job[a].chain # of[e]
    /\ \A i \in Chains : chainLock[i] =>
          \/ \E a \in Actors : job[a].at \in Working /\ job[a].chain = i
          \/ \E e \in Entries : pc[e] = "destroy" /\ of[e] = i

(* The listener cannot be cancelled while the main thread is in it. *)
MainServes == job[Main].at # "none" /\ (job[Main].chain # None => Tabled(job[Main].chain))

DispatchInv ==
    /\ Types /\ TableLocked /\ ChainLocked /\ MainServes /\ RefsExact
    /\ \A e \in Entries : CallAt(e)
    /\ \A i \in Chains : ListAt(i) /\ TableAt(i) /\ ThreadAt(i)
    /\ \A a \in Actors : JobAt(a)

-----------------------------------------------------------------------------
(* One field of a chain changes. *)
LEMMA FieldSet ==
    ASSUME NEW r \in ChainType
    PROVE  /\ \A v \in Int : /\ [r EXCEPT !["ref"] = v] \in ChainType /\ [r EXCEPT !["ref"] = v].ref = v
           /\ \A v \in Seq(Entries) : [r EXCEPT !["elements"] = v] \in ChainType
           /\ \A v \in Seq(Conns \union {ExitMagic}) : [r EXCEPT !["queue"] = v] \in ChainType
           /\ \A v \in BOOLEAN : [r EXCEPT !["listening"] = v] \in ChainType
<1>1. ASSUME NEW v \in Int PROVE [r EXCEPT !["ref"] = v] \in ChainType /\ [r EXCEPT !["ref"] = v].ref = v
  BY DEF ChainType
<1>2. ASSUME NEW v \in Seq(Entries) PROVE [r EXCEPT !["elements"] = v] \in ChainType
  BY DEF ChainType
<1>3. ASSUME NEW v \in Seq(Conns \union {ExitMagic}) PROVE [r EXCEPT !["queue"] = v] \in ChainType
  BY DEF ChainType
<1>4. ASSUME NEW v \in BOOLEAN PROVE [r EXCEPT !["listening"] = v] \in ChainType
  BY DEF ChainType
<1> QED BY <1>1, <1>2, <1>3, <1>4
(* The reference count of a chain changes. *)
LEMMA SetRef ==
    ASSUME chain \in [Chains -> ChainType], NEW i \in Chains, NEW v \in Int, Set(i, "ref", v)
    PROVE  /\ chain' \in [Chains -> ChainType] /\ chain'[i].ref = v
           /\ chain'[i].key = chain[i].key /\ chain'[i].maker = chain[i].maker /\ chain'[i].threaded = chain[i].threaded
           /\ chain'[i].queue = chain[i].queue /\ chain'[i].elements = chain[i].elements /\ chain'[i].listening = chain[i].listening
           /\ \A j \in Chains : j # i => chain'[j] = chain[j]
<1>1. chain[i] \in ChainType /\ chain' = [chain EXCEPT ![i] = [chain[i] EXCEPT !["ref"] = v]]
  BY DEF Set
<1>2. [chain[i] EXCEPT !["ref"] = v] \in ChainType
  BY <1>1, FieldSet
<1>3. chain' \in [Chains -> ChainType] /\ chain'[i] = [chain[i] EXCEPT !["ref"] = v]
  BY <1>1, <1>2
<1>4. \A j \in Chains : j # i => chain'[j] = chain[j]
  BY <1>1
<1> QED BY <1>1, <1>3, <1>4 DEF ChainType

(* The entries of a chain change. *)
LEMMA SetElements ==
    ASSUME chain \in [Chains -> ChainType], NEW i \in Chains, NEW v \in Seq(Entries), Set(i, "elements", v)
    PROVE  /\ chain' \in [Chains -> ChainType] /\ chain'[i].elements = v
           /\ chain'[i].key = chain[i].key /\ chain'[i].maker = chain[i].maker /\ chain'[i].ref = chain[i].ref
           /\ chain'[i].threaded = chain[i].threaded /\ chain'[i].queue = chain[i].queue /\ chain'[i].listening = chain[i].listening
           /\ \A j \in Chains : j # i => chain'[j] = chain[j]
<1>1. chain[i] \in ChainType /\ chain' = [chain EXCEPT ![i] = [chain[i] EXCEPT !["elements"] = v]]
  BY DEF Set
<1>2. [chain[i] EXCEPT !["elements"] = v] \in ChainType
  BY <1>1, FieldSet
<1>3. chain' \in [Chains -> ChainType] /\ chain'[i] = [chain[i] EXCEPT !["elements"] = v]
  BY <1>1, <1>2
<1>4. \A j \in Chains : j # i => chain'[j] = chain[j]
  BY <1>1
<1> QED BY <1>1, <1>3, <1>4 DEF ChainType

(* The accept queue of a chain changes. *)
LEMMA SetQueue ==
    ASSUME chain \in [Chains -> ChainType], NEW i \in Chains, NEW v \in Seq(Conns \union {ExitMagic}), Set(i, "queue", v)
    PROVE  /\ chain' \in [Chains -> ChainType] /\ chain'[i].queue = v
           /\ chain'[i].key = chain[i].key /\ chain'[i].maker = chain[i].maker /\ chain'[i].ref = chain[i].ref
           /\ chain'[i].threaded = chain[i].threaded /\ chain'[i].elements = chain[i].elements /\ chain'[i].listening = chain[i].listening
           /\ \A j \in Chains : j # i => chain'[j] = chain[j]
<1>1. chain[i] \in ChainType /\ chain' = [chain EXCEPT ![i] = [chain[i] EXCEPT !["queue"] = v]]
  BY DEF Set
<1>2. [chain[i] EXCEPT !["queue"] = v] \in ChainType
  BY <1>1, FieldSet
<1>3. chain' \in [Chains -> ChainType] /\ chain'[i] = [chain[i] EXCEPT !["queue"] = v]
  BY <1>1, <1>2
<1>4. \A j \in Chains : j # i => chain'[j] = chain[j]
  BY <1>1
<1> QED BY <1>1, <1>3, <1>4 DEF ChainType

(* The listener of a chain changes. *)
LEMMA SetListening ==
    ASSUME chain \in [Chains -> ChainType], NEW i \in Chains, NEW v \in BOOLEAN, Set(i, "listening", v)
    PROVE  /\ chain' \in [Chains -> ChainType] /\ chain'[i].listening = v
           /\ chain'[i].key = chain[i].key /\ chain'[i].maker = chain[i].maker /\ chain'[i].ref = chain[i].ref
           /\ chain'[i].threaded = chain[i].threaded /\ chain'[i].queue = chain[i].queue /\ chain'[i].elements = chain[i].elements
           /\ \A j \in Chains : j # i => chain'[j] = chain[j]
<1>1. chain[i] \in ChainType /\ chain' = [chain EXCEPT ![i] = [chain[i] EXCEPT !["listening"] = v]]
  BY DEF Set
<1>2. [chain[i] EXCEPT !["listening"] = v] \in ChainType
  BY <1>1, FieldSet
<1>3. chain' \in [Chains -> ChainType] /\ chain'[i] = [chain[i] EXCEPT !["listening"] = v]
  BY <1>1, <1>2
<1>4. \A j \in Chains : j # i => chain'[j] = chain[j]
  BY <1>1
<1> QED BY <1>1, <1>3, <1>4 DEF ChainType
-----------------------------------------------------------------------------
(* Who holds a chain depends on the calls alone. *)
LEMMA HoldersKept ==
    ASSUME \A f \in Entries : (Holding(f)' <=> Holding(f)) /\ (Holding(f) => of'[f] = of[f])
    PROVE  \A i \in Chains : Holders(i)' = Holders(i)
  BY DEF Holders, Holding, Leaving

(* A count stays exact when nobody comes or goes. *)
LEMMA RefsKept ==
    ASSUME RefsExact,
           \A i \in Chains : /\ Holders(i)' = Holders(i) /\ chain'[i].ref = chain[i].ref
                             /\ job'[i].at = "none" <=> job[i].at = "none"
    PROVE  RefsExact'
  BY DEF RefsExact

(* Main and the threads of the chains are different actors. *)
LEMMA Threads == Chains \subseteq Actors /\ Main \in Actors /\ Main \notin Chains /\ None \notin Chains
  BY DispatchConstants DEF Actors, Chains, Main, None

(* An entry that holds a chain holds one that exists. *)
LEMMA HeldChain ==
    ASSUME DispatchInv, NEW e \in Entries, Holding(e)
    PROVE  of[e] \in Chains /\ of[e] <= created /\ created \in Nat /\ e \in Holders(of[e])
<1>1. of[e] \in 1 .. created /\ created \in 0 .. MaxChains
  BY DEF DispatchInv, CallAt, Types
<1>2. e \in Holders(of[e])
  BY DEF Holders, Holding, Leaving
<1> QED BY <1>1, <1>2, DispatchConstants DEF Chains

(* A step of a listener or of a thread that dispatches: no call goes on. *)
LEMMA JobsFrame ==
    ASSUME DispatchInv, Types', UNCHANGED <<addr, table, created, lock, pc, of, state>>,
           \A i \in Chains : /\ chain'[i].key = chain[i].key /\ chain'[i].threaded = chain[i].threaded
                             /\ chain'[i].elements = chain[i].elements
                             /\ chain'[i].listening => chain[i].listening
                             /\ i > created => chain'[i] = chain[i],
           ChainLocked', MainServes', RefsExact',
           \A i \in Chains : ThreadAt(i)', \A a \in Actors : JobAt(a)'
    PROVE  DispatchInv'
<1>1. \A i \in Chains : Holders(i)' = Holders(i)
  BY HoldersKept DEF Holding
<1>2. TableLocked'
  BY DEF DispatchInv, TableLocked
<1>3. ASSUME NEW e \in Entries PROVE CallAt(e)'
  <2>1. CallAt(e)
    BY DEF DispatchInv
  <2>3. pc'[e] \in {"exit", "cancel"} => Holders(of[e])' = {e}
    <3> SUFFICES ASSUME pc[e] \in {"exit", "cancel"} PROVE Holders(of[e])' = {e}
      OBVIOUS
    <3>1. Holders(of[e])' = Holders(of[e])
      BY DEF Holders
    <3> QED BY <2>1, <3>1 DEF CallAt
  <2> QED BY <2>1, <2>3 DEF CallAt, Holding
<1>4. ASSUME NEW i \in Chains PROVE ListAt(i)'
  BY DEF DispatchInv, ListAt
<1>5. ASSUME NEW i \in Chains PROVE TableAt(i)'
  BY <1>1 DEF DispatchInv, TableAt, Tabled
<1> QED BY <1>2, <1>3, <1>4, <1>5 DEF DispatchInv

(* The step of one thread that dispatches, on an unchanged chain. *)
LEMMA ActorFrame ==
    ASSUME DispatchInv, Types', NEW a \in Actors, UNCHANGED <<addr, table, created, lock, pc, of, state, chain>>,
           \A b \in Actors : b # a => job'[b] = job[b],
           job[a].at \notin {"none", "push"}, job'[a].at \notin {"none", "push"}, job'[a].chain \in {None, job[a].chain},
           ChainLocked', \A b \in Actors : JobAt(b)'
    PROVE  DispatchInv'
<1>1. \A i \in Chains : Holders(i)' = Holders(i)
  BY HoldersKept DEF Holding
<1>2. RefsExact'
  BY <1>1, Threads, RefsKept DEF DispatchInv
<1>3. MainServes'
  BY Threads DEF DispatchInv, MainServes, Tabled
<1>4. ASSUME NEW i \in Chains PROVE ThreadAt(i)'
  <2>1. ThreadAt(i)
    BY DEF DispatchInv
  <2>2. CASE i = a
    BY <1>1, <2>1, <2>2 DEF ThreadAt, Told
  <2>3. CASE i # a
    BY <1>1, <2>1, <2>3, Threads DEF ThreadAt, Told
  <2> QED BY <2>2, <2>3
<1> QED BY <1>2, <1>3, <1>4, JobsFrame

(* z_dispatch_connection takes the lock of the chain... *)
LEMMA LockChainStep == ASSUME DispatchInv, NEW a \in Actors, LockChain(a) PROVE DispatchInv'
<1>1. /\ Types /\ JobAt(a) /\ job[a].at = "lock" /\ job[a] \in JobType
      /\ UNCHANGED <<addr, table, created, chain, lock, gil, pc, of, state, busy, conn>>
  BY DEF DispatchInv, LockChain, Types
<1>2. PICK i \in Chains : i = job[a].chain /\ ~chainLock[i]
  BY <1>1 DEF LockChain, JobAt, JobType
<1>3. chainLock' = [chainLock EXCEPT ![i] = TRUE] /\ job' = [job EXCEPT ![a].at = "walk"]
  BY <1>2 DEF LockChain
<1>4. /\ job' \in [Actors -> JobType] /\ job'[a].at = "walk" /\ job'[a].chain = i /\ job'[a].entry = job[a].entry
      /\ \A b \in Actors : b # a => job'[b] = job[b]
  BY <1>1, <1>2, <1>3 DEF Types, JobType
<1>5. chainLock' \in [Chains -> BOOLEAN] /\ chainLock'[i] /\ \A j \in Chains : j # i => chainLock'[j] = chainLock[j]
  BY <1>1, <1>3 DEF Types
<1>6. Types'
  BY <1>1, <1>4, <1>5 DEF Types
<1>7. \A b \in Actors : job[b].at \in Working => job[b].chain # i
  BY <1>2 DEF DispatchInv, JobAt
<1>8. \A e \in Entries : pc[e] = "destroy" => of[e] # i
  BY <1>2 DEF DispatchInv, ChainLocked
<1>9. \A b \in Actors : job[b].at \in Working => job[b].chain \in Chains
  BY <1>1 DEF DispatchInv, JobAt, Types, JobType, Working
<1>10. \A e \in Entries : pc[e] = "destroy" => of[e] \in Chains
  BY HeldChain DEF Holding, Leaving
<1>11. ChainLocked'
  <2>1. \A e \in Entries : pc'[e] = "destroy" =>
           chainLock'[of'[e]] /\ \A b \in Actors : job'[b].at \in Working => job'[b].chain # of'[e]
    BY <1>1, <1>4, <1>5, <1>8, <1>10 DEF DispatchInv, ChainLocked, Working
  <2>2. \A j \in Chains : chainLock'[j] =>
           \/ \E b \in Actors : job'[b].at \in Working /\ job'[b].chain = j
           \/ \E e \in Entries : pc'[e] = "destroy" /\ of'[e] = j
    <3> SUFFICES ASSUME NEW j \in Chains, chainLock'[j]
                 PROVE \/ \E b \in Actors : job'[b].at \in Working /\ job'[b].chain = j
                       \/ \E e \in Entries : pc'[e] = "destroy" /\ of'[e] = j
      OBVIOUS
    <3>1. CASE j = i
      BY <1>4, <3>1 DEF Working
    <3>2. CASE j # i
      <4>1. \/ \E b \in Actors : job[b].at \in Working /\ job[b].chain = j
            \/ \E e \in Entries : pc[e] = "destroy" /\ of[e] = j
        BY <1>5, <3>2 DEF DispatchInv, ChainLocked
      <4> QED BY <1>1, <1>2, <1>4, <3>2, <4>1
    <3> QED BY <3>1, <3>2
  <2> QED BY <2>1, <2>2 DEF ChainLocked
<1>12. ASSUME NEW b \in Actors PROVE JobAt(b)'
  <2>0. JobAt(b)
    BY DEF DispatchInv
  <2>1. CASE b = a
    BY <1>1, <1>2, <1>4, <1>5, <1>7, <2>1 DEF JobAt, Working, None
  <2>2. CASE b # a
    BY <1>1, <1>2, <1>4, <1>5, <1>7, <1>9, <2>0, <2>2 DEF JobAt, Working
  <2> QED BY <2>1, <2>2
<1> QED BY <1>1, <1>2, <1>4, <1>6, <1>11, <1>12, ActorFrame
(* ... and gives it up when the connection is settled. *)
LEMMA DispatchedStep ==
    ASSUME DispatchInv, NEW a \in Actors, NEW where \in {"destroyed"} \union Entries, job[a].at \in Working,
           Dispatched(a, where), gil' \in BOOLEAN, busy' \in [Related -> BOOLEAN],
           UNCHANGED <<addr, table, created, chain, lock, pc, of, state>>
    PROVE  DispatchInv'
<1>1. Types /\ JobAt(a) /\ job[a] \in JobType
  BY DEF DispatchInv, Types
<1>2. PICK i \in Chains : i = job[a].chain
  BY <1>1 DEF JobAt, JobType, Working
<1>3. chainLock' = [chainLock EXCEPT ![i] = FALSE] /\ job' = [job EXCEPT ![a] = Idle]
  BY <1>2 DEF Dispatched
<1>4. conn' \in [Conns -> {"new", "accepted", "queued", "destroyed"} \union Entries]
  BY <1>1 DEF Dispatched, Types
<1>5. /\ job' \in [Actors -> JobType] /\ job'[a].at = "idle" /\ job'[a].chain = None
      /\ \A b \in Actors : b # a => job'[b] = job[b]
  BY <1>1, <1>3 DEF Types, JobType, Idle
<1>6. chainLock' \in [Chains -> BOOLEAN] /\ ~chainLock'[i] /\ \A j \in Chains : j # i => chainLock'[j] = chainLock[j]
  BY <1>1, <1>3 DEF Types
<1>7. Types'
  BY <1>1, <1>4, <1>5, <1>6 DEF Types
<1>8. \A b \in Actors : b # a /\ job[b].at \in Working => job[b].chain # i
  BY <1>1, <1>2 DEF JobAt
<1>9. \A e \in Entries : pc[e] = "destroy" => of[e] # i /\ of[e] \in Chains
  <2>1. \A e \in Entries : pc[e] = "destroy" => of[e] # i
    BY <1>2 DEF DispatchInv, ChainLocked
  <2> QED BY <2>1, HeldChain DEF Holding, Leaving
<1>10. \A b \in Actors : job[b].at \in Working => job[b].chain \in Chains
  BY <1>1 DEF DispatchInv, JobAt, Types, JobType, Working
<1>11. ChainLocked'
  <2>1. \A e \in Entries : pc'[e] = "destroy" =>
           chainLock'[of'[e]] /\ \A b \in Actors : job'[b].at \in Working => job'[b].chain # of'[e]
    BY <1>1, <1>5, <1>6, <1>9 DEF DispatchInv, ChainLocked, Working
  <2>2. \A j \in Chains : chainLock'[j] =>
           \/ \E b \in Actors : job'[b].at \in Working /\ job'[b].chain = j
           \/ \E e \in Entries : pc'[e] = "destroy" /\ of'[e] = j
    <3> SUFFICES ASSUME NEW j \in Chains, chainLock'[j]
                 PROVE \/ \E b \in Actors : job'[b].at \in Working /\ job'[b].chain = j
                       \/ \E e \in Entries : pc'[e] = "destroy" /\ of'[e] = j
      OBVIOUS
    <3>1. j # i
      BY <1>6
    <3>2. \/ \E b \in Actors : job[b].at \in Working /\ job[b].chain = j
          \/ \E e \in Entries : pc[e] = "destroy" /\ of[e] = j
      BY <1>6, <3>1 DEF DispatchInv, ChainLocked
    <3> QED BY <1>1, <1>2, <1>5, <3>1, <3>2
  <2> QED BY <2>1, <2>2 DEF ChainLocked
<1>12. ASSUME NEW b \in Actors PROVE JobAt(b)'
  <2>0. JobAt(b)
    BY DEF DispatchInv
  <2>1. CASE b = a
    BY <1>5, <2>1 DEF JobAt, Working
  <2>2. CASE b # a
    BY <1>1, <1>5, <1>6, <1>8, <1>10, <2>0, <2>2 DEF JobAt, Working
  <2> QED BY <2>1, <2>2
<1>13. job[a].at \notin {"none", "push"}
  BY DEF Working
<1> QED BY <1>5, <1>7, <1>11, <1>12, <1>13, ActorFrame

(* The policy is called for an entry of the chain. *)
LEMMA CallPolicyStep == ASSUME DispatchInv, NEW a \in Actors, CallPolicy(a) PROVE DispatchInv'
<1>1. /\ Types /\ JobAt(a) /\ job[a].at = "walk" /\ job[a] \in JobType /\ gil' = TRUE
      /\ UNCHANGED <<addr, table, created, chain, chainLock, lock, pc, of, state, busy, conn>>
  BY DEF DispatchInv, CallPolicy, Types
<1>2. PICK i \in Chains : i = job[a].chain
  BY <1>1 DEF JobAt, JobType
<1>3. PICK e \in Listeners : Taker(i, e) /\ job' = [job EXCEPT ![a].at = "call", ![a].entry = e]
  BY <1>2 DEF CallPolicy
<1>4. e \in Entries /\ e \in ToSet(chain[i].elements)
  BY <1>3 DEF Taker, Entries, ToSet
<1>5. /\ job' \in [Actors -> JobType] /\ job'[a].at = "call" /\ job'[a].chain = i /\ job'[a].entry = e
      /\ \A b \in Actors : b # a => job'[b] = job[b]
  BY <1>1, <1>2, <1>3, <1>4 DEF Types, JobType
<1>6. Types'
  BY <1>1, <1>5 DEF Types
<1>7. \A b \in Actors : job'[b].chain = job[b].chain /\ (job'[b].at \in Working <=> job[b].at \in Working)
  BY <1>1, <1>2, <1>5 DEF Working
<1>8. ChainLocked'
  BY <1>1, <1>7 DEF DispatchInv, ChainLocked
<1>9. ASSUME NEW b \in Actors PROVE JobAt(b)'
  <2>0. JobAt(b)
    BY DEF DispatchInv
  <2>1. CASE b = a
    BY <1>1, <1>2, <1>4, <1>5, <1>7, <2>0, <2>1 DEF JobAt, Working
  <2>2. CASE b # a
    BY <1>1, <1>5, <1>7, <2>0, <2>2 DEF JobAt
  <2> QED BY <2>1, <2>2
<1> QED BY <1>1, <1>2, <1>5, <1>6, <1>8, <1>9, ActorFrame

(* z_dispatch_connection. *)
LEMMA DispatchSteps == ASSUME DispatchInv, NEW a \in Actors, DispatchStep(a) PROVE DispatchInv'
<1>1. Types
  BY DEF DispatchInv
<1>2. CASE TakeRelated(a)
  <2>1. PICK e \in Related : busy' = [busy EXCEPT ![e] = TRUE] /\ Dispatched(a, e)
    BY <1>2 DEF TakeRelated
  <2>2. e \in Entries /\ busy' \in [Related -> BOOLEAN] /\ gil' \in BOOLEAN /\ job[a].at \in Working
    BY <1>1, <1>2, <2>1 DEF TakeRelated, Types, Entries, Working
  <2>3. UNCHANGED <<addr, table, created, chain, lock, pc, of, state>>
    BY <1>2 DEF TakeRelated
  <2> QED BY <2>1, <2>2, <2>3, DispatchedStep
<1>3. CASE PolicyReturns(a)
  <2>1. job[a].entry \in Entries
    <3>1. JobAt(a) /\ job[a].at = "call" /\ job[a].chain \in Chains
      BY <1>1, <1>3 DEF DispatchInv, PolicyReturns, JobAt, Types, JobType
    <3>2. chain[job[a].chain].elements \in Seq(Entries)
      BY <1>1, <3>1 DEF Types, ChainType
    <3> QED BY <3>1, <3>2 DEF JobAt, ToSet
  <2>2. busy' \in [Related -> BOOLEAN] /\ gil' \in BOOLEAN /\ job[a].at \in Working
    BY <1>1, <1>3 DEF PolicyReturns, Types, Working
  <2>3. Dispatched(a, job[a].entry) /\ UNCHANGED <<addr, table, created, chain, lock, pc, of, state>>
    BY <1>3 DEF PolicyReturns
  <2> QED BY <2>1, <2>2, <2>3, DispatchedStep
<1>4. CASE Nobody(a)
  <2>1. busy' \in [Related -> BOOLEAN] /\ gil' \in BOOLEAN /\ job[a].at \in Working
    BY <1>1, <1>4 DEF Nobody, Types, Working
  <2>2. Dispatched(a, "destroyed") /\ UNCHANGED <<addr, table, created, chain, lock, pc, of, state>>
    BY <1>4 DEF Nobody
  <2> QED BY <2>1, <2>2, DispatchedStep
<1> QED BY <1>2, <1>3, <1>4, LockChainStep, CallPolicyStep DEF DispatchStep
-----------------------------------------------------------------------------
(* A listener calls back in the main thread. *)
LEMMA AcceptSteps ==
    ASSUME DispatchInv, NEW i \in Chains, NEW c \in Conns, Accept(i, c) \/ AcceptDirect(i, c) \/ AcceptFails(i, c)
    PROVE  DispatchInv'
<1>1. /\ Types /\ job[Main].at = "idle" /\ chain[i].listening /\ chain[i] \in ChainType /\ Tabled(i)
      /\ UNCHANGED <<addr, table, created, chainLock, lock, gil, pc, of, state, busy>>
  BY DEF DispatchInv, Accept, AcceptDirect, AcceptFails, MainFree, Types, TableAt
<1>2. conn' \in [Conns -> {"new", "accepted", "queued", "destroyed"} \union Entries]
  BY <1>1 DEF Accept, AcceptDirect, AcceptFails, Types
<1>3. chain' = chain \/ Set(i, "listening", chain[i].maker \notin AcceptOne)
  BY DEF Accept, AcceptDirect, AcceptFails, Accepted
<1>4. /\ chain' \in [Chains -> ChainType] /\ \A j \in Chains : j # i => chain'[j] = chain[j]
      /\ chain'[i].key = chain[i].key /\ chain'[i].ref = chain[i].ref /\ chain'[i].threaded = chain[i].threaded
      /\ chain'[i].queue = chain[i].queue /\ chain'[i].elements = chain[i].elements
  <2>1. CASE chain' = chain
    BY <1>1, <2>1 DEF Types
  <2>2. CASE Set(i, "listening", chain[i].maker \notin AcceptOne)
    <3>1. (chain[i].maker \notin AcceptOne) \in BOOLEAN
      OBVIOUS
    <3> HIDE DEF Set
    <3> QED BY <1>1, <2>2, <3>1, SetListening DEF Types
  <2> QED BY <1>3, <2>1, <2>2
<1>5. job' = job \/ \E at \in {"push", "lock"}, d \in Conns \union {Null} :
                       /\ job' = [job EXCEPT ![Main] = [Idle EXCEPT !.at = at, !.chain = i, !.conn = d]]
                       /\ at = "push" => chain[i].threaded /\ d \in Conns
  BY DEF Accept, AcceptDirect, AcceptFails, Serve
<1>6. /\ job' \in [Actors -> JobType] /\ \A a \in Actors : a # Main => job'[a] = job[a]
      /\ \/ job'[Main] = job[Main]
         \/ /\ job'[Main].at \in {"push", "lock"} /\ job'[Main].chain = i
            /\ job'[Main].at = "push" => chain[i].threaded /\ job'[Main].conn \in Conns
  <2>1. CASE job' = job
    BY <1>1, <2>1 DEF Types
  <2>2. ASSUME NEW at \in {"push", "lock"}, NEW d \in Conns \union {Null},
               job' = [job EXCEPT ![Main] = [Idle EXCEPT !.at = at, !.chain = i, !.conn = d]],
               at = "push" => chain[i].threaded /\ d \in Conns
        PROVE  /\ job' \in [Actors -> JobType] /\ \A a \in Actors : a # Main => job'[a] = job[a]
               /\ job'[Main].at \in {"push", "lock"} /\ job'[Main].chain = i
               /\ job'[Main].at = "push" => chain[i].threaded /\ job'[Main].conn \in Conns
    BY <1>1, <2>2, Threads DEF Types, JobType, Idle
  <2> QED BY <1>5, <2>1, <2>2
<1>7. Types'
  BY <1>1, <1>2, <1>4, <1>6 DEF Types
<1>8. i <= created /\ created \in Nat
  <2>1. table[chain[i].key] \in 0 .. created /\ created \in Nat
    BY <1>1 DEF Types, Tabled
  <2> QED BY <1>1, <2>1 DEF Tabled, Chains
<1>9. /\ \A j \in Chains : /\ chain'[j].key = chain[j].key /\ chain'[j].threaded = chain[j].threaded
                           /\ chain'[j].elements = chain[j].elements /\ chain'[j].ref = chain[j].ref
                           /\ chain'[j].queue = chain[j].queue
                           /\ chain'[j].listening => chain[j].listening
                           /\ j > created => chain'[j] = chain[j]
  BY <1>1, <1>4, <1>8 DEF Chains
<1>10. \A j \in Chains : Holders(j)' = Holders(j) /\ job'[j] = job[j]
  BY <1>1, <1>6, HoldersKept, Threads DEF Holding
<1>11. RefsExact'
  BY <1>9, <1>10, RefsKept DEF DispatchInv
<1>12. MainServes'
  <2>1. CASE job'[Main] = job[Main]
    <3>1. job'[Main].at # "none" /\ job'[Main].chain = None
      BY <1>1, <2>1, Threads DEF DispatchInv, JobAt
    <3> QED BY <3>1 DEF MainServes
  <2>2. CASE job'[Main].at \in {"push", "lock"} /\ job'[Main].chain = i
    BY <1>1, <1>9, <2>2 DEF MainServes, Tabled
  <2> QED BY <1>6, <2>1, <2>2
<1>13. ASSUME NEW j \in Chains PROVE ThreadAt(j)'
  BY <1>1, <1>9, <1>10 DEF DispatchInv, ThreadAt, Told
<1>14. \A a \in Actors : /\ job'[a].at \in Working <=> job[a].at \in Working
                         /\ job[a].at \in Working => job'[a] = job[a]
  BY <1>1, <1>6 DEF Working
<1>15. ChainLocked'
  BY <1>1, <1>14 DEF DispatchInv, ChainLocked
<1>16. ASSUME NEW a \in Actors PROVE JobAt(a)'
  <2>0. JobAt(a) /\ (job[a].chain = None \/ job[a].chain \in Chains)
    BY <1>1 DEF DispatchInv, Types, JobType
  <2>1. CASE job'[a] = job[a]
    BY <1>1, <1>9, <1>14, <2>0, <2>1 DEF JobAt, Working
  <2>2. CASE job'[a] # job[a]
    <3>1. /\ a = Main /\ job'[a].at \in {"push", "lock"} /\ job'[a].chain = i
          /\ job'[a].at = "push" => chain[i].threaded /\ job'[a].conn \in Conns
      BY <1>6, <2>2
    <3> QED BY <1>9, <3>1, Threads DEF JobAt, Working
  <2> QED BY <2>1, <2>2
<1> QED BY <1>1, <1>7, <1>9, <1>11, <1>12, <1>13, <1>15, <1>16, JobsFrame

(* A queue changes, by a connection that is no exit message. *)
LEMMA QueueStep ==
    ASSUME DispatchInv, NEW i \in Chains, NEW q \in Seq(Conns \union {ExitMagic}), Set(i, "queue", q),
           ExitMagic \in ToSet(q) => ExitMagic \in ToSet(chain[i].queue), chain[i].threaded,
           job' \in [Actors -> JobType], NEW a \in Actors, \A b \in Actors : b # a => job'[b] = job[b],
           job[a].at \in {"idle", "push"}, job'[a].at \in {"idle", "lock"},
           job'[a].at = "lock" => job'[a].chain = i /\ a = i, job'[a].at = "idle" => job'[a].chain = None,
           conn' \in [Conns -> {"new", "accepted", "queued", "destroyed"} \union Entries],
           UNCHANGED <<addr, table, created, chainLock, lock, gil, pc, of, state, busy>>
    PROVE  DispatchInv'
<1>1. Types
  BY DEF DispatchInv
<1>2. /\ chain' \in [Chains -> ChainType] /\ \A j \in Chains : j # i => chain'[j] = chain[j]
      /\ chain'[i].key = chain[i].key /\ chain'[i].ref = chain[i].ref /\ chain'[i].threaded = chain[i].threaded
      /\ chain'[i].queue = q /\ chain'[i].elements = chain[i].elements /\ chain'[i].listening = chain[i].listening
  BY <1>1, SetQueue DEF Types
<1>3. Types'
  BY <1>1, <1>2 DEF Types
<1>4. ~(i > created)
  <2>1. i > created => ~chain[i].threaded
    BY DEF DispatchInv, TableAt, NoChain
  <2> QED BY <2>1
<1>5. /\ \A j \in Chains : /\ chain'[j].key = chain[j].key /\ chain'[j].threaded = chain[j].threaded
                           /\ chain'[j].elements = chain[j].elements /\ chain'[j].ref = chain[j].ref
                           /\ chain'[j].listening => chain[j].listening
                           /\ j > created => chain'[j] = chain[j]
                           /\ ExitMagic \in ToSet(chain'[j].queue) => ExitMagic \in ToSet(chain[j].queue)
                           /\ ~chain[j].threaded => chain'[j].queue = chain[j].queue
  BY <1>2, <1>4
<1>6. \A j \in Chains : Holders(j)' = Holders(j) /\ (job'[j].at = "none" <=> job[j].at = "none")
  BY HoldersKept, Threads DEF Holding
<1>7. RefsExact'
  BY <1>5, <1>6, RefsKept DEF DispatchInv
<1>8. MainServes'
  <2>1. CASE a = Main
    BY <2>1, Threads DEF MainServes
  <2>2. CASE a # Main
    <3>1. job'[Main] = job[Main] /\ MainServes /\ (job[Main].chain = None \/ job[Main].chain \in Chains)
      BY <1>1, <2>2, Threads DEF DispatchInv, Types, JobType
    <3> QED BY <1>5, <3>1 DEF MainServes, Tabled
  <2> QED BY <2>1, <2>2
<1>9. ASSUME NEW j \in Chains PROVE ThreadAt(j)'
  <2>1. job'[j].at # "push" /\ job'[j].chain \in {None, j}
    BY Threads DEF DispatchInv, ThreadAt
  <2>2. (~chain[j].threaded => job'[j].at = "none" /\ chain'[j].queue = <<>>) /\ (Told(j)' => Told(j))
    BY <1>5, <1>6 DEF DispatchInv, ThreadAt, Told
  <2> QED BY <1>5, <1>6, <2>1, <2>2 DEF DispatchInv, ThreadAt
<1>10. \A b \in Actors : /\ job'[b].at \in Working <=> job[b].at \in Working
                         /\ job[b].at \in Working => job'[b] = job[b]
  BY DEF Working
<1>11. ChainLocked'
  BY <1>10 DEF DispatchInv, ChainLocked
<1>12. ASSUME NEW b \in Actors PROVE JobAt(b)'
  <2>0. JobAt(b) /\ (job[b].chain = None \/ job[b].chain \in Chains)
    BY <1>1 DEF DispatchInv, Types, JobType
  <2>1. CASE b # a
    BY <1>5, <1>10, <2>0, <2>1 DEF JobAt, Working
  <2>2. CASE b = a
    BY <2>2, Threads DEF JobAt, Working
  <2> QED BY <2>1, <2>2
<1> QED BY <1>3, <1>5, <1>7, <1>8, <1>9, <1>11, <1>12, JobsFrame

(* The accept queue: the main thread pushes, the thread of the chain pops. *)
LEMMA PushStep == ASSUME DispatchInv, Push PROVE DispatchInv'
<1>1. /\ Types /\ JobAt(Main) /\ job[Main].at = "push" /\ job[Main] \in JobType
      /\ UNCHANGED <<addr, table, created, chainLock, lock, gil, pc, of, state, busy>>
  BY Threads DEF DispatchInv, Push, Types
<1>2. PICK i \in Chains : i = job[Main].chain
  BY <1>1 DEF JobAt, JobType
<1>3. chain[i].threaded /\ job[Main].conn \in Conns /\ chain[i] \in ChainType
  BY <1>1, <1>2 DEF JobAt, Types
<1>4. Set(i, "queue", Append(chain[i].queue, job[Main].conn))
  BY <1>2 DEF Push
<1>5. /\ chain[i].queue \in Seq(Conns \union {ExitMagic}) /\ job[Main].conn # ExitMagic
  BY <1>3, DispatchConstants DEF ChainType
<1>6. /\ Append(chain[i].queue, job[Main].conn) \in Seq(Conns \union {ExitMagic})
      /\ ToSet(Append(chain[i].queue, job[Main].conn)) = ToSet(chain[i].queue) \union {job[Main].conn}
  BY <1>3, <1>5, AppendSet
<1>7. ExitMagic \in ToSet(Append(chain[i].queue, job[Main].conn)) => ExitMagic \in ToSet(chain[i].queue)
  BY <1>5, <1>6
<1>8. conn' \in [Conns -> {"new", "accepted", "queued", "destroyed"} \union Entries]
  BY <1>1, <1>3 DEF Push, Types
<1>9. /\ job' \in [Actors -> JobType] /\ job'[Main].at = "idle" /\ job'[Main].chain = None
      /\ \A b \in Actors : b # Main => job'[b] = job[b]
  BY <1>1, Threads DEF Push, Types, JobType, Idle
<1> QED BY <1>1, <1>3, <1>4, <1>6, <1>7, <1>8, <1>9, Threads, QueueStep

(* z_dispatch_chain_thread takes the next connection. *)
LEMMA PopStep == ASSUME DispatchInv, NEW i \in Chains, Pop(i) PROVE DispatchInv'
<1>1. /\ Types /\ ThreadAt(i) /\ job[i].at = "idle" /\ i \in Actors /\ chain[i] \in ChainType
      /\ chain[i].queue # <<>> /\ Head(chain[i].queue) # ExitMagic
      /\ UNCHANGED <<addr, table, created, chainLock, lock, gil, pc, of, state, busy, conn>>
  BY Threads DEF DispatchInv, Pop, Types
<1>2. chain[i].queue \in Seq(Conns \union {ExitMagic}) /\ chain[i].threaded
  BY <1>1 DEF ChainType, ThreadAt
<1>3. /\ Tail(chain[i].queue) \in Seq(Conns \union {ExitMagic}) /\ Head(chain[i].queue) \in Conns
      /\ ToSet(Tail(chain[i].queue)) \subseteq ToSet(chain[i].queue)
  BY <1>1, <1>2, HeadTailSet
<1>4. Set(i, "queue", Tail(chain[i].queue))
  BY DEF Pop
<1>5. job' = [job EXCEPT ![i] = [Idle EXCEPT !.at = "lock", !.chain = i, !.conn = Head(chain[i].queue)]]
  BY DEF Pop, Serve
<1>6. /\ job' \in [Actors -> JobType] /\ job'[i].at = "lock" /\ job'[i].chain = i
      /\ \A b \in Actors : b # i => job'[b] = job[b]
  <2> DEFINE d == Head(chain[i].queue)
  <2>1. d \in Conns /\ job' = [job EXCEPT ![i] = [Idle EXCEPT !.at = "lock", !.chain = i, !.conn = d]]
    BY <1>3, <1>5
  <2> HIDE DEF d
  <2> QED BY <1>1, <2>1 DEF Types, JobType, Idle
<1>7. conn' \in [Conns -> {"new", "accepted", "queued", "destroyed"} \union Entries]
  BY <1>1 DEF Types
<1>8. ExitMagic \in ToSet(Tail(chain[i].queue)) => ExitMagic \in ToSet(chain[i].queue)
  BY <1>3
<1> QED BY <1>1, <1>2, <1>3, <1>4, <1>6, <1>7, <1>8, QueueStep
(* The thread of a chain ends and drops its reference. *)
LEMMA ExitStep == ASSUME DispatchInv, NEW i \in Chains, Exit(i) PROVE DispatchInv'
<1>1. /\ Types /\ ThreadAt(i) /\ job[i].at = "idle" /\ i \in Actors /\ chain[i] \in ChainType
      /\ chain[i].queue # <<>> /\ Head(chain[i].queue) = ExitMagic
      /\ UNCHANGED <<addr, table, created, chainLock, lock, gil, pc, of, state, busy, conn>>
  BY Threads DEF DispatchInv, Exit, Types
<1>2. chain[i].queue \in Seq(Conns \union {ExitMagic}) /\ chain[i].threaded /\ chain[i].ref \in Int
  BY <1>1 DEF ChainType, ThreadAt
<1>3. /\ Tail(chain[i].queue) \in Seq(Conns \union {ExitMagic}) /\ ExitMagic \in ToSet(chain[i].queue)
  BY <1>1, <1>2, HeadTailSet
<1>4. chain' = [chain EXCEPT ![i].queue = Tail(chain[i].queue), ![i].ref = @ - 1]
  BY DEF Exit
<1>5. /\ chain' \in [Chains -> ChainType] /\ \A j \in Chains : j # i => chain'[j] = chain[j]
      /\ chain'[i].key = chain[i].key /\ chain'[i].ref = chain[i].ref - 1 /\ chain'[i].threaded = chain[i].threaded
      /\ chain'[i].elements = chain[i].elements /\ chain'[i].listening = chain[i].listening
  <2> DEFINE q == Tail(chain[i].queue)
             n == chain[i].ref - 1
             r == chain[i]
  <2>1. q \in Seq(Conns \union {ExitMagic}) /\ n \in Int /\ r \in ChainType
    BY <1>1, <1>2, <1>3
  <2>2. chain' = [chain EXCEPT ![i] = [[chain[i] EXCEPT !.queue = q] EXCEPT !.ref = n]]
    BY <1>1, <1>4 DEF Types, ChainType
  <2> HIDE DEF q, n
  <2>3. [r EXCEPT !.queue = q] \in ChainType
    BY <2>1 DEF ChainType
  <2>4. [[r EXCEPT !.queue = q] EXCEPT !.ref = n] \in ChainType
    BY <2>1, <2>3 DEF ChainType
  <2>5. chain' \in [Chains -> ChainType] /\ chain'[i] = [[r EXCEPT !.queue = q] EXCEPT !.ref = n]
        /\ \A j \in Chains : j # i => chain'[j] = chain[j]
    BY <1>1, <2>2, <2>4 DEF Types
  <2> QED BY <2>1, <2>5 DEF n, ChainType
<1>6. job' = [job EXCEPT ![i] = NoThread]
  BY DEF Exit
<1>7. /\ job' \in [Actors -> JobType] /\ job'[i].at = "none" /\ job'[i].chain = None
      /\ \A b \in Actors : b # i => job'[b] = job[b]
  BY <1>1, <1>6 DEF Types, JobType, NoThread, Idle
<1>8. Types'
  BY <1>1, <1>5, <1>7 DEF Types
<1>9. ~(i > created)
  <2>1. i > created => ~chain[i].threaded
    BY DEF DispatchInv, TableAt, NoChain
  <2> QED BY <1>2, <2>1
<1>10. /\ \A j \in Chains : /\ chain'[j].key = chain[j].key /\ chain'[j].threaded = chain[j].threaded
                            /\ chain'[j].elements = chain[j].elements
                            /\ chain'[j].listening => chain[j].listening
                            /\ j > created => chain'[j] = chain[j]
  BY <1>5, <1>9
<1>11. \A j \in Chains : Holders(j)' = Holders(j)
  BY <1>1, HoldersKept DEF Holding
<1>12. RefsExact'
  <2> SUFFICES ASSUME NEW j \in Chains
               PROVE  chain'[j].ref = Cardinality(Holders(j)') + (IF job'[j].at = "none" THEN 0 ELSE 1)
    BY DEF RefsExact
  <2>1. chain[j].ref = Cardinality(Holders(j)) + (IF job[j].at = "none" THEN 0 ELSE 1)
    BY DEF DispatchInv, RefsExact
  <2>2. Holders(j) \subseteq Entries
    BY DEF Holders
  <2>3. Cardinality(Holders(j)) \in Nat
    BY <2>2, FS_Subset, FS_CardinalityType, DispatchConstants
  <2>4. CASE j = i
    BY <1>1, <1>5, <1>7, <1>11, <2>1, <2>3, <2>4
  <2>5. CASE j # i
    BY <1>5, <1>7, <1>11, <2>1, <2>5, Threads
  <2> QED BY <2>4, <2>5
<1>13. MainServes'
  <2>1. job'[Main] = job[Main] /\ MainServes /\ (job[Main].chain = None \/ job[Main].chain \in Chains)
    BY <1>1, <1>7, Threads DEF DispatchInv, Types, JobType
  <2> QED BY <1>1, <1>10, <2>1 DEF MainServes, Tabled
<1>14. ASSUME NEW j \in Chains PROVE ThreadAt(j)'
  <2>1. ThreadAt(j)
    BY DEF DispatchInv
  <2>2. CASE j = i
    <3>1. \A e \in Holders(i) : pc[e] \in {"cancel", "unref"}
      BY <1>1, <1>3 DEF ThreadAt, Told
    <3> QED BY <1>1, <1>2, <1>5, <1>7, <1>11, <2>2, <3>1 DEF ThreadAt
  <2>3. CASE j # i
    BY <1>1, <1>5, <1>7, <1>11, <2>1, <2>3, Threads DEF ThreadAt, Told
  <2> QED BY <2>2, <2>3
<1>15. \A b \in Actors : /\ job'[b].at \in Working <=> job[b].at \in Working
                         /\ job[b].at \in Working => job'[b] = job[b]
  BY <1>1, <1>7 DEF Working
<1>16. ChainLocked'
  BY <1>1, <1>15 DEF DispatchInv, ChainLocked
<1>17. ASSUME NEW b \in Actors PROVE JobAt(b)'
  <2>0. JobAt(b) /\ (job[b].chain = None \/ job[b].chain \in Chains)
    BY <1>1 DEF DispatchInv, Types, JobType
  <2>1. CASE b # i
    BY <1>1, <1>7, <1>10, <1>15, <2>0, <2>1 DEF JobAt, Working
  <2>2. CASE b = i
    BY <1>7, <2>2, Threads DEF JobAt, Working
  <2> QED BY <2>1, <2>2
<1> QED BY <1>1, <1>8, <1>10, <1>12, <1>13, <1>14, <1>16, <1>17, JobsFrame

-----------------------------------------------------------------------------
(* The holders of a chain are finitely many entries. *)
LEMMA FiniteHolders ==
    ASSUME NEW i \in Chains
    PROVE  Holders(i) \subseteq Entries /\ IsFiniteSet(Holders(i)) /\ Cardinality(Holders(i)) \in Nat
<1>1. Holders(i) \subseteq Entries
  BY DEF Holders
<1> QED BY <1>1, FS_Subset, FS_CardinalityType, DispatchConstants

(* Who has dispatch_lock has it alone. *)
LEMMA OthersOut ==
    ASSUME DispatchInv, NEW e \in Entries, pc[e] \in Locking
    PROVE  lock /\ \A f \in Entries : f # e => pc[f] \notin Locking
  BY DEF DispatchInv, TableLocked

(* A call goes on without touching a chain. *)
LEMMA PlainCall ==
    ASSUME DispatchInv, Types', TableLocked', NEW e \in Entries, CallAt(e)',
           UNCHANGED <<addr, table, created, chain, chainLock, of, job>>,
           \A f \in Entries : f # e => pc'[f] = pc[f] /\ state'[f] = state[f],
           pc[e] \notin {"insert"} \union Leaving, pc'[e] \notin {"insert"} \union Leaving,
           state'[e] = "in" <=> state[e] = "in"
    PROVE  DispatchInv'
<1>1. \A i \in Chains : Holders(i)' = Holders(i)
  BY HoldersKept DEF Holding
<1>2. ASSUME NEW f \in Entries PROVE CallAt(f)'
  <2>1. CASE f = e
    BY <2>1
  <2>2. CASE f # e
    <3>1. CallAt(f)
      BY DEF DispatchInv
    <3>2. pc[f] \in {"exit", "cancel"} => of[f] \in Chains
      BY HeldChain DEF Holding, Leaving
    <3>3. pc[f] \in {"exit", "cancel"} => Holders(of[f])' = {f}
      <4> SUFFICES ASSUME pc[f] \in {"exit", "cancel"} PROVE Holders(of[f])' = {f}
        OBVIOUS
      <4>1. Holders(of[f])' = Holders(of[f])
        BY <3>2, HoldersKept DEF Holders, Holding, Leaving
      <4> QED BY <3>1, <4>1 DEF CallAt
    <3> QED BY <2>2, <3>1, <3>3 DEF CallAt, Holding
  <2> QED BY <2>1, <2>2
<1>3. RefsExact'
  BY <1>1, RefsKept DEF DispatchInv
<1>4. MainServes'
  BY DEF DispatchInv, MainServes, Tabled
<1>5. ASSUME NEW i \in Chains PROVE ListAt(i)'
  <2>1. \A f \in Entries : state'[f] = "in" <=> state[f] = "in"
    OBVIOUS
  <2> QED BY <2>1 DEF DispatchInv, ListAt
<1>6. ASSUME NEW i \in Chains PROVE TableAt(i)'
  <2>1. TableAt(i)
    BY DEF DispatchInv
  <2>2. \A f \in Entries : pc'[f] = "unref" <=> pc[f] = "unref"
    BY DEF Leaving
  <2>3. Holders(i) \subseteq Entries
    BY FiniteHolders
  <2> QED BY <1>1, <2>1, <2>2, <2>3 DEF TableAt, Tabled
<1>7. ASSUME NEW i \in Chains PROVE ThreadAt(i)'
  <2>1. ThreadAt(i) /\ Holders(i) \subseteq Entries
    BY FiniteHolders DEF DispatchInv
  <2>2. \A f \in Entries : pc'[f] \in {"cancel", "unref"} <=> pc[f] \in {"cancel", "unref"}
    BY DEF Leaving
  <2> QED BY <1>1, <2>1, <2>2 DEF ThreadAt, Told
<1>8. ASSUME NEW a \in Actors PROVE JobAt(a)'
  BY DEF DispatchInv, JobAt
<1>9. ChainLocked'
  <2>1. \A f \in Entries : pc'[f] = "destroy" <=> pc[f] = "destroy"
    BY DEF Leaving
  <2> QED BY <2>1 DEF DispatchInv, ChainLocked
<1> QED BY <1>2, <1>3, <1>4, <1>5, <1>6, <1>7, <1>8, <1>9 DEF DispatchInv

(* Calls begin, take and give up dispatch_lock, and return. *)
LEMMA PlainCalls ==
    ASSUME DispatchInv, NEW e \in Entries,
           \/ Register(e) \/ LockTable(e) \/ RefuseSecond(e) \/ UnlockTable(e) \/ Return(e) \/ Unregister(e)
    PROVE  DispatchInv'
<1>1. /\ Types /\ CallAt(e) /\ TableLocked /\ UNCHANGED <<addr, table, created, chain, chainLock, gil, of, busy, job, conn>>
  BY DEF DispatchInv, Register, LockTable, RefuseSecond, UnlockTable, Return, Unregister
<1>2. PICK at \in {"register", "lookup", "remove", "unlock", "return", "idle", "unregister"} :
         /\ pc' = [pc EXCEPT ![e] = at]
         /\ at = "register" => pc[e] = "idle" /\ state[e] = "new" /\ lock' = lock /\ state' = state
         /\ at = "unregister" => pc[e] = "idle" /\ state[e] = "in" /\ lock' = lock /\ state' = state
         /\ at = "lookup" => pc[e] = "register" /\ ~lock /\ lock' = TRUE /\ state' = state
         /\ at = "remove" => pc[e] = "unregister" /\ ~lock /\ lock' = TRUE /\ state' = state
         /\ at = "unlock" => pc[e] = "lookup" /\ lock' = lock /\ state' = [state EXCEPT ![e] = "failed"]
         /\ at = "return" => pc[e] = "unlock" /\ lock' = FALSE /\ state' = state
         /\ at = "idle" => pc[e] = "return" /\ lock' = lock /\ state' = state
  BY DEF Register, LockTable, RefuseSecond, UnlockTable, Return, Unregister, Goto
<1>3. /\ pc'[e] = at /\ \A f \in Entries : f # e => pc'[f] = pc[f] /\ state'[f] = state[f]
      /\ at = "unlock" => state'[e] = "failed"
      /\ at # "unlock" => state'[e] = state[e]
  BY <1>1, <1>2 DEF Types
<1>4. Types'
  BY <1>1, <1>2 DEF Types
<1>5. CallAt(e)'
  BY <1>1, <1>2, <1>3 DEF CallAt, Holding, Leaving
<1>6. TableLocked'
  BY <1>1, <1>2, <1>3 DEF TableLocked, Locking
<1>7. pc[e] \notin {"insert"} \union Leaving /\ at \notin {"insert"} \union Leaving
  BY <1>2 DEF Leaving
<1>8. state'[e] = "in" <=> state[e] = "in"
  BY <1>1, <1>2, <1>3 DEF CallAt
<1> QED BY <1>1, <1>3, <1>4, <1>5, <1>6, <1>7, <1>8, PlainCall
-----------------------------------------------------------------------------
(* The calls of the other entries stay where they are. *)
OthersStay(e) == \A f \in Entries : f # e => pc'[f] = pc[f] /\ state'[f] = state[f] /\ of'[f] = of[f]

(* A chain that the call of entry e does not concern. *)
LEMMA OtherChain ==
    ASSUME DispatchInv, NEW e \in Entries, OthersStay(e), NEW j \in Chains,
           Holding(e) => of[e] # j, Holding(e)' => of'[e] # j,
           chain'[j] = chain[j], job'[j] = job[j], \A k \in Keys : table'[k] = j <=> table[k] = j,
           chain[j] \in ChainType, created' >= created, created \in Nat, created' \in Nat
    PROVE  /\ ListAt(j)' /\ TableAt(j)' /\ ThreadAt(j)'
           /\ chain'[j].ref = Cardinality(Holders(j)') + (IF job'[j].at = "none" THEN 0 ELSE 1)
<1>0. ListAt(j) /\ TableAt(j) /\ ThreadAt(j)
  BY DEF DispatchInv
<1>1. Holders(j)' = Holders(j) /\ e \notin Holders(j)
  BY DEF Holders, Holding, OthersStay, Leaving
<1>2. \A f \in Holders(j) : pc'[f] = pc[f]
  BY <1>1 DEF Holders, OthersStay
<1>3. ListAt(j)'
  <2>1. \A f \in Entries : of'[f] = j /\ state'[f] = "in" <=> of[f] = j /\ state[f] = "in"
    BY DEF Holding, OthersStay
  <2> QED BY <1>0, <2>1 DEF ListAt
<1>4. TableAt(j)'
  <2>1. Tabled(j)' <=> Tabled(j)
    BY DEF Tabled
  <2>2. j > created' => j > created
    BY DEF Chains
  <2> QED BY <1>0, <1>1, <1>2, <2>1, <2>2 DEF TableAt
<1>5. ThreadAt(j)'
  BY <1>0, <1>1, <1>2 DEF ThreadAt, Told
<1>6. chain[j].ref = Cardinality(Holders(j)) + (IF job[j].at = "none" THEN 0 ELSE 1)
  BY DEF DispatchInv, RefsExact
<1> QED BY <1>1, <1>3, <1>4, <1>5, <1>6

(* A call goes on under dispatch_lock and concerns chain i alone. *)
LEMMA LockedCall ==
    ASSUME DispatchInv, Types', NEW e \in Entries, OthersStay(e), NEW i \in Chains,
           pc[e] \in Locking, pc'[e] \in Locking, lock' = lock, created' >= created,
           Holding(e) => of[e] = i, Holding(e)' => of'[e] = i,
           \A j \in Chains : j # i => /\ chain'[j] = chain[j] /\ job'[j] = job[j]
                                      /\ \A k \in Keys : table'[k] = j <=> table[k] = j,
           CallAt(e)', ChainLocked', MainServes', \A a \in Actors : JobAt(a)',
           chain'[i].ref = Cardinality(Holders(i)') + (IF job'[i].at = "none" THEN 0 ELSE 1),
           ListAt(i)', TableAt(i)', ThreadAt(i)'
    PROVE  DispatchInv'
<1>1. created \in Nat /\ created' \in Nat /\ chain \in [Chains -> ChainType]
  BY DispatchConstants DEF DispatchInv, Types
<1>2. lock /\ \A f \in Entries : f # e => pc[f] \notin Locking
  BY OthersOut
<1>3. TableLocked'
  BY <1>2 DEF TableLocked, OthersStay
<1>4. ASSUME NEW j \in Chains
      PROVE  /\ ListAt(j)' /\ TableAt(j)' /\ ThreadAt(j)'
             /\ chain'[j].ref = Cardinality(Holders(j)') + (IF job'[j].at = "none" THEN 0 ELSE 1)
  <2>1. CASE j = i
    BY <2>1
  <2>2. CASE j # i
    BY <1>1, <2>2, OtherChain
  <2> QED BY <2>1, <2>2
<1>5. ASSUME NEW f \in Entries PROVE CallAt(f)'
  <2>1. CASE f = e
    BY <2>1
  <2>2. CASE f # e
    <3>1. CallAt(f) /\ pc'[f] = pc[f] /\ state'[f] = state[f] /\ of'[f] = of[f] /\ pc[f] \notin Locking
      BY <1>2, <2>2 DEF DispatchInv, OthersStay
    <3>2. Holding(f)' => of'[f] \in 1 .. created'
      BY <1>1, <3>1 DEF CallAt, Holding
    <3>3. pc'[f] \notin {"exit", "cancel"} \union Leaving
      BY <3>1 DEF Locking, Leaving
    <3> QED BY <3>1, <3>2, <3>3 DEF CallAt
  <2> QED BY <2>1, <2>2
<1>6. RefsExact'
  BY <1>4 DEF RefsExact
<1> QED BY <1>3, <1>4, <1>5, <1>6 DEF DispatchInv

(* Connections under way do not notice. *)
LEMMA JobsKept ==
    ASSUME DispatchInv, job' = job,
           \A j \in Chains : /\ chain'[j].threaded = chain[j].threaded
                             /\ (\E a \in Actors : job[a].at \in Working /\ job[a].chain = j) =>
                                   chainLock'[j] /\ ToSet(chain[j].elements) \subseteq ToSet(chain'[j].elements)
    PROVE  \A a \in Actors : JobAt(a)'
<1> SUFFICES ASSUME NEW a \in Actors PROVE JobAt(a)'
  OBVIOUS
<1>1. JobAt(a) /\ job[a].chain \in Chains \union {None}
  BY DEF DispatchInv, Types, JobType
<1>2. job[a].at \in {"push"} \union Working => job[a].chain \in Chains
  BY <1>1 DEF JobAt, Working
<1> QED BY <1>1, <1>2 DEF JobAt, Working
(* z_dispatch_register joins the chain of its address. *)
LEMMA JoinChainStep == ASSUME DispatchInv, NEW e \in Entries, JoinChain(e) PROVE DispatchInv'
<1>1. /\ Types /\ CallAt(e) /\ pc[e] = "lookup" /\ state[e] = "new" /\ Found(e) # None
      /\ UNCHANGED <<addr, table, created, chainLock, lock, gil, state, busy, job, conn>>
  BY DEF DispatchInv, JoinChain, CallAt
<1>2. PICK k \in Keys : k = addr[e] /\ table[k] # None /\ Found(e) = table[k]
  BY <1>1, DispatchConstants DEF Found, Types
<1>3. PICK i \in Chains : i = table[k] /\ i <= created
  BY <1>1, <1>2, DispatchConstants DEF Types, Chains, None
<1>4. /\ Set(i, "ref", chain[i].ref + 1) /\ of' = [of EXCEPT ![e] = i] /\ pc' = [pc EXCEPT ![e] = "insert"]
  BY <1>2, <1>3 DEF JoinChain, Goto
<1>5. chain[i].ref + 1 \in Int /\ created \in 0 .. MaxChains /\ created \in Nat
  BY <1>1 DEF Types, ChainType
<1>6. /\ chain' \in [Chains -> ChainType] /\ chain'[i].ref = chain[i].ref + 1
      /\ chain'[i].key = chain[i].key /\ chain'[i].maker = chain[i].maker /\ chain'[i].threaded = chain[i].threaded
      /\ chain'[i].queue = chain[i].queue /\ chain'[i].elements = chain[i].elements /\ chain'[i].listening = chain[i].listening
      /\ \A j \in Chains : j # i => chain'[j] = chain[j]
  BY <1>1, <1>4, <1>5, SetRef DEF Types
<1>7. pc'[e] = "insert" /\ of'[e] = i /\ OthersStay(e)
  BY <1>1, <1>4 DEF Types, OthersStay
<1>8. Types'
  <2>1. of' \in [Entries -> 0 .. created] /\ pc' \in [Entries -> {"idle", "register", "lookup", "insert", "unlock",
                 "return", "unregister", "remove", "destroy", "exit", "cancel", "unref"}]
    BY <1>1, <1>3, <1>4, <1>5 DEF Types, Chains
  <2> QED BY <1>1, <1>6, <2>1 DEF Types
<1>9. ~Holding(e) /\ Holding(e)'
  BY <1>1, <1>7 DEF Holding, Leaving
<1>10. Holders(i)' = Holders(i) \union {e} /\ e \notin Holders(i)
  BY <1>7, <1>9 DEF Holders, Holding, Leaving, OthersStay
<1>11. \A f \in Holders(i) : f # e /\ pc'[f] = pc[f]
  BY <1>10, <1>7 DEF Holders, OthersStay
<1>12. /\ TableAt(i) /\ ThreadAt(i) /\ ListAt(i)
       /\ chain[i].ref = Cardinality(Holders(i)) + (IF job[i].at = "none" THEN 0 ELSE 1)
  BY DEF DispatchInv, RefsExact
<1>13. PICK g \in Holders(i) : pc[g] # "unref"
  BY <1>3, <1>12 DEF TableAt
<1>14. pc[g] # "cancel"
  BY <1>1, <1>11, <1>13, OthersOut DEF Locking, Holders
<1>15. chain'[i].ref = Cardinality(Holders(i)') + (IF job'[i].at = "none" THEN 0 ELSE 1)
  <2>1. Cardinality(Holders(i) \union {e}) = Cardinality(Holders(i)) + 1
    BY <1>10, FiniteHolders, FS_AddElement
  <2> QED BY <1>1, <1>6, <1>10, <1>12, <2>1, FiniteHolders
<1>16. ThreadAt(i)'
  <2>1. ~Told(i)
    BY <1>12, <1>13, <1>14 DEF ThreadAt
  <2>2. Told(i)' <=> Told(i)
    BY <1>1, <1>6 DEF Told
  <2> QED BY <1>1, <1>6, <1>12, <2>1, <2>2 DEF ThreadAt
<1>17. TableAt(i)'
  <2>1. Tabled(i) /\ (Tabled(i)' <=> Tabled(i))
    BY <1>1, <1>6, <1>12, <1>13 DEF TableAt, Tabled
  <2>2. ~(i > created)
    BY <1>3, <1>5 DEF Chains
  <2>3. g \in Holders(i)' /\ pc'[g] # "unref"
    BY <1>10, <1>11, <1>13
  <2>4. \A l \in Keys : table'[l] = i => chain'[i].key = l
    BY <1>1, <1>6, <1>12 DEF TableAt
  <2> QED BY <1>1, <2>1, <2>2, <2>3, <2>4 DEF TableAt
<1>18. ListAt(i)'
  <2>1. \A f \in Entries : of'[f] = i /\ state'[f] = "in" <=> of[f] = i /\ state[f] = "in"
    BY <1>1, <1>7 DEF OthersStay
  <2> QED BY <1>6, <1>12, <2>1 DEF ListAt
<1>19. CallAt(e)'
  BY <1>1, <1>3, <1>5, <1>7 DEF CallAt, Leaving, Chains
<1>20. ChainLocked'
  <2>1. \A f \in Entries : pc'[f] = "destroy" \/ pc[f] = "destroy" => f # e /\ pc'[f] = pc[f] /\ of'[f] = of[f]
    BY <1>1, <1>7 DEF OthersStay
  <2> QED BY <1>1, <2>1 DEF DispatchInv, ChainLocked
<1>21. MainServes'
  <2>1. \A j \in Chains : Tabled(j)' <=> Tabled(j)
    BY <1>1, <1>6 DEF Tabled
  <2>2. MainServes /\ job[Main].chain \in Chains \union {None}
    BY <1>1, Threads DEF DispatchInv, Types, JobType
  <2> QED BY <1>1, <2>1, <2>2 DEF MainServes
<1>22. \A a \in Actors : JobAt(a)'
  <2>1. \A j \in Chains : chain'[j].threaded = chain[j].threaded /\ chain'[j].elements = chain[j].elements
    BY <1>6
  <2>2. \A a \in Actors : job[a].at \in Working => chainLock[job[a].chain]
    BY DEF DispatchInv, JobAt
  <2> QED BY <1>1, <2>1, <2>2, JobsKept
<1>23. pc[e] \in Locking /\ pc'[e] \in Locking /\ created' >= created /\ lock' = lock
  BY <1>1, <1>5, <1>7 DEF Locking
<1>24. \A j \in Chains : j # i => /\ chain'[j] = chain[j] /\ job'[j] = job[j]
                                  /\ \A l \in Keys : table'[l] = j <=> table[l] = j
  BY <1>1, <1>6
<1> QED BY <1>7, <1>8, <1>9, <1>15, <1>16, <1>17, <1>18, <1>19, <1>20, <1>21, <1>22, <1>23, <1>24, LockedCall
(* A call goes on with the chain of its entry, which keeps its address. *)
LEMMA OwnChain ==
    ASSUME DispatchInv, Types', NEW e \in Entries, NEW i \in Chains, Holding(e), of[e] = i, OthersStay(e),
           pc[e] \in Locking, pc'[e] \in Locking, UNCHANGED <<table, created, lock, of, job>>,
           chain'[i].key = chain[i].key, chain'[i].threaded = chain[i].threaded,
           chain'[i].listening = chain[i].listening, ~chain[i].threaded => chain'[i].queue = chain[i].queue,
           \A j \in Chains : j # i => chain'[j] = chain[j],
           CallAt(e)', ChainLocked', ListAt(i)',
           \A j \in Chains : (\E a \in Actors : job[a].at \in Working /\ job[a].chain = j) =>
                                chainLock'[j] /\ ToSet(chain[j].elements) \subseteq ToSet(chain'[j].elements),
           chain'[i].ref = Cardinality(Holders(i)') + (IF job[i].at = "none" THEN 0 ELSE 1),
           (\E f \in Holders(i)' : pc'[f] # "unref") <=> (\E f \in Holders(i) : pc[f] # "unref"),
           Told(i)' => \A f \in Holders(i)' : pc'[f] \in {"cancel", "unref"}
    PROVE  DispatchInv'
<1>1. /\ TableAt(i) /\ ThreadAt(i) /\ Types
  BY DEF DispatchInv
<1>2. ThreadAt(i)'
  BY <1>1 DEF ThreadAt
<1>3. i <= created /\ created \in Nat
  BY HeldChain
<1>4. TableAt(i)'
  <2>1. Tabled(i)' <=> Tabled(i)
    BY DEF Tabled
  <2>2. ~(i > created)
    BY <1>3 DEF Chains
  <2> QED BY <1>1, <2>1, <2>2 DEF TableAt
<1>5. \A a \in Actors : JobAt(a)'
  <2>1. \A j \in Chains : chain'[j].threaded = chain[j].threaded
    OBVIOUS
  <2> QED BY <2>1, JobsKept
<1>6. MainServes'
  <2>1. \A j \in Chains : Tabled(j)' <=> Tabled(j)
    BY DEF Tabled
  <2>2. MainServes /\ job[Main].chain \in Chains \union {None}
    BY <1>1, Threads DEF DispatchInv, Types, JobType
  <2> QED BY <2>1, <2>2 DEF MainServes
<1>7. created' >= created
  BY <1>3
<1> QED BY <1>2, <1>4, <1>5, <1>6, <1>7, LockedCall

(* What a call that holds its chain knows of it. *)
LEMMA Holds ==
    ASSUME DispatchInv, NEW e \in Entries, Holding(e)
    PROVE  \E i \in Chains :
              /\ i = of[e] /\ i \in 1 .. created /\ e \in Holders(i) /\ chain[i] \in ChainType
              /\ ListAt(i) /\ TableAt(i) /\ ThreadAt(i)
              /\ chain[i].ref = Cardinality(Holders(i)) + (IF job[i].at = "none" THEN 0 ELSE 1)
<1>1. of[e] \in Chains /\ of[e] <= created /\ created \in Nat /\ e \in Holders(of[e])
  BY HeldChain
<1>2. PICK i \in Chains : i = of[e]
  BY <1>1
<1>3. i \in 1 .. created /\ e \in Holders(i)
  BY <1>1, <1>2 DEF Chains
<1>4. /\ chain[i] \in ChainType /\ ListAt(i) /\ TableAt(i) /\ ThreadAt(i)
      /\ chain[i].ref = Cardinality(Holders(i)) + (IF job[i].at = "none" THEN 0 ELSE 1)
  BY DEF DispatchInv, RefsExact, Types
<1> QED BY <1>2, <1>3, <1>4

(* z_dispatch_register puts its entry where its priority belongs. *)
LEMMA InsertStep == ASSUME DispatchInv, NEW e \in Entries, Insert(e) PROVE DispatchInv'
<1>1. /\ Types /\ CallAt(e) /\ pc[e] = "insert" /\ state[e] = "new" /\ Holding(e)
      /\ UNCHANGED <<addr, table, created, chainLock, lock, gil, of, busy, job, conn>>
  BY DEF DispatchInv, Insert, CallAt, Holding
<1>2. PICK i \in Chains :
         /\ i = of[e] /\ i \in 1 .. created /\ e \in Holders(i) /\ chain[i] \in ChainType
         /\ ListAt(i) /\ TableAt(i) /\ ThreadAt(i)
         /\ chain[i].ref = Cardinality(Holders(i)) + (IF job[i].at = "none" THEN 0 ELSE 1)
  BY <1>1, Holds
<1> DEFINE s == chain[i].elements
<1>3. s \in Seq(Entries) /\ ~chainLock[i]
  BY <1>2 DEF ChainType, Insert
<1>4. PICK n \in 1 .. Len(s) + 1 :
         /\ \A m \in 1 .. n - 1 : Prio[s[m]] < Prio[e]
         /\ n <= Len(s) => Prio[s[n]] >= Prio[e]
         /\ Set(i, "elements", InsertAt(s, n, e))
  BY <1>2 DEF Insert
<1>5. PICK r : r = InsertAt(s, n, e)
  OBVIOUS
<1>6. /\ NoDup(s) /\ \A f \in Entries : f \in ToSet(s) <=> of[f] = i /\ state[f] = "in"
      /\ \A m, l \in 1 .. Len(s) : m <= l => Prio[s[m]] <= Prio[s[l]]
  BY <1>2 DEF ListAt
<1>7. e \notin ToSet(s)
  BY <1>1, <1>6
<1>8. /\ r \in Seq(Entries) /\ Len(r) = Len(s) + 1
      /\ \A m \in 1 .. Len(s) + 1 : \/ m < n /\ m \in 1 .. Len(s) /\ r[m] = s[m]
                                    \/ m = n /\ r[m] = e
                                    \/ m > n /\ m - 1 \in 1 .. Len(s) /\ r[m] = s[m - 1]
      /\ ToSet(r) = ToSet(s) \union {e} /\ NoDup(r)
  <2> HIDE DEF s
  <2>1. /\ InsertAt(s, n, e) \in Seq(Entries) /\ Len(InsertAt(s, n, e)) = Len(s) + 1
        /\ \A m \in 1 .. Len(s) + 1 : \/ m < n /\ m \in 1 .. Len(s) /\ InsertAt(s, n, e)[m] = s[m]
                                      \/ m = n /\ InsertAt(s, n, e)[m] = e
                                      \/ m > n /\ m - 1 \in 1 .. Len(s) /\ InsertAt(s, n, e)[m] = s[m - 1]
        /\ ToSet(InsertAt(s, n, e)) = ToSet(s) \union {e}
        /\ NoDup(s) /\ e \notin ToSet(s) => NoDup(InsertAt(s, n, e))
    BY <1>3, InsertAtSet
  <2> QED BY <1>5, <1>6, <1>7, <2>1
<1>9. /\ chain' \in [Chains -> ChainType] /\ chain'[i].elements = r
      /\ chain'[i].key = chain[i].key /\ chain'[i].maker = chain[i].maker /\ chain'[i].ref = chain[i].ref
      /\ chain'[i].threaded = chain[i].threaded /\ chain'[i].queue = chain[i].queue /\ chain'[i].listening = chain[i].listening
      /\ \A j \in Chains : j # i => chain'[j] = chain[j]
  BY <1>1, <1>4, <1>5, <1>8, SetElements DEF Types
<1>10. /\ pc' = [pc EXCEPT ![e] = "unlock"] /\ state' = [state EXCEPT ![e] = "in"]
  BY DEF Insert, Goto
<1>11. pc'[e] = "unlock" /\ state'[e] = "in" /\ of'[e] = i /\ OthersStay(e)
  BY <1>1, <1>2, <1>10 DEF Types, OthersStay
<1>12. Types'
  BY <1>1, <1>9, <1>10 DEF Types
<1>13. Holders(i)' = Holders(i)
  BY <1>1, <1>2, <1>11 DEF Holders, OthersStay
<1>14. ListAt(i)'
  <2>1. \A f \in Entries : f \in ToSet(r) <=> of'[f] = i /\ state'[f] = "in"
    BY <1>6, <1>8, <1>11 DEF OthersStay
  <2>2. ASSUME NEW m \in 1 .. Len(r), NEW l \in 1 .. Len(r), m <= l PROVE Prio[r[m]] <= Prio[r[l]]
    <3>1. /\ \A f \in Entries : Prio[f] \in Int
          /\ Len(s) \in Nat /\ \A x \in 1 .. Len(s) : s[x] \in Entries
      BY <1>3, DispatchConstants
    <3>2. \A x \in 1 .. Len(s) : x >= n => Prio[e] <= Prio[s[x]]
      <4> SUFFICES ASSUME NEW x \in 1 .. Len(s), x >= n PROVE Prio[e] <= Prio[s[x]]
        OBVIOUS
      <4>1. n \in 1 .. Len(s) /\ n <= x
        BY <3>1
      <4>2. Prio[s[n]] >= Prio[e] /\ Prio[s[n]] <= Prio[s[x]]
        BY <1>4, <1>6, <4>1
      <4> QED BY <3>1, <4>1, <4>2, SMTT(60)
    <3>3. \A x \in 1 .. Len(s) : x < n => Prio[s[x]] <= Prio[e]
      BY <1>4, <3>1, SMTT(60)
    <3>4. m \in 1 .. Len(s) + 1 /\ l \in 1 .. Len(s) + 1
      BY <1>8, <2>2
    <3>5. CASE m < n
      <4>1. m \in 1 .. Len(s) /\ r[m] = s[m]
        BY <1>8, <3>1, <3>4, <3>5
      <4>2. CASE l < n
        BY <1>6, <1>8, <2>2, <3>1, <3>4, <4>1, <4>2, SMTT(60)
      <4>3. CASE l = n
        BY <1>8, <3>1, <3>3, <3>4, <3>5, <4>1, <4>3
      <4>4. CASE l > n
        <5>1. l - 1 \in 1 .. Len(s) /\ r[l] = s[l - 1]
          BY <1>8, <3>4, <4>4
        <5>2. m <= l - 1
          BY <3>4, <3>5, <4>4
        <5> QED BY <1>6, <4>1, <5>1, <5>2
      <4> QED BY <3>4, <4>2, <4>3, <4>4
    <3>6. CASE m = n
      <4>1. r[m] = e
        BY <1>8, <3>1, <3>4, <3>6
      <4>2. CASE l = n
        BY <1>8, <3>1, <3>4, <3>6, <4>1, <4>2
      <4>3. CASE l > n
        <5>1. l - 1 \in 1 .. Len(s) /\ r[l] = s[l - 1]
          BY <1>8, <3>4, <4>3
        <5>2. l - 1 >= n
          BY <3>4, <4>3
        <5> QED BY <3>2, <4>1, <5>1, <5>2
      <4> QED BY <2>2, <3>4, <3>6, <4>2, <4>3
    <3>7. CASE m > n
      <4>1. m - 1 \in 1 .. Len(s) /\ r[m] = s[m - 1] /\ l > n
        BY <1>8, <2>2, <3>1, <3>4, <3>7
      <4>2. l - 1 \in 1 .. Len(s) /\ r[l] = s[l - 1] /\ m - 1 <= l - 1
        BY <1>8, <2>2, <3>1, <3>4, <4>1
      <4> QED BY <1>6, <4>1, <4>2
    <3> QED BY <3>4, <3>5, <3>6, <3>7
  <2> QED BY <1>8, <1>9, <2>1, <2>2 DEF ListAt
<1>15. CallAt(e)'
  BY <1>1, <1>2, <1>11 DEF CallAt, Leaving
<1>16. ChainLocked'
  <2>1. \A f \in Entries : pc'[f] = "destroy" <=> pc[f] = "destroy"
    BY <1>1, <1>11 DEF OthersStay
  <2> QED BY <1>1, <2>1 DEF DispatchInv, ChainLocked
<1>17. \A j \in Chains : (\E a \in Actors : job[a].at \in Working /\ job[a].chain = j) =>
                            chainLock'[j] /\ ToSet(chain[j].elements) \subseteq ToSet(chain'[j].elements)
  <2>1. \A j \in Chains : ToSet(chain[j].elements) \subseteq ToSet(chain'[j].elements)
    BY <1>8, <1>9
  <2> QED BY <1>1, <2>1 DEF DispatchInv, JobAt
<1>18. (\E f \in Holders(i)' : pc'[f] # "unref") <=> (\E f \in Holders(i) : pc[f] # "unref")
  BY <1>1, <1>2, <1>11, <1>13
<1>19. ~Told(i) /\ ~Told(i)'
  <2>1. ~Told(i)
    BY <1>1, <1>2 DEF ThreadAt
  <2> QED BY <1>1, <1>9, <2>1 DEF Told
<1>20. pc[e] \in Locking /\ pc'[e] \in Locking
  BY <1>1, <1>11 DEF Locking
<1>21. chain'[i].ref = Cardinality(Holders(i)') + (IF job[i].at = "none" THEN 0 ELSE 1)
  BY <1>2, <1>9, <1>13
<1> QED BY <1>1, <1>2, <1>9, <1>11, <1>12, <1>14, <1>15, <1>16, <1>17, <1>18, <1>19, <1>20, <1>21, OwnChain
(* z_dispatch_unregister takes its entry out of the chain. *)
LEMMA RemoveEntryStep == ASSUME DispatchInv, NEW e \in Entries, RemoveEntry(e) PROVE DispatchInv'
<1>1. /\ Types /\ CallAt(e) /\ pc[e] = "remove" /\ state[e] = "in" /\ Holding(e)
      /\ UNCHANGED <<addr, table, created, lock, gil, of, busy, job, conn>>
  BY DEF DispatchInv, RemoveEntry, CallAt, Holding
<1>2. PICK i \in Chains :
         /\ i = of[e] /\ i \in 1 .. created /\ e \in Holders(i) /\ chain[i] \in ChainType
         /\ ListAt(i) /\ TableAt(i) /\ ThreadAt(i)
         /\ chain[i].ref = Cardinality(Holders(i)) + (IF job[i].at = "none" THEN 0 ELSE 1)
  BY <1>1, Holds
<1> DEFINE s == chain[i].elements
           r == RemoveFirst(s, e)
<1>3. s \in Seq(Entries) /\ ~chainLock[i] /\ Set(i, "elements", r)
  BY <1>2 DEF ChainType, RemoveEntry
<1>4. /\ NoDup(s) /\ \A f \in Entries : f \in ToSet(s) <=> of[f] = i /\ state[f] = "in"
      /\ \A m, l \in 1 .. Len(s) : m <= l => Prio[s[m]] <= Prio[s[l]]
  BY <1>2 DEF ListAt
<1>5. r \in Seq(Entries) /\ NoDup(r) /\ ToSet(r) = ToSet(s) \ {e} /\ OrderKept(r, s)
  <2> HIDE DEF s
  <2> QED BY <1>3, <1>4, RemoveFirstSet, RemoveFirstOrder
<1> HIDE DEF r
<1>6. /\ chain' \in [Chains -> ChainType] /\ chain'[i].elements = r
      /\ chain'[i].key = chain[i].key /\ chain'[i].maker = chain[i].maker /\ chain'[i].ref = chain[i].ref
      /\ chain'[i].threaded = chain[i].threaded /\ chain'[i].queue = chain[i].queue /\ chain'[i].listening = chain[i].listening
      /\ \A j \in Chains : j # i => chain'[j] = chain[j]
  BY <1>1, <1>3, <1>5, SetElements DEF Types
<1>7. /\ pc' = [pc EXCEPT ![e] = "destroy"] /\ state' = [state EXCEPT ![e] = "out"]
      /\ chainLock' = [chainLock EXCEPT ![i] = TRUE]
  BY <1>2 DEF RemoveEntry, Goto
<1>8. pc'[e] = "destroy" /\ state'[e] = "out" /\ of'[e] = i /\ OthersStay(e)
  BY <1>1, <1>2, <1>7 DEF Types, OthersStay
<1>9. Types'
  BY <1>1, <1>6, <1>7 DEF Types
<1>10. chainLock'[i] /\ \A j \in Chains : j # i => chainLock'[j] = chainLock[j]
  BY <1>1, <1>7 DEF Types
<1>11. Holders(i)' = Holders(i)
  BY <1>1, <1>2, <1>8 DEF Holders, OthersStay
<1>12. ListAt(i)'
  <2>1. \A f \in Entries : f \in ToSet(r) <=> of'[f] = i /\ state'[f] = "in"
    BY <1>4, <1>5, <1>8 DEF OthersStay
  <2>2. \A m, l \in 1 .. Len(r) : m <= l => Prio[r[m]] <= Prio[r[l]]
    <3> SUFFICES ASSUME NEW m \in 1 .. Len(r), NEW l \in 1 .. Len(r), m <= l PROVE Prio[r[m]] <= Prio[r[l]]
      OBVIOUS
    <3>1. PICK x \in 1 .. Len(s), y \in 1 .. Len(s) : x <= y /\ r[m] = s[x] /\ r[l] = s[y]
      BY <1>5 DEF OrderKept
    <3> QED BY <1>4, <3>1
  <2> QED BY <1>5, <1>6, <2>1, <2>2 DEF ListAt
<1>13. CallAt(e)'
  BY <1>1, <1>2, <1>8 DEF CallAt, Leaving
<1>14. \A a \in Actors : job[a].at \in Working => job[a].chain # i
  BY <1>3 DEF DispatchInv, JobAt
<1>15. \A f \in Entries : f # e => pc[f] # "destroy" /\ pc'[f] # "destroy"
  BY <1>1, <1>8, OthersOut DEF OthersStay, Locking
<1>16. ChainLocked'
  <2>1. ASSUME NEW j \in Chains, chainLock'[j]
        PROVE  \/ \E a \in Actors : job'[a].at \in Working /\ job'[a].chain = j
               \/ \E f \in Entries : pc'[f] = "destroy" /\ of'[f] = j
    <3>1. CASE j = i
      BY <1>8, <3>1
    <3>2. CASE j # i
      <4>1. \A f \in Entries : pc[f] # "destroy"
        BY <1>1, <1>15
      <4> QED BY <1>1, <1>10, <2>1, <3>2, <4>1 DEF DispatchInv, ChainLocked
    <3> QED BY <3>1, <3>2
  <2> QED BY <1>1, <1>8, <1>10, <1>14, <1>15, <2>1 DEF ChainLocked
<1>17. \A j \in Chains : (\E a \in Actors : job[a].at \in Working /\ job[a].chain = j) =>
                            chainLock'[j] /\ ToSet(chain[j].elements) \subseteq ToSet(chain'[j].elements)
  BY <1>6, <1>10, <1>14 DEF DispatchInv, JobAt
<1>18. (\E f \in Holders(i)' : pc'[f] # "unref") <=> (\E f \in Holders(i) : pc[f] # "unref")
  BY <1>1, <1>2, <1>8, <1>11
<1>19. ~Told(i) /\ ~Told(i)'
  <2>1. ~Told(i)
    BY <1>1, <1>2 DEF ThreadAt
  <2> QED BY <1>1, <1>6, <2>1 DEF Told
<1>20. pc[e] \in Locking /\ pc'[e] \in Locking
  BY <1>1, <1>8 DEF Locking
<1>21. chain'[i].ref = Cardinality(Holders(i)') + (IF job[i].at = "none" THEN 0 ELSE 1)
  BY <1>2, <1>6, <1>11
<1> QED BY <1>1, <1>2, <1>6, <1>8, <1>9, <1>12, <1>13, <1>16, <1>17, <1>18, <1>19, <1>20, <1>21, OwnChain

(* The test on the reference count tells whether anybody else holds the     *)
(* chain.                                                                   *)
LEMMA LastHolder ==
    ASSUME DispatchInv, NEW e \in Entries, pc[e] = "destroy"
    PROVE  LastOne(of[e]) <=> Holders(of[e]) = {e}
<1>1. Holding(e)
  BY DEF Holding, Leaving
<1>2. PICK i \in Chains :
         /\ i = of[e] /\ i \in 1 .. created /\ e \in Holders(i) /\ chain[i] \in ChainType
         /\ ListAt(i) /\ TableAt(i) /\ ThreadAt(i)
         /\ chain[i].ref = Cardinality(Holders(i)) + (IF job[i].at = "none" THEN 0 ELSE 1)
  BY <1>1, Holds
<1>3. ~Told(i)
  BY <1>2 DEF ThreadAt
<1>4. chain[i].threaded <=> job[i].at # "none"
  BY <1>2, <1>3 DEF ThreadAt, Told
<1>5. LastOne(i) <=> Cardinality(Holders(i)) = 1
  BY <1>2, <1>4, FiniteHolders DEF LastOne
<1>6. Cardinality(Holders(i)) = 1 <=> Holders(i) = {e}
  <2>1. Cardinality(Holders(i)) = 1 <=> \E x : Holders(i) = {x}
    BY FiniteHolders, FS_Singleton
  <2> QED BY <1>2, <2>1
<1> QED BY <1>2, <1>5, <1>6

(* It frees the entry and decides on unbind. *)
LEMMA DestroyDataStep == ASSUME DispatchInv, NEW e \in Entries, DestroyData(e) PROVE DispatchInv'
<1>1. /\ Types /\ CallAt(e) /\ pc[e] = "destroy" /\ state[e] = "out" /\ Holding(e)
      /\ UNCHANGED <<addr, table, created, chain, lock, gil, of, state, busy, job, conn>>
  BY DEF DispatchInv, DestroyData, CallAt, Holding, Leaving
<1>2. PICK i \in Chains :
         /\ i = of[e] /\ i \in 1 .. created /\ e \in Holders(i) /\ chain[i] \in ChainType
         /\ ListAt(i) /\ TableAt(i) /\ ThreadAt(i)
         /\ chain[i].ref = Cardinality(Holders(i)) + (IF job[i].at = "none" THEN 0 ELSE 1)
  BY <1>1, Holds
<1>3. PICK at \in {"exit", "unref"} : pc' = [pc EXCEPT ![e] = at] /\ (at = "exit" <=> LastOne(i))
  BY <1>2 DEF DestroyData, Goto
<1>4. chainLock' = [chainLock EXCEPT ![i] = FALSE]
  BY <1>2 DEF DestroyData
<1>5. at = "exit" <=> Holders(i) = {e}
  BY <1>1, <1>2, <1>3, LastHolder
<1>6. pc'[e] = at /\ state'[e] = "out" /\ of'[e] = i /\ OthersStay(e)
  BY <1>1, <1>2, <1>3 DEF Types, OthersStay
<1>7. Types'
  BY <1>1, <1>3, <1>4 DEF Types
<1>8. ~chainLock'[i] /\ \A j \in Chains : j # i => chainLock'[j] = chainLock[j]
  BY <1>1, <1>4 DEF Types
<1>9. Holders(i)' = Holders(i)
  BY <1>1, <1>2, <1>6 DEF Holders, OthersStay
<1>10. ListAt(i)'
  BY <1>1, <1>2 DEF ListAt
<1>11. CallAt(e)'
  <2>1. pc'[e] \in {"exit", "cancel"} => Holders(of[e])' = {e}
    <3> SUFFICES ASSUME pc'[e] \in {"exit", "cancel"} PROVE Holders(of[e])' = {e}
      OBVIOUS
    <3>1. Holders(i)' = {e}
      BY <1>5, <1>6, <1>9
    <3> QED BY <1>6, <3>1 DEF Holders
  <2> QED BY <1>1, <1>2, <1>6, <2>1 DEF CallAt, Leaving
<1>12. \A a \in Actors : job[a].at \in Working => job[a].chain # i
  BY <1>1, <1>2 DEF DispatchInv, ChainLocked
<1>13. \A f \in Entries : f # e => pc[f] \notin Locking /\ pc'[f] \notin Locking
  BY <1>1, <1>6, OthersOut DEF OthersStay, Locking
<1>14. \A f \in Entries : pc'[f] # "destroy"
  BY <1>3, <1>6, <1>13 DEF Locking
<1>15. ChainLocked'
  <2>1. ASSUME NEW j \in Chains, chainLock'[j]
        PROVE  \E a \in Actors : job'[a].at \in Working /\ job'[a].chain = j
    <3>1. chainLock[j] /\ j # i
      BY <1>8, <2>1
    <3>2. \A f \in Entries : pc[f] = "destroy" => of[f] # j
      BY <1>2, <1>13, <3>1 DEF Locking
    <3> QED BY <1>1, <3>1, <3>2 DEF DispatchInv, ChainLocked
  <2> QED BY <1>14, <2>1 DEF ChainLocked
<1>16. \A j \in Chains : (\E a \in Actors : job[a].at \in Working /\ job[a].chain = j) =>
                            chainLock'[j] /\ ToSet(chain[j].elements) \subseteq ToSet(chain'[j].elements)
  BY <1>1, <1>8, <1>12 DEF DispatchInv, JobAt
<1>17. (\E f \in Holders(i)' : pc'[f] # "unref") <=> (\E f \in Holders(i) : pc[f] # "unref")
  <2>1. \E f \in Holders(i) : pc[f] # "unref"
    BY <1>1, <1>2
  <2>2. CASE at = "exit"
    BY <1>2, <1>6, <1>9, <2>1, <2>2
  <2>3. CASE at = "unref"
    <3>1. PICK f \in Holders(i) : f # e
      BY <1>2, <1>5, <2>3
    <3>2. pc'[f] # "unref"
      BY <1>13, <3>1 DEF Holders, Locking
    <3> QED BY <1>9, <2>1, <3>1, <3>2
  <2> QED BY <2>2, <2>3
<1>18. ~Told(i) /\ ~Told(i)'
  <2>1. ~Told(i)
    BY <1>1, <1>2 DEF ThreadAt
  <2> QED BY <1>1, <2>1 DEF Told
<1>19. pc[e] \in Locking /\ pc'[e] \in Locking
  BY <1>1, <1>3, <1>6 DEF Locking
<1>20. chain'[i].ref = Cardinality(Holders(i)') + (IF job[i].at = "none" THEN 0 ELSE 1)
  BY <1>1, <1>2, <1>9
<1> QED BY <1>1, <1>2, <1>6, <1>7, <1>10, <1>11, <1>15, <1>16, <1>17, <1>18, <1>19, <1>20, OwnChain
(* z_dispatch_unbind_listener tells the thread of the chain. *)
LEMMA StopThreadStep == ASSUME DispatchInv, NEW e \in Entries, StopThread(e) PROVE DispatchInv'
<1>1. /\ Types /\ CallAt(e) /\ pc[e] = "exit" /\ state[e] = "out" /\ Holding(e)
      /\ UNCHANGED <<addr, table, created, chainLock, lock, gil, of, state, busy, job, conn>>
  BY DEF DispatchInv, StopThread, CallAt, Holding, Leaving
<1>2. PICK i \in Chains :
         /\ i = of[e] /\ i \in 1 .. created /\ e \in Holders(i) /\ chain[i] \in ChainType
         /\ ListAt(i) /\ TableAt(i) /\ ThreadAt(i)
         /\ chain[i].ref = Cardinality(Holders(i)) + (IF job[i].at = "none" THEN 0 ELSE 1)
  BY <1>1, Holds
<1>3. PICK q \in Seq(Conns \union {ExitMagic}) : /\ Set(i, "queue", q)
                                                 /\ ~chain[i].threaded => q = chain[i].queue
  <2>1. chain[i].queue \in Seq(Conns \union {ExitMagic})
    BY <1>2 DEF ChainType
  <2>2. Append(chain[i].queue, ExitMagic) \in Seq(Conns \union {ExitMagic})
    BY <2>1
  <2>3. CASE chain[i].threaded
    BY <1>2, <2>2, <2>3 DEF StopThread
  <2>4. CASE ~chain[i].threaded
    BY <1>2, <2>1, <2>4 DEF StopThread
  <2> QED BY <2>3, <2>4
<1>4. /\ chain' \in [Chains -> ChainType] /\ chain'[i].queue = q
      /\ chain'[i].key = chain[i].key /\ chain'[i].maker = chain[i].maker /\ chain'[i].ref = chain[i].ref
      /\ chain'[i].threaded = chain[i].threaded /\ chain'[i].elements = chain[i].elements /\ chain'[i].listening = chain[i].listening
      /\ \A j \in Chains : j # i => chain'[j] = chain[j]
  BY <1>1, <1>3, SetQueue DEF Types
<1>5. pc' = [pc EXCEPT ![e] = "cancel"]
  BY DEF StopThread, Goto
<1>6. pc'[e] = "cancel" /\ state'[e] = "out" /\ of'[e] = i /\ OthersStay(e)
  BY <1>1, <1>2, <1>5 DEF Types, OthersStay
<1>7. Types'
  BY <1>1, <1>4, <1>5 DEF Types
<1>8. Holders(i)' = Holders(i) /\ Holders(i) = {e}
  <2>1. Holders(i)' = Holders(i)
    BY <1>1, <1>2, <1>6 DEF Holders, OthersStay
  <2> QED BY <1>1, <1>2, <2>1 DEF CallAt
<1>9. ListAt(i)'
  BY <1>1, <1>2, <1>4 DEF ListAt
<1>10. CallAt(e)'
  <2>1. Holders(of[e])' = {e}
    BY <1>6, <1>8 DEF Holders
  <2> QED BY <1>1, <1>2, <1>6, <2>1 DEF CallAt, Leaving
<1>11. ChainLocked'
  <2>1. \A f \in Entries : pc'[f] = "destroy" <=> pc[f] = "destroy"
    BY <1>1, <1>6 DEF OthersStay
  <2> QED BY <1>1, <2>1 DEF DispatchInv, ChainLocked
<1>12. \A j \in Chains : (\E a \in Actors : job[a].at \in Working /\ job[a].chain = j) =>
                            chainLock'[j] /\ ToSet(chain[j].elements) \subseteq ToSet(chain'[j].elements)
  BY <1>1, <1>4 DEF DispatchInv, JobAt
<1>13. (\E f \in Holders(i)' : pc'[f] # "unref") <=> (\E f \in Holders(i) : pc[f] # "unref")
  BY <1>1, <1>6, <1>8
<1>14. \A f \in Holders(i)' : pc'[f] \in {"cancel", "unref"}
  BY <1>6, <1>8
<1>15. pc[e] \in Locking /\ pc'[e] \in Locking
  BY <1>1, <1>6 DEF Locking
<1>16. chain'[i].ref = Cardinality(Holders(i)') + (IF job[i].at = "none" THEN 0 ELSE 1)
  BY <1>2, <1>4, <1>8
<1>17. ~chain[i].threaded => chain'[i].queue = chain[i].queue
  BY <1>3, <1>4
<1> QED BY <1>1, <1>2, <1>4, <1>6, <1>7, <1>9, <1>10, <1>11, <1>12, <1>13, <1>14, <1>15, <1>16, <1>17, OwnChain

(* z_dispatch_unregister drops its reference. *)
LEMMA UnrefChainStep == ASSUME DispatchInv, NEW e \in Entries, UnrefChain(e) PROVE DispatchInv'
<1>1. /\ Types /\ CallAt(e) /\ pc[e] = "unref" /\ state[e] = "out" /\ Holding(e)
      /\ UNCHANGED <<addr, table, created, chainLock, lock, gil, of, state, busy, job, conn>>
  BY DEF DispatchInv, UnrefChain, CallAt, Holding, Leaving
<1>2. PICK i \in Chains :
         /\ i = of[e] /\ i \in 1 .. created /\ e \in Holders(i) /\ chain[i] \in ChainType
         /\ ListAt(i) /\ TableAt(i) /\ ThreadAt(i)
         /\ chain[i].ref = Cardinality(Holders(i)) + (IF job[i].at = "none" THEN 0 ELSE 1)
  BY <1>1, Holds
<1>3. Set(i, "ref", chain[i].ref - 1) /\ chain[i].ref - 1 \in Int
  BY <1>2 DEF UnrefChain, ChainType
<1>4. /\ chain' \in [Chains -> ChainType] /\ chain'[i].ref = chain[i].ref - 1
      /\ chain'[i].key = chain[i].key /\ chain'[i].maker = chain[i].maker /\ chain'[i].threaded = chain[i].threaded
      /\ chain'[i].queue = chain[i].queue /\ chain'[i].elements = chain[i].elements /\ chain'[i].listening = chain[i].listening
      /\ \A j \in Chains : j # i => chain'[j] = chain[j]
  BY <1>1, <1>3, SetRef DEF Types
<1>5. pc' = [pc EXCEPT ![e] = "unlock"]
  BY DEF UnrefChain, Goto
<1>6. pc'[e] = "unlock" /\ state'[e] = "out" /\ of'[e] = i /\ OthersStay(e)
  BY <1>1, <1>2, <1>5 DEF Types, OthersStay
<1>7. Types'
  BY <1>1, <1>4, <1>5 DEF Types
<1>8. Holders(i)' = Holders(i) \ {e}
  BY <1>1, <1>2, <1>6 DEF Holders, OthersStay
<1>9. \A f \in Holders(i) : f # e => pc'[f] = pc[f]
  BY <1>6 DEF Holders, OthersStay
<1>10. ListAt(i)'
  BY <1>1, <1>2, <1>4 DEF ListAt
<1>11. CallAt(e)'
  BY <1>1, <1>2, <1>6 DEF CallAt, Leaving, Holding
<1>12. ChainLocked'
  <2>1. \A f \in Entries : pc'[f] = "destroy" <=> pc[f] = "destroy"
    BY <1>1, <1>6 DEF OthersStay
  <2> QED BY <1>1, <2>1 DEF DispatchInv, ChainLocked
<1>13. \A j \in Chains : (\E a \in Actors : job[a].at \in Working /\ job[a].chain = j) =>
                            chainLock'[j] /\ ToSet(chain[j].elements) \subseteq ToSet(chain'[j].elements)
  BY <1>1, <1>4 DEF DispatchInv, JobAt
<1>14. (\E f \in Holders(i)' : pc'[f] # "unref") <=> (\E f \in Holders(i) : pc[f] # "unref")
  BY <1>1, <1>8, <1>9
<1>15. Told(i)' => \A f \in Holders(i)' : pc'[f] \in {"cancel", "unref"}
  <2>1. Told(i)' <=> Told(i)
    BY <1>1, <1>4 DEF Told
  <2> QED BY <1>2, <1>8, <1>9, <2>1 DEF ThreadAt
<1>16. pc[e] \in Locking /\ pc'[e] \in Locking
  BY <1>1, <1>6 DEF Locking
<1>17. chain'[i].ref = Cardinality(Holders(i)') + (IF job[i].at = "none" THEN 0 ELSE 1)
  <2>1. Cardinality(Holders(i) \ {e}) = Cardinality(Holders(i)) - 1
    BY <1>2, FiniteHolders, FS_RemoveElement
  <2> QED BY <1>2, <1>4, <1>8, <2>1, FiniteHolders
<1> QED BY <1>1, <1>2, <1>4, <1>6, <1>7, <1>10, <1>11, <1>12, <1>13, <1>14, <1>15, <1>16, <1>17, OwnChain

(* The listener is cancelled and the chain leaves the table. *)
LEMMA CancelListenerStep == ASSUME DispatchInv, NEW e \in Entries, CancelListener(e) PROVE DispatchInv'
<1>1. /\ Types /\ CallAt(e) /\ pc[e] = "cancel" /\ state[e] = "out" /\ Holding(e)
      /\ UNCHANGED <<addr, created, chainLock, lock, gil, of, state, busy, job, conn>>
  BY DEF DispatchInv, CancelListener, CallAt, Holding, Leaving
<1>2. PICK i \in Chains :
         /\ i = of[e] /\ i \in 1 .. created /\ e \in Holders(i) /\ chain[i] \in ChainType
         /\ ListAt(i) /\ TableAt(i) /\ ThreadAt(i)
         /\ chain[i].ref = Cardinality(Holders(i)) + (IF job[i].at = "none" THEN 0 ELSE 1)
  BY <1>1, Holds
<1>3. Tabled(i) /\ job[Main].chain # i /\ Set(i, "listening", FALSE)
  BY <1>1, <1>2 DEF TableAt, CancelListener
<1>4. PICK k \in Keys : k = chain[i].key /\ table[k] = i /\ table' = [table EXCEPT ![k] = None]
  BY <1>2, <1>3 DEF Tabled, CancelListener
<1>5. /\ chain' \in [Chains -> ChainType] /\ ~chain'[i].listening
      /\ chain'[i].key = chain[i].key /\ chain'[i].maker = chain[i].maker /\ chain'[i].ref = chain[i].ref
      /\ chain'[i].threaded = chain[i].threaded /\ chain'[i].queue = chain[i].queue /\ chain'[i].elements = chain[i].elements
      /\ \A j \in Chains : j # i => chain'[j] = chain[j]
  BY <1>1, <1>3, SetListening DEF Types
<1>6. pc' = [pc EXCEPT ![e] = "unref"]
  BY DEF CancelListener, Goto
<1>7. pc'[e] = "unref" /\ state'[e] = "out" /\ of'[e] = i /\ OthersStay(e)
  BY <1>1, <1>2, <1>6 DEF Types, OthersStay
<1>8. Types'
  <2>1. table' \in [Keys -> 0 .. created]
    BY <1>1, <1>2, <1>4 DEF Types, None
  <2> QED BY <1>1, <1>5, <1>6, <2>1 DEF Types
<1>9. Holders(i)' = {e}
  <2>1. Holders(i)' = Holders(i)
    BY <1>1, <1>2, <1>7 DEF Holders, OthersStay
  <2> QED BY <1>1, <1>2, <2>1 DEF CallAt
<1>10. \A l \in Keys : table'[l] # i /\ \A j \in Chains : j # i => (table'[l] = j <=> table[l] = j)
  <2>1. \A l \in Keys : table[l] = i => l = k
    BY <1>2, <1>4 DEF TableAt
  <2> QED BY <1>1, <1>4, <2>1, Threads DEF Types
<1>11. ListAt(i)'
  BY <1>1, <1>2, <1>5 DEF ListAt
<1>12. ThreadAt(i)'
  BY <1>1, <1>2, <1>5, <1>7, <1>9 DEF ThreadAt
<1>13. TableAt(i)'
  <2>1. \A f \in Holders(i)' : pc'[f] = "unref"
    BY <1>7, <1>9
  <2>2. ~(i > created)
    BY <1>1, <1>2 DEF Types
  <2> QED BY <1>1, <1>5, <1>10, <2>1, <2>2 DEF TableAt
<1>14. CallAt(e)'
  BY <1>1, <1>2, <1>7 DEF CallAt, Leaving
<1>15. ChainLocked'
  <2>1. \A f \in Entries : pc'[f] = "destroy" <=> pc[f] = "destroy"
    BY <1>1, <1>7 DEF OthersStay
  <2> QED BY <1>1, <2>1 DEF DispatchInv, ChainLocked
<1>16. MainServes'
  <2>1. \A j \in Chains : j # i => (Tabled(j)' <=> Tabled(j))
    BY <1>5, <1>10 DEF Tabled
  <2>2. MainServes /\ job[Main].chain \in Chains \union {None}
    BY <1>1, Threads DEF DispatchInv, Types, JobType
  <2> QED BY <1>1, <1>3, <2>1, <2>2 DEF MainServes
<1>17. \A a \in Actors : JobAt(a)'
  <2>1. \A j \in Chains : chain'[j].threaded = chain[j].threaded /\ chain'[j].elements = chain[j].elements
    BY <1>5
  <2>2. \A a \in Actors : job[a].at \in Working => chainLock[job[a].chain]
    BY DEF DispatchInv, JobAt
  <2> QED BY <1>1, <2>1, <2>2, JobsKept
<1>18. pc[e] \in Locking /\ pc'[e] \in Locking /\ created' >= created /\ lock' = lock
  BY <1>1, <1>2, <1>7 DEF Locking, Types
<1>19. \A j \in Chains : j # i => /\ chain'[j] = chain[j] /\ job'[j] = job[j]
                                  /\ \A l \in Keys : table'[l] = j <=> table[l] = j
  BY <1>1, <1>5, <1>10
<1>20. chain'[i].ref = Cardinality(Holders(i)') + (IF job'[i].at = "none" THEN 0 ELSE 1)
  BY <1>1, <1>2, <1>5, <1>9 DEF CallAt
<1> QED BY <1>2, <1>7, <1>8, <1>11, <1>12, <1>13, <1>14, <1>15, <1>16, <1>17, <1>18, <1>19, <1>20, LockedCall
(* The fields of a chain that has just been made. *)
LEMMA FreshRecord ==
    ASSUME NEW e \in Entries, NEW threaded \in BOOLEAN, NEW bound \in Keys \union {Null}, NEW n \in Int,
           NEW l \in BOOLEAN, NEW r,
           r = [key |-> bound, maker |-> e, ref |-> n, threaded |-> threaded, queue |-> <<>>, elements |-> <<>>,
                listening |-> l]
    PROVE  /\ r \in ChainType /\ r.key = bound /\ r.threaded = threaded /\ r.queue = <<>> /\ r.elements = <<>>
           /\ r.ref = n /\ r.listening = l
<1>1. r.key = bound /\ r.queue = <<>> /\ r.elements = <<>> /\ r.ref = n
  OBVIOUS
<1>2. r.threaded = threaded /\ r.listening = l
  BY Zenon
<1>3. <<>> \in Seq(Entries) /\ <<>> \in Seq(Conns \union {ExitMagic})
  OBVIOUS
<1>4. r \in ChainType
  BY <1>3, Zenon DEF ChainType
<1> QED BY <1>1, <1>2, <1>4

(* z_dispatch_chain_new sets the fields that are not zero. *)
Fresh(e, threaded, bound, n, l) ==
    [NoChain EXCEPT !.key = bound, !.maker = e, !.threaded = threaded, !.ref = n, !.listening = l]

(* What it makes. *)
LEMMA FreshChain ==
    ASSUME NEW e \in Entries, NEW threaded \in BOOLEAN, NEW bound \in Keys \union {Null}, NEW n \in Int,
           NEW l \in BOOLEAN, NEW r,
           r = Fresh(e, threaded, bound, n, l)
    PROVE  /\ r \in ChainType /\ r.key = bound /\ r.threaded = threaded /\ r.queue = <<>> /\ r.elements = <<>>
           /\ r.ref = n /\ r.listening = l
<1>1. r = [key |-> bound, maker |-> e, ref |-> n, threaded |-> threaded, queue |-> <<>>, elements |-> <<>>,
           listening |-> l]
  BY DEF NoChain, Fresh
<1> QED BY <1>1, FreshRecord

(* z_dispatch_chain_new, with the listener bound or not. *)
LEMMA NewChainStep == ASSUME DispatchInv, NEW e \in Entries, NewChain(e) PROVE DispatchInv'
<1>1. /\ Types /\ CallAt(e) /\ pc[e] = "lookup" /\ state[e] = "new" /\ Found(e) = None
      /\ UNCHANGED <<addr, chainLock, lock, gil, busy, conn>>
  BY DEF DispatchInv, NewChain, CallAt
<1>2. PICK i \in Chains : i = created + 1
  BY <1>1, DispatchConstants DEF NewChain, Types, Chains
<1>3. created' = i /\ created \in Nat /\ created' \in Nat /\ i > created
  BY <1>1, <1>2 DEF NewChain, Types
<1>4. PICK threaded \in BOOLEAN, bound \in Keys \union {Null} :
         /\ bound # Null => table[bound] = None
         /\ job' = [job EXCEPT ![i] = IF threaded THEN Idle ELSE NoThread]
         /\ chain' = [chain EXCEPT ![i] =
               [NoChain EXCEPT !.key = bound, !.maker = e, !.threaded = threaded,
                               !.ref = (IF threaded THEN 1 ELSE 0) + (IF bound = Null THEN 0 ELSE 1),
                               !.listening = bound # Null]]
         /\ bound = Null => state' = [state EXCEPT ![e] = "failed"] /\ pc' = [pc EXCEPT ![e] = "unlock"]
                            /\ UNCHANGED <<table, of>>
         /\ bound # Null => table' = [table EXCEPT ![bound] = i] /\ of' = [of EXCEPT ![e] = i]
                            /\ pc' = [pc EXCEPT ![e] = "insert"] /\ UNCHANGED state
  <2>1. PICK threaded \in ChainThread(e), bound \in BindListener(e) :
         /\ job' = [job EXCEPT ![i] = IF threaded THEN Idle ELSE NoThread]
         /\ chain' = [chain EXCEPT ![i] =
               [NoChain EXCEPT !.key = bound, !.maker = e, !.threaded = threaded,
                               !.ref = (IF threaded THEN 1 ELSE 0) + (IF bound = Null THEN 0 ELSE 1),
                               !.listening = bound # Null]]
         /\ bound = Null => state' = [state EXCEPT ![e] = "failed"] /\ pc' = [pc EXCEPT ![e] = "unlock"]
                            /\ UNCHANGED <<table, of>>
         /\ bound # Null => table' = [table EXCEPT ![bound] = i] /\ of' = [of EXCEPT ![e] = i]
                            /\ pc' = [pc EXCEPT ![e] = "insert"] /\ UNCHANGED state
    BY <1>2 DEF NewChain, Goto
  <2>2. threaded \in BOOLEAN
    BY DEF ChainThread
  <2>3. addr[e] \in Keys \union {Wildcard}
    BY <1>1, DispatchConstants DEF Types
  <2>4. bound \in Keys \union {Null} /\ (bound # Null => table[bound] = None)
    BY <1>1, <2>3 DEF BindListener, Found
  <2> QED BY <2>1, <2>2, <2>4
<1>5. /\ chain' \in [Chains -> ChainType] /\ chain'[i].key = bound /\ chain'[i].threaded = threaded
      /\ chain'[i].queue = <<>> /\ chain'[i].elements = <<>>
      /\ chain'[i].ref = (IF threaded THEN 1 ELSE 0) + (IF bound = Null THEN 0 ELSE 1)
      /\ chain'[i].listening <=> bound # Null
      /\ \A j \in Chains : j # i => chain'[j] = chain[j]
  <2>1. PICK r : r = [NoChain EXCEPT !.key = bound, !.maker = e, !.threaded = threaded,
                               !.ref = (IF threaded THEN 1 ELSE 0) + (IF bound = Null THEN 0 ELSE 1),
                               !.listening = bound # Null]
    OBVIOUS
  <2>2. /\ r \in ChainType /\ r.key = bound /\ r.threaded = threaded /\ r.queue = <<>> /\ r.elements = <<>>
        /\ r.ref = (IF threaded THEN 1 ELSE 0) + (IF bound = Null THEN 0 ELSE 1)
        /\ r.listening <=> bound # Null
    <3> DEFINE n == (IF threaded THEN 1 ELSE 0) + (IF bound = Null THEN 0 ELSE 1)
               l == (bound # Null)
    <3>1. n \in Int /\ l \in BOOLEAN
      OBVIOUS
    <3>2. r = Fresh(e, threaded, bound, n, l)
      BY <2>1, Zenon DEF Fresh
    <3> HIDE DEF n, l
    <3>3. /\ r \in ChainType /\ r.key = bound /\ r.threaded = threaded /\ r.queue = <<>> /\ r.elements = <<>>
          /\ r.ref = n /\ r.listening = l
      BY <3>1, <3>2, FreshChain
    <3> QED BY <3>3, Zenon DEF n, l
  <2>3. chain \in [Chains -> ChainType] /\ chain' = [chain EXCEPT ![i] = r]
    BY <1>1, <1>4, <2>1 DEF Types
  <2>4. chain' \in [Chains -> ChainType] /\ chain'[i] = r /\ \A j \in Chains : j # i => chain'[j] = chain[j]
    BY <2>2, <2>3
  <2> QED BY <2>2, <2>4
<1>6. /\ job' \in [Actors -> JobType] /\ job'[i].chain = None /\ job'[i].at = (IF threaded THEN "idle" ELSE "none")
      /\ \A b \in Actors : b # i => job'[b] = job[b]
  <2>1. i \in Actors /\ job \in [Actors -> JobType]
    BY <1>1, Threads DEF Types
  <2>2. Idle \in JobType /\ NoThread \in JobType
    BY DEF Idle, NoThread, JobType
  <2>3. /\ job' \in [Actors -> JobType] /\ job'[i] = (IF threaded THEN Idle ELSE NoThread)
        /\ \A b \in Actors : b # i => job'[b] = job[b]
    BY <1>4, <2>1, <2>2
  <2> QED BY <2>3 DEF Idle, NoThread
<1>7. /\ bound = Null => state'[e] = "failed" /\ pc'[e] = "unlock" /\ of'[e] = of[e]
      /\ bound # Null => state'[e] = "new" /\ pc'[e] = "insert" /\ of'[e] = i
      /\ OthersStay(e)
  BY <1>1, <1>4 DEF Types, OthersStay
<1>8. Types'
  <2>1. state' \in [Entries -> {"new", "in", "out", "failed"}]
    BY <1>1, <1>4 DEF Types
  <2>2. pc' \in [Entries -> {"idle", "register", "lookup", "insert", "unlock", "return",
                             "unregister", "remove", "destroy", "exit", "cancel", "unref"}]
    BY <1>1, <1>4 DEF Types
  <2>3. of' \in [Entries -> 0 .. created'] /\ table' \in [Keys -> 0 .. created']
    <3>1. of \in [Entries -> 0 .. created'] /\ table \in [Keys -> 0 .. created'] /\ i \in 0 .. created'
      BY <1>1, <1>2, <1>3 DEF Types
    <3>2. CASE bound = Null
      BY <1>4, <3>1, <3>2
    <3>3. CASE bound # Null
      BY <1>4, <3>1, <3>3
    <3> QED BY <3>2, <3>3
  <2>4. created' \in 0 .. MaxChains
    BY <1>1, <1>2, <1>3 DEF Chains, Types
  <2> QED BY <1>1, <1>5, <1>6, <2>1, <2>2, <2>3, <2>4 DEF Types
<1>9. /\ chain[i] = NoChain /\ ~chain[i].threaded /\ chain[i].key = Null /\ chain[i].elements = <<>>
      /\ job[i].at = "none"
  <2>1. chain[i] = NoChain /\ ThreadAt(i)
    BY <1>3 DEF DispatchInv, TableAt
  <2> QED BY <2>1 DEF NoChain, ThreadAt
<1>10. \A f \in Entries : of[f] # i
  BY <1>1, <1>2, <1>3 DEF Types
<1>11. ~Holding(e) /\ (Holding(e)' <=> bound # Null)
  BY <1>1, <1>7 DEF Holding, Leaving
<1>12. Holders(i)' = (IF bound = Null THEN {} ELSE {e})
  BY <1>7, <1>10, <1>11 DEF Holders, Holding, OthersStay, Leaving
<1>13. \A l \in Keys : /\ table'[l] = i <=> l = bound
                       /\ \A j \in Chains : j # i => (table'[l] = j <=> table[l] = j)
  <2>1. table \in [Keys -> 0 .. created] /\ Null \notin Keys
    BY <1>1, DispatchConstants DEF Types
  <2>2. \A l \in Keys : table[l] # i
    BY <1>2, <1>3, <2>1
  <2>3. CASE bound = Null
    BY <1>4, <2>1, <2>2, <2>3
  <2>4. CASE bound # Null
    BY <1>4, <2>1, <2>2, <2>4, Threads
  <2> QED BY <2>3, <2>4
<1>14. chain'[i].ref = Cardinality(Holders(i)') + (IF job'[i].at = "none" THEN 0 ELSE 1)
  <2>1. Cardinality(Holders(i)') = (IF bound = Null THEN 0 ELSE 1)
    BY <1>12, FS_EmptySet, FS_Singleton
  <2> QED BY <1>5, <1>6, <2>1
<1>15. ListAt(i)'
  <2>1. \A f \in Entries : ~(of'[f] = i /\ state'[f] = "in")
    BY <1>1, <1>7, <1>10 DEF OthersStay
  <2> QED BY <1>5, <2>1, NothingListed DEF ListAt
<1>16. TableAt(i)'
  <2>1. bound # Null => Tabled(i)' /\ \A f \in Holders(i)' : pc'[f] # "unref"
    BY <1>5, <1>7, <1>12, <1>13 DEF Tabled
  <2>2. ~(i > created')
    BY <1>3
  <2>3. Null \notin Keys
    BY DispatchConstants
  <2> QED BY <1>5, <1>12, <1>13, <2>1, <2>2, <2>3 DEF TableAt
<1>17. ThreadAt(i)'
  <2>1. ~Told(i)'
    BY <1>5, <1>6, NothingListed DEF Told
  <2> QED BY <1>5, <1>6, <2>1 DEF ThreadAt
<1>18. CallAt(e)'
  BY <1>2, <1>3, <1>7, <1>11 DEF CallAt, Leaving
<1>19. \A b \in Actors : /\ job'[b].at \in Working <=> job[b].at \in Working
                         /\ job[b].at \in Working => b # i /\ job'[b] = job[b]
  BY <1>6, <1>9 DEF Working
<1>20. ChainLocked'
  <2>1. \A f \in Entries : pc'[f] = "destroy" \/ pc[f] = "destroy" => f # e /\ pc'[f] = pc[f] /\ of'[f] = of[f]
    BY <1>1, <1>7 DEF OthersStay
  <2> QED BY <1>1, <1>19, <2>1 DEF DispatchInv, ChainLocked
<1>21. MainServes'
  <2>1. \A j \in Chains : j # i => (Tabled(j)' <=> Tabled(j))
    BY <1>5, <1>13 DEF Tabled
  <2>2. MainServes /\ job[Main].chain \in Chains \union {None} /\ job'[Main] = job[Main]
    BY <1>1, <1>6, Threads DEF DispatchInv, Types, JobType
  <2>3. ~Tabled(i)
    BY <1>9, DispatchConstants DEF Tabled
  <2> QED BY <2>1, <2>2, <2>3, Threads DEF MainServes
<1>22. \A a \in Actors : JobAt(a)'
  <2> SUFFICES ASSUME NEW a \in Actors PROVE JobAt(a)'
    OBVIOUS
  <2>1. CASE a = i
    BY <1>6, <2>1 DEF JobAt, Working
  <2>2. CASE a # i
    <3>1. JobAt(a) /\ job'[a] = job[a] /\ job[a].chain \in Chains \union {None}
      BY <1>1, <1>6, <2>2 DEF DispatchInv, Types, JobType
    <3>2. \A j \in Chains : chain'[j].elements = chain[j].elements /\ (chain[j].threaded => chain'[j].threaded)
      BY <1>5, <1>9
    <3>3. job[a].at \in {"push"} \union Working => job[a].chain \in Chains
      BY <3>1 DEF JobAt, Working
    <3> QED BY <1>1, <1>19, <3>1, <3>2, <3>3 DEF JobAt, Working
  <2> QED BY <2>1, <2>2
<1>23. pc[e] \in Locking /\ pc'[e] \in Locking /\ created' >= created /\ lock' = lock
  BY <1>1, <1>3, <1>7 DEF Locking
<1>24. \A j \in Chains : j # i => /\ chain'[j] = chain[j] /\ job'[j] = job[j]
                                  /\ \A l \in Keys : table'[l] = j <=> table[l] = j
  BY <1>5, <1>6, <1>13, Threads
<1>25. Holding(e)' => of'[e] = i
  BY <1>7, <1>11
<1> QED BY <1>7, <1>8, <1>11, <1>14, <1>15, <1>16, <1>17, <1>18, <1>20, <1>21, <1>22, <1>23, <1>24, <1>25, LockedCall
-----------------------------------------------------------------------------
(* At the start there are no chains. *)
LEMMA DispatchStarts == ASSUME Init PROVE DispatchInv
<1>1. Types
  <2>1. NoChain \in ChainType /\ Idle \in JobType /\ NoThread \in JobType
    <3>1. <<>> \in Seq(Entries) /\ <<>> \in Seq(Conns \union {ExitMagic})
      OBVIOUS
    <3> QED BY <3>1 DEF NoChain, ChainType, Idle, NoThread, JobType
  <2>2. chain \in [Chains -> ChainType] /\ job \in [Actors -> JobType]
    BY <2>1 DEF Init
  <2>3. created \in 0 .. MaxChains /\ table \in [Keys -> 0 .. created] /\ of \in [Entries -> 0 .. created]
    BY DispatchConstants DEF Init, None
  <2> QED BY <2>2, <2>3 DEF Init, Types
<1>2. \A i \in Chains : Holders(i) = {}
  BY Threads DEF Init, Holders, None
<1>3. \A a \in Actors : job[a].at \notin Working /\ job[a].chain = None /\ job[a].at \in {"none", "idle"}
  BY DEF Init, Idle, NoThread, Working
<1>4. \A i \in Chains : chain[i] = NoChain /\ job[i].at = "none"
  BY Threads DEF Init, NoThread, Idle
<1>5. \A i \in Chains : /\ chain[i].elements = <<>> /\ chain[i].queue = <<>> /\ ~chain[i].threaded
                        /\ ~chain[i].listening /\ chain[i].ref = 0
  BY <1>4 DEF NoChain
<1>6. TableLocked /\ \A e \in Entries : CallAt(e)
  BY Threads DEF Init, TableLocked, CallAt, Locking, Leaving, Holding
<1>7. ChainLocked
  BY DEF Init, ChainLocked
<1>8. MainServes
  <2>1. job[Main] = Idle
    BY Threads DEF Init
  <2> QED BY <2>1 DEF MainServes, Idle
<1>9. RefsExact
  <2>1. \A i \in Chains : Cardinality(Holders(i)) = 0
    BY <1>2, FS_EmptySet
  <2> QED BY <1>4, <1>5, <2>1 DEF RefsExact
<1>10. ASSUME NEW i \in Chains PROVE ListAt(i) /\ TableAt(i) /\ ThreadAt(i)
  <2>1. ListAt(i)
    <3>1. \A e \in Entries : state[e] # "in"
      BY DEF Init
    <3> QED BY <1>5, <3>1, NothingListed DEF ListAt
  <2>2. TableAt(i)
    <3>1. \A k \in Keys : table[k] # i
      BY Threads DEF Init
    <3> QED BY <1>2, <1>4, <1>5, <3>1 DEF TableAt
  <2>3. ThreadAt(i)
    BY <1>2, <1>3, <1>4, <1>5, Threads DEF ThreadAt
  <2> QED BY <2>1, <2>2, <2>3
<1>11. \A a \in Actors : JobAt(a)
  BY <1>3 DEF JobAt
<1> QED BY <1>1, <1>6, <1>7, <1>8, <1>9, <1>10, <1>11 DEF DispatchInv

(* Nothing happens. *)
LEMMA DispatchStutters == ASSUME DispatchInv, UNCHANGED vars PROVE DispatchInv'
<1>1. UNCHANGED <<addr, table, created, chain, chainLock, lock, gil, pc, of, state, busy, job, conn>>
  BY DEF vars
<1>2. /\ Types' /\ TableLocked' /\ ChainLocked' /\ MainServes' /\ RefsExact'
  BY <1>1 DEF DispatchInv, Types, TableLocked, ChainLocked, MainServes, RefsExact, Tabled, Holders
<1>3. ASSUME NEW e \in Entries PROVE CallAt(e)'
  BY <1>1 DEF DispatchInv, CallAt, Holding, Holders
<1>4. ASSUME NEW i \in Chains PROVE ListAt(i)' /\ TableAt(i)' /\ ThreadAt(i)'
  <2>1. ListAt(i)'
    BY <1>1 DEF DispatchInv, ListAt
  <2>2. Holders(i)' = Holders(i)
    BY <1>1 DEF Holders
  <2> QED BY <1>1, <2>1, <2>2 DEF DispatchInv, TableAt, ThreadAt, Tabled, Told
<1>5. ASSUME NEW a \in Actors PROVE JobAt(a)'
  BY <1>1 DEF DispatchInv, JobAt
<1> QED BY <1>2, <1>3, <1>4, <1>5 DEF DispatchInv

(* Every step of a call, a thread, the listeners or the policy. *)
LEMMA DispatchSafe == ASSUME DispatchInv, [Next]_vars PROVE DispatchInv'
<1>1. ASSUME NEW e \in Entries, Register(e) \/ Unregister(e) \/ CallStep(e) PROVE DispatchInv'
  <2>1. CASE \/ Register(e) \/ LockTable(e) \/ RefuseSecond(e) \/ UnlockTable(e) \/ Return(e) \/ Unregister(e)
    BY <2>1, PlainCalls
  <2>2. CASE JoinChain(e)
    BY <2>2, JoinChainStep
  <2>3. CASE NewChain(e)
    BY <2>3, NewChainStep
  <2>4. CASE Insert(e)
    BY <2>4, InsertStep
  <2>5. CASE RemoveEntry(e)
    BY <2>5, RemoveEntryStep
  <2>6. CASE DestroyData(e)
    BY <2>6, DestroyDataStep
  <2>7. CASE StopThread(e)
    BY <2>7, StopThreadStep
  <2>8. CASE CancelListener(e)
    BY <2>8, CancelListenerStep
  <2>9. CASE UnrefChain(e)
    BY <2>9, UnrefChainStep
  <2> QED BY <1>1, <2>1, <2>2, <2>3, <2>4, <2>5, <2>6, <2>7, <2>8, <2>9 DEF CallStep
<1>2. ASSUME NEW i \in Chains, ThreadStep(i) PROVE DispatchInv'
  BY <1>2, PopStep, ExitStep DEF ThreadStep
<1>3. ASSUME NEW i \in Chains, NEW c \in Conns, Accept(i, c) \/ AcceptDirect(i, c) \/ AcceptFails(i, c)
      PROVE  DispatchInv'
  BY <1>3, AcceptSteps
<1>4. CASE Push
  BY <1>4, PushStep
<1>5. ASSUME NEW a \in Actors, DispatchStep(a) PROVE DispatchInv'
  BY <1>5, DispatchSteps
<1>6. CASE UNCHANGED vars
  BY <1>6, DispatchStutters
<1> QED BY <1>1, <1>2, <1>3, <1>4, <1>5, <1>6 DEF Next

(* The inductive invariant holds in every reachable state. *)
THEOREM DispatchInvariant == Spec => []DispatchInv
<1>1. Init => DispatchInv
  BY DispatchStarts
<1>2. DispatchInv /\ [Next]_vars => DispatchInv'
  BY DispatchSafe
<1> QED BY <1>1, <1>2, PTL DEF Spec

(* The inductive invariant says that a freed chain is not in use. *)
LEMMA FreedIsUnused == ASSUME DispatchInv PROVE FreedUnused
<1> SUFFICES ASSUME NEW i \in Chains, chain[i].ref = 0
             PROVE  /\ ~chain[i].listening /\ chain[i].elements = <<>> /\ ~chainLock[i]
                    /\ \A k \in Keys : table[k] # i
                    /\ \A a \in Actors : job[a].chain # i
  BY DEF FreedUnused
<1>1. Holders(i) = {} /\ job[i].at = "none"
  <2>1. chain[i].ref = Cardinality(Holders(i)) + (IF job[i].at = "none" THEN 0 ELSE 1)
    BY DEF DispatchInv, RefsExact
  <2>2. Cardinality(Holders(i)) = 0 /\ job[i].at = "none"
    BY <2>1, FiniteHolders
  <2> QED BY <2>2, FiniteHolders, FS_EmptySet
<1>2. ListAt(i) /\ TableAt(i) /\ ThreadAt(i) /\ chain[i] \in ChainType
  BY DEF DispatchInv, Types
<1>3. (\A k \in Keys : table[k] # i) /\ ~Tabled(i)
  BY <1>1, <1>2 DEF TableAt, Tabled
<1>4. ~chain[i].listening
  BY <1>2, <1>3 DEF TableAt
<1>5. chain[i].elements = <<>>
  <2> SUFFICES ASSUME chain[i].elements # <<>> PROVE FALSE
    OBVIOUS
  <2>1. chain[i].elements \in Seq(Entries)
    BY <1>2 DEF ChainType
  <2>2. Head(chain[i].elements) \in Entries /\ Head(chain[i].elements) \in ToSet(chain[i].elements)
    BY <2>1, HeadTailSet
  <2>3. PICK e \in Entries : e \in ToSet(chain[i].elements)
    BY <2>2
  <2>4. e \in Holders(i)
    BY <1>2, <2>3 DEF ListAt, Holders
  <2> QED BY <1>1, <2>4
<1>6. ASSUME NEW a \in Actors PROVE job[a].chain # i
  <2>1. CASE a = Main
    BY <1>3, <2>1, Threads DEF DispatchInv, MainServes
  <2>2. CASE a = i
    BY <1>1, <2>2, Threads DEF DispatchInv, JobAt
  <2>3. CASE a # Main /\ a # i
    <3>1. a \in Chains
      BY <2>3 DEF Actors
    <3> QED BY <2>3, <3>1, Threads DEF DispatchInv, ThreadAt
  <2> QED BY <2>1, <2>2, <2>3
<1>7. ~chainLock[i]
  <2> SUFFICES ASSUME chainLock[i] PROVE FALSE
    OBVIOUS
  <2>1. \E e \in Entries : pc[e] = "destroy" /\ of[e] = i
    BY <1>6 DEF DispatchInv, ChainLocked
  <2> QED BY <1>1, <2>1 DEF Holders
<1> QED BY <1>3, <1>4, <1>5, <1>6, <1>7

(* The count of references decides rightly on unbinding and on freeing a    *)
(* chain (z_dispatch_unregister, z_dispatch_chain_unref): it is exact at    *)
(* every moment, and a chain whose count is zero is used by nobody.         *)
THEOREM ChainsAreSound == Spec => []ChainsSound
<1>1. ASSUME DispatchInv PROVE ChainsSound
  <2>1. Types /\ RefsExact
    BY <1>1 DEF DispatchInv
  <2>2. ASSUME NEW i \in Chains
        PROVE  /\ chain[i].key \in Keys \union {Null} /\ chain[i].maker \in Entries \union {Null}
               /\ chain[i].ref \in Nat /\ chain[i].threaded \in BOOLEAN
               /\ chain[i].listening \in BOOLEAN /\ chain[i].elements \in Seq(Entries)
               /\ chain[i].queue \in Seq(Conns \union {ExitMagic})
    <3>1. chain[i] \in ChainType
      BY <2>1 DEF Types
    <3>2. chain[i].ref \in Nat
      BY <2>1, FiniteHolders DEF RefsExact
    <3> QED BY <3>1, <3>2 DEF ChainType
  <2>3. \A a \in Actors : job[a].at \in {"none", "idle", "push", "lock", "walk", "call"}
    BY <2>1 DEF Types, JobType
  <2>4. DispatchTypeOK
    BY <2>1, <2>2, <2>3 DEF DispatchTypeOK, Types
  <2> QED BY <1>1, <2>1, <2>4, FreedIsUnused DEF ChainsSound
<1> QED BY <1>1, DispatchInvariant, PTL

(* z_policy_dispatch_accept never runs for an entry that has been taken out *)
(* of its chain.                                                            *)
THEOREM NoCallbackLate == Spec => []NoLateCallback
<1>1. ASSUME DispatchInv PROVE NoLateCallback
  <2> SUFFICES ASSUME NEW a \in Actors, job[a].at = "call"
               PROVE  state[job[a].entry] = "in" /\ Contains(chain[job[a].chain].elements, job[a].entry)
    BY DEF NoLateCallback
  <2>1. JobAt(a) /\ job[a] \in JobType
    BY <1>1 DEF DispatchInv, Types
  <2>2. PICK i \in Chains : i = job[a].chain /\ chain[i] \in ChainType /\ ListAt(i)
    BY <1>1, <2>1 DEF DispatchInv, JobAt, JobType, Types
  <2>3. PICK e \in Entries : e = job[a].entry /\ e \in ToSet(chain[i].elements)
    <3>1. chain[i].elements \in Seq(Entries) /\ job[a].entry \in ToSet(chain[i].elements)
      BY <2>1, <2>2 DEF JobAt, ChainType
    <3> QED BY <3>1 DEF ToSet
  <2>4. Contains(chain[i].elements, e)
    <3>1. chain[i].elements \in Seq(Entries)
      BY <2>2 DEF ChainType
    <3> QED BY <2>3, <3>1 DEF ToSet, Contains
  <2> QED BY <2>2, <2>3, <2>4 DEF ListAt
<1> QED BY <1>1, DispatchInvariant, PTL
-----------------------------------------------------------------------------
(* The table changes where a chain is made or taken down. *)
LEMMA TableSteps ==
    ASSUME [Next]_vars
    PROVE  table' = table \/ \E e \in Entries : NewChain(e) \/ CancelListener(e)
<1>1. ASSUME NEW e \in Entries, Register(e) \/ Unregister(e) \/ CallStep(e)
      PROVE  table' = table \/ NewChain(e) \/ CancelListener(e)
  BY <1>1 DEF CallStep, Register, Unregister, LockTable, RefuseSecond, JoinChain, Insert, UnlockTable, Return,
              RemoveEntry, DestroyData, StopThread, UnrefChain
<1>2. ASSUME NEW i \in Chains, ThreadStep(i) PROVE table' = table
  BY <1>2 DEF ThreadStep, Pop, Exit
<1>3. ASSUME NEW i \in Chains, NEW c \in Conns, Accept(i, c) \/ AcceptDirect(i, c) \/ AcceptFails(i, c)
      PROVE  table' = table
  BY <1>3 DEF Accept, AcceptDirect, AcceptFails
<1>4. ASSUME NEW a \in Actors, DispatchStep(a) PROVE table' = table
  BY <1>4 DEF DispatchStep, LockChain, TakeRelated, CallPolicy, PolicyReturns, Nobody
<1>5. CASE Push
  BY <1>5 DEF Push
<1>6. CASE UNCHANGED vars
  BY <1>6 DEF vars
<1> QED BY <1>1, <1>2, <1>3, <1>4, <1>5, <1>6 DEF Next

(* An address that is bound is given up by nobody but the last entry. *)
LEMMA NoGapStep ==
    ASSUME DispatchInv, [Next]_vars, NEW k \in Keys, table[k] # None, table'[k] # table[k]
    PROVE  chain[table[k]].elements = <<>>
<1>1. Types
  BY DEF DispatchInv
<1>2. PICK e \in Entries : NewChain(e) \/ CancelListener(e)
  BY TableSteps
<1>3. CASE NewChain(e)
  <2>1. PICK bound \in BindListener(e) : bound # Null /\ table' = [table EXCEPT ![bound] = created + 1]
    BY <1>3 DEF NewChain
  <2>2. Found(e) = None /\ addr[e] \in Keys \union {Wildcard}
    BY <1>1, <1>3, DispatchConstants DEF NewChain, Types
  <2>3. table[bound] = None
    BY <2>1, <2>2 DEF BindListener, Found
  <2> QED BY <1>1, <2>1, <2>3 DEF Types
<1>4. CASE CancelListener(e)
  <2>1. pc[e] = "cancel" /\ Holding(e) /\ CallAt(e) /\ state[e] = "out"
    BY <1>4 DEF CancelListener, Holding, Leaving, DispatchInv, CallAt
  <2>2. PICK i \in Chains :
         /\ i = of[e] /\ i \in 1 .. created /\ e \in Holders(i) /\ chain[i] \in ChainType
         /\ ListAt(i) /\ TableAt(i) /\ ThreadAt(i)
         /\ chain[i].ref = Cardinality(Holders(i)) + (IF job[i].at = "none" THEN 0 ELSE 1)
    BY <2>1, Holds
  <2>3. Tabled(i)
    BY <2>1, <2>2 DEF TableAt
  <2>4. chain[i].key = k /\ table[k] = i
    BY <1>1, <1>4, <2>2, <2>3 DEF CancelListener, Tabled, Types
  <2>5. chain[i].elements = <<>>
    <3> SUFFICES ASSUME chain[i].elements # <<>> PROVE FALSE
      OBVIOUS
    <3>1. chain[i].elements \in Seq(Entries)
      BY <2>2 DEF ChainType
    <3>2. Head(chain[i].elements) \in Entries /\ Head(chain[i].elements) \in ToSet(chain[i].elements)
      BY <3>1, HeadTailSet
    <3>3. PICK f \in Entries : f \in ToSet(chain[i].elements)
      BY <3>2
    <3>4. f \in Holders(i) /\ state[f] = "in"
      BY <2>2, <3>3 DEF ListAt, Holders
    <3>5. Holders(i) = {e}
      BY <2>1, <2>2 DEF CallAt
    <3> QED BY <2>1, <3>4, <3>5
  <2> QED BY <2>4, <2>5
<1> QED BY <1>2, <1>3, <1>4

(* The list of a chain has been walked only by who was walking it. *)
LEMMA WalkEnds ==
    ASSUME DispatchInv, [Next]_vars, NEW a \in Actors, job[a].at = "walk", job'[a].at # "walk"
    PROVE  TakeRelated(a) \/ CallPolicy(a) \/ Nobody(a)
<1>1. Types /\ job \in [Actors -> JobType]
  BY DEF DispatchInv, Types
<1>2. ASSUME NEW e \in Entries, Register(e) \/ Unregister(e) \/ CallStep(e) PROVE FALSE
  <2>1. CASE NewChain(e)
    <3>1. created + 1 \in Chains /\ created + 1 > created
      BY <1>1, <2>1, DispatchConstants DEF NewChain, Types, Chains
    <3>2. job[created + 1].at = "none"
      BY <3>1 DEF DispatchInv, TableAt, ThreadAt, NoChain
    <3>3. a # created + 1
      BY <3>2
    <3>4. job'[a] = job[a]
      BY <1>1, <2>1, <3>3 DEF NewChain
    <3> QED BY <3>4
  <2>2. CASE ~NewChain(e)
    <3>1. job' = job
      BY <1>2, <2>2 DEF CallStep, Register, Unregister, LockTable, RefuseSecond, JoinChain, Insert, UnlockTable,
                        Return, RemoveEntry, DestroyData, StopThread, CancelListener, UnrefChain
    <3> QED BY <3>1
  <2> QED BY <2>1, <2>2
<1>3. ASSUME NEW i \in Chains, ThreadStep(i) PROVE FALSE
  <2>1. job[i].at = "idle" /\ a # i
    BY <1>3 DEF ThreadStep, Pop, Exit
  <2>2. job'[a] = job[a]
    BY <1>1, <1>3, <2>1 DEF ThreadStep, Pop, Exit, Serve
  <2> QED BY <2>2
<1>4. ASSUME NEW i \in Chains, NEW c \in Conns, Accept(i, c) \/ AcceptDirect(i, c) \/ AcceptFails(i, c)
      PROVE  FALSE
  <2>1. a # Main
    BY <1>4 DEF Accept, AcceptDirect, AcceptFails, MainFree
  <2>2. job'[a] = job[a]
    BY <1>1, <1>4, <2>1 DEF Accept, AcceptDirect, AcceptFails, Serve
  <2> QED BY <2>2
<1>5. CASE Push
  <2>1. a # Main
    BY <1>5 DEF Push
  <2>2. job'[a] = job[a]
    BY <1>1, <1>5, <2>1 DEF Push
  <2> QED BY <2>2
<1>6. ASSUME NEW b \in Actors, DispatchStep(b) PROVE TakeRelated(a) \/ CallPolicy(a) \/ Nobody(a)
  <2>1. CASE b # a
    <3>1. job'[a] = job[a]
      BY <1>1, <1>6, <2>1 DEF DispatchStep, LockChain, TakeRelated, CallPolicy, PolicyReturns, Nobody, Dispatched
    <3> QED BY <3>1
  <2>2. CASE b = a
    BY <1>6, <2>2 DEF DispatchStep, LockChain, PolicyReturns
  <2> QED BY <2>1, <2>2
<1>7. CASE UNCHANGED vars
  BY <1>7 DEF vars
<1> QED BY <1>2, <1>3, <1>4, <1>5, <1>6, <1>7 DEF Next

(* The entry that takes a connection is the best of those that would. *)
LEMMA TakerIsBest ==
    ASSUME DispatchInv, NEW i \in Chains, NEW t \in Entries, Taker(i, t),
           NEW e \in ToSet(chain[i].elements), Willing(e)
    PROVE  Prio[t] <= Prio[e]
<1>1. chain[i].elements \in Seq(Entries) /\ ListAt(i)
  BY DEF DispatchInv, Types, ChainType
<1> DEFINE s == chain[i].elements
<1>2. PICK n \in 1 .. Len(s) : s[n] = t /\ \A m \in 1 .. n - 1 : ~Willing(s[m])
  BY DEF Taker
<1>3. PICK m \in 1 .. Len(s) : s[m] = e
  BY <1>1 DEF ToSet
<1>4. n <= m
  <2>1. m \notin 1 .. n - 1
    BY <1>2, <1>3
  <2> QED BY <1>1, <2>1
<1> QED BY <1>1, <1>2, <1>3, <1>4 DEF ListAt

(* A connection goes to the best entry. *)
LEMMA PriorityStep ==
    ASSUME DispatchInv, [Next]_vars, NEW a \in Actors, job[a].at = "walk", job'[a].at # "walk",
           NEW e \in ToSet(chain[job[a].chain].elements), Willing(e)
    PROVE  /\ job'[a].at = "call" => Prio[job'[a].entry] <= Prio[e]
           /\ \A c \in Conns : conn'[c] # conn[c] /\ conn'[c] \in Related => Prio[conn'[c]] <= Prio[e]
<1>1. job \in [Actors -> JobType] /\ JobAt(a) /\ job[a] \in JobType
  BY DEF DispatchInv, Types
<1>2. PICK i \in Chains : i = job[a].chain
  BY <1>1 DEF JobAt, JobType
<1>3. CASE TakeRelated(a)
  <2>1. PICK t \in Related : Taker(i, t) /\ Dispatched(a, t)
    BY <1>2, <1>3 DEF TakeRelated
  <2>2. Prio[t] <= Prio[e]
    BY <1>2, <2>1, TakerIsBest DEF Entries
  <2>3. job'[a].at = "idle"
    BY <1>1, <2>1 DEF Dispatched, Idle
  <2>4. \A c \in Conns : conn'[c] # conn[c] => conn'[c] = t
    BY <2>1 DEF Dispatched
  <2> QED BY <2>2, <2>3, <2>4
<1>4. CASE CallPolicy(a)
  <2>1. PICK t \in Listeners : Taker(i, t) /\ job' = [job EXCEPT ![a].at = "call", ![a].entry = t]
    BY <1>2, <1>4 DEF CallPolicy
  <2>2. Prio[t] <= Prio[e]
    BY <1>2, <2>1, TakerIsBest DEF Entries
  <2>3. job'[a].entry = t
    BY <1>1, <2>1 DEF JobType
  <2>4. conn' = conn
    BY <1>4 DEF CallPolicy
  <2> QED BY <2>2, <2>3, <2>4
<1>5. CASE Nobody(a)
  <2>1. job'[a].at = "idle"
    BY <1>1, <1>5 DEF Nobody, Dispatched, Idle
  <2>2. \A c \in Conns : conn'[c] # conn[c] => conn'[c] = "destroyed"
    BY <1>5 DEF Nobody, Dispatched
  <2>3. "destroyed" \notin Related
    BY DispatchConstants DEF Entries
  <2> QED BY <2>1, <2>2, <2>3
<1> QED BY <1>3, <1>4, <1>5, WalkEnds

(* A hand-over between policies: the address stays bound until its last     *)
(* entry is gone, and a connection goes to the entry with the best priority *)
(* at every step of it.                                                     *)
THEOREM HandOverHolds == Spec => HandOver
<1>1. ASSUME DispatchInv, [Next]_vars
      PROVE  [\A k \in Keys : table[k] # None /\ table'[k] # table[k] => chain[table[k]].elements = <<>>]_vars
  BY <1>1, NoGapStep
<1>2. ASSUME DispatchInv, [Next]_vars
      PROVE  [\A a \in Actors : job[a].at = "walk" /\ job'[a].at # "walk" =>
                 \A e \in ToSet(chain[job[a].chain].elements) : Willing(e) =>
                    /\ job'[a].at = "call" => Prio[job'[a].entry] <= Prio[e]
                    /\ \A c \in Conns : conn'[c] # conn[c] /\ conn'[c] \in Related =>
                                            Prio[conn'[c]] <= Prio[e]]_vars
  BY <1>2, PriorityStep
<1>3. Spec => NoGap
  BY <1>1, DispatchInvariant, PTL DEF Spec, NoGap
<1>4. Spec => PriorityRespected
  BY <1>2, DispatchInvariant, PTL DEF Spec, PriorityRespected
<1> QED BY <1>3, <1>4 DEF HandOver
=============================================================================
