------------------------------ MODULE Dispatch ------------------------------
(****************************************************************************)
(* The dispatcher (lib/dispatch.cc): chains of entries that wait for        *)
(* connections on an address.  Entries are registered by the policy         *)
(* (lib/pydispatch.cc, always in the main thread) or by a proxy for a       *)
(* related connection (modules/ftp/ftp.cc, in the proxy's thread); the main *)
(* thread accepts connections and, for a threaded chain, hands them to the  *)
(* chain's own thread.                                                      *)
(*                                                                          *)
(* Four locks are involved: dispatch_lock, the lock of each chain, the lock *)
(* of its listener (held while the listener calls back, and needed to       *)
(* cancel it) and the interpreter lock of the policy.                       *)
(****************************************************************************)
EXTENDS Integers, Sequences, FiniteSets, SequencesExt

CONSTANTS
    Listeners,   \* entries of the policy
    Related,     \* entries of proxies
    Keys,        \* addresses
    Layouts,     \* the addresses the entries may ask for, or Wildcard for any free port
    Wildcard,
    Prio,        \* per entry: its priority, the smallest comes first
    Threaded,    \* entries that ask for a threaded chain
    AcceptOne,   \* entries that ask for a single connection
    Transparent, \* entries that refuse connections made directly to them
    Conns,       \* the connections that ever arrive
    MaxChains,   \* bound: chains ever created
    Faults       \* see DispatchFaults

Entries == Listeners \union Related
ExitMagic == "exit"
Null == "null"                  \* no address, entry or connection
DispatchFaults == {"thread_fails", "bind_fails", "accept_fails"}

ASSUME DispatchConstants ==
    /\ IsFiniteSet(Entries) /\ Listeners \intersect Related = {}
    /\ Null \notin Entries \union Keys \union Conns /\ ExitMagic \notin Conns
    /\ Entries \intersect {"new", "accepted", "queued", "destroyed"} = {}
    /\ Wildcard \notin Keys /\ Layouts \subseteq [Entries -> Keys \union {Wildcard}]
    /\ Prio \in [Entries -> Int] /\ MaxChains \in Nat \ {0}
    /\ Threaded \subseteq Entries /\ AcceptOne \subseteq Entries
    /\ Transparent \subseteq Entries /\ Faults \subseteq DispatchFaults

Chains == 1 .. MaxChains
None == 0                       \* no chain
Main == 0                       \* the main thread; chain i's thread is actor i
Actors == {Main} \union Chains

VARIABLES
    addr,      \* per entry: the address it asks for, one of Layouts
    table,     \* dispatch_table: the chain of each address
    created,   \* the number of chains created so far
    chain,     \* per chain: the fields of ZDispatchChain
    chainLock, \* per chain: its lock is held
    lock,      \* dispatch_lock is held
    gil,       \* the interpreter lock is held
    pc,        \* per entry: where its register or unregister call is
    of,        \* per entry: the chain it was registered in
    state,     \* per entry: "new", "in", "out" or "failed"
    busy,      \* per entry of a proxy: it has its data stream, or was cancelled
    job,       \* per actor: the connection it is dispatching
    conn       \* per connection: where it is, or the entry that took it

vars == <<addr, table, created, chain, chainLock, lock, gil, pc, of, state, busy, job, conn>>

Idle == [at |-> "idle", chain |-> None, conn |-> Null, entry |-> Null]
NoThread == [Idle EXCEPT !.at = "none"]

NoChain == [key |-> Null, maker |-> Null, ref |-> 0, threaded |-> FALSE, queue |-> <<>>,
            elements |-> <<>>, listening |-> FALSE]

Init ==
    /\ addr \in Layouts
    /\ table = [k \in Keys |-> None] /\ created = 0
    /\ chain = [i \in Chains |-> NoChain]
    /\ chainLock = [i \in Chains |-> FALSE]
    /\ lock = FALSE /\ gil = FALSE
    /\ pc = [e \in Entries |-> "idle"]
    /\ of = [e \in Entries |-> None]
    /\ state = [e \in Entries |-> "new"]
    /\ busy = [e \in Related |-> FALSE]
    /\ job = [a \in Actors |-> IF a = Main THEN Idle ELSE NoThread]
    /\ conn = [c \in Conns |-> "new"]

Set(i, field, value) == chain' = [chain EXCEPT ![i] = [@ EXCEPT ![field] = value]]
Goto(e, at) == pc' = [pc EXCEPT ![e] = at]

(* The policy registers and accepts in one thread. *)
MainFree == job[Main].at = "idle" /\ \A e \in Listeners : pc[e] = "idle"

(****************************************************************************)
(* z_dispatch_register.                                                     *)
(****************************************************************************)
(* z_policy_dispatch_new_instance gives the interpreter lock up. *)
Register(e) ==
    /\ pc[e] = "idle" /\ state[e] = "new"
    /\ e \in Listeners => MainFree
    /\ Goto(e, "register")
    /\ UNCHANGED <<addr, table, created, chain, chainLock, lock, gil, of, state, busy, job, conn>>

LockTable(e) ==
    /\ pc[e] \in {"register", "unregister"} /\ ~lock
    /\ lock' = TRUE
    /\ Goto(e, IF pc[e] = "register" THEN "lookup" ELSE "remove")
    /\ UNCHANGED <<addr, table, created, chain, chainLock, gil, of, state, busy, job, conn>>

Found(e) == IF addr[e] = Wildcard THEN None ELSE table[addr[e]]

(* An address whose chain takes a single connection cannot be shared. *)
RefuseSecond(e) ==
    /\ pc[e] = "lookup" /\ Found(e) # None
    /\ chain[Found(e)].maker \in AcceptOne
    /\ state' = [state EXCEPT ![e] = "failed"]
    /\ Goto(e, "unlock")
    /\ UNCHANGED <<addr, table, created, chain, chainLock, lock, gil, of, busy, job, conn>>

(* Mutant of JoinChain: the chain is not referenced. *)
JoinChainNoRef(e) ==
    /\ pc[e] = "lookup" /\ Found(e) # None
    /\ chain[Found(e)].maker \notin AcceptOne
    /\ ~chainLock[Found(e)]
    /\ of' = [of EXCEPT ![e] = Found(e)]
    /\ Goto(e, "insert")
    /\ UNCHANGED <<addr, table, created, chain, chainLock, lock, gil, state, busy, job, conn>>

(* z_dispatch_chain_ref waits for the lock of the chain. *)
JoinChain(e) ==
    /\ pc[e] = "lookup" /\ Found(e) # None
    /\ chain[Found(e)].maker \notin AcceptOne
    /\ ~chainLock[Found(e)]
    /\ Set(Found(e), "ref", chain[Found(e)].ref + 1)
    /\ of' = [of EXCEPT ![e] = Found(e)]
    /\ Goto(e, "insert")
    /\ UNCHANGED <<addr, table, created, chainLock, lock, gil, state, busy, job, conn>>

(* z_dispatch_chain_new: whether the chain gets a thread.  It falls back to *)
(* non-threaded mode when there is none to be had.                          *)
ChainThread(e) ==
    (IF e \in Threaded THEN {TRUE} ELSE {FALSE}) \union
    (IF "thread_fails" \in Faults THEN {FALSE} ELSE {})

(* z_dispatch_bind_listener: the address that is really bound, or Null. *)
BindListener(e) ==
    (IF addr[e] = Wildcard THEN {k \in Keys : table[k] = None} ELSE {addr[e]}) \union
    (IF "bind_fails" \in Faults THEN {Null} ELSE {})

(* A new chain is stored under the address that was really bound. *)
NewChain(e) ==
    LET i == created + 1
    IN /\ pc[e] = "lookup" /\ Found(e) = None /\ created < MaxChains
       /\ created' = i
       /\ \E threaded \in ChainThread(e), bound \in BindListener(e) :
             /\ job' = [job EXCEPT ![i] = IF threaded THEN Idle ELSE NoThread]
             /\ chain' = [chain EXCEPT ![i] =
                   [NoChain EXCEPT !.key = bound, !.maker = e, !.threaded = threaded,
                                   !.ref = (IF threaded THEN 1 ELSE 0) + (IF bound = Null THEN 0 ELSE 1),
                                   !.listening = bound # Null]]
             /\ IF bound = Null
                  THEN /\ state' = [state EXCEPT ![e] = "failed"]
                       /\ Goto(e, "unlock")
                       /\ UNCHANGED <<table, of>>
                  ELSE /\ table' = [table EXCEPT ![bound] = i]
                       /\ of' = [of EXCEPT ![e] = i]
                       /\ Goto(e, "insert")
                       /\ UNCHANGED state
       /\ UNCHANGED <<addr, chainLock, lock, gil, busy, conn>>

(* g_list_insert_sorted puts an entry before the first one whose priority   *)
(* is not better.                                                           *)
Insert(e) ==
    LET elements == chain[of[e]].elements
    IN /\ pc[e] = "insert" /\ ~chainLock[of[e]]
       /\ \E n \in 1 .. Len(elements) + 1 :
             /\ \A m \in 1 .. n - 1 : Prio[elements[m]] < Prio[e]
             /\ n <= Len(elements) => Prio[elements[n]] >= Prio[e]
             /\ Set(of[e], "elements", InsertAt(elements, n, e))
       /\ state' = [state EXCEPT ![e] = "in"]
       /\ Goto(e, "unlock")
       /\ UNCHANGED <<addr, table, created, chainLock, lock, gil, of, busy, job, conn>>

UnlockTable(e) ==
    /\ pc[e] = "unlock"
    /\ lock' = FALSE
    /\ Goto(e, "return")
    /\ UNCHANGED <<addr, table, created, chain, chainLock, gil, of, state, busy, job, conn>>

(* The policy takes the interpreter lock again. *)
Return(e) ==
    /\ pc[e] = "return"
    /\ e \in Listeners => ~gil
    /\ Goto(e, "idle")
    /\ UNCHANGED <<addr, table, created, chain, chainLock, lock, gil, of, state, busy, job, conn>>

(****************************************************************************)
(* z_dispatch_unregister.                                                   *)
(****************************************************************************)
Unregister(e) ==
    /\ pc[e] = "idle" /\ state[e] = "in"
    /\ e \in Listeners => MainFree
    /\ Goto(e, "unregister")
    /\ UNCHANGED <<addr, table, created, chain, chainLock, lock, gil, of, state, busy, job, conn>>

(* Mutant of RemoveEntry: a running callback is not waited for. *)
RemoveEntryAtOnce(e) ==
    /\ pc[e] = "remove"
    /\ chainLock' = [chainLock EXCEPT ![of[e]] = TRUE]
    /\ Set(of[e], "elements", RemoveFirst(chain[of[e]].elements, e))
    /\ state' = [state EXCEPT ![e] = "out"]
    /\ Goto(e, "destroy")
    /\ UNCHANGED <<addr, table, created, lock, gil, of, busy, job, conn>>

(* Under the lock of the chain, up to z_dispatch_entry_free... *)
RemoveEntry(e) ==
    /\ pc[e] = "remove" /\ ~chainLock[of[e]]
    /\ chainLock' = [chainLock EXCEPT ![of[e]] = TRUE]
    /\ Set(of[e], "elements", RemoveFirst(chain[of[e]].elements, e))
    /\ state' = [state EXCEPT ![e] = "out"]
    /\ Goto(e, "destroy")
    /\ UNCHANGED <<addr, table, created, lock, gil, of, busy, job, conn>>

(* Mutant of LastOne: the thread's reference is taken for granted. *)
LastOneThreaded(i) == chain[i].ref <= 2

LastOne(i) == chain[i].ref = 1 + (IF chain[i].threaded THEN 1 ELSE 0)

(* Mutant of DestroyData: the lock of the chain is still held when the      *)
(* listener is about to be cancelled.                                       *)
DestroyDataKeepsLock(e) ==
    /\ pc[e] = "destroy"
    /\ e \in Listeners => ~gil
    /\ chainLock' = [chainLock EXCEPT ![of[e]] =
                        LastOne(of[e]) /\ job[Main].chain = of[e]]
    /\ Goto(e, IF LastOne(of[e]) THEN "exit" ELSE "unref")
    /\ UNCHANGED <<addr, table, created, chain, lock, gil, of, state, busy, job, conn>>

(* ... which calls z_policy_dispatch_destroy_notify, to the decision on     *)
(* unbind.                                                                  *)
DestroyData(e) ==
    /\ pc[e] = "destroy"
    /\ e \in Listeners => ~gil
    /\ chainLock' = [chainLock EXCEPT ![of[e]] = FALSE]
    /\ Goto(e, IF LastOne(of[e]) THEN "exit" ELSE "unref")
    /\ UNCHANGED <<addr, table, created, chain, lock, gil, of, state, busy, job, conn>>

(* Mutant of StopThread: the thread of the chain is not told. *)
StopThreadForgotten(e) ==
    /\ pc[e] = "exit"
    /\ Goto(e, "cancel")
    /\ UNCHANGED <<addr, table, created, chain, chainLock, lock, gil, of, state, busy, job, conn>>

(* z_dispatch_unbind_listener: first the thread of the chain is told... *)
StopThread(e) ==
    /\ pc[e] = "exit"
    /\ Set(of[e], "queue", IF chain[of[e]].threaded THEN Append(chain[of[e]].queue, ExitMagic)
                                                    ELSE chain[of[e]].queue)
    /\ Goto(e, "cancel")
    /\ UNCHANGED <<addr, table, created, chainLock, lock, gil, of, state, busy, job, conn>>

(* ... then the listener is cancelled, once it is not calling back, and the *)
(* chain leaves the table.                                                  *)
CancelListener(e) ==
    /\ pc[e] = "cancel"
    /\ job[Main].chain # of[e]
    /\ Set(of[e], "listening", FALSE)
    /\ table' = [table EXCEPT ![chain[of[e]].key] = None]
    /\ Goto(e, "unref")
    /\ UNCHANGED <<addr, created, chainLock, lock, gil, of, state, busy, job, conn>>

UnrefChain(e) ==
    /\ pc[e] = "unref" /\ ~chainLock[of[e]]
    /\ Set(of[e], "ref", chain[of[e]].ref - 1)
    /\ Goto(e, "unlock")
    /\ UNCHANGED <<addr, table, created, chainLock, lock, gil, of, state, busy, job, conn>>

(****************************************************************************)
(* z_dispatch_accept, called by the listener in the main thread.            *)
(****************************************************************************)
Serve(a, at, i, c) == job' = [job EXCEPT ![a] = [Idle EXCEPT !.at = at, !.chain = i, !.conn = c]]

(* A listener that accepts one connection stops listening. *)
Accepted(i) == Set(i, "listening", chain[i].maker \notin AcceptOne)

Accept(i, c) ==
    /\ chain[i].listening /\ MainFree /\ conn[c] = "new"
    /\ Accepted(i)
    /\ Serve(Main, IF chain[i].threaded THEN "push" ELSE "lock", i, c)
    /\ conn' = [conn EXCEPT ![c] = "accepted"]
    /\ UNCHANGED <<addr, table, created, chainLock, lock, gil, pc, of, state, busy>>

(* "Transparent listener connected directly, dropping connection". *)
AcceptDirect(i, c) ==
    /\ chain[i].listening /\ MainFree /\ conn[c] = "new"
    /\ chain[i].maker \in Transparent
    /\ Accepted(i)
    /\ conn' = [conn EXCEPT ![c] = "destroyed"]
    /\ UNCHANGED <<addr, table, created, chainLock, lock, gil, pc, of, state, busy, job>>

(* Mutant of AcceptFails: a threaded chain is handed the NULL connection. *)
AcceptFailsQueued(i, c) ==
    /\ "accept_fails" \in Faults
    /\ chain[i].listening /\ MainFree /\ conn[c] = "new"
    /\ Serve(Main, IF chain[i].threaded THEN "push" ELSE "lock", i, Null)
    /\ conn' = [conn EXCEPT ![c] = "destroyed"]
    /\ UNCHANGED <<addr, table, created, chain, chainLock, lock, gil, pc, of, state, busy>>

(* A failed accept is dispatched as a NULL connection, in the main thread   *)
(* even when the chain is threaded; it uses one of Conns up.                *)
AcceptFails(i, c) ==
    /\ "accept_fails" \in Faults
    /\ chain[i].listening /\ MainFree /\ conn[c] = "new"
    /\ Serve(Main, "lock", i, Null)
    /\ conn' = [conn EXCEPT ![c] = "destroyed"]
    /\ UNCHANGED <<addr, table, created, chain, chainLock, lock, gil, pc, of, state, busy>>

Push ==
    /\ job[Main].at = "push"
    /\ Set(job[Main].chain, "queue", Append(chain[job[Main].chain].queue, job[Main].conn))
    /\ conn' = [conn EXCEPT ![job[Main].conn] = "queued"]
    /\ job' = [job EXCEPT ![Main] = Idle]
    /\ UNCHANGED <<addr, table, created, chainLock, lock, gil, pc, of, state, busy>>

(****************************************************************************)
(* z_dispatch_chain_thread.                                                 *)
(****************************************************************************)
Pop(i) ==
    LET queue == chain[i].queue
    IN /\ job[i].at = "idle" /\ queue # <<>> /\ Head(queue) # ExitMagic
       /\ Set(i, "queue", Tail(queue))
       /\ Serve(i, "lock", i, Head(queue))
       /\ UNCHANGED <<addr, table, created, chainLock, lock, gil, pc, of, state, busy, conn>>

(* The thread drops its reference. *)
Exit(i) ==
    LET queue == chain[i].queue
    IN /\ job[i].at = "idle" /\ queue # <<>> /\ Head(queue) = ExitMagic
       /\ ~chainLock[i]
       /\ chain' = [chain EXCEPT ![i].queue = Tail(queue), ![i].ref = @ - 1]
       /\ job' = [job EXCEPT ![i] = NoThread]
       /\ UNCHANGED <<addr, table, created, chainLock, lock, gil, pc, of, state, busy, conn>>

(****************************************************************************)
(* z_dispatch_connection, by the main thread or the thread of the chain.    *)
(****************************************************************************)
LockChain(a) ==
    /\ job[a].at = "lock" /\ ~chainLock[job[a].chain]
    /\ chainLock' = [chainLock EXCEPT ![job[a].chain] = TRUE]
    /\ job' = [job EXCEPT ![a].at = "walk"]
    /\ UNCHANGED <<addr, table, created, chain, lock, gil, pc, of, state, busy, conn>>

(* The callbacks that return TRUE: ftp_data_client_accepted and             *)
(* ftp_data_server_accepted refuse a connection they do not wait for.       *)
Willing(e) == e \in Related => ~busy[e]

(* The list is walked up to the first entry whose callback returns TRUE. *)
Taker(i, e) ==
    LET elements == chain[i].elements
    IN \E n \in 1 .. Len(elements) :
          elements[n] = e /\ Willing(e) /\ \A m \in 1 .. n - 1 : ~Willing(elements[m])

(* The end of z_dispatch_connection for the connection of actor a. *)
Dispatched(a, where) ==
    /\ job' = [job EXCEPT ![a] = Idle]
    /\ chainLock' = [chainLock EXCEPT ![job[a].chain] = FALSE]
    /\ conn' = [c \in Conns |-> IF c = job[a].conn THEN where ELSE conn[c]]

(* A proxy stores its data stream, or is cancelled by a NULL connection. *)
TakeRelated(a) ==
    /\ job[a].at = "walk"
    /\ \E e \in Related : /\ Taker(job[a].chain, e)
                          /\ busy' = [busy EXCEPT ![e] = TRUE]
                          /\ Dispatched(a, e)
    /\ UNCHANGED <<addr, table, created, chain, lock, gil, pc, of, state>>

(* z_policy_dispatch_accept runs the policy... *)
CallPolicy(a) ==
    /\ job[a].at = "walk" /\ ~gil
    /\ gil' = TRUE
    /\ \E e \in Listeners : /\ Taker(job[a].chain, e)
                            /\ job' = [job EXCEPT ![a].at = "call", ![a].entry = e]
    /\ UNCHANGED <<addr, table, created, chain, chainLock, lock, pc, of, state, busy, conn>>

(* ... and returns TRUE, whether the policy starts a session or denies it. *)
PolicyReturns(a) ==
    /\ job[a].at = "call"
    /\ gil' = FALSE
    /\ Dispatched(a, job[a].entry)
    /\ UNCHANGED <<addr, table, created, chain, lock, pc, of, state, busy>>

(* "Nobody was interested in this connection". *)
Nobody(a) ==
    /\ job[a].at = "walk" /\ \A e \in Entries : ~Taker(job[a].chain, e)
    /\ Dispatched(a, "destroyed")
    /\ UNCHANGED <<addr, table, created, chain, lock, gil, pc, of, state, busy>>

CallStep(e) ==
    \/ LockTable(e) \/ RefuseSecond(e) \/ JoinChain(e) \/ NewChain(e) \/ Insert(e)
    \/ UnlockTable(e) \/ Return(e) \/ RemoveEntry(e) \/ DestroyData(e) \/ StopThread(e)
    \/ CancelListener(e) \/ UnrefChain(e)

DispatchStep(a) ==
    LockChain(a) \/ TakeRelated(a) \/ CallPolicy(a) \/ PolicyReturns(a) \/ Nobody(a)

ThreadStep(i) == Pop(i) \/ Exit(i)

Next ==
    \/ \E e \in Entries : Register(e) \/ Unregister(e) \/ CallStep(e)
    \/ \E i \in Chains : \/ ThreadStep(i)
                         \/ \E c \in Conns : Accept(i, c) \/ AcceptDirect(i, c) \/ AcceptFails(i, c)
    \/ Push
    \/ \E a \in Actors : DispatchStep(a)

Spec == Init /\ [][Next]_vars

(****************************************************************************)
(* Every thread keeps running, and policy callbacks return.  Connections    *)
(* are finite, so nobody is kept from a lock for ever.                      *)
(****************************************************************************)
FairSpec ==
    /\ Spec
    /\ \A e \in Entries : WF_vars(CallStep(e))
    /\ \A a \in Actors : WF_vars(DispatchStep(a))
    /\ \A i \in Chains : WF_vars(ThreadStep(i))
    /\ WF_vars(Push)

(* Every entry is unregistered in the end, as z_policy_deinit and            *)
(* ftp_data_reset do.                                                       *)
ClosingSpec == FairSpec /\ \A e \in Entries : SF_vars(Unregister(e))

-----------------------------------------------------------------------------
(* Type invariant. *)
DispatchTypeOK ==
    /\ table \in [Keys -> 0 .. created] /\ created \in 0 .. MaxChains
    /\ \A i \in Chains :
          /\ chain[i].key \in Keys \union {Null} /\ chain[i].maker \in Entries \union {Null}
          /\ chain[i].ref \in Nat /\ chain[i].threaded \in BOOLEAN
          /\ chain[i].listening \in BOOLEAN /\ chain[i].elements \in Seq(Entries)
          /\ chain[i].queue \in Seq(Conns \union {ExitMagic})
    /\ chainLock \in [Chains -> BOOLEAN] /\ lock \in BOOLEAN /\ gil \in BOOLEAN
    /\ pc \in [Entries -> {"idle", "register", "lookup", "insert", "unlock", "return",
                           "unregister", "remove", "destroy", "exit", "cancel", "unref"}]
    /\ of \in [Entries -> 0 .. created]
    /\ state \in [Entries -> {"new", "in", "out", "failed"}]
    /\ busy \in [Related -> BOOLEAN]
    /\ \A a \in Actors : job[a].at \in {"none", "idle", "push", "lock", "walk", "call"}
    /\ conn \in [Conns -> {"new", "accepted", "queued", "destroyed"} \union Entries]

(* What still refers to chain i: entries that joined it and have not let go *)
(* of it, and its thread.                                                   *)
Holders(i) == {e \in Entries : of[e] = i /\ (pc[e] \in {"insert", "destroy", "exit", "cancel",
                                                        "unref"} \/ state[e] = "in")}

(* The reference count that decides on unbinding and freeing is exact: the  *)
(* comparison with "1 + threaded" in z_dispatch_unregister asks the right   *)
(* question at any moment of the other calls.                               *)
RefsExact ==
    \A i \in Chains : chain[i].ref = Cardinality(Holders(i)) +
                                     (IF job[i].at = "none" THEN 0 ELSE 1)

(* "this interface registration is always deleted before this ZDispatchChain *)
(* instance would be": a chain that is freed has no listener, no place in   *)
(* the table, and nobody is dispatching a connection on it.                 *)
FreedUnused ==
    \A i \in Chains : chain[i].ref = 0 =>
        /\ ~chain[i].listening /\ chain[i].elements = <<>> /\ ~chainLock[i]
        /\ \A k \in Keys : table[k] # i
        /\ \A a \in Actors : job[a].chain # i

(* Chains keep their type and exact reference counts, and a freed one is     *)
(* unused.                                                                   *)
ChainsSound == DispatchTypeOK /\ RefsExact /\ FreedUnused

(* The policy's callback never runs for an entry that has been freed. *)
NoLateCallback ==
    \A a \in Actors : job[a].at = "call" =>
        state[job[a].entry] = "in" /\ Contains(chain[job[a].chain].elements, job[a].entry)

(* "the list is ordered by priority": a connection goes to an entry only    *)
(* when no willing entry of the chain has a better priority.                *)
PriorityRespected ==
    [][\A a \in Actors : job[a].at = "walk" /\ job'[a].at # "walk" =>
          \A e \in ToSet(chain[job[a].chain].elements) : Willing(e) =>
             /\ job'[a].at = "call" => Prio[job'[a].entry] <= Prio[e]
             /\ \A c \in Conns : conn'[c] # conn[c] /\ conn'[c] \in Related =>
                                     Prio[conn'[c]] <= Prio[e]]_vars

(* An address stops listening only when its last entry is gone: a policy    *)
(* reload, which registers before it unregisters, leaves no gap.            *)
NoGap ==
    [][\A k \in Keys : table[k] # None /\ table'[k] # table[k] =>
          chain[table[k]].elements = <<>>]_vars

(* A hand-over between policies: the address stays bound and connections go  *)
(* to the entry with the best priority at every step of it.                  *)
HandOver == NoGap /\ PriorityRespected

(* Every call returns: the locks are never waited for in a circle.          *)
CallsReturn == \A e \in Entries : pc[e] # "idle" ~> pc[e] = "idle"

(* An accepted connection is taken by an entry or destroyed, if threaded    *)
(* chains are left to the policy: the exit message of a chain that another  *)
(* thread takes down may overtake a connection the main thread accepted.    *)
ConnectionsSettled ==
    [](\A e \in Related : of[e] # None => ~chain[of[e]].threaded) =>
        \A c \in Conns : conn[c] \in {"accepted", "queued"} ~>
                             conn[c] \in Entries \union {"destroyed"}

(* Nobody waits for ever: neither who registers or unregisters, nor a        *)
(* connection.                                                               *)
DispatchSettles == CallsReturn /\ ConnectionsSettled

(* Once its entries are gone, the thread of a chain ends and nothing refers *)
(* to the chain any longer, if every address could be bound: a threaded     *)
(* chain whose bind fails keeps its thread.                                 *)
ChainsFreed ==
    [](\A i \in Chains : chain[i].maker # Null => chain[i].key # Null \/ ~chain[i].threaded) =>
        <>[](\A i \in Chains : chain[i].ref = 0 /\ job[i].at = "none")
=============================================================================
