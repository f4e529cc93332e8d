-------------------------- MODULE ProxyGroupProofs --------------------------
(****************************************************************************)
(* ZProxyGroup, proved for every set of sessions, any number of groups and  *)
(* every service: its limits, its dispatcher threads and what may fail.     *)
(****************************************************************************)
EXTENDS ProxyGroup, ListLemmas, FiniteSetTheorems, TLAPS

(* The sessions in the start queue and in the list of a group. *)
Queued(g) == ToSet(queue[g])
Listed(g) == ToSet(list[g])

(* The lists of the groups.  A session that waits is in one start queue, a  *)
(* session that runs is in the list of its group, and the loop over a list  *)
(* visits sessions that are still in it.                                    *)
GroupLists ==
    /\ \A g \in Groups : NoDup(queue[g]) /\ NoDup(list[g]) /\ NoDup(walk[g])
    /\ \A g \in Groups : gpc[g] = "walk" => ToSet(walk[g]) \subseteq Listed(g)
    /\ \A g \in Groups : \A p \in Queued(g) : life[p] = "queued" /\ \A h \in Groups : p \in Queued(h) => h = g
    /\ \A g \in Groups : \A p \in Listed(g) : life[p] = "running" /\ group[p] = g
    /\ \A p \in Proxies : life[p] = "running" => group[p] \in Groups /\ p \in Listed(group[p])

(* The thread that starts a session, against where the session is. *)
Beginning == {"instance", "lookup", "count", "thread", "push", "spawn", "refused"}

StarterAt(p) ==
    /\ spc[p] \in Beginning <=> life[p] = "starting"
    /\ spc[p] = "wake" => life[p] \in {"queued", "running", "stopped", "freed"}
    /\ target[p] # None <=> spc[p] \in {"count", "thread", "push", "wake", "spawn"}
    /\ spc[p] \in {"thread", "push"} => ~kind.blocking
    /\ spc[p] = "spawn" => kind.blocking
    /\ life[p] = "new" \/ spc[p] = "instance" => tries[p] = 0
    /\ spc[p] = "lookup" => tries[p] <= 1
    /\ spc[p] \in {"count", "thread", "push", "spawn", "refused"} \/ life[p] \in {"queued", "running", "own"} => tries[p] >= 1

(* Where the policy thread of a session may be gone. *)
ThreadAt(p) ==
    /\ tries[p] = 0 \/ life[p] \in {"queued", "running"} => thread[p]
    /\ life[p] = "starting" /\ ~thread[p] => kind.blocking /\ (spc[p] \in {"count", "spawn"} => tries[p] = 2)
    /\ life[p] = "own" /\ ~thread[p] => kind.blocking /\ tries[p] = 2
    /\ shaking[p] => "handshake" \in kind.faults /\ (life[p] = "running" \/ (~thread[p] /\ stopReq[p]))

(* What sessions counts: those that are served, and those whose starter is  *)
(* on its way to the queue.  A start that fails leaves its count behind.    *)
Counted(g) == Served(g) \union {p \in Proxies : spc[p] \in {"thread", "push"} /\ target[p] = g}
Counts == \A g \in Groups : Cardinality(Counted(g)) <= sessions[g] /\ sessions[g] <= kind.max_sessions

(* What the counter of the service counts. *)
Instances ==
    {p \in Proxies : life[p] \in {"starting", "queued", "running", "own", "stopped"} /\ spc[p] # "instance"}
InstancesCounted ==
    /\ instances = Cardinality(Instances)
    /\ kind.max_instances # 0 =>
          instances + Cardinality({p \in Proxies : spc[p] = "instance"}) < kind.max_instances + kind.starters

(* An orphaned group is out of reach, and the thread of a group only ends   *)
(* in one that has nothing left.                                            *)
Orphans ==
    /\ \A g \in Groups : orphaned[g] => g < service /\ \A p \in Proxies : target[p] # g
    /\ \A g \in Groups : gpc[g] = "ended" => orphaned[g] /\ Served(g) = {}

-----------------------------------------------------------------------------
(* The parts of the type invariant that a step has to keep; the number of   *)
(* instances follows from InstancesCounted.                                 *)
ProxyTypes ==
    /\ life \in [Proxies -> Lives] /\ thread \in [Proxies -> BOOLEAN]
    /\ group \in [Proxies -> Groups \union {None}]
    /\ stopReq \in [Proxies -> BOOLEAN] /\ shaking \in [Proxies -> BOOLEAN]

GroupTypes ==
    /\ sessions \in [Groups -> Nat]
    /\ orphaned \in [Groups -> BOOLEAN] /\ started \in [Groups -> BOOLEAN]
    /\ poll \in [Groups -> BOOLEAN] /\ wake \in [Groups -> BOOLEAN]
    /\ queue \in [Groups -> Seq(Proxies)] /\ list \in [Groups -> Seq(Proxies)]
    /\ walk \in [Groups -> Seq(Proxies)]
    /\ gpc \in [Groups -> {"none", "init", "loop", "drain", "walk", "poll", "ended"}]

StarterTypes ==
    /\ service \in Groups
    /\ target \in [Proxies -> Groups \union {None}] /\ tries \in [Proxies -> 0 .. 2]
    /\ spc \in [Proxies -> {"idle", "instance", "lookup", "count", "thread", "push", "wake",
                            "spawn", "refused"}]
    /\ control \subseteq Proxies /\ crash \in {"no", "no_group", "no_thread"}

Types == kind \in Services /\ ProxyTypes /\ GroupTypes /\ StarterTypes

(* The inductive invariant. *)
GroupInv ==
    /\ Types /\ GroupLists /\ Counts /\ InstancesCounted /\ Orphans /\ EventsHaveThread
    /\ \A p \in Proxies : StarterAt(p) /\ ThreadAt(p)

(* The fields of a service. *)
LEMMA ServiceFields ==
    ASSUME kind \in Services
    PROVE  /\ kind.max_sessions \in Nat /\ kind.max_instances \in Nat /\ kind.starters \in Nat
           /\ kind.load \subseteq Proxies
  BY GroupConstants DEF ServiceKinds

(* The bound on the instances. *)
LEMMA TypesEnough == ASSUME Types, InstancesCounted PROVE GroupTypeOK
<1>1. Instances \in SUBSET Proxies
  BY DEF Instances
<1>2. Cardinality(Instances) \in 0 .. Cardinality(Proxies)
  BY <1>1, FS_Subset, FS_CardinalityType, GroupConstants
<1>3. instances \in 0 .. Cardinality(Proxies)
  BY <1>2 DEF InstancesCounted
<1> QED BY <1>3 DEF Types, ProxyTypes, GroupTypes, StarterTypes, GroupTypeOK

(* A set of sessions is finite. *)
LEMMA FiniteSessions ==
    ASSUME NEW S, S \subseteq Proxies
    PROVE  IsFiniteSet(S) /\ Cardinality(S) \in Nat
  BY FS_Subset, FS_CardinalityType, GroupConstants

(* What a list holds are sessions. *)
LEMMA ServedSessions ==
    ASSUME Types, NEW g \in Groups
    PROVE  Queued(g) \subseteq Proxies /\ Listed(g) \subseteq Proxies /\ Counted(g) \subseteq Proxies
<1>1. queue[g] \in Seq(Proxies) /\ list[g] \in Seq(Proxies)
  BY DEF Types, GroupTypes
<1>2. \A s \in Seq(Proxies) : ToSet(s) \subseteq Proxies
  BY DEF ToSet
<1> QED BY <1>1, <1>2 DEF Queued, Listed, Counted, Served

-----------------------------------------------------------------------------
(* What a part of the invariant needs of a step to be kept. *)

(* Sessions that wait or run stay where they are. *)
LEMMA ListsKept ==
    ASSUME Types, GroupLists, UNCHANGED <<queue, list, walk>>,
           \A g \in Groups : gpc'[g] = "walk" => gpc[g] = "walk",
           \A q \in Proxies : life[q] \in {"queued", "running"} => life'[q] = life[q] /\ group'[q] = group[q],
           \A q \in Proxies : life'[q] = "running" => life[q] = "running"
    PROVE  GroupLists'
<1>1. \A g \in Groups : Queued(g)' = Queued(g) /\ Listed(g)' = Listed(g)
  BY DEF Queued, Listed
<1>2. \A g \in Groups : NoDup(queue[g])' /\ NoDup(list[g])' /\ NoDup(walk[g])'
  BY DEF GroupLists
<1>3. \A g \in Groups : gpc'[g] = "walk" => (ToSet(walk[g]) \subseteq Listed(g))'
  BY <1>1 DEF GroupLists
<1>4. \A g \in Groups : Queued(g) \subseteq Proxies /\ Listed(g) \subseteq Proxies
  BY ServedSessions
<1>5. \A g \in Groups : \A p \in Queued(g)' : life'[p] = "queued" /\ \A h \in Groups : p \in Queued(h)' => h = g
  BY <1>1, <1>4 DEF GroupLists
<1>6. \A g \in Groups : \A p \in Listed(g)' : life'[p] = "running" /\ group'[p] = g
  BY <1>1, <1>4 DEF GroupLists
<1>7. \A p \in Proxies : life'[p] = "running" => group'[p] \in Groups /\ p \in Listed(group'[p])
  BY DEF GroupLists
<1>8. \A p \in Proxies : life'[p] = "running" => group'[p] \in Groups /\ p \in Listed(group[p])'
  <2> SUFFICES ASSUME NEW p \in Proxies, life'[p] = "running" PROVE group'[p] \in Groups /\ p \in Listed(group[p])'
    OBVIOUS
  <2> QED BY <1>7 DEF Listed
<1> QED BY <1>2, <1>3, <1>5, <1>6, <1>8 DEF GroupLists

(* Nobody new is counted, and the count stays. *)
LEMMA CountsKept ==
    ASSUME Types, Counts, UNCHANGED <<sessions, kind>>, \A g \in Groups : Counted(g)' \subseteq Counted(g)
    PROVE  Counts'
<1> SUFFICES ASSUME NEW g \in Groups
             PROVE  Cardinality(Counted(g)') <= sessions[g] /\ sessions[g] <= kind.max_sessions
  BY DEF Counts
<1>1. Cardinality(Counted(g)) <= sessions[g] /\ sessions[g] <= kind.max_sessions /\ sessions[g] \in Nat
  BY DEF Counts, Types, GroupTypes
<1>2. Cardinality(Counted(g)') <= Cardinality(Counted(g)) /\ Cardinality(Counted(g)') \in Nat /\ Cardinality(Counted(g)) \in Nat
  BY ServedSessions, FiniteSessions, FS_Subset
<1> QED BY <1>1, <1>2

(* ... in particular when no list changes. *)
LEMMA CountedKept ==
    ASSUME UNCHANGED <<queue, list>>,
           \A q \in Proxies : spc'[q] \in {"thread", "push"} => spc[q] \in {"thread", "push"} /\ target'[q] = target[q]
    PROVE  \A g \in Groups : Counted(g)' \subseteq Counted(g)
  BY DEF Counted, Served

(* The instances stay. *)
LEMMA InstancesKept ==
    ASSUME Types, InstancesCounted, UNCHANGED <<instances, kind>>, Instances' = Instances,
           \A q \in Proxies : spc'[q] = "instance" => spc[q] = "instance"
    PROVE  InstancesCounted'
<1> DEFINE I == {p \in Proxies : spc[p] = "instance"}
<1>1. I' \subseteq I /\ I \subseteq Proxies
  OBVIOUS
<1>2. Cardinality(I') <= Cardinality(I) /\ Cardinality(I') \in Nat /\ Cardinality(I) \in Nat
  BY <1>1, FiniteSessions, FS_Subset
<1>3. Cardinality(Instances) \in Nat
  BY FiniteSessions DEF Instances
<1>4. kind.max_instances \in Nat /\ kind.starters \in Nat
  BY ServiceFields DEF Types
<1>5. instances' = Cardinality(Instances')
  BY DEF InstancesCounted
<1>6. kind.max_instances # 0 => instances + Cardinality(I) < kind.max_instances + kind.starters
  BY DEF InstancesCounted
<1>7. instances \in Nat
  BY <1>3 DEF InstancesCounted
<1> HIDE DEF I
<1>8. kind.max_instances # 0 => instances' + Cardinality(I') < kind'.max_instances + kind'.starters
  BY <1>2, <1>4, <1>6, <1>7
<1> QED BY <1>5, <1>8 DEF InstancesCounted, I

(* Orphaned groups stay so, and no thread ends. *)
LEMMA OrphansKept ==
    ASSUME Orphans,
           \A g \in Groups : orphaned'[g] => g < service' /\ \A p \in Proxies : target'[p] # g,
           \A g \in Groups : orphaned[g] => orphaned'[g],
           \A g \in Groups : gpc'[g] = "ended" => gpc[g] = "ended",
           \A g \in Groups : gpc[g] = "ended" => Served(g)' \subseteq Served(g)
    PROVE  Orphans'
  BY DEF Orphans

(* z_proxy_group_orphan never takes a group back. *)
LEMMA OrphanStep ==
    ASSUME Types, Orphans, NEW woken, Orphan(woken), service' \in Groups, service' >= service,
           \A p \in Proxies : target'[p] \in {target[p], None}
    PROVE  /\ orphaned' \in [Groups -> BOOLEAN] /\ wake' \in [Groups -> BOOLEAN]
           /\ \A g \in Groups : orphaned'[g] => g < service' /\ \A p \in Proxies : target'[p] # g
           /\ \A g \in Groups : orphaned[g] => orphaned'[g]
<1> DEFINE dropped == {g \in Groups : g < service' /\ \A p \in Proxies : target'[p] # g}
<1>1. orphaned' = [g \in Groups |-> g \in dropped] /\ wake' \in [Groups -> BOOLEAN]
  BY DEF Orphan, Types, GroupTypes
<1>2. \A g \in Groups : orphaned'[g] <=> g \in dropped
  BY <1>1
<1>3. \A g \in Groups : orphaned[g] => g \in dropped
  BY DEF Orphans, Types, StarterTypes, Groups, None
<1>4. orphaned' \in [Groups -> BOOLEAN]
  BY <1>1
<1> QED BY <1>1, <1>2, <1>3, <1>4

(* A step that leaves the lists, the counters and the lives of the sessions *)
(* alone, and moves the thread that starts p.                               *)
LEMMA MoveStep ==
    ASSUME GroupInv, crash' = "no", Types', NEW p \in Proxies, NEW pc,
           UNCHANGED <<kind, life, stopReq, shaking, sessions, queue, list, walk, instances>>,
           \A g \in Groups : gpc'[g] \in {"walk", "ended"} => gpc[g] = gpc'[g],
           \A q \in Proxies : life[q] = "running" => group'[q] = group[q],
           \A q \in Proxies : q # p => thread'[q] = thread[q] /\ tries'[q] = tries[q] /\ target'[q] = target[q] /\ group'[q] = group[q],
           spc' = [spc EXCEPT ![p] = pc], spc[p] # "instance", pc # "instance",
           pc \in {"thread", "push"} => spc[p] \in {"thread", "push"} /\ target'[p] = target[p],
           \A g \in Groups : orphaned'[g] => g < service' /\ \A q \in Proxies : target'[q] # g,
           \A g \in Groups : orphaned[g] => orphaned'[g],
           StarterAt(p)', ThreadAt(p)', life[p] = "queued" => group'[p] = group[p]
    PROVE  GroupInv'
<1>t. Types /\ spc \in [Proxies -> {"idle", "instance", "lookup", "count", "thread", "push", "wake", "spawn", "refused"}]
  BY DEF GroupInv, Types, StarterTypes
<1>s. \A q \in Proxies : spc'[q] = IF q = p THEN pc ELSE spc[q]
  BY <1>t
<1>1. GroupLists'
  BY <1>t, ListsKept DEF GroupInv
<1>2. Counts'
  <2>1. \A g \in Groups : Counted(g)' \subseteq Counted(g)
    BY <1>s, CountedKept
  <2> QED BY <1>t, <2>1, CountsKept DEF GroupInv
<1>3. InstancesCounted'
  <2>1. Instances' = Instances
    BY <1>s DEF Instances
  <2> QED BY <1>s, <1>t, <2>1, InstancesKept DEF GroupInv
<1>4. Orphans'
  BY OrphansKept DEF GroupInv, Served
<1>5. EventsHaveThread'
  BY DEF EventsHaveThread
<1>6. ASSUME NEW q \in Proxies PROVE StarterAt(q)' /\ ThreadAt(q)'
  <2>1. CASE q = p
    BY <2>1
  <2>2. CASE q # p
    BY <1>s, <2>2 DEF GroupInv, StarterAt, ThreadAt
  <2> QED BY <2>1, <2>2
<1> QED BY <1>1, <1>2, <1>3, <1>4, <1>5, <1>6 DEF GroupInv

(* The types of a step that calls z_proxy_group_orphan. *)
LEMMA ReturnTypes ==
    ASSUME GroupInv, NEW p \in Proxies, NEW woken, NEW pc \in {"idle", "refused"}, Return(p, pc, woken)
    PROVE  /\ orphaned' \in [Groups -> BOOLEAN] /\ wake' \in [Groups -> BOOLEAN] /\ service' \in Groups
           /\ target' \in [Proxies -> Groups \union {None}] /\ target'[p] = None
           /\ spc' \in [Proxies -> {"idle", "instance", "lookup", "count", "thread", "push", "wake", "spawn", "refused"}]
           /\ spc'[p] = pc /\ spc' = [spc EXCEPT ![p] = pc]
           /\ \A q \in Proxies : q # p => target'[q] = target[q]
           /\ \A g \in Groups : orphaned'[g] => g < service' /\ \A q \in Proxies : target'[q] # g
           /\ \A g \in Groups : orphaned[g] => orphaned'[g]
<1>1. /\ service' = service /\ service \in Groups /\ target' = [target EXCEPT ![p] = None] /\ Orphan(woken)
      /\ spc' = [spc EXCEPT ![p] = pc]
      /\ target \in [Proxies -> Groups \union {None}]
      /\ spc \in [Proxies -> {"idle", "instance", "lookup", "count", "thread", "push", "wake", "spawn", "refused"}]
  BY DEF Return, At, GroupInv, Types, StarterTypes
<1>2. \A q \in Proxies : target'[q] = IF q = p THEN None ELSE target[q]
  BY <1>1
<1>3. service' >= service
  BY <1>1 DEF Groups
<1>4. /\ orphaned' \in [Groups -> BOOLEAN] /\ wake' \in [Groups -> BOOLEAN]
      /\ \A g \in Groups : orphaned'[g] => g < service' /\ \A q \in Proxies : target'[q] # g
      /\ \A g \in Groups : orphaned[g] => orphaned'[g]
  BY <1>1, <1>2, <1>3, OrphanStep DEF GroupInv
<1> QED BY <1>1, <1>2, <1>4

(* Service.startInstance looks up the start method of the current group. *)
LEMMA LookupStep == ASSUME GroupInv, crash = "no", NEW p \in Proxies, Lookup(p) PROVE GroupInv'
<1>1. Types /\ StarterAt(p) /\ ThreadAt(p) /\ spc[p] = "lookup" /\ tries[p] \in {0, 1}
  BY DEF GroupInv, Lookup, StarterAt, Types, StarterTypes
<1>2. Types'
  BY <1>1 DEF Lookup, At, Types, ProxyTypes, GroupTypes, StarterTypes, proxyVars, groupVars
<1>3. StarterAt(p)' /\ ThreadAt(p)'
  <2>1. /\ spc'[p] = "count" /\ target'[p] = service /\ target'[p] # None /\ tries'[p] = tries[p] + 1
        /\ UNCHANGED <<kind, life, thread, shaking, stopReq>>
    BY <1>1 DEF Lookup, At, Types, StarterTypes, proxyVars, Groups, None
  <2>2. life[p] = "starting" /\ tries'[p] \in {1, 2}
    BY <1>1, <2>1 DEF StarterAt, Beginning
  <2>3. StarterAt(p)'
    BY <2>1, <2>2 DEF StarterAt, Beginning
  <2>4. ~thread[p] => tries'[p] = 2
    BY <1>1, <2>1 DEF ThreadAt
  <2>5. ThreadAt(p)'
    BY <1>1, <2>1, <2>2, <2>4 DEF ThreadAt
  <2> QED BY <2>3, <2>5
<1>4. \A g \in Groups : orphaned'[g] => g < service' /\ \A q \in Proxies : target'[q] # g
  BY <1>1 DEF Lookup, GroupInv, Orphans, Types, StarterTypes, groupVars, Groups
<1>5. \A q \in Proxies : q # p => thread'[q] = thread[q] /\ tries'[q] = tries[q] /\ target'[q] = target[q] /\ group'[q] = group[q]
  BY <1>1 DEF Lookup, Types, StarterTypes, proxyVars
<1> QED BY <1>1, <1>2, <1>3, <1>4, <1>5, MoveStep DEF Lookup, At, proxyVars, groupVars

(* The service goes on to a new group. *)
LEMMA NewGroupStep == ASSUME GroupInv, crash = "no", NEW p \in Proxies, NewGroup(p) PROVE GroupInv'
<1>1. Types /\ StarterAt(p) /\ ThreadAt(p) /\ spc[p] = "refused" /\ tries[p] = 1
  BY DEF GroupInv, NewGroup
<1>2. service \in Groups /\ service' = service + 1 /\ service' \in Groups /\ service' >= service /\ target' = target
  BY <1>1, GroupConstants DEF NewGroup, Types, StarterTypes, Groups
<1>3. /\ orphaned' \in [Groups -> BOOLEAN] /\ wake' \in [Groups -> BOOLEAN]
      /\ \A g \in Groups : orphaned'[g] => g < service' /\ \A q \in Proxies : target'[q] # g
      /\ \A g \in Groups : orphaned[g] => orphaned'[g]
  BY <1>1, <1>2, OrphanStep DEF NewGroup, GroupInv
<1>4. Types'
  BY <1>1, <1>2, <1>3 DEF NewGroup, At, Types, ProxyTypes, GroupTypes, StarterTypes, proxyVars
<1>5. StarterAt(p)' /\ ThreadAt(p)'
  BY <1>1 DEF NewGroup, At, StarterAt, ThreadAt, Beginning, Types, ProxyTypes, StarterTypes, proxyVars
<1> QED BY <1>1, <1>2, <1>3, <1>4, <1>5, MoveStep DEF NewGroup, At, proxyVars

(* The start method returns without a session. *)
LEMMA RefusedSteps ==
    ASSUME GroupInv, crash = "no", NEW p \in Proxies, GroupFull(p) \/ StartThreadFails(p) \/ Wakeup(p)
    PROVE  GroupInv'
<1>1. Types /\ StarterAt(p) /\ ThreadAt(p)
  BY DEF GroupInv
<1>2. PICK pc \in {"idle", "refused"}, woken \in {{}, {target[p]}} :
         /\ Return(p, pc, woken)
         /\ pc = "idle" => spc[p] = "wake"
         /\ pc = "refused" => spc[p] \in {"count", "thread"}
  BY DEF GroupFull, StartThreadFails, Wakeup
<1>3. /\ UNCHANGED <<kind, proxyVars, sessions, poll, queue, list, gpc, walk, instances, tries, control, crash>>
      /\ started' \in [Groups -> BOOLEAN]
  BY <1>1 DEF GroupFull, StartThreadFails, Wakeup, Types, GroupTypes
<1>4. /\ orphaned' \in [Groups -> BOOLEAN] /\ wake' \in [Groups -> BOOLEAN] /\ service' \in Groups
      /\ target' \in [Proxies -> Groups \union {None}] /\ target'[p] = None
      /\ spc' \in [Proxies -> {"idle", "instance", "lookup", "count", "thread", "push", "wake", "spawn", "refused"}]
      /\ spc'[p] = pc /\ spc' = [spc EXCEPT ![p] = pc]
      /\ \A q \in Proxies : q # p => target'[q] = target[q]
      /\ \A g \in Groups : orphaned'[g] => g < service' /\ \A q \in Proxies : target'[q] # g
      /\ \A g \in Groups : orphaned[g] => orphaned'[g]
  BY <1>2, ReturnTypes
<1>5. Types'
  BY <1>1, <1>3, <1>4 DEF Types, ProxyTypes, GroupTypes, StarterTypes, proxyVars
<1>6. StarterAt(p)'
  BY <1>1, <1>2, <1>3, <1>4 DEF StarterAt, Beginning, proxyVars
<1>7. ThreadAt(p)'
  BY <1>1, <1>2, <1>3, <1>4 DEF ThreadAt, StarterAt, Beginning, proxyVars
<1> QED BY <1>1, <1>2, <1>3, <1>4, <1>5, <1>6, <1>7, MoveStep DEF proxyVars

(* A proxy whose own thread cannot be created. *)
LEMMA ThreadedStartFailsStep == ASSUME GroupInv, crash = "no", NEW p \in Proxies, ThreadedStartFails(p) PROVE GroupInv'
<1>1. Types /\ StarterAt(p) /\ ThreadAt(p) /\ spc[p] = "spawn" /\ life[p] = "starting" /\ target[p] \in Groups
  BY DEF GroupInv, ThreadedStartFails, StarterAt, Beginning, Types, StarterTypes
<1>2. Return(p, "refused", {})
  BY DEF ThreadedStartFails
<1>3. /\ UNCHANGED <<kind, life, stopReq, shaking, sessions, started, poll, queue, list, gpc, walk, instances, tries, control, crash>>
      /\ group' = [group EXCEPT ![p] = target[p]] /\ thread' = [thread EXCEPT ![p] = FALSE]
  BY DEF ThreadedStartFails
<1>4. /\ orphaned' \in [Groups -> BOOLEAN] /\ wake' \in [Groups -> BOOLEAN] /\ service' \in Groups
      /\ target' \in [Proxies -> Groups \union {None}] /\ target'[p] = None
      /\ spc' \in [Proxies -> {"idle", "instance", "lookup", "count", "thread", "push", "wake", "spawn", "refused"}]
      /\ spc'[p] = "refused" /\ spc' = [spc EXCEPT ![p] = "refused"]
      /\ \A q \in Proxies : q # p => target'[q] = target[q]
      /\ \A g \in Groups : orphaned'[g] => g < service' /\ \A q \in Proxies : target'[q] # g
      /\ \A g \in Groups : orphaned[g] => orphaned'[g]
  BY <1>2, ReturnTypes
<1>5. Types'
  BY <1>1, <1>3, <1>4 DEF Types, ProxyTypes, GroupTypes, StarterTypes
<1>6. StarterAt(p)'
  BY <1>1, <1>3, <1>4 DEF StarterAt, Beginning
<1>7. ThreadAt(p)'
  BY <1>1, <1>3, <1>4 DEF ThreadAt, StarterAt, Beginning, Types, ProxyTypes
<1>8. \A q \in Proxies : q # p => thread'[q] = thread[q] /\ group'[q] = group[q]
  BY <1>1, <1>3 DEF Types, ProxyTypes
<1> QED BY <1>1, <1>3, <1>4, <1>5, <1>6, <1>7, <1>8, MoveStep

(* z_proxy_group_start_thread *)
LEMMA StartThreadStep == ASSUME GroupInv, crash = "no", NEW p \in Proxies, StartThread(p) PROVE GroupInv'
<1>1. Types /\ StarterAt(p) /\ ThreadAt(p) /\ spc[p] = "thread"
  BY DEF GroupInv, StartThread
<1>2. /\ spc' = [spc EXCEPT ![p] = "push"] /\ spc'[p] = "push"
      /\ UNCHANGED <<kind, life, thread, group, stopReq, shaking, sessions, orphaned, queue, list, walk, service, instances, target, tries, crash>>
  BY <1>1 DEF StartThread, At, proxyVars, Types, StarterTypes
<1>3. Types'
  BY <1>1 DEF StartThread, At, Types, ProxyTypes, GroupTypes, StarterTypes, proxyVars
<1>4. \A g \in Groups : gpc'[g] \in {"walk", "ended"} => gpc[g] = gpc'[g]
  BY <1>1 DEF StartThread, Types, GroupTypes
<1>5. StarterAt(p)' /\ ThreadAt(p)'
  BY <1>1, <1>2 DEF StarterAt, ThreadAt, Beginning
<1>6. \A g \in Groups : orphaned'[g] => g < service' /\ \A q \in Proxies : target'[q] # g
  BY <1>2 DEF GroupInv, Orphans
<1> QED BY <1>1, <1>2, <1>3, <1>4, <1>5, <1>6, MoveStep

(* Nothing of the groups changes but what a session in none of their lists  *)
(* is about.                                                                *)
LEMMA OutsideStep ==
    ASSUME GroupInv, Types', InstancesCounted', EventsHaveThread', NEW p \in Proxies,
           life[p] \notin {"queued", "running"}, life'[p] \notin {"queued", "running"},
           \A q \in Proxies : q # p => /\ life'[q] = life[q] /\ group'[q] = group[q] /\ spc'[q] = spc[q]
                                       /\ target'[q] = target[q] /\ tries'[q] = tries[q] /\ thread'[q] = thread[q],
           UNCHANGED <<kind, stopReq, shaking, sessions, queue, list, walk, gpc>>,
           \A g \in Groups : orphaned'[g] => g < service' /\ \A q \in Proxies : target'[q] # g,
           \A g \in Groups : orphaned[g] => orphaned'[g],
           spc'[p] \in {"thread", "push"} => spc[p] \in {"thread", "push"} /\ target'[p] = target[p],
           StarterAt(p)', ThreadAt(p)'
    PROVE  GroupInv'
<1>1. GroupLists'
  <2>1. \A q \in Proxies : life[q] \in {"queued", "running"} => life'[q] = life[q] /\ group'[q] = group[q]
    OBVIOUS
  <2>2. \A q \in Proxies : life'[q] = "running" => life[q] = "running"
    OBVIOUS
  <2> QED BY <2>1, <2>2, ListsKept DEF GroupInv
<1>2. Counts'
  <2>1. \A g \in Groups : Counted(g)' \subseteq Counted(g)
    BY CountedKept
  <2> QED BY <2>1, CountsKept DEF GroupInv
<1>3. Orphans'
  BY OrphansKept DEF GroupInv, Served
<1>4. ASSUME NEW q \in Proxies PROVE StarterAt(q)' /\ ThreadAt(q)'
  <2>1. CASE q = p
    BY <2>1
  <2>2. CASE q # p
    BY <2>2 DEF GroupInv, StarterAt, ThreadAt
  <2> QED BY <2>1, <2>2
<1> QED BY <1>1, <1>2, <1>3, <1>4 DEF GroupInv

(* A session comes: refused, or on its way to be counted. *)
LEMMA StartInstanceStep == ASSUME GroupInv, crash = "no", NEW p \in Proxies, StartInstance(p) PROVE GroupInv'
<1>1. Types /\ StarterAt(p) /\ ThreadAt(p) /\ life[p] = "new" /\ spc[p] = "idle" /\ target[p] = None /\ tries[p] = 0
  BY DEF GroupInv, StartInstance, StarterAt, Beginning, Types, StarterTypes
<1>2. UNCHANGED <<kind, thread, group, stopReq, shaking, groupVars, service, instances, target, tries, control, crash>>
  BY DEF StartInstance
<1>3. \/ life' = [life EXCEPT ![p] = "refused"] /\ spc' = spc
      \/ /\ life' = [life EXCEPT ![p] = "starting"] /\ spc' = [spc EXCEPT ![p] = "instance"]
         /\ kind.max_instances = 0 \/ ~(instances >= kind.max_instances)
         /\ Cardinality({q \in Proxies : spc[q] # "idle"}) < kind.starters
  BY DEF StartInstance, At
<1>4. Types'
  BY <1>1, <1>2, <1>3 DEF Types, ProxyTypes, GroupTypes, StarterTypes, groupVars, Lives
<1>5. /\ \A q \in Proxies : q # p => life'[q] = life[q] /\ spc'[q] = spc[q]
      /\ (life'[p] = "refused" /\ spc'[p] = "idle") \/ (life'[p] = "starting" /\ spc'[p] = "instance")
  BY <1>1, <1>3 DEF Types, ProxyTypes, StarterTypes
<1>6. StarterAt(p)' /\ ThreadAt(p)'
  BY <1>1, <1>2, <1>5 DEF StarterAt, ThreadAt, Beginning
<1>7. InstancesCounted'
  <2>1. Instances' = Instances
    BY <1>1, <1>5 DEF Instances
  <2>2. CASE spc' = spc
    BY <1>1, <1>2, <2>1, <2>2, InstancesKept DEF GroupInv
  <2>3. CASE /\ spc' = [spc EXCEPT ![p] = "instance"]
             /\ kind.max_instances = 0 \/ ~(instances >= kind.max_instances)
             /\ Cardinality({q \in Proxies : spc[q] # "idle"}) < kind.starters
    <3> DEFINE B == {q \in Proxies : spc[q] # "idle"}
               I == {q \in Proxies : spc[q] = "instance"}
    <3>1. I' \subseteq B \union {p} /\ B \subseteq Proxies /\ B \union {p} \subseteq Proxies /\ p \notin B
      BY <1>1, <1>5
    <3>2. Cardinality(B \union {p}) = Cardinality(B) + 1 /\ Cardinality(B) \in Nat
      BY <3>1, FiniteSessions, FS_AddElement
    <3>3. Cardinality(I') <= Cardinality(B \union {p}) /\ Cardinality(I') \in Nat
      BY <3>1, FiniteSessions, FS_Subset
    <3>4. kind.max_instances \in Nat /\ kind.starters \in Nat
      BY <1>1, ServiceFields DEF Types
    <3>5. instances' = Cardinality(Instances') /\ instances = Cardinality(Instances) /\ Cardinality(Instances) \in Nat
      BY <1>2, <2>1, FiniteSessions DEF GroupInv, InstancesCounted, Instances
    <3> HIDE DEF I, B
    <3>6. kind.max_instances # 0 => instances + Cardinality(I') < kind.max_instances + kind.starters
      BY <2>3, <3>2, <3>3, <3>4, <3>5 DEF B
    <3> QED BY <1>2, <3>5, <3>6 DEF InstancesCounted, I
  <2> QED BY <1>3, <2>2, <2>3
<1>8. \A g \in Groups : orphaned'[g] => g < service' /\ \A q \in Proxies : target'[q] # g
  BY <1>2 DEF GroupInv, Orphans, groupVars
<1>9. EventsHaveThread'
  BY <1>2 DEF EventsHaveThread
<1> QED BY <1>1, <1>2, <1>4, <1>5, <1>6, <1>7, <1>8, <1>9, OutsideStep DEF groupVars

(* ... and counted. *)
LEMMA CountInstanceStep == ASSUME GroupInv, crash = "no", NEW p \in Proxies, CountInstance(p) PROVE GroupInv'
<1>1. Types /\ StarterAt(p) /\ ThreadAt(p) /\ spc[p] = "instance" /\ life[p] = "starting" /\ tries[p] = 0
  BY DEF GroupInv, CountInstance, StarterAt, Beginning
<1>2. /\ UNCHANGED <<kind, proxyVars, groupVars, service, target, tries, control, crash>>
      /\ instances' = instances + 1 /\ spc' = [spc EXCEPT ![p] = "lookup"]
  BY DEF CountInstance, At
<1>3. \A q \in Proxies : spc'[q] = IF q = p THEN "lookup" ELSE spc[q]
  BY <1>1, <1>2 DEF Types, StarterTypes
<1>4. Types'
  BY <1>1, <1>2 DEF Types, ProxyTypes, GroupTypes, StarterTypes, groupVars, proxyVars
<1>5. StarterAt(p)' /\ ThreadAt(p)'
  BY <1>1, <1>2, <1>3 DEF StarterAt, ThreadAt, Beginning, proxyVars
<1>6. InstancesCounted'
  <2> DEFINE I == {q \in Proxies : spc[q] = "instance"}
  <2>1. Instances' = Instances \union {p} /\ p \notin Instances /\ Instances \subseteq Proxies
    BY <1>1, <1>2, <1>3 DEF Instances, proxyVars
  <2>2. I' = I \ {p} /\ p \in I /\ I \subseteq Proxies
    BY <1>1, <1>3
  <2>3. Cardinality(Instances') = Cardinality(Instances) + 1 /\ Cardinality(Instances) \in Nat
    BY <2>1, FiniteSessions, FS_AddElement
  <2>4. Cardinality(I') = Cardinality(I) - 1 /\ Cardinality(I) \in Nat
    BY <2>2, FiniteSessions, FS_RemoveElement
  <2>5. kind.max_instances \in Nat /\ kind.starters \in Nat
    BY <1>1, ServiceFields DEF Types
  <2>6. instances = Cardinality(Instances) /\ (kind.max_instances # 0 => instances + Cardinality(I) < kind.max_instances + kind.starters)
    BY DEF GroupInv, InstancesCounted
  <2> HIDE DEF I
  <2>7. instances' = Cardinality(Instances') /\ (kind.max_instances # 0 => instances' + Cardinality(I') < kind.max_instances + kind.starters)
    BY <1>2, <2>3, <2>4, <2>5, <2>6
  <2> QED BY <1>2, <2>7 DEF InstancesCounted, I
<1>7. \A g \in Groups : orphaned'[g] => g < service' /\ \A q \in Proxies : target'[q] # g
  BY <1>2 DEF GroupInv, Orphans, groupVars
<1>8. EventsHaveThread'
  BY <1>2 DEF EventsHaveThread
<1> QED BY <1>1, <1>2, <1>3, <1>4, <1>5, <1>6, <1>7, <1>8, OutsideStep DEF groupVars, proxyVars

(* "Error starting proxy in group" *)
LEMMA GiveUpStep == ASSUME GroupInv, crash = "no", NEW p \in Proxies, GiveUp(p) PROVE GroupInv'
<1>1. Types /\ StarterAt(p) /\ ThreadAt(p) /\ spc[p] = "refused" /\ life[p] = "starting" /\ tries[p] = 2 /\ target[p] = None
  BY DEF GroupInv, GiveUp, StarterAt, Beginning
<1>2. /\ UNCHANGED <<kind, thread, group, stopReq, shaking, groupVars, service, instances, target, tries, control, crash>>
      /\ life' = [life EXCEPT ![p] = "stopped"] /\ spc' = [spc EXCEPT ![p] = "idle"]
  BY DEF GiveUp, At
<1>3. \A q \in Proxies : spc'[q] = (IF q = p THEN "idle" ELSE spc[q]) /\ life'[q] = (IF q = p THEN "stopped" ELSE life[q])
  BY <1>1, <1>2 DEF Types, StarterTypes, ProxyTypes
<1>4. Types'
  BY <1>1, <1>2 DEF Types, ProxyTypes, GroupTypes, StarterTypes, groupVars, Lives
<1>5. StarterAt(p)' /\ ThreadAt(p)'
  BY <1>1, <1>2, <1>3 DEF StarterAt, ThreadAt, Beginning
<1>6. InstancesCounted'
  <2>1. Instances' = Instances
    BY <1>1, <1>3 DEF Instances
  <2> QED BY <1>1, <1>2, <1>3, <2>1, InstancesKept DEF GroupInv
<1>7. \A g \in Groups : orphaned'[g] => g < service' /\ \A q \in Proxies : target'[q] # g
  BY <1>2 DEF GroupInv, Orphans, groupVars
<1>8. EventsHaveThread'
  BY <1>2 DEF EventsHaveThread
<1> QED BY <1>1, <1>2, <1>3, <1>4, <1>5, <1>6, <1>7, <1>8, OutsideStep DEF groupVars

(* Service.stopInstance *)
LEMMA SessionFreedStep == ASSUME GroupInv, crash = "no", NEW p \in Proxies, SessionFreed(p) PROVE GroupInv'
<1>1. Types /\ StarterAt(p) /\ ThreadAt(p) /\ life[p] = "stopped" /\ spc[p] \notin Beginning
  BY DEF GroupInv, SessionFreed, StarterAt
<1>2. /\ UNCHANGED <<kind, thread, group, stopReq, shaking, groupVars, service, spc, target, tries, control, crash>>
      /\ life' = [life EXCEPT ![p] = "freed"] /\ instances' = instances - 1
  BY DEF SessionFreed
<1>3. \A q \in Proxies : life'[q] = (IF q = p THEN "freed" ELSE life[q])
  BY <1>1, <1>2 DEF Types, ProxyTypes
<1>4. Types'
  BY <1>1, <1>2 DEF Types, ProxyTypes, GroupTypes, StarterTypes, groupVars, Lives
<1>5. StarterAt(p)' /\ ThreadAt(p)'
  BY <1>1, <1>2, <1>3 DEF StarterAt, ThreadAt, Beginning
<1>6. InstancesCounted'
  <2> DEFINE I == {q \in Proxies : spc[q] = "instance"}
  <2>1. Instances' = Instances \ {p} /\ p \in Instances /\ Instances \subseteq Proxies
    BY <1>1, <1>2, <1>3 DEF Instances, Beginning
  <2>2. Cardinality(Instances') = Cardinality(Instances) - 1 /\ Cardinality(Instances) \in Nat
    BY <2>1, FiniteSessions, FS_RemoveElement
  <2>3. I' = I /\ Cardinality(I) \in Nat
    BY <1>2, FiniteSessions
  <2>4. kind.max_instances \in Nat /\ kind.starters \in Nat
    BY <1>1, ServiceFields DEF Types
  <2>5. instances = Cardinality(Instances) /\ (kind.max_instances # 0 => instances + Cardinality(I) < kind.max_instances + kind.starters)
    BY DEF GroupInv, InstancesCounted
  <2> HIDE DEF I
  <2>6. instances' = Cardinality(Instances') /\ (kind.max_instances # 0 => instances' + Cardinality(I') < kind.max_instances + kind.starters)
    BY <1>2, <2>2, <2>3, <2>4, <2>5
  <2> QED BY <1>2, <2>6 DEF InstancesCounted, I
<1>7. \A g \in Groups : orphaned'[g] => g < service' /\ \A q \in Proxies : target'[q] # g
  BY <1>2 DEF GroupInv, Orphans, groupVars
<1>8. EventsHaveThread'
  BY <1>2 DEF EventsHaveThread
<1>9. spc'[p] \in {"thread", "push"} => spc[p] \in {"thread", "push"} /\ target'[p] = target[p]
  BY <1>2
<1>10. \A q \in Proxies : q # p => /\ life'[q] = life[q] /\ group'[q] = group[q] /\ spc'[q] = spc[q]
                                  /\ target'[q] = target[q] /\ tries'[q] = tries[q] /\ thread'[q] = thread[q]
  BY <1>2, <1>3
<1>11. life'[p] \notin {"queued", "running"} /\ life[p] \notin {"queued", "running"}
  BY <1>1, <1>3
<1> QED BY <1>2, <1>4, <1>5, <1>6, <1>7, <1>8, <1>9, <1>10, <1>11, OutsideStep DEF groupVars

(* z_proxy_threaded_start *)
LEMMA ThreadedStartStep == ASSUME GroupInv, crash = "no", NEW p \in Proxies, ThreadedStart(p) PROVE GroupInv'
<1>1. Types /\ StarterAt(p) /\ ThreadAt(p) /\ spc[p] = "spawn" /\ life[p] = "starting" /\ target[p] \in Groups /\ tries[p] >= 1
  BY DEF GroupInv, ThreadedStart, StarterAt, Beginning, Types, StarterTypes
<1>2. Return(p, "idle", {})
  BY DEF ThreadedStart
<1>3. /\ UNCHANGED <<kind, thread, stopReq, shaking, sessions, started, poll, queue, list, gpc, walk, instances, tries, control, crash>>
      /\ group' = [group EXCEPT ![p] = target[p]] /\ life' = [life EXCEPT ![p] = "own"]
  BY DEF ThreadedStart
<1>4. /\ orphaned' \in [Groups -> BOOLEAN] /\ wake' \in [Groups -> BOOLEAN] /\ service' \in Groups
      /\ target' \in [Proxies -> Groups \union {None}] /\ target'[p] = None
      /\ spc' \in [Proxies -> {"idle", "instance", "lookup", "count", "thread", "push", "wake", "spawn", "refused"}]
      /\ spc'[p] = "idle" /\ spc' = [spc EXCEPT ![p] = "idle"]
      /\ \A q \in Proxies : q # p => target'[q] = target[q]
      /\ \A g \in Groups : orphaned'[g] => g < service' /\ \A q \in Proxies : target'[q] # g
      /\ \A g \in Groups : orphaned[g] => orphaned'[g]
  BY <1>2, ReturnTypes
<1>5. Types'
  BY <1>1, <1>3, <1>4 DEF Types, ProxyTypes, GroupTypes, StarterTypes, Lives
<1>6. \A q \in Proxies : life'[q] = (IF q = p THEN "own" ELSE life[q]) /\ (q # p => group'[q] = group[q] /\ spc'[q] = spc[q])
  BY <1>1, <1>3, <1>4 DEF Types, ProxyTypes, StarterTypes
<1>7. StarterAt(p)'
  BY <1>1, <1>3, <1>4, <1>6 DEF StarterAt, Beginning
<1>8. ThreadAt(p)'
  BY <1>1, <1>3, <1>4, <1>6 DEF ThreadAt, StarterAt
<1>9. InstancesCounted'
  <2>1. Instances' = Instances
    BY <1>1, <1>4, <1>6 DEF Instances
  <2> QED BY <1>1, <1>3, <1>4, <1>6, <2>1, InstancesKept DEF GroupInv
<1>10. EventsHaveThread'
  BY <1>3 DEF EventsHaveThread
<1> QED BY <1>1, <1>3, <1>4, <1>5, <1>6, <1>7, <1>8, <1>9, <1>10, OutsideStep

(* z_proxy_thread_func *)
LEMMA ThreadedRunStep == ASSUME GroupInv, crash = "no", NEW p \in Proxies, ThreadedRun(p) PROVE GroupInv'
<1>1. Types /\ StarterAt(p) /\ ThreadAt(p) /\ life[p] = "own"
  BY DEF GroupInv, ThreadedRun
<1>2. UNCHANGED <<kind, group, stopReq, shaking, groupVars, starterVars, control>>
  BY DEF ThreadedRun
<1>3. \A g \in Groups : orphaned'[g] => g < service' /\ \A q \in Proxies : target'[q] # g
  BY <1>2 DEF GroupInv, Orphans, groupVars, starterVars
<1>4. CASE thread[p]
  <2>1. /\ life' = [life EXCEPT ![p] = "stopped"] /\ thread' = [thread EXCEPT ![p] = FALSE] /\ crash' = crash
    BY <1>4 DEF ThreadedRun
  <2>2. Types'
    BY <1>1, <1>2, <2>1 DEF Types, ProxyTypes, GroupTypes, StarterTypes, groupVars, starterVars, Lives
  <2>3. \A q \in Proxies : life'[q] = (IF q = p THEN "stopped" ELSE life[q]) /\ (q # p => thread'[q] = thread[q])
    BY <1>1, <2>1 DEF Types, ProxyTypes
  <2>4. StarterAt(p)'
    BY <1>1, <1>2, <2>3 DEF StarterAt, Beginning, starterVars
  <2>5. ThreadAt(p)'
    BY <1>1, <1>2, <1>4, <2>3 DEF ThreadAt, StarterAt, starterVars
  <2>6. InstancesCounted'
    <3>1. Instances' = Instances
      BY <1>1, <1>2, <2>3 DEF Instances, starterVars
    <3> QED BY <1>1, <1>2, <3>1, InstancesKept DEF GroupInv, starterVars
  <2>7. EventsHaveThread'
    BY <2>1 DEF EventsHaveThread
  <2> QED BY <1>1, <1>2, <1>3, <2>2, <2>3, <2>4, <2>5, <2>6, <2>7, OutsideStep DEF groupVars, starterVars
<1>5. CASE ~thread[p]
  <2>1. life' = life /\ thread' = thread /\ crash' = "no_thread"
    BY <1>5 DEF ThreadedRun
  <2>2. Types'
    BY <1>1, <1>2, <2>1 DEF Types, ProxyTypes, GroupTypes, StarterTypes, groupVars, starterVars
  <2>3. EventsHaveThread'
    BY <1>1, <1>2, <1>5, <2>1 DEF EventsHaveThread, ThreadAt, starterVars
  <2>4. InstancesCounted'
    <3>1. Instances' = Instances
      BY <1>2, <2>1 DEF Instances, starterVars
    <3> QED BY <1>1, <1>2, <3>1, InstancesKept DEF GroupInv, starterVars
  <2>5. StarterAt(p)' /\ ThreadAt(p)'
    BY <1>1, <1>2, <2>1 DEF StarterAt, ThreadAt, starterVars
  <2> QED BY <1>1, <1>2, <1>3, <2>1, <2>2, <2>3, <2>4, <2>5, OutsideStep DEF groupVars, starterVars
<1> QED BY <1>4, <1>5
-----------------------------------------------------------------------------
(* A session enters, changes or leaves the lists of group g. *)
LEMMA ListsMoved ==
    ASSUME Types, GroupLists, NEW g \in Groups, NEW p \in Proxies,
           \A h \in Groups : h # g => /\ queue'[h] = queue[h] /\ list'[h] = list[h] /\ walk'[h] = walk[h]
                                      /\ gpc'[h] = gpc[h],
           NoDup(queue[g])', NoDup(list[g])', NoDup(walk[g])',
           gpc'[g] = "walk" => ToSet(walk[g])' \subseteq Listed(g)',
           \A q \in Proxies : q # p => life'[q] = life[q] /\ group'[q] = group[q],
           Queued(g)' \ {p} = Queued(g) \ {p}, Listed(g)' \ {p} = Listed(g) \ {p},
           p \in Queued(g)' <=> life'[p] = "queued", p \in Listed(g)' <=> life'[p] = "running",
           life'[p] = "running" => group'[p] = g,
           \A h \in Groups : h # g => p \notin Queued(h) /\ p \notin Listed(h)
    PROVE  GroupLists'
<1>1. \A h \in Groups : h # g => Queued(h)' = Queued(h) /\ Listed(h)' = Listed(h)
  BY DEF Queued, Listed
<1>2. \A h \in Groups : NoDup(queue[h])' /\ NoDup(list[h])' /\ NoDup(walk[h])'
  BY DEF GroupLists
<1>3. \A h \in Groups : gpc'[h] = "walk" => (ToSet(walk[h]) \subseteq Listed(h))'
  BY <1>1 DEF GroupLists
<1>4. \A h \in Groups : Queued(h) \subseteq Proxies /\ Listed(h) \subseteq Proxies
  BY ServedSessions
<1>5. \A h \in Groups : \A q \in Queued(h)' : q = p \/ q \in Queued(h)
  BY <1>1
<1>6. \A h \in Groups : p \in Queued(h)' => h = g
  BY <1>1
<1>7. \A h \in Groups : \A q \in Queued(h)' : life'[q] = "queued" /\ \A k \in Groups : q \in Queued(k)' => k = h
  <2> SUFFICES ASSUME NEW h \in Groups, NEW q \in Queued(h)'
               PROVE  life'[q] = "queued" /\ \A k \in Groups : q \in Queued(k)' => k = h
    OBVIOUS
  <2>1. CASE q = p
    BY <1>6, <2>1
  <2>2. CASE q # p
    BY <1>4, <1>5, <2>2 DEF GroupLists
  <2> QED BY <2>1, <2>2
<1>8. \A h \in Groups : \A q \in Listed(h)' : life'[q] = "running" /\ group'[q] = h
  <2> SUFFICES ASSUME NEW h \in Groups, NEW q \in Listed(h)' PROVE life'[q] = "running" /\ group'[q] = h
    OBVIOUS
  <2>1. CASE q = p
    BY <1>1, <2>1
  <2>2. CASE q # p
    BY <1>1, <1>4, <2>2 DEF GroupLists
  <2> QED BY <2>1, <2>2
<1>9. \A q \in Proxies : life'[q] = "running" => group'[q] \in Groups /\ q \in Listed(group[q])'
  <2> SUFFICES ASSUME NEW q \in Proxies, life'[q] = "running" PROVE group'[q] \in Groups /\ q \in Listed(group[q])'
    OBVIOUS
  <2>1. CASE q = p
    BY <2>1 DEF Listed
  <2>2. CASE q # p
    <3>1. group'[q] = group[q] /\ group[q] \in Groups /\ q \in Listed(group[q])
      BY <2>2 DEF GroupLists
    <3>2. CASE group[q] = g
      BY <2>2, <3>1, <3>2 DEF Listed
    <3>3. CASE group[q] # g
      BY <3>1, <3>3 DEF Listed
    <3> QED BY <3>1, <3>2, <3>3
  <2> QED BY <2>1, <2>2
<1> QED BY <1>2, <1>3, <1>7, <1>8, <1>9 DEF GroupLists

(* The group lets one more session in. *)
LEMMA StartSessionStep == ASSUME GroupInv, crash = "no", NEW p \in Proxies, StartSession(p) PROVE GroupInv'
<1> DEFINE t == target[p]
           pc == IF kind.blocking THEN "spawn" ELSE "thread"
<1>1. Types /\ StarterAt(p) /\ ThreadAt(p) /\ spc[p] = "count" /\ life[p] = "starting" /\ t \in Groups
      /\ sessions[t] < kind.max_sessions /\ tries[p] >= 1
  BY DEF GroupInv, StartSession, StarterAt, Beginning, Types, StarterTypes
<1>2. /\ UNCHANGED <<kind, proxyVars, orphaned, started, poll, queue, list, wake, gpc, walk, service, instances, target, tries, control, crash>>
      /\ sessions' = [sessions EXCEPT ![t] = @ + 1] /\ spc' = [spc EXCEPT ![p] = pc]
  BY DEF StartSession, At
<1>3. pc \in {"spawn", "thread"} /\ (pc = "spawn" => kind.blocking) /\ (pc = "thread" => ~kind.blocking)
  OBVIOUS
<1> HIDE DEF pc, t
<1>4. \A q \in Proxies : spc'[q] = IF q = p THEN pc ELSE spc[q]
  BY <1>1, <1>2 DEF Types, StarterTypes
<1>5. Types'
  BY <1>1, <1>2, <1>3 DEF Types, ProxyTypes, GroupTypes, StarterTypes, proxyVars
<1>6. GroupLists'
  BY <1>1, <1>2, ListsKept DEF GroupInv, proxyVars
<1>7. InstancesCounted'
  <2>1. Instances' = Instances
    BY <1>1, <1>2, <1>3, <1>4 DEF Instances, proxyVars
  <2> QED BY <1>1, <1>2, <1>3, <1>4, <2>1, InstancesKept DEF GroupInv
<1>8. Counts'
  <2> SUFFICES ASSUME NEW g \in Groups
               PROVE  Cardinality(Counted(g)') <= sessions'[g] /\ sessions'[g] <= kind'.max_sessions
    BY DEF Counts
  <2>1. /\ Cardinality(Counted(g)) <= sessions[g] /\ sessions[g] <= kind.max_sessions /\ sessions[g] \in Nat
        /\ kind.max_sessions \in Nat /\ Counted(g) \subseteq Proxies /\ Cardinality(Counted(g)) \in Nat
    BY <1>1, ServiceFields, ServedSessions, FiniteSessions DEF GroupInv, Counts, Types, GroupTypes
  <2>2. CASE g = t
    <3>1. Counted(g)' \subseteq Counted(g) \union {p} /\ Counted(g) \union {p} \subseteq Proxies
      BY <1>2, <1>4, <2>1 DEF Counted, Served
    <3>2. Cardinality(Counted(g) \union {p}) <= Cardinality(Counted(g)) + 1
      BY <2>1, FiniteSessions, FS_AddElement
    <3>3. Cardinality(Counted(g)') <= Cardinality(Counted(g) \union {p})
      BY <3>1, FiniteSessions, FS_Subset
    <3>4. Cardinality(Counted(g)') \in Nat /\ Cardinality(Counted(g) \union {p}) \in Nat
      BY <3>1, FiniteSessions
    <3>5. sessions'[g] = sessions[g] + 1 /\ sessions[g] < kind.max_sessions
      BY <1>1, <1>2, <2>2 DEF Types, GroupTypes
    <3> QED BY <1>2, <2>1, <3>2, <3>3, <3>4, <3>5
  <2>3. CASE g # t
    <3>1. Counted(g)' \subseteq Counted(g)
      BY <1>2, <1>4, <2>3 DEF Counted, Served, t
    <3>2. Cardinality(Counted(g)') <= Cardinality(Counted(g)) /\ Cardinality(Counted(g)') \in Nat
      BY <2>1, <3>1, FiniteSessions, FS_Subset
    <3>3. sessions'[g] = sessions[g]
      BY <1>1, <1>2, <2>3 DEF Types, GroupTypes
    <3> QED BY <1>2, <2>1, <3>2, <3>3
  <2> QED BY <2>2, <2>3
<1>9. Orphans'
  BY <1>2, OrphansKept DEF GroupInv, Orphans, Served
<1>10. EventsHaveThread'
  BY <1>2 DEF EventsHaveThread
<1>11. ASSUME NEW q \in Proxies PROVE StarterAt(q)' /\ ThreadAt(q)'
  <2>1. CASE q = p
    <3>1. StarterAt(p)'
      BY <1>1, <1>2, <1>3, <1>4 DEF StarterAt, Beginning, proxyVars, t
    <3>2. ThreadAt(p)'
      BY <1>1, <1>2, <1>3, <1>4 DEF ThreadAt, proxyVars
    <3> QED BY <2>1, <3>1, <3>2
  <2>2. CASE q # p
    BY <1>2, <1>4, <2>2 DEF GroupInv, StarterAt, ThreadAt, proxyVars
  <2> QED BY <2>1, <2>2
<1> QED BY <1>5, <1>6, <1>7, <1>8, <1>9, <1>10, <1>11 DEF GroupInv

(* The session is handed over to the thread of the group. *)
LEMMA PushStep == ASSUME GroupInv, crash = "no", NEW p \in Proxies, Push(p) PROVE GroupInv'
<1>1. Types /\ StarterAt(p) /\ ThreadAt(p) /\ spc[p] = "push" /\ life[p] = "starting" /\ target[p] \in Groups /\ thread[p]
      /\ tries[p] >= 1
  BY DEF GroupInv, Push, StarterAt, ThreadAt, Beginning, Types, StarterTypes
<1>4. PICK t \in Groups : target[p] = t
  BY <1>1
<1>2. /\ UNCHANGED <<kind, thread, group, stopReq, shaking, sessions, orphaned, started, poll, list, wake, gpc, walk, service, instances, target, tries, control, crash>>
      /\ queue' = [queue EXCEPT ![t] = Append(@, p)]
      /\ life' = [life EXCEPT ![p] = "queued"] /\ spc' = [spc EXCEPT ![p] = "wake"]
  BY <1>4 DEF Push, At
<1>3. \A h \in Groups : p \notin Queued(h) /\ p \notin Listed(h)
  BY <1>1 DEF GroupInv, GroupLists
<1>5. \A q \in Proxies : spc'[q] = (IF q = p THEN "wake" ELSE spc[q]) /\ life'[q] = (IF q = p THEN "queued" ELSE life[q])
  BY <1>1, <1>2 DEF Types, StarterTypes, ProxyTypes
<1>6. /\ queue'[t] = Append(queue[t], p) /\ queue[t] \in Seq(Proxies)
      /\ \A h \in Groups : h # t => queue'[h] = queue[h]
  BY <1>1, <1>2 DEF Types, GroupTypes
<1>7. /\ Append(queue[t], p) \in Seq(Proxies) /\ Queued(t)' = Queued(t) \union {p} /\ NoDup(queue[t])'
  BY <1>1, <1>3, <1>6, AppendSet DEF Queued, GroupInv, GroupLists
<1>8. Types'
  BY <1>1, <1>2, <1>7 DEF Types, ProxyTypes, GroupTypes, StarterTypes, Lives
<1>9. GroupLists'
  <2>1. NoDup(list[t])' /\ NoDup(walk[t])' /\ Listed(t)' = Listed(t)
    BY <1>1, <1>2 DEF Listed, GroupInv, GroupLists
  <2>2. gpc'[t] = "walk" => ToSet(walk[t])' \subseteq Listed(t)'
    BY <1>1, <1>2 DEF Listed, GroupInv, GroupLists
  <2> QED BY <1>1, <1>2, <1>3, <1>5, <1>6, <1>7, <2>1, <2>2, ListsMoved DEF GroupInv
<1>10. InstancesCounted'
  <2>1. Instances' = Instances
    BY <1>1, <1>5 DEF Instances
  <2> QED BY <1>1, <1>2, <1>5, <2>1, InstancesKept DEF GroupInv
<1>11. Counts'
  <2>1. ASSUME NEW g \in Groups PROVE Counted(g)' \subseteq Counted(g)
    <3>1. CASE g = t
      BY <1>1, <1>2, <1>4, <1>5, <1>7, <3>1 DEF Counted, Served, Queued
    <3>2. CASE g # t
      BY <1>2, <1>5, <1>6, <3>2 DEF Counted, Served
    <3> QED BY <3>1, <3>2
  <2> QED BY <1>1, <1>2, <2>1, CountsKept DEF GroupInv
<1>12. Orphans'
  <2>1. gpc[t] # "ended"
    BY <1>1, <1>4 DEF GroupInv, Orphans
  <2>2. \A g \in Groups : gpc[g] = "ended" => Served(g)' \subseteq Served(g)
    BY <1>2, <1>6, <2>1 DEF Served
  <2> QED BY <1>2, <2>2, OrphansKept DEF GroupInv, Orphans
<1>13. EventsHaveThread'
  BY <1>2 DEF EventsHaveThread
<1>14. ASSUME NEW q \in Proxies PROVE StarterAt(q)' /\ ThreadAt(q)'
  <2>1. CASE q = p
    <3>1. StarterAt(p)'
      BY <1>1, <1>2, <1>5 DEF StarterAt, Beginning
    <3>2. ThreadAt(p)'
      BY <1>1, <1>2, <1>5 DEF ThreadAt
    <3> QED BY <2>1, <3>1, <3>2
  <2>2. CASE q # p
    BY <1>2, <1>5, <2>2 DEF GroupInv, StarterAt, ThreadAt
  <2> QED BY <2>1, <2>2
<1> QED BY <1>8, <1>9, <1>10, <1>11, <1>12, <1>13, <1>14 DEF GroupInv
-----------------------------------------------------------------------------
(* A session ends in the thread of its group: z_proxy_nonblocking_stop on a *)
(* proxy that still has its policy thread.                                  *)
LEMMA StopStep ==
    ASSUME GroupInv, Types', crash' = "no", NEW g \in Groups, NEW p \in Proxies, p \in Served(g),
           \A h \in Groups : h # g => /\ queue'[h] = queue[h] /\ list'[h] = list[h] /\ walk'[h] = walk[h]
                                      /\ gpc'[h] = gpc[h] /\ sessions'[h] = sessions[h],
           NoDup(queue[g])', NoDup(list[g])', NoDup(walk[g])',
           gpc'[g] = "walk" => ToSet(walk[g])' \subseteq Listed(g)', gpc'[g] # "ended",
           Queued(g)' = Queued(g) \ {p}, Listed(g)' = Listed(g) \ {p},
           sessions'[g] = sessions[g] - 1,
           \A q \in Proxies : q # p => /\ life'[q] = life[q] /\ group'[q] = group[q]
                                       /\ thread'[q] = thread[q] /\ shaking'[q] = shaking[q],
           life'[p] = "stopped", ~thread'[p], shaking'[p] => shaking[p] /\ stopReq[p],
           UNCHANGED <<kind, stopReq, orphaned, starterVars>>
    PROVE  GroupInv'
<1>1. /\ Types /\ GroupLists /\ StarterAt(p) /\ ThreadAt(p) /\ (p \in Queued(g) \/ p \in Listed(g))
      /\ UNCHANGED <<service, instances, spc, target, tries>>
  BY DEF GroupInv, Served, Queued, Listed, starterVars
<1>2. life[p] \in {"queued", "running"} /\ \A h \in Groups : h # g => p \notin Queued(h) /\ p \notin Listed(h)
  BY <1>1 DEF GroupLists
<1>3. GroupLists'
  BY <1>1, <1>2, ListsMoved
<1>4. InstancesCounted'
  <2>1. Instances' = Instances
    BY <1>1, <1>2 DEF Instances
  <2> QED BY <1>1, <2>1, InstancesKept DEF GroupInv
<1>5. Counts'
  <2> SUFFICES ASSUME NEW h \in Groups
               PROVE  Cardinality(Counted(h)') <= sessions'[h] /\ sessions'[h] <= kind'.max_sessions
    BY DEF Counts
  <2>1. /\ Cardinality(Counted(h)) <= sessions[h] /\ sessions[h] <= kind.max_sessions /\ sessions[h] \in Nat
        /\ kind.max_sessions \in Nat /\ Counted(h) \subseteq Proxies /\ Cardinality(Counted(h)) \in Nat
    BY <1>1, ServiceFields, ServedSessions, FiniteSessions DEF GroupInv, Counts, Types, GroupTypes
  <2>2. CASE h = g
    <3>1. p \in Counted(g) /\ spc[p] \notin {"thread", "push"}
      BY <1>1, <1>2 DEF Counted, StarterAt, Beginning
    <3>2. Counted(g)' \subseteq Counted(g) \ {p} /\ Counted(g) \ {p} \subseteq Proxies
      BY <1>1, <2>1, <2>2, <3>1 DEF Counted, Served, Queued, Listed
    <3>3. Cardinality(Counted(g) \ {p}) = Cardinality(Counted(g)) - 1
      BY <2>1, <2>2, <3>1, FiniteSessions, FS_RemoveElement
    <3>4. Cardinality(Counted(g)') <= Cardinality(Counted(g) \ {p})
      BY <3>2, FiniteSessions, FS_Subset
    <3>5. Cardinality(Counted(g)') \in Nat /\ Cardinality(Counted(g) \ {p}) \in Nat
      BY <3>2, FiniteSessions
    <3> QED BY <2>1, <2>2, <3>3, <3>4, <3>5
  <2>3. CASE h # g
    <3>1. Counted(h)' \subseteq Counted(h)
      BY <1>1, <2>3 DEF Counted, Served
    <3>2. Cardinality(Counted(h)') <= Cardinality(Counted(h)) /\ Cardinality(Counted(h)') \in Nat
      BY <2>1, <3>1, FiniteSessions, FS_Subset
    <3> QED BY <2>1, <2>3, <3>2
  <2> QED BY <2>2, <2>3
<1>6. Orphans'
  <2>1. \A h \in Groups : Served(h)' \subseteq Served(h)
    <3>1. Served(g)' \subseteq Served(g)
      BY DEF Served, Queued, Listed
    <3>2. \A h \in Groups : h # g => Served(h)' = Served(h)
      BY DEF Served
    <3> QED BY <3>1, <3>2
  <2> QED BY <1>1, <2>1, OrphansKept DEF GroupInv, Orphans
<1>7. EventsHaveThread'
  BY DEF EventsHaveThread
<1>8. ASSUME NEW q \in Proxies PROVE StarterAt(q)' /\ ThreadAt(q)'
  <2>1. CASE q = p
    <3>1. StarterAt(p)'
      BY <1>1, <1>2 DEF StarterAt, Beginning
    <3>2. ThreadAt(p)'
      BY <1>1, <1>2 DEF ThreadAt, StarterAt
    <3> QED BY <2>1, <3>1, <3>2
  <2>2. CASE q # p
    BY <1>1, <2>2 DEF GroupInv, StarterAt, ThreadAt
  <2> QED BY <2>1, <2>2
<1> QED BY <1>3, <1>4, <1>5, <1>6, <1>7, <1>8 DEF GroupInv

(* A step that only moves the thread of a group, or wakes one up. *)
LEMMA QuietStep ==
    ASSUME GroupInv, Types', EventsHaveThread',
           UNCHANGED <<kind, life, thread, group, sessions, orphaned, queue, list, starterVars>>,
           \A g \in Groups : NoDup(walk[g])' /\ (gpc'[g] = "walk" => ToSet(walk'[g]) \subseteq Listed(g)),
           \A g \in Groups : gpc'[g] = "ended" => orphaned[g] /\ Served(g) = {},
           \A q \in Proxies : (shaking'[q] => shaking[q]) /\ (stopReq[q] => stopReq'[q])
    PROVE  GroupInv'
<1>1. Types /\ GroupLists /\ UNCHANGED <<service, instances, spc, target, tries>>
  BY DEF GroupInv, starterVars
<1>2. \A g \in Groups : Queued(g)' = Queued(g) /\ Listed(g)' = Listed(g) /\ Served(g)' = Served(g) /\ Counted(g)' = Counted(g)
  BY <1>1 DEF Queued, Listed, Served, Counted
<1>3. GroupLists'
  <2>1. \A g \in Groups : NoDup(queue[g])' /\ NoDup(list[g])' /\ NoDup(walk[g])'
    BY <1>1 DEF GroupLists
  <2>2. \A g \in Groups : gpc'[g] = "walk" => (ToSet(walk[g]) \subseteq Listed(g))'
    BY <1>2
  <2>3. \A g \in Groups : \A p \in Queued(g)' : life'[p] = "queued" /\ \A h \in Groups : p \in Queued(h)' => h = g
    BY <1>1, <1>2 DEF GroupLists
  <2>4. \A g \in Groups : \A p \in Listed(g)' : life'[p] = "running" /\ group'[p] = g
    BY <1>1, <1>2 DEF GroupLists
  <2>5. \A p \in Proxies : life'[p] = "running" => group'[p] \in Groups /\ p \in Listed(group[p])'
    BY <1>1 DEF GroupLists, Listed
  <2> QED BY <2>1, <2>2, <2>3, <2>4, <2>5 DEF GroupLists
<1>4. Counts'
  BY <1>1, <1>2, CountsKept DEF GroupInv
<1>5. InstancesCounted'
  <2>1. Instances' = Instances
    BY <1>1 DEF Instances
  <2> QED BY <1>1, <2>1, InstancesKept DEF GroupInv
<1>6. Orphans'
  BY <1>1, <1>2 DEF GroupInv, Orphans
<1>7. ASSUME NEW q \in Proxies PROVE StarterAt(q)' /\ ThreadAt(q)'
  BY <1>1 DEF GroupInv, StarterAt, ThreadAt
<1> QED BY <1>3, <1>4, <1>5, <1>6, <1>7 DEF GroupInv

(* The control thread. *)
LEMMA ControlSteps ==
    ASSUME GroupInv, crash = "no", NEW p \in Proxies, StopRequest(p) \/ ControlWakeup(p)
    PROVE  GroupInv'
<1>1. Types /\ GroupLists
  BY DEF GroupInv
<1>2. /\ UNCHANGED <<kind, life, thread, group, shaking, sessions, orphaned, started, poll, queue, list, gpc, walk, starterVars>>
      /\ UNCHANGED <<service, instances, spc, target, tries>>
  BY DEF StopRequest, ControlWakeup, groupVars, starterVars, proxyVars
<1>3. /\ stopReq' \in [Proxies -> BOOLEAN] /\ \A q \in Proxies : stopReq[q] => stopReq'[q]
  BY <1>1 DEF StopRequest, ControlWakeup, proxyVars, Types, ProxyTypes
<1>4. wake' \in [Groups -> BOOLEAN]
  BY <1>1 DEF StopRequest, ControlWakeup, groupVars, Types, GroupTypes
<1>5. control' \subseteq Proxies /\ crash' \in {"no", "no_group"}
  BY <1>1 DEF StopRequest, ControlWakeup
<1>6. Types'
  BY <1>1, <1>2, <1>3, <1>4, <1>5 DEF Types, ProxyTypes, GroupTypes, StarterTypes
<1>7. EventsHaveThread'
  BY <1>5 DEF EventsHaveThread
<1>8. \A g \in Groups : NoDup(walk[g])' /\ (gpc'[g] = "walk" => ToSet(walk'[g]) \subseteq Listed(g))
  BY <1>1, <1>2 DEF GroupLists
<1>9. \A g \in Groups : gpc'[g] = "ended" => orphaned[g] /\ Served(g) = {}
  BY <1>2 DEF GroupInv, Orphans
<1> QED BY <1>2, <1>3, <1>6, <1>7, <1>8, <1>9, QuietStep

(* The thread of a group begins, goes to its poll, comes back or ends. *)
LEMMA LoopSteps ==
    ASSUME GroupInv, crash = "no", NEW g \in Groups,
           ThreadFunc(g) \/ Loop(g) \/ StartWalk(g) \/ EndWalk(g) \/ PollWoken(g)
    PROVE  GroupInv'
<1>1. Types /\ GroupLists /\ crash' = crash
  BY DEF GroupInv, ThreadFunc, Loop, StartWalk, EndWalk, PollWoken
<1>2. UNCHANGED <<kind, proxyVars, sessions, orphaned, started, queue, list, starterVars, control, crash>>
  BY DEF ThreadFunc, Loop, StartWalk, EndWalk, PollWoken
<1>3. PICK pc \in {"loop", "drain", "walk", "poll", "ended"} :
         /\ gpc' = [gpc EXCEPT ![g] = pc]
         /\ pc = "ended" => gpc[g] = "loop" /\ ~Needed(g)
         /\ pc = "walk" => StartWalk(g)
  BY DEF ThreadFunc, Loop, StartWalk, EndWalk, PollWoken
<1>4. walk' = walk \/ (walk' = [walk EXCEPT ![g] = list[g]] /\ pc = "walk")
  BY <1>1, <1>3 DEF ThreadFunc, Loop, StartWalk, EndWalk, PollWoken, Types, GroupTypes
<1>5. poll' \in [Groups -> BOOLEAN] /\ wake' \in [Groups -> BOOLEAN]
  BY <1>1 DEF ThreadFunc, Loop, StartWalk, EndWalk, PollWoken, Types, GroupTypes
<1>6. walk' \in [Groups -> Seq(Proxies)] /\ gpc' \in [Groups -> {"none", "init", "loop", "drain", "walk", "poll", "ended"}]
  BY <1>1, <1>3, <1>4 DEF Types, GroupTypes
<1>7. Types'
  BY <1>1, <1>2, <1>5, <1>6 DEF Types, ProxyTypes, GroupTypes, StarterTypes, proxyVars, starterVars
<1>8. \A h \in Groups : gpc'[h] = IF h = g THEN pc ELSE gpc[h]
  BY <1>1, <1>3 DEF Types, GroupTypes
<1>9. pc = "walk" => walk'[g] = list[g]
  BY <1>1, <1>3 DEF StartWalk, Types, GroupTypes
<1>10. \A h \in Groups : walk'[h] = walk[h] \/ (h = g /\ walk'[g] = list[g])
  BY <1>1, <1>4 DEF Types, GroupTypes
<1>11. \A h \in Groups : NoDup(walk[h])' /\ (gpc'[h] = "walk" => ToSet(walk'[h]) \subseteq Listed(h))
  BY <1>1, <1>8, <1>9, <1>10 DEF GroupLists, Listed
<1>12. ASSUME pc = "ended" PROVE orphaned[g] /\ Served(g) = {}
  <2>1. orphaned[g] /\ ~(sessions[g] > 0)
    BY <1>3, <1>12 DEF Needed
  <2>2. sessions[g] = 0
    BY <1>1, <2>1 DEF Types, GroupTypes
  <2>3. Cardinality(Counted(g)) <= 0 /\ Cardinality(Counted(g)) \in Nat /\ IsFiniteSet(Counted(g))
    BY <1>1, <2>2, ServedSessions, FiniteSessions DEF GroupInv, Counts
  <2>4. Counted(g) = {}
    BY <2>3, FS_EmptySet
  <2> QED BY <2>1, <2>4 DEF Counted
<1>13. \A h \in Groups : gpc'[h] = "ended" => orphaned[h] /\ Served(h) = {}
  BY <1>8, <1>12 DEF GroupInv, Orphans
<1>14. EventsHaveThread'
  BY <1>1 DEF EventsHaveThread
<1> QED BY <1>2, <1>7, <1>11, <1>13, <1>14, QuietStep DEF proxyVars
(* What z_proxy_nonblocking_stop does to the group, and to the session. *)
LEMMA StopFacts ==
    ASSUME GroupInv, crash = "no", NEW g \in Groups, NEW p \in Proxies, p \in Served(g), NonblockingStop(g, p)
    PROVE  /\ crash' = "no"
           /\ life' \in [Proxies -> Lives] /\ thread' \in [Proxies -> BOOLEAN]
           /\ sessions' \in [Groups -> Nat] /\ list' \in [Groups -> Seq(Proxies)]
           /\ \A h \in Groups : h # g => list'[h] = list[h] /\ sessions'[h] = sessions[h]
           /\ NoDup(list[g])' /\ Listed(g)' = Listed(g) \ {p} /\ sessions'[g] = sessions[g] - 1
           /\ \A q \in Proxies : q # p => life'[q] = life[q] /\ thread'[q] = thread[q]
           /\ life'[p] = "stopped" /\ ~thread'[p]
<1>1. Types /\ GroupLists /\ ThreadAt(p) /\ life[p] \in {"queued", "running"}
  BY DEF GroupInv, GroupLists, Served, Queued, Listed
<1>2. thread[p]
  BY <1>1 DEF ThreadAt
<1>3. /\ life' = [life EXCEPT ![p] = "stopped"] /\ thread' = [thread EXCEPT ![p] = FALSE]
      /\ list' = [list EXCEPT ![g] = RemoveFirst(@, p)] /\ sessions' = [sessions EXCEPT ![g] = @ - 1] /\ crash' = crash
  BY <1>2 DEF NonblockingStop
<1>4. /\ RemoveFirst(list[g], p) \in Seq(Proxies) /\ NoDup(RemoveFirst(list[g], p))
      /\ ToSet(RemoveFirst(list[g], p)) = ToSet(list[g]) \ {p}
  BY <1>1, RemoveFirstSet DEF Types, GroupTypes, GroupLists
<1>5. list' \in [Groups -> Seq(Proxies)] /\ list'[g] = RemoveFirst(list[g], p)
  BY <1>1, <1>3, <1>4 DEF Types, GroupTypes
<1>6. sessions[g] \in Nat /\ sessions[g] >= 1
  <2>1. p \in Counted(g) /\ IsFiniteSet(Counted(g)) /\ Cardinality(Counted(g)) \in Nat /\ Cardinality(Counted(g)) <= sessions[g] /\ sessions[g] \in Nat
    BY <1>1, ServedSessions, FiniteSessions DEF GroupInv, Counts, Counted, Types, GroupTypes
  <2>2. Cardinality(Counted(g)) # 0
    BY <2>1, FS_EmptySet
  <2> QED BY <2>1, <2>2
<1>7. sessions' \in [Groups -> Nat]
  BY <1>1, <1>3, <1>6 DEF Types, GroupTypes
<1>8. NoDup(list[g])' /\ Listed(g)' = Listed(g) \ {p}
  BY <1>4, <1>5 DEF Listed
<1> QED BY <1>1, <1>3, <1>5, <1>7, <1>8 DEF Types, ProxyTypes, GroupTypes, Lives

(* The loop over the list of a group: a session that was asked to stop ends. *)
LEMMA WalkStep == ASSUME GroupInv, crash = "no", NEW g \in Groups, Walk(g) PROVE GroupInv'
<1>1. /\ Types /\ GroupLists /\ gpc[g] = "walk" /\ walk[g] # <<>> /\ walk[g] \in Seq(Proxies)
      /\ NoDup(walk[g]) /\ ToSet(walk[g]) \subseteq Listed(g)
  BY DEF GroupInv, Walk, GroupLists, Types, GroupTypes
<1>2. UNCHANGED <<kind, group, stopReq, shaking, orphaned, started, poll, queue, wake, gpc, starterVars, control>>
  BY DEF Walk
<1>3. PICK p \in Proxies : p = Head(walk[g]) /\ p \in Listed(g) /\ p \in Served(g)
  BY <1>1, HeadTailSet DEF Listed, Served
<1>4. PICK rest \in {Tail(walk[g]), <<>>} : walk' = [walk EXCEPT ![g] = rest]
  BY <1>3 DEF Walk
<1>5. rest \in Seq(Proxies) /\ NoDup(rest) /\ ToSet(rest) \subseteq ToSet(walk[g]) \ {p}
  <2>1. /\ Tail(walk[g]) \in Seq(Proxies) /\ NoDup(Tail(walk[g]))
        /\ ToSet(Tail(walk[g])) = ToSet(walk[g]) \ {p}
    BY <1>1, <1>3, HeadTailSet
  <2>2. CASE rest = Tail(walk[g])
    BY <2>1, <2>2
  <2>3. CASE rest = <<>>
    BY <2>3, NothingListed
  <2> QED BY <1>4, <2>2, <2>3
<1>6. walk' \in [Groups -> Seq(Proxies)] /\ walk'[g] = rest /\ \A h \in Groups : h # g => walk'[h] = walk[h]
  BY <1>1, <1>4, <1>5 DEF Types, GroupTypes
<1>7. CASE stopReq[p]
  <2>1. NonblockingStop(g, p)
    BY <1>3, <1>7 DEF Walk
  <2>2. /\ crash' = "no"
        /\ life' \in [Proxies -> Lives] /\ thread' \in [Proxies -> BOOLEAN]
        /\ sessions' \in [Groups -> Nat] /\ list' \in [Groups -> Seq(Proxies)]
        /\ \A h \in Groups : h # g => list'[h] = list[h] /\ sessions'[h] = sessions[h]
        /\ NoDup(list[g])' /\ Listed(g)' = Listed(g) \ {p} /\ sessions'[g] = sessions[g] - 1
        /\ \A q \in Proxies : q # p => life'[q] = life[q] /\ thread'[q] = thread[q]
        /\ life'[p] = "stopped" /\ ~thread'[p]
    BY <1>3, <2>1, StopFacts
  <2>3. Types'
    BY <1>1, <1>2, <1>6, <2>2 DEF Types, ProxyTypes, GroupTypes, StarterTypes, starterVars
  <2>4. NoDup(queue[g])' /\ NoDup(walk[g])' /\ Queued(g)' = Queued(g) \ {p}
    <3>1. p \notin Queued(g)
      BY <1>1, <1>3 DEF GroupLists
    <3> QED BY <1>1, <1>2, <1>5, <1>6, <3>1 DEF Queued, GroupLists
  <2>5. ToSet(walk[g])' \subseteq Listed(g)'
    BY <1>1, <1>5, <1>6, <2>2
  <2>6. gpc'[g] # "ended"
    BY <1>1, <1>2
  <2>7. \A h \in Groups : h # g => /\ queue'[h] = queue[h] /\ list'[h] = list[h] /\ walk'[h] = walk[h]
                                   /\ gpc'[h] = gpc[h] /\ sessions'[h] = sessions[h]
    BY <1>2, <1>6, <2>2
  <2>8. /\ \A q \in Proxies : q # p => /\ life'[q] = life[q] /\ group'[q] = group[q]
                                      /\ thread'[q] = thread[q] /\ shaking'[q] = shaking[q]
        /\ shaking'[p] => shaking[p] /\ stopReq[p]
    BY <1>2, <1>7, <2>2
  <2>9. /\ Listed(g)' = Listed(g) \ {p} /\ sessions'[g] = sessions[g] - 1 /\ NoDup(list[g])'
        /\ life'[p] = "stopped" /\ ~thread'[p] /\ crash' = "no" /\ p \in Served(g)
    BY <1>3, <2>2
  <2> QED BY <1>2, <2>3, <2>4, <2>5, <2>6, <2>7, <2>8, <2>9, StopStep
<1>8. CASE ~stopReq[p]
  <2>1. UNCHANGED <<life, thread, list, sessions, crash>>
    BY <1>3, <1>8 DEF Walk
  <2>2. Types'
    BY <1>1, <1>2, <1>6, <2>1 DEF Types, ProxyTypes, GroupTypes, StarterTypes, starterVars
  <2>3. \A h \in Groups : NoDup(walk[h])' /\ (gpc'[h] = "walk" => ToSet(walk'[h]) \subseteq Listed(h))
    BY <1>1, <1>2, <1>5, <1>6 DEF GroupLists
  <2>4. \A h \in Groups : gpc'[h] = "ended" => orphaned[h] /\ Served(h) = {}
    BY <1>2 DEF GroupInv, Orphans
  <2>5. EventsHaveThread'
    BY <2>1 DEF EventsHaveThread
  <2> QED BY <1>2, <2>1, <2>2, <2>3, <2>4, <2>5, QuietStep
<1> QED BY <1>7, <1>8

(* A session of the list ends while the group polls: on its own, or when    *)
(* its handshake fails.                                                     *)
LEMMA PolledStop ==
    ASSUME GroupInv, crash = "no", NEW g \in Groups, NEW p \in Proxies, p \in Listed(g),
           NonblockingStop(g, p), gpc' = [gpc EXCEPT ![g] = "loop"],
           shaking' = shaking \/ shaking' = [shaking EXCEPT ![p] = FALSE], ~shaking'[p],
           UNCHANGED <<kind, group, stopReq, orphaned, started, poll, queue, wake, walk, starterVars, control>>
    PROVE  GroupInv'
<1>1. Types /\ GroupLists /\ p \in Served(g)
  BY DEF GroupInv, Listed, Served
<1>2. /\ crash' = "no"
      /\ life' \in [Proxies -> Lives] /\ thread' \in [Proxies -> BOOLEAN]
      /\ sessions' \in [Groups -> Nat] /\ list' \in [Groups -> Seq(Proxies)]
      /\ \A h \in Groups : h # g => list'[h] = list[h] /\ sessions'[h] = sessions[h]
      /\ NoDup(list[g])' /\ Listed(g)' = Listed(g) \ {p} /\ sessions'[g] = sessions[g] - 1
      /\ \A q \in Proxies : q # p => life'[q] = life[q] /\ thread'[q] = thread[q]
      /\ life'[p] = "stopped" /\ ~thread'[p]
  BY <1>1, StopFacts
<1>3. /\ shaking' \in [Proxies -> BOOLEAN] /\ \A q \in Proxies : q # p => shaking'[q] = shaking[q]
  BY <1>1 DEF Types, ProxyTypes
<1>4. /\ gpc' \in [Groups -> {"none", "init", "loop", "drain", "walk", "poll", "ended"}]
      /\ gpc'[g] = "loop" /\ \A h \in Groups : h # g => gpc'[h] = gpc[h]
  BY <1>1 DEF Types, GroupTypes
<1>5. Types'
  BY <1>1, <1>2, <1>3, <1>4 DEF Types, ProxyTypes, GroupTypes, StarterTypes, starterVars
<1>6. NoDup(queue[g])' /\ NoDup(walk[g])' /\ Queued(g)' = Queued(g) \ {p}
  <2>1. p \notin Queued(g)
    BY <1>1 DEF GroupLists
  <2> QED BY <1>1, <2>1 DEF Queued, GroupLists
<1>7. \A h \in Groups : h # g => /\ queue'[h] = queue[h] /\ list'[h] = list[h] /\ walk'[h] = walk[h]
                                 /\ gpc'[h] = gpc[h] /\ sessions'[h] = sessions[h]
  BY <1>2, <1>4
<1>8. /\ \A q \in Proxies : q # p => /\ life'[q] = life[q] /\ group'[q] = group[q]
                                    /\ thread'[q] = thread[q] /\ shaking'[q] = shaking[q]
      /\ shaking'[p] => shaking[p] /\ stopReq[p]
  BY <1>2, <1>3
<1>9. gpc'[g] # "ended" /\ (gpc'[g] = "walk" => ToSet(walk[g])' \subseteq Listed(g)')
  BY <1>4
<1>10. /\ Listed(g)' = Listed(g) \ {p} /\ sessions'[g] = sessions[g] - 1 /\ NoDup(list[g])'
       /\ life'[p] = "stopped" /\ ~thread'[p] /\ crash' = "no"
  BY <1>2
<1> QED BY <1>1, <1>5, <1>6, <1>7, <1>8, <1>9, <1>10, StopStep

(* plug_finish and the like. *)
LEMMA FinishStep ==
    ASSUME GroupInv, crash = "no", NEW g \in Groups, NEW p \in Proxies, Finish(g, p)
    PROVE  GroupInv'
<1>1. Types /\ list[g] \in Seq(Proxies)
  BY DEF GroupInv, Types, GroupTypes
<1>2. p \in Listed(g)
  BY <1>1 DEF Finish, Contains, Listed, ToSet
<1> QED BY <1>2, PolledStop DEF Finish

(* A handshake ends: in a session that runs, or after it was stopped. *)
LEMMA HandshakeStep ==
    ASSUME GroupInv, crash = "no", NEW g \in Groups, NEW p \in Proxies, HandshakeCompleted(g, p)
    PROVE  GroupInv'
<1>1. /\ Types /\ GroupLists /\ ThreadAt(p) /\ shaking[p] /\ group[p] = g /\ gpc[g] = "poll"
      /\ shaking' = [shaking EXCEPT ![p] = FALSE] /\ gpc' = [gpc EXCEPT ![g] = "loop"]
  BY DEF GroupInv, HandshakeCompleted
<1>2. UNCHANGED <<kind, group, stopReq, orphaned, started, poll, queue, wake, walk, starterVars, control>>
  BY DEF HandshakeCompleted
<1>3. shaking' \in [Proxies -> BOOLEAN] /\ ~shaking'[p] /\ \A q \in Proxies : shaking'[q] => shaking[q]
  BY <1>1 DEF Types, ProxyTypes
<1>4. /\ gpc' \in [Groups -> {"none", "init", "loop", "drain", "walk", "poll", "ended"}]
      /\ gpc'[g] = "loop" /\ \A h \in Groups : h # g => gpc'[h] = gpc[h]
  BY <1>1 DEF Types, GroupTypes
<1>5. CASE life[p] = "running" /\ NonblockingStop(g, p)
  <2>1. p \in Listed(g)
    BY <1>1, <1>5 DEF GroupLists
  <2> QED BY <1>1, <1>2, <1>3, <1>5, <2>1, PolledStop
<1>6. CASE UNCHANGED <<life, thread, list, sessions>> /\ (crash' = "no" \/ (crash' = "no_thread" /\ life[p] # "running"))
  <2>1. Types'
    BY <1>1, <1>2, <1>3, <1>4, <1>6 DEF Types, ProxyTypes, GroupTypes, StarterTypes, starterVars
  <2>2. \A h \in Groups : NoDup(walk[h])' /\ (gpc'[h] = "walk" => ToSet(walk'[h]) \subseteq Listed(h))
    BY <1>1, <1>2, <1>4 DEF GroupLists
  <2>3. \A h \in Groups : gpc'[h] = "ended" => orphaned[h] /\ Served(h) = {}
    BY <1>4 DEF GroupInv, Orphans
  <2>4. life[p] # "running" => "handshake" \in kind.faults /\ stopReq[p] /\ ~thread[p]
    BY <1>1 DEF ThreadAt
  <2>5. EventsHaveThread'
    BY <1>2, <1>6, <2>4 DEF EventsHaveThread
  <2> QED BY <1>2, <1>3, <1>6, <2>1, <2>2, <2>3, <2>5, QuietStep
<1>7. life[p] # "running" => ~thread[p]
  BY <1>1 DEF ThreadAt
<1> QED BY <1>5, <1>6, <1>7 DEF HandshakeCompleted, NonblockingStop
(* A session is taken out of the start queue: it runs, or its start fails. *)
LEMMA DrainStep == ASSUME GroupInv, crash = "no", NEW g \in Groups, Drain(g) PROVE GroupInv'
<1>1. /\ Types /\ GroupLists /\ gpc[g] = "drain" /\ queue[g] # <<>> /\ queue[g] \in Seq(Proxies) /\ list[g] \in Seq(Proxies)
      /\ NoDup(queue[g]) /\ NoDup(list[g])
  BY DEF GroupInv, Drain, GroupLists, Types, GroupTypes
<1>2. UNCHANGED <<kind, stopReq, orphaned, started, poll, wake, gpc, walk, starterVars, control>>
  BY DEF Drain
<1>3. PICK p \in Proxies : p = Head(queue[g]) /\ p \in Queued(g) /\ p \in Served(g)
  BY <1>1, HeadTailSet DEF Queued, Served
<1>4. /\ Tail(queue[g]) \in Seq(Proxies) /\ NoDup(Tail(queue[g])) /\ ToSet(Tail(queue[g])) = Queued(g) \ {p}
  BY <1>1, <1>3, HeadTailSet DEF Queued
<1>5. queue' = [queue EXCEPT ![g] = Tail(@)] /\ group' = [group EXCEPT ![p] = g]
  BY <1>3 DEF Drain
<1>6. /\ queue' \in [Groups -> Seq(Proxies)] /\ queue'[g] = Tail(queue[g]) /\ \A h \in Groups : h # g => queue'[h] = queue[h]
      /\ group' \in [Proxies -> Groups \union {None}] /\ group'[p] = g /\ \A q \in Proxies : q # p => group'[q] = group[q]
  BY <1>1, <1>4, <1>5 DEF Types, GroupTypes, ProxyTypes
<1>7. NoDup(queue[g])' /\ Queued(g)' = Queued(g) \ {p}
  BY <1>4, <1>6 DEF Queued
<1>8. /\ life[p] = "queued" /\ ThreadAt(p) /\ StarterAt(p) /\ thread[p] /\ ~shaking[p] /\ tries[p] >= 1
      /\ \A h \in Groups : p \notin Listed(h) /\ (h # g => p \notin Queued(h))
  <2>1. life[p] = "queued" /\ ThreadAt(p) /\ StarterAt(p)
    BY <1>1, <1>3 DEF GroupInv, GroupLists
  <2>2. thread[p] /\ ~shaking[p]
    BY <2>1 DEF ThreadAt
  <2>3. tries[p] >= 1
    BY <2>1 DEF StarterAt
  <2>4. \A h \in Groups : p \notin Listed(h) /\ (h # g => p \notin Queued(h))
    BY <1>1, <1>3, <2>1 DEF GroupLists
  <2> QED BY <2>1, <2>2, <2>3, <2>4
<1>9. CASE NonblockingStop(g, p) /\ shaking' = shaking
  <2>1. /\ crash' = "no"
        /\ life' \in [Proxies -> Lives] /\ thread' \in [Proxies -> BOOLEAN]
        /\ sessions' \in [Groups -> Nat] /\ list' \in [Groups -> Seq(Proxies)]
        /\ \A h \in Groups : h # g => list'[h] = list[h] /\ sessions'[h] = sessions[h]
        /\ NoDup(list[g])' /\ Listed(g)' = Listed(g) \ {p} /\ sessions'[g] = sessions[g] - 1
        /\ \A q \in Proxies : q # p => life'[q] = life[q] /\ thread'[q] = thread[q]
        /\ life'[p] = "stopped" /\ ~thread'[p]
    BY <1>3, <1>9, StopFacts
  <2>2. Types'
    BY <1>1, <1>2, <1>6, <1>9, <2>1 DEF Types, ProxyTypes, GroupTypes, StarterTypes, starterVars
  <2>3. NoDup(walk[g])' /\ gpc'[g] # "ended" /\ (gpc'[g] = "walk" => ToSet(walk[g])' \subseteq Listed(g)')
    BY <1>1, <1>2 DEF GroupLists
  <2>4. \A h \in Groups : h # g => /\ queue'[h] = queue[h] /\ list'[h] = list[h] /\ walk'[h] = walk[h]
                                   /\ gpc'[h] = gpc[h] /\ sessions'[h] = sessions[h]
    BY <1>2, <1>6, <2>1
  <2>5. /\ \A q \in Proxies : q # p => /\ life'[q] = life[q] /\ group'[q] = group[q]
                                      /\ thread'[q] = thread[q] /\ shaking'[q] = shaking[q]
        /\ shaking'[p] => shaking[p] /\ stopReq[p]
    BY <1>6, <1>8, <1>9, <2>1
  <2>6. p \in Served(g) /\ UNCHANGED <<kind, stopReq, orphaned, starterVars>>
    BY <1>2, <1>3
  <2>7. /\ Listed(g)' = Listed(g) \ {p} /\ sessions'[g] = sessions[g] - 1 /\ NoDup(list[g])'
        /\ life'[p] = "stopped" /\ ~thread'[p] /\ crash' = "no"
    BY <2>1
  <2> QED BY <1>7, <2>2, <2>3, <2>4, <2>5, <2>6, <2>7, StopStep
<1>10. CASE /\ life' = [life EXCEPT ![p] = "running"] /\ list' = [list EXCEPT ![g] = <<p>> \o @]
            /\ shaking' = shaking \/ ("handshake" \in kind.faults /\ shaking' = [shaking EXCEPT ![p] = TRUE])
            /\ UNCHANGED <<thread, sessions, crash>>
  <2>1. /\ <<p>> \o list[g] \in Seq(Proxies) /\ NoDup(<<p>> \o list[g]) /\ ToSet(<<p>> \o list[g]) = Listed(g) \union {p}
    BY <1>1, <1>8, PrependSet DEF Listed
  <2>2. /\ list' \in [Groups -> Seq(Proxies)] /\ list'[g] = <<p>> \o list[g] /\ \A h \in Groups : h # g => list'[h] = list[h]
    BY <1>1, <1>10, <2>1 DEF Types, GroupTypes
  <2>3. NoDup(list[g])' /\ Listed(g)' = Listed(g) \union {p}
    BY <2>1, <2>2 DEF Listed
  <2>4. /\ life' \in [Proxies -> Lives] /\ \A q \in Proxies : life'[q] = IF q = p THEN "running" ELSE life[q]
    BY <1>1, <1>10 DEF Types, ProxyTypes, Lives
  <2>5. /\ shaking' \in [Proxies -> BOOLEAN] /\ (shaking'[p] => "handshake" \in kind.faults)
        /\ \A q \in Proxies : q # p => shaking'[q] = shaking[q]
    BY <1>1, <1>8, <1>10 DEF Types, ProxyTypes
  <2>6. Types'
    BY <1>1, <1>2, <1>6, <1>10, <2>2, <2>4, <2>5 DEF Types, ProxyTypes, GroupTypes, StarterTypes, starterVars
  <2>7. GroupLists'
    <3>1. NoDup(walk[g])' /\ (gpc'[g] = "walk" => ToSet(walk[g])' \subseteq Listed(g)')
      BY <1>1, <1>2 DEF GroupLists
    <3>2. \A h \in Groups : h # g => /\ queue'[h] = queue[h] /\ list'[h] = list[h] /\ walk'[h] = walk[h]
                                     /\ gpc'[h] = gpc[h]
      BY <1>2, <1>6, <2>2
    <3>3. /\ \A q \in Proxies : q # p => life'[q] = life[q] /\ group'[q] = group[q]
          /\ p \in Queued(g)' <=> life'[p] = "queued"
          /\ p \in Listed(g)' <=> life'[p] = "running"
      BY <1>6, <1>7, <2>3, <2>4
    <3>4. Queued(g)' \ {p} = Queued(g) \ {p} /\ Listed(g)' \ {p} = Listed(g) \ {p}
      BY <1>7, <2>3
    <3> QED BY <1>1, <1>6, <1>7, <1>8, <2>3, <3>1, <3>2, <3>3, <3>4, ListsMoved
  <2>8. UNCHANGED <<service, instances, spc, target, tries>>
    BY <1>2 DEF starterVars
  <2>9. \A h \in Groups : Served(h)' = Served(h)
    <3>1. Served(g)' = Served(g)
      BY <1>3, <1>7, <2>3 DEF Served, Queued, Listed
    <3>2. \A h \in Groups : h # g => Served(h)' = Served(h)
      BY <1>6, <2>2 DEF Served
    <3> QED BY <3>1, <3>2
  <2>10. Counts'
    <3>1. \A h \in Groups : Counted(h)' \subseteq Counted(h)
      BY <2>8, <2>9 DEF Counted
    <3> QED BY <1>1, <1>2, <1>10, <3>1, CountsKept DEF GroupInv
  <2>11. InstancesCounted'
    <3>1. Instances' = Instances
      BY <1>8, <2>4, <2>8 DEF Instances
    <3> QED BY <1>1, <1>2, <2>8, <3>1, InstancesKept DEF GroupInv
  <2>12. Orphans'
    BY <1>2, <2>8, <2>9, OrphansKept DEF GroupInv, Orphans
  <2>13. EventsHaveThread'
    BY <1>10 DEF EventsHaveThread
  <2>14. ASSUME NEW q \in Proxies PROVE StarterAt(q)' /\ ThreadAt(q)'
    <3>1. CASE q = p
      <4>1. StarterAt(p)'
        BY <1>2, <1>8, <2>4, <2>8 DEF StarterAt, Beginning
      <4>2. ThreadAt(p)'
        BY <1>2, <1>8, <1>10, <2>4, <2>5, <2>8 DEF ThreadAt
      <4> QED BY <3>1, <4>1, <4>2
    <3>2. CASE q # p
      BY <1>2, <1>10, <2>4, <2>5, <2>8, <3>2 DEF GroupInv, StarterAt, ThreadAt
    <3> QED BY <3>1, <3>2
  <2> QED BY <2>6, <2>7, <2>10, <2>11, <2>12, <2>13, <2>14 DEF GroupInv
<1> QED BY <1>3, <1>9, <1>10 DEF Drain

-----------------------------------------------------------------------------
(* The service begins with an empty group. *)
LEMMA InitGood == Init => GroupInv
<1> SUFFICES ASSUME Init PROVE GroupInv
  OBVIOUS
<1>1. Types
  <2>1. 1 \in Groups /\ None \in Groups \union {None}
    BY GroupConstants DEF Groups
  <2> QED BY <2>1 DEF Init, Types, ProxyTypes, GroupTypes, StarterTypes, Lives
<1>2. \A g \in Groups : queue[g] = <<>> /\ list[g] = <<>> /\ walk[g] = <<>> /\ gpc[g] = "none" /\ sessions[g] = 0 /\ ~orphaned[g]
  BY DEF Init
<1>3. \A p \in Proxies : /\ life[p] = "new" /\ thread[p] /\ ~shaking[p] /\ spc[p] = "idle"
                         /\ target[p] = None /\ tries[p] = 0
  BY DEF Init
<1>4. \A g \in Groups : Queued(g) = {} /\ Listed(g) = {} /\ Served(g) = {} /\ Counted(g) = {}
  BY <1>2, <1>3, NothingListed DEF Queued, Listed, Served, Counted
<1>5. GroupLists
  BY <1>2, <1>3, <1>4, NothingListed DEF GroupLists
<1>6. Cardinality({}) = 0 /\ kind.max_sessions \in Nat /\ kind.starters \in Nat \ {0} /\ kind.max_instances \in Nat
  <2>1. kind \in ServiceKinds
    BY <1>1, GroupConstants DEF Types
  <2>2. kind.max_sessions \in Nat /\ kind.starters \in Nat \ {0} /\ kind.max_instances \in Nat
    BY <2>1 DEF ServiceKinds
  <2> QED BY <2>2, FS_EmptySet
<1>7. Counts
  <2> SUFFICES ASSUME NEW g \in Groups
               PROVE  Cardinality(Counted(g)) <= sessions[g] /\ sessions[g] <= kind.max_sessions
    BY DEF Counts
  <2>1. Counted(g) = {} /\ sessions[g] = 0
    BY <1>2, <1>4
  <2> QED BY <1>6, <2>1
<1>8. InstancesCounted
  <2>1. Instances = {} /\ {p \in Proxies : spc[p] = "instance"} = {}
    BY <1>3 DEF Instances
  <2>2. instances = 0
    BY DEF Init
  <2> QED BY <1>6, <2>1, <2>2 DEF InstancesCounted
<1>9. Orphans /\ EventsHaveThread
  BY <1>2 DEF Init, Orphans, EventsHaveThread
<1>10. \A p \in Proxies : StarterAt(p) /\ ThreadAt(p)
  BY <1>3 DEF StarterAt, ThreadAt, Beginning
<1> QED BY <1>1, <1>5, <1>7, <1>8, <1>9, <1>10 DEF GroupInv

(* No step of a starter, of a group's thread or of the control thread       *)
(* breaks the invariant.                                                    *)
LEMMA StepGood == GroupInv /\ [Next]_vars => GroupInv'
<1> SUFFICES ASSUME GroupInv, [Next]_vars PROVE GroupInv'
  OBVIOUS
<1>1. CASE crash = "no" /\ \E p \in Proxies : \/ StartInstance(p) \/ Starter(p) \/ SessionFreed(p)
                                             \/ ThreadedRun(p) \/ StopRequest(p) \/ ControlWakeup(p)
  <2>1. PICK p \in Proxies : \/ StartInstance(p) \/ Starter(p) \/ SessionFreed(p)
                             \/ ThreadedRun(p) \/ StopRequest(p) \/ ControlWakeup(p)
    BY <1>1
  <2>2. CASE Starter(p)
    BY <1>1, <2>2, CountInstanceStep, LookupStep, StartSessionStep, RefusedSteps, NewGroupStep, GiveUpStep,
       StartThreadStep, PushStep, ThreadedStartStep, ThreadedStartFailsStep DEF Starter
  <2> QED BY <1>1, <2>1, <2>2, StartInstanceStep, SessionFreedStep, ThreadedRunStep, ControlSteps
<1>2. CASE crash = "no" /\ \E g \in Groups : \/ GroupThread(g)
                                            \/ \E p \in Proxies : Finish(g, p) \/ HandshakeCompleted(g, p)
  <2>1. PICK g \in Groups : GroupThread(g) \/ \E p \in Proxies : Finish(g, p) \/ HandshakeCompleted(g, p)
    BY <1>2
  <2>2. CASE GroupThread(g)
    BY <1>2, <2>2, LoopSteps, DrainStep, WalkStep DEF GroupThread
  <2>3. CASE \E p \in Proxies : Finish(g, p) \/ HandshakeCompleted(g, p)
    BY <1>2, <2>3, FinishStep, HandshakeStep
  <2> QED BY <2>1, <2>2, <2>3
<1>3. CASE UNCHANGED vars
  <2>1. /\ UNCHANGED <<kind, life, thread, group, sessions, orphaned, queue, list, starterVars>>
        /\ UNCHANGED <<stopReq, shaking, started, poll, wake, gpc, walk, control, crash>>
    BY <1>3 DEF vars, proxyVars, groupVars
  <2>2. Types'
    BY <2>1 DEF GroupInv, Types, ProxyTypes, GroupTypes, StarterTypes, starterVars
  <2>3. EventsHaveThread'
    BY <2>1 DEF GroupInv, EventsHaveThread, starterVars
  <2>4. \A g \in Groups : NoDup(walk[g])' /\ (gpc'[g] = "walk" => ToSet(walk'[g]) \subseteq Listed(g))
    BY <2>1 DEF GroupInv, GroupLists
  <2>5. \A g \in Groups : gpc'[g] = "ended" => orphaned[g] /\ Served(g) = {}
    BY <2>1 DEF GroupInv, Orphans
  <2> QED BY <2>1, <2>2, <2>3, <2>4, <2>5, QuietStep
<1> QED BY <1>1, <1>2, <1>3 DEF Next

(* The invariant holds for every service, whatever fails. *)
THEOREM GroupInvariant == Spec => []GroupInv
  BY InitGood, StepGood, PTL DEF Spec

(* The limit follows from the counter, which counts every session that is   *)
(* served.                                                                  *)
LEMMA LimitFollows == GroupInv => GroupSound
<1> SUFFICES ASSUME GroupInv PROVE GroupSound
  OBVIOUS
<1>1. GroupTypeOK /\ Types
  BY TypesEnough DEF GroupInv
<1>2. LimitRespected
  <2> SUFFICES ASSUME NEW g \in Groups PROVE Cardinality(Served(g)) <= kind.max_sessions
    BY DEF LimitRespected
  <2>1. Served(g) \subseteq Counted(g) /\ Counted(g) \subseteq Proxies
    BY <1>1, ServedSessions DEF Counted
  <2>2. Cardinality(Served(g)) <= Cardinality(Counted(g)) /\ Cardinality(Served(g)) \in Nat /\ Cardinality(Counted(g)) \in Nat
    BY <2>1, FiniteSessions, FS_Subset
  <2>3. Cardinality(Counted(g)) <= sessions[g] /\ sessions[g] <= kind.max_sessions /\ sessions[g] \in Nat /\ kind.max_sessions \in Nat
    BY <1>1, ServiceFields DEF GroupInv, Counts, Types, GroupTypes
  <2> QED BY <2>2, <2>3
<1>3. InstanceLimit
  <2> DEFINE I == {p \in Proxies : spc[p] = "instance"}
  <2>1. Cardinality(I) \in Nat /\ kind.max_instances \in Nat /\ kind.starters \in Nat /\ instances \in Nat
    BY <1>1, FiniteSessions, ServiceFields DEF Types, GroupTypeOK
  <2>2. kind.max_instances # 0 => instances + Cardinality(I) < kind.max_instances + kind.starters
    BY DEF GroupInv, InstancesCounted
  <2> HIDE DEF I
  <2> QED BY <2>1, <2>2 DEF InstanceLimit
<1> QED BY <1>1, <1>2, <1>3 DEF GroupInv, GroupSound

(* No group serves more sessions than it may, no service has more instances *)
(* than the racing dispatchers explain, and the events of a proxy are       *)
(* called with its policy thread but in the two cases EventsHaveThread      *)
(* names.                                                                   *)
THEOREM GroupIsSound == Spec => []GroupSound
  BY GroupInvariant, LimitFollows, PTL

(* No session is left in a group whose thread has ended, nor can a starter  *)
(* still hand one over to it.                                               *)
THEOREM GroupNeverStrands == Spec => []NothingStranded
<1>1. GroupInv => NothingStranded
  BY DEF GroupInv, Orphans, NothingStranded
<1> QED BY <1>1, GroupInvariant, PTL
=============================================================================
