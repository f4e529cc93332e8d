--------------------------- MODULE ControlProofs ---------------------------
(****************************************************************************)
(* The main loop and its policies, proved for any number of policies,       *)
(* versions of the policy file, sessions and SZIG clients; then the         *)
(* chainers and the NAT policies, for any number of sessions, targets and   *)
(* NAT policies; then zorpctl, for any instances and any number of          *)
(* processes and commands; then SZIG, for any number of sessions and ticks. *)
(****************************************************************************)
EXTENDS MainLoop, Chaining, Zorpctl, Szig, FiniteSetTheorems, WellFoundedInduction, TLAPS

LoopAts == {"load", "init", "unload", "swap", "poll", "dispatch", "term", "cleanup", "ended", "failed"}
PolicyRec == [ver : Nat, refs : Int, on : BOOLEAN, idle : Int, freed : BOOLEAN]
AskRec == [at : {"idle", "ask", "initiated", "askresult", "done"}, ver : Nat, answer : BOOLEAN, told : Nat]
AllClients == UNION {c.clients : c \in LoopConfs}
LoopRec ==
    [conf : LoopConfs, at : LoopAts, file : 1 .. MaxVersions, good : [1 .. MaxVersions -> Outcomes],
     cur : 0 .. MaxPolicies, new : 0 .. MaxPolicies, pol : [PolicyIds -> PolicyRec], hup : BOOLEAN, term : BOOLEAN,
     result : BOOLEAN, ready : SUBSET (({"client"} \X AllClients) \union ({"idle"} \X PolicyIds)),
     asks : UNION {[D -> AskRec] : D \in SUBSET AllClients}, session : [LoopSessions -> 0 .. MaxPolicies],
     signals : Nat, wanted : Nat]

(* Who refers to a policy: its sessions, and the main loop for the current  *)
(* policy and the one being loaded.                                         *)
SessionsIn(s, p) == {x \in LoopSessions : s.session[x] = p}
InUse(s, p) == p = s.cur \/ p = s.new
PolicyAt(s, p) ==
    IF s.pol[p].ver = 0
      THEN s.pol[p] = NoPolicy /\ ~InUse(s, p) /\ SessionsIn(s, p) = {}
      ELSE /\ s.pol[p].refs = 1 + (IF InUse(s, p) THEN 1 ELSE 0) + Cardinality(SessionsIn(s, p))
           /\ s.pol[p].idle \in {0, 1} /\ ~(s.pol[p].idle = 1 /\ s.pol[p].freed)
           /\ s.pol[p].idle = 1 \/ s.pol[p].freed <=> s.pol[p].refs = 1
           /\ s.pol[p].on => InUse(s, p)

(* The policies have been used in order. *)
InOrder(s) == \E n \in 0 .. MaxPolicies : \A p \in PolicyIds : p > n <=> s.pol[p].ver = 0

(* What the main thread is about. *)
Loading == {"init", "unload", "swap"}
Looping == {"poll", "dispatch", "term"}
LoopAt(s) ==
    /\ s.at \in Looping \union {"cleanup"} => s.cur # 0
    /\ s.at \in Loading => s.new # 0 /\ s.new # s.cur
    /\ s.at \notin Loading => s.new = 0
    /\ s.at = "init" => ~s.pol[s.new].on
    /\ s.at = "swap" => s.pol[s.new].on
    /\ s.cur # 0 => s.pol[s.cur].on
    /\ s.at = "dispatch" => \A p \in PolicyIds : <<"idle", p>> \in s.ready => s.pol[p].idle = 1
    /\ s.at = "dispatch" => \A c \in AllClients : <<"client", c>> \in s.ready => c \in DOMAIN s.asks

(* What a client that asked for a reload can be told.  A load under way      *)
(* reads the file of every request so far; a request of the current          *)
(* iteration waits for the load that follows it.                            *)
AskAt(s, c) ==
    /\ s.asks[c].ver <= s.file
    /\ s.cur = 0 => s.asks[c].at \in {"idle", "ask"}
    /\ s.at \in Loading => s.asks[c].ver <= s.pol[s.new].ver
    /\ s.at \in Looping /\ s.asks[c].at \in {"initiated", "askresult"} =>
          \/ s.result => s.asks[c].ver <= s.pol[s.cur].ver
          \/ s.at = "dispatch" /\ s.hup /\ <<"client", c>> \notin s.ready
    /\ s.at = "dispatch" /\ <<"client", c>> \in s.ready => s.asks[c].at \in {"ask", "askresult"}
    /\ s.asks[c].at = "done" /\ s.asks[c].answer => s.asks[c].ver <= s.asks[c].told

LoopGood(s) ==
    /\ InOrder(s) /\ LoopAt(s)
    /\ \A p \in PolicyIds : PolicyAt(s, p)
    /\ \A c \in DOMAIN s.asks : AskAt(s, c)

-----------------------------------------------------------------------------
(* The fields of the state. *)
LEMMA LoopFields ==
    ASSUME NEW s \in LoopRec
    PROVE  /\ s.conf \in LoopConfs /\ s.at \in LoopAts /\ s.file \in 1 .. MaxVersions /\ s.file \in Nat
           /\ s.cur \in 0 .. MaxPolicies /\ s.new \in 0 .. MaxPolicies
           /\ s.pol \in [PolicyIds -> PolicyRec] /\ s.session \in [LoopSessions -> 0 .. MaxPolicies]
           /\ s.hup \in BOOLEAN /\ s.result \in BOOLEAN /\ s.signals \in Nat
           /\ s.asks \in [DOMAIN s.asks -> AskRec] /\ DOMAIN s.asks \subseteq AllClients
           /\ \A p \in PolicyIds : /\ s.pol[p] \in PolicyRec /\ s.pol[p].ver \in Nat /\ s.pol[p].refs \in Int
                                    /\ s.pol[p].on \in BOOLEAN /\ s.pol[p].idle \in Int /\ s.pol[p].freed \in BOOLEAN
           /\ \A c \in DOMAIN s.asks : /\ s.asks[c] \in AskRec /\ s.asks[c].ver \in Nat /\ s.asks[c].told \in Nat
                                        /\ s.asks[c].at \in {"idle", "ask", "initiated", "askresult", "done"}
                                        /\ s.asks[c].answer \in BOOLEAN
<1>1. /\ s.conf \in LoopConfs /\ s.at \in LoopAts /\ s.file \in 1 .. MaxVersions
      /\ s.cur \in 0 .. MaxPolicies /\ s.new \in 0 .. MaxPolicies
      /\ s.pol \in [PolicyIds -> PolicyRec] /\ s.session \in [LoopSessions -> 0 .. MaxPolicies]
      /\ s.hup \in BOOLEAN /\ s.result \in BOOLEAN /\ s.signals \in Nat
      /\ s.asks \in UNION {[D -> AskRec] : D \in SUBSET AllClients}
  BY DEF LoopRec
<1>2. PICK D \in SUBSET AllClients : s.asks \in [D -> AskRec]
  BY <1>1
<1>3. \A p \in PolicyIds : /\ s.pol[p] \in PolicyRec /\ s.pol[p].ver \in Nat /\ s.pol[p].refs \in Int
                           /\ s.pol[p].on \in BOOLEAN /\ s.pol[p].idle \in Int /\ s.pol[p].freed \in BOOLEAN
  BY <1>1 DEF PolicyRec
<1>4. \A c \in DOMAIN s.asks : /\ s.asks[c] \in AskRec /\ s.asks[c].ver \in Nat /\ s.asks[c].told \in Nat
                               /\ s.asks[c].at \in {"idle", "ask", "initiated", "askresult", "done"}
                               /\ s.asks[c].answer \in BOOLEAN
  BY <1>2 DEF AskRec
<1>5. s.file \in Nat
  BY <1>1, LoopConstants
<1> QED BY <1>1, <1>2, <1>3, <1>4, <1>5

(* A step that touches no policy. *)
LEMMA PoliciesKept ==
    ASSUME NEW s \in LoopRec, NEW t \in LoopRec, LoopGood(s), t.pol = s.pol, t.cur = s.cur, t.new = s.new,
           t.session = s.session, LoopAt(t), \A c \in DOMAIN t.asks : AskAt(t, c)
    PROVE  LoopGood(t)
<1>1. \A p \in PolicyIds : PolicyAt(t, p)
  <2>1. \A p \in PolicyIds : SessionsIn(t, p) = SessionsIn(s, p) /\ (InUse(t, p) <=> InUse(s, p))
    BY DEF SessionsIn, InUse
  <2> QED BY <2>1 DEF LoopGood, PolicyAt
<1>2. InOrder(t)
  BY DEF LoopGood, InOrder
<1> QED BY <1>1, <1>2 DEF LoopGood

(* The main thread polls, looks at its flags and goes on. *)
LEMMA TurnSteps ==
    ASSUME NEW s \in LoopRec, LoopGood(s)
    PROVE  /\ s.at = "poll" => Poll(s) \in LoopRec /\ LoopGood(Poll(s))
           /\ s.at = "dispatch" /\ s.ready = {} => LoopTurn(s) \in LoopRec /\ LoopGood(LoopTurn(s))
           /\ s.at = "term" => LoopTerm(s) \in LoopRec /\ LoopGood(LoopTerm(s))
           /\ s.at = "cleanup" => [s EXCEPT !.at = "ended"] \in LoopRec /\ LoopGood([s EXCEPT !.at = "ended"])
<1>0. LoopAt(s) /\ \A c \in DOMAIN s.asks : AskAt(s, c)
  BY DEF LoopGood
<1>1. ASSUME s.at = "poll" PROVE Poll(s) \in LoopRec /\ LoopGood(Poll(s))
  <2> DEFINE t == Poll(s)
  <2>1. Sources(s) \in SUBSET (({"client"} \X AllClients) \union ({"idle"} \X PolicyIds))
    BY LoopFields DEF Sources
  <2>2. t \in LoopRec /\ t.at = "dispatch" /\ t.ready = Sources(s)
    BY <2>1 DEF Poll, LoopRec, LoopAts
  <2>3. /\ t.pol = s.pol /\ t.cur = s.cur /\ t.new = s.new /\ t.session = s.session /\ t.asks = s.asks
        /\ t.file = s.file /\ t.result = s.result /\ t.hup = s.hup
    BY DEF Poll, LoopRec
  <2> HIDE DEF t
  <2>4. \A p \in PolicyIds : <<"idle", p>> \in t.ready => t.pol[p].idle = 1
    <3> SUFFICES ASSUME NEW p \in PolicyIds, <<"idle", p>> \in Sources(s) PROVE s.pol[p].idle = 1
      BY <2>2, <2>3
    <3>1. s.pol[p].idle > 0 /\ PolicyAt(s, p)
      BY DEF Sources, LoopGood
    <3> QED BY <3>1, LoopFields DEF PolicyAt, NoPolicy
  <2>5. LoopAt(t)
    <3>1. \A c \in AllClients : <<"client", c>> \in t.ready => c \in DOMAIN t.asks
      BY <2>2, <2>3 DEF Sources
    <3> QED BY <1>0, <1>1, <2>2, <2>3, <2>4, <3>1 DEF LoopAt, Loading, Looping
  <2>6. ASSUME NEW c \in DOMAIN s.asks PROVE AskAt(t, c)
    <3>1. <<"client", c>> \in Sources(s) => s.asks[c].at \in {"ask", "askresult"}
      BY DEF Sources
    <3> QED BY <1>0, <1>1, <2>2, <2>3, <3>1 DEF AskAt, Loading, Looping
  <2> QED BY <2>2, <2>3, <2>5, <2>6, PoliciesKept DEF t
<1>2. ASSUME s.at = "dispatch", s.ready = {} PROVE LoopTurn(s) \in LoopRec /\ LoopGood(LoopTurn(s))
  <2> DEFINE t == LoopTurn(s)
  <2>1. t \in LoopRec /\ t.at = (IF s.hup THEN "load" ELSE "term")
    BY DEF LoopTurn, LoopRec, LoopAts
  <2>2. /\ t.pol = s.pol /\ t.cur = s.cur /\ t.new = s.new /\ t.session = s.session /\ t.asks = s.asks
        /\ t.file = s.file /\ t.result = s.result /\ t.hup = s.hup
    BY DEF LoopTurn, LoopRec
  <2> HIDE DEF t
  <2>3. LoopAt(t)
    BY <1>0, <1>2, <2>1, <2>2 DEF LoopAt, Loading, Looping
  <2>4. \A c \in DOMAIN s.asks : AskAt(t, c)
    BY <1>0, <1>2, <2>1, <2>2 DEF AskAt, Loading, Looping
  <2> QED BY <2>1, <2>2, <2>3, <2>4, PoliciesKept DEF t
<1>3. ASSUME s.at = "term" PROVE LoopTerm(s) \in LoopRec /\ LoopGood(LoopTerm(s))
  <2> DEFINE t == LoopTerm(s)
  <2>1. t \in LoopRec /\ t.at = (IF s.term THEN "cleanup" ELSE "poll")
    BY DEF LoopTerm, LoopRec, LoopAts
  <2>2. /\ t.pol = s.pol /\ t.cur = s.cur /\ t.new = s.new /\ t.session = s.session /\ t.asks = s.asks
        /\ t.file = s.file /\ t.result = s.result /\ t.hup = s.hup
    BY DEF LoopTerm, LoopRec
  <2> HIDE DEF t
  <2>3. LoopAt(t)
    BY <1>0, <1>3, <2>1, <2>2 DEF LoopAt, Loading, Looping
  <2>4. \A c \in DOMAIN s.asks : AskAt(t, c)
    BY <1>0, <1>3, <2>1, <2>2 DEF AskAt, Loading, Looping
  <2> QED BY <2>1, <2>2, <2>3, <2>4, PoliciesKept DEF t
<1>4. ASSUME s.at = "cleanup" PROVE [s EXCEPT !.at = "ended"] \in LoopRec /\ LoopGood([s EXCEPT !.at = "ended"])
  <2> DEFINE t == [s EXCEPT !.at = "ended"]
  <2>1. t \in LoopRec /\ t.at = "ended"
    BY DEF LoopRec, LoopAts
  <2>2. /\ t.pol = s.pol /\ t.cur = s.cur /\ t.new = s.new /\ t.session = s.session /\ t.asks = s.asks
        /\ t.file = s.file /\ t.result = s.result /\ t.hup = s.hup
    BY DEF LoopRec
  <2> HIDE DEF t
  <2>3. LoopAt(t)
    BY <1>0, <1>4, <2>1, <2>2 DEF LoopAt, Loading, Looping
  <2>4. \A c \in DOMAIN s.asks : AskAt(t, c)
    BY <1>0, <1>4, <2>1, <2>2 DEF AskAt, Loading, Looping
  <2> QED BY <2>1, <2>2, <2>3, <2>4, PoliciesKept DEF t
<1> QED BY <1>1, <1>2, <1>3, <1>4
(* What happens around the main thread: signals, a new policy file and the   *)
(* requests of clients.                                                     *)
LEMMA AroundSteps ==
    ASSUME NEW s \in LoopRec, LoopGood(s)
    PROVE  /\ [s EXCEPT !.hup = TRUE, !.signals = @ + 1, !.wanted = s.file] \in LoopRec
           /\ LoopGood([s EXCEPT !.hup = TRUE, !.signals = @ + 1, !.wanted = s.file])
           /\ [s EXCEPT !.term = TRUE] \in LoopRec /\ LoopGood([s EXCEPT !.term = TRUE])
           /\ s.file < MaxVersions => [s EXCEPT !.file = @ + 1] \in LoopRec /\ LoopGood([s EXCEPT !.file = @ + 1])
<1>0. LoopAt(s) /\ \A c \in DOMAIN s.asks : AskAt(s, c)
  BY DEF LoopGood
<1>1. /\ [s EXCEPT !.hup = TRUE, !.signals = @ + 1, !.wanted = s.file] \in LoopRec
      /\ LoopGood([s EXCEPT !.hup = TRUE, !.signals = @ + 1, !.wanted = s.file])
  <2> DEFINE t == [s EXCEPT !.hup = TRUE, !.signals = @ + 1, !.wanted = s.file]
  <2>0. s.file \in Nat /\ s.signals + 1 \in Nat
    BY LoopFields
  <2>1. t \in LoopRec
    BY <2>0 DEF LoopRec
  <2>2. /\ t.pol = s.pol /\ t.cur = s.cur /\ t.new = s.new /\ t.session = s.session /\ t.asks = s.asks
        /\ t.file = s.file /\ t.result = s.result /\ t.hup /\ t.at = s.at /\ t.ready = s.ready
    BY DEF LoopRec
  <2> HIDE DEF t
  <2>3. LoopAt(t)
    BY <1>0, <2>2 DEF LoopAt
  <2>4. \A c \in DOMAIN s.asks : AskAt(t, c)
    BY <1>0, <2>2 DEF AskAt
  <2> QED BY <2>1, <2>2, <2>3, <2>4, PoliciesKept DEF t
<1>2. [s EXCEPT !.term = TRUE] \in LoopRec /\ LoopGood([s EXCEPT !.term = TRUE])
  <2> DEFINE t == [s EXCEPT !.term = TRUE]
  <2>1. t \in LoopRec
    BY DEF LoopRec
  <2>2. /\ t.pol = s.pol /\ t.cur = s.cur /\ t.new = s.new /\ t.session = s.session /\ t.asks = s.asks
        /\ t.file = s.file /\ t.result = s.result /\ t.hup = s.hup /\ t.at = s.at /\ t.ready = s.ready
    BY DEF LoopRec
  <2> HIDE DEF t
  <2>3. LoopAt(t)
    BY <1>0, <2>2 DEF LoopAt
  <2>4. \A c \in DOMAIN s.asks : AskAt(t, c)
    BY <1>0, <2>2 DEF AskAt
  <2> QED BY <2>1, <2>2, <2>3, <2>4, PoliciesKept DEF t
<1>3. ASSUME s.file < MaxVersions PROVE [s EXCEPT !.file = @ + 1] \in LoopRec /\ LoopGood([s EXCEPT !.file = @ + 1])
  <2> DEFINE t == [s EXCEPT !.file = @ + 1]
  <2>0. s.file + 1 \in 1 .. MaxVersions
    BY <1>3, LoopFields, LoopConstants
  <2>1. t \in LoopRec
    BY <2>0 DEF LoopRec
  <2>2. /\ t.pol = s.pol /\ t.cur = s.cur /\ t.new = s.new /\ t.session = s.session /\ t.asks = s.asks
        /\ t.file = s.file + 1 /\ t.result = s.result /\ t.hup = s.hup /\ t.at = s.at /\ t.ready = s.ready
    BY DEF LoopRec
  <2> HIDE DEF t
  <2>3. LoopAt(t)
    BY <1>0, <2>2 DEF LoopAt
  <2>4. ASSUME NEW c \in DOMAIN s.asks PROVE AskAt(t, c)
    <3>1. s.asks[c].ver <= t.file
      <4>1. s.asks[c].ver <= s.file /\ s.asks[c].ver \in Nat /\ s.file \in Nat
        BY <1>0, LoopFields DEF AskAt
      <4> QED BY <2>2, <4>1
    <3> QED BY <1>0, <2>2, <3>1 DEF AskAt
  <2> QED BY <2>1, <2>2, <2>3, <2>4, PoliciesKept DEF t
<1> QED BY <1>1, <1>2, <1>3

(* One client is answered or asks. *)
LEMMA AskSet ==
    ASSUME NEW s \in LoopRec, NEW d \in DOMAIN s.asks, NEW a \in AskRec
    PROVE  /\ [s.asks EXCEPT ![d] = a] \in UNION {[D -> AskRec] : D \in SUBSET AllClients}
           /\ DOMAIN [s.asks EXCEPT ![d] = a] = DOMAIN s.asks /\ [s.asks EXCEPT ![d] = a][d] = a
           /\ \A c \in DOMAIN s.asks : c # d => [s.asks EXCEPT ![d] = a][c] = s.asks[c]
<1>1. s.asks \in [DOMAIN s.asks -> AskRec] /\ DOMAIN s.asks \in SUBSET AllClients
  BY LoopFields
<1>2. [s.asks EXCEPT ![d] = a] \in [DOMAIN s.asks -> AskRec]
  BY <1>1
<1> QED BY <1>1, <1>2

(* A client asks for a reload or for its result. *)
LEMMA ClientStep ==
    ASSUME NEW s \in LoopRec, LoopGood(s), NEW d \in DOMAIN s.asks, s.asks[d].at \in {"idle", "initiated"}, NEW t,
           t = [s EXCEPT !.asks[d].at = IF @ = "idle" THEN "ask" ELSE "askresult"]
    PROVE  t \in LoopRec /\ LoopGood(t)
<1>0. LoopAt(s) /\ \A c \in DOMAIN s.asks : AskAt(s, c)
  BY DEF LoopGood
<1>1. PICK a \in AskRec : /\ a.at = IF s.asks[d].at = "idle" THEN "ask" ELSE "askresult"
                          /\ a.ver = s.asks[d].ver /\ a.answer = s.asks[d].answer /\ a.told = s.asks[d].told
                          /\ t = [s EXCEPT !.asks = [s.asks EXCEPT ![d] = a]]
  <2> DEFINE b == [s.asks[d] EXCEPT !.at = IF @ = "idle" THEN "ask" ELSE "askresult"]
  <2>1. s.asks[d] \in AskRec
    BY LoopFields
  <2>2. /\ b \in AskRec /\ b.at = (IF s.asks[d].at = "idle" THEN "ask" ELSE "askresult")
        /\ b.ver = s.asks[d].ver /\ b.answer = s.asks[d].answer /\ b.told = s.asks[d].told
    BY <2>1 DEF AskRec
  <2>3. t = [s EXCEPT !.asks = [s.asks EXCEPT ![d] = b]]
    BY LoopFields DEF LoopRec
  <2> HIDE DEF b
  <2> QED BY <2>2, <2>3
<1> DEFINE f == [s.asks EXCEPT ![d] = a]
<1>2. /\ f \in UNION {[D -> AskRec] : D \in SUBSET AllClients} /\ DOMAIN f = DOMAIN s.asks /\ f[d] = a
      /\ \A c \in DOMAIN s.asks : c # d => f[c] = s.asks[c]
  BY AskSet
<1>3. t = [s EXCEPT !.asks = f]
  BY <1>1
<1> HIDE DEF f
<1>4. t \in LoopRec
  BY <1>2, <1>3 DEF LoopRec
<1>5. /\ t.pol = s.pol /\ t.cur = s.cur /\ t.new = s.new /\ t.session = s.session /\ t.asks = f
      /\ t.file = s.file /\ t.result = s.result /\ t.hup = s.hup /\ t.at = s.at /\ t.ready = s.ready
  BY <1>3 DEF LoopRec
<1>6. LoopAt(t)
  BY <1>0, <1>5 DEF LoopAt
<1>7. ASSUME NEW c \in DOMAIN t.asks PROVE AskAt(t, c)
  <2>1. c \in DOMAIN s.asks /\ AskAt(s, c)
    BY <1>0, <1>2, <1>5
  <2>2. CASE c = d
    BY <1>1, <1>2, <1>5, <2>1, <2>2 DEF AskAt
  <2>3. CASE c # d
    BY <1>2, <1>5, <2>1, <2>3 DEF AskAt
  <2> QED BY <2>2, <2>3
<1> QED BY <1>4, <1>5, <1>6, <1>7, PoliciesKept

(* A client's request is on its way, or it gets its answer. *)
Initiated(r, n) == [r EXCEPT !.at = "initiated", !.ver = n]
Answered(r, v, n) == [r EXCEPT !.at = "done", !.answer = v, !.told = n]
LEMMA AnswerSet ==
    ASSUME NEW r \in AskRec, NEW n \in Nat
    PROVE  /\ Initiated(r, n) \in AskRec /\ Initiated(r, n).at = "initiated" /\ Initiated(r, n).ver = n
           /\ \A v \in BOOLEAN :
                 /\ Answered(r, v, n) \in AskRec /\ Answered(r, v, n).at = "done" /\ Answered(r, v, n).ver = r.ver
                 /\ Answered(r, v, n).answer = v /\ Answered(r, v, n).told = n
<1>1. Initiated(r, n) \in AskRec /\ Initiated(r, n).at = "initiated" /\ Initiated(r, n).ver = n
  BY DEF AskRec, Initiated
<1>2. ASSUME NEW v \in BOOLEAN
      PROVE  /\ Answered(r, v, n) \in AskRec /\ Answered(r, v, n).at = "done" /\ Answered(r, v, n).ver = r.ver
             /\ Answered(r, v, n).answer = v /\ Answered(r, v, n).told = n
  BY DEF AskRec, Answered
<1> QED BY <1>1, <1>2

(* The main thread has served a client. *)
LEMMA Served ==
    ASSUME NEW s \in LoopRec, NEW t \in LoopRec, LoopGood(s), s.at = "dispatch", NEW d \in DOMAIN s.asks,
           NEW a \in AskRec, t.ready = s.ready \ {<<"client", d>>}, t.asks = [s.asks EXCEPT ![d] = a],
           t.pol = s.pol, t.cur = s.cur, t.new = s.new, t.session = s.session, t.file = s.file,
           t.result = s.result, t.at = s.at, s.hup => t.hup, a.ver <= s.file,
           \/ a.at = "initiated" /\ t.hup
           \/ a.at = "done" /\ (a.answer => a.ver <= a.told)
    PROVE  LoopGood(t)
<1>0. LoopAt(s) /\ \A c \in DOMAIN s.asks : AskAt(s, c)
  BY DEF LoopGood
<1>1. /\ DOMAIN t.asks = DOMAIN s.asks /\ t.asks[d] = a
      /\ \A c \in DOMAIN s.asks : c # d => t.asks[c] = s.asks[c]
  BY AskSet
<1>2. LoopAt(t)
  BY <1>0 DEF LoopAt
<1>3. ASSUME NEW c \in DOMAIN t.asks PROVE AskAt(t, c)
  <2>1. c \in DOMAIN s.asks /\ AskAt(s, c)
    BY <1>0, <1>1
  <2>2. CASE c = d
    <3>1. <<"client", c>> \notin t.ready /\ t.cur # 0 /\ t.at = "dispatch"
      BY <1>0, <2>2 DEF LoopAt, Looping
    <3> QED BY <1>1, <2>1, <2>2, <3>1 DEF AskAt, Loading
  <2>3. CASE c # d
    <3>1. <<"client", c>> \in t.ready => <<"client", c>> \in s.ready
      OBVIOUS
    <3> QED BY <1>1, <2>1, <2>3, <3>1 DEF AskAt
  <2> QED BY <2>2, <2>3
<1> QED BY <1>2, <1>3, PoliciesKept

(* The main thread serves a client: RELOAD and RELOAD RESULT. *)
LEMMA ServeStep ==
    ASSUME NEW s \in LoopRec, LoopGood(s), s.at = "dispatch", NEW d \in DOMAIN s.asks, <<"client", d>> \in s.ready,
           NEW t, t = DispatchSource(s, <<"client", d>>)
    PROVE  t \in LoopRec /\ LoopGood(t)
<1>0. AskAt(s, d) /\ s.asks[d].at \in {"ask", "askresult"} /\ s.cur \in PolicyIds
  <2>1. LoopAt(s) /\ AskAt(s, d)
    BY DEF LoopGood
  <2> QED BY <2>1, LoopFields DEF AskAt, LoopAt, Looping, PolicyIds
<1>1. PICK r \in SUBSET (({"client"} \X AllClients) \union ({"idle"} \X PolicyIds)) : r = s.ready \ {<<"client", d>>}
  BY DEF LoopRec
<1>2. s.asks[d] \in AskRec /\ s.file \in Nat /\ s.pol[s.cur].ver \in Nat /\ s.result \in BOOLEAN
  BY <1>0, LoopFields
<1>3. CASE s.asks[d].at = "ask"
  <2>0. /\ Initiated(s.asks[d], s.file) \in AskRec /\ Initiated(s.asks[d], s.file).at = "initiated"
        /\ Initiated(s.asks[d], s.file).ver = s.file
    <3>1. PICK q \in AskRec, n \in Nat : q = s.asks[d] /\ n = s.file
      BY <1>2
    <3>2. Initiated(q, n) \in AskRec /\ Initiated(q, n).at = "initiated" /\ Initiated(q, n).ver = n
      BY AnswerSet
    <3> QED BY <3>1, <3>2
  <2>1. PICK a \in AskRec : a = Initiated(s.asks[d], s.file) /\ a.at = "initiated" /\ a.ver = s.file
    BY <2>0
  <2>2. PICK f \in UNION {[D -> AskRec] : D \in SUBSET AllClients} : f = [s.asks EXCEPT ![d] = a]
    BY AskSet
  <2>3. t = [s EXCEPT !.ready = r, !.hup = TRUE, !.wanted = s.file, !.asks = f]
    BY <1>1, <1>3, <2>1, <2>2 DEF DispatchSource, HandleReload, Initiated, LoopRec
  <2>4. t \in LoopRec
    BY <1>2, <2>3, ZenonT(60) DEF LoopRec
  <2>5. /\ t.pol = s.pol /\ t.cur = s.cur /\ t.new = s.new /\ t.session = s.session /\ t.asks = f
        /\ t.file = s.file /\ t.result = s.result /\ t.hup /\ t.at = s.at /\ t.ready = r
    BY <2>3 DEF LoopRec
  <2>6. a.ver <= s.file
    BY <1>2, <2>1
  <2> QED BY <1>1, <2>1, <2>2, <2>4, <2>5, <2>6, Served
<1>4. CASE s.asks[d].at = "askresult"
  <2>1. PICK n \in Nat : n = s.pol[s.cur].ver
    BY <1>2
  <2>2. /\ Answered(s.asks[d], s.result, n) \in AskRec /\ Answered(s.asks[d], s.result, n).at = "done"
        /\ Answered(s.asks[d], s.result, n).ver = s.asks[d].ver /\ Answered(s.asks[d], s.result, n).told = n
        /\ Answered(s.asks[d], s.result, n).answer = s.result
    <3>1. PICK q \in AskRec, v \in BOOLEAN : q = s.asks[d] /\ v = s.result
      BY <1>2
    <3>2. /\ Answered(q, v, n) \in AskRec /\ Answered(q, v, n).at = "done" /\ Answered(q, v, n).ver = q.ver
          /\ Answered(q, v, n).answer = v /\ Answered(q, v, n).told = n
      BY AnswerSet, ZenonT(60)
    <3> QED BY <3>1, <3>2
  <2>3. PICK a \in AskRec : /\ a = Answered(s.asks[d], s.result, n) /\ a.at = "done" /\ a.ver = s.asks[d].ver
                            /\ a.told = n /\ a.answer = s.result
    BY <2>2
  <2>4. PICK f \in UNION {[D -> AskRec] : D \in SUBSET AllClients} : f = [s.asks EXCEPT ![d] = a]
    BY AskSet
  <2>5. t = [s EXCEPT !.ready = r, !.asks = f]
    BY <1>1, <1>4, <2>1, <2>3, <2>4 DEF DispatchSource, HandleResult, Answered, LoopRec
  <2>6. t \in LoopRec
    BY <2>5, ZenonT(60) DEF LoopRec
  <2>7. /\ t.pol = s.pol /\ t.cur = s.cur /\ t.new = s.new /\ t.session = s.session /\ t.asks = f
        /\ t.file = s.file /\ t.result = s.result /\ t.hup = s.hup /\ t.at = s.at /\ t.ready = r
    BY <2>5 DEF LoopRec
  <2>8. a.ver <= s.file /\ (a.answer => a.ver <= a.told)
    BY <1>0, <1>4, <2>1, <2>3 DEF AskAt, Looping
  <2> QED BY <1>1, <2>3, <2>4, <2>6, <2>7, <2>8, Served
<1> QED BY <1>0, <1>3, <1>4
(* A step that touches one policy. *)
LEMMA OnePolicy ==
    ASSUME NEW s \in LoopRec, NEW t \in LoopRec, LoopGood(s), NEW p \in PolicyIds,
           \A q \in PolicyIds : q # p => /\ t.pol[q] = s.pol[q] /\ (InUse(t, q) <=> InUse(s, q))
                                         /\ SessionsIn(t, q) = SessionsIn(s, q),
           PolicyAt(t, p), t.pol[p].ver = s.pol[p].ver,
           LoopAt(t), \A c \in DOMAIN t.asks : AskAt(t, c)
    PROVE  LoopGood(t)
<1>1. ASSUME NEW q \in PolicyIds PROVE PolicyAt(t, q)
  <2>1. CASE q = p
    BY <2>1
  <2>2. CASE q # p
    BY <2>2 DEF LoopGood, PolicyAt
  <2> QED BY <2>1, <2>2
<1>2. \A q \in PolicyIds : t.pol[q].ver = s.pol[q].ver
  OBVIOUS
<1>3. InOrder(t)
  BY <1>2 DEF LoopGood, InOrder
<1> QED BY <1>1, <1>3 DEF LoopGood

(* The sessions of a policy are finitely many. *)
LEMMA FiniteSessions ==
    ASSUME NEW s \in LoopRec, NEW p
    PROVE  IsFiniteSet(SessionsIn(s, p)) /\ Cardinality(SessionsIn(s, p)) \in Nat
<1>1. SessionsIn(s, p) \subseteq LoopSessions
  BY DEF SessionsIn
<1> QED BY <1>1, FS_Subset, FS_CardinalityType, LoopConstants

(* A policy after each of the operations on it, and its fields. *)
Refd(r) == [r EXCEPT !.refs = @ + 1]
Unrefd(r) == [r EXCEPT !.refs = @ - 1, !.idle = IF r.refs = 2 THEN @ + 1 ELSE @]
Freed(r) == [r EXCEPT !.idle = @ - 1, !.freed = TRUE]
Switched(r, v) == [r EXCEPT !.on = v]
LEMMA PolicySwitched ==
    ASSUME NEW r \in PolicyRec, NEW v \in BOOLEAN
    PROVE  /\ Switched(r, v) \in PolicyRec /\ Switched(r, v).refs = r.refs /\ Switched(r, v).ver = r.ver
           /\ Switched(r, v).on = v /\ Switched(r, v).idle = r.idle /\ Switched(r, v).freed = r.freed
<1>1. Switched(r, v) \in PolicyRec
  BY DEF PolicyRec, Switched
<1>2. Switched(r, v).refs = r.refs /\ Switched(r, v).ver = r.ver /\ Switched(r, v).idle = r.idle
  BY DEF PolicyRec, Switched
<1>3. Switched(r, v).on = v
  BY DEF PolicyRec, Switched
<1>4. Switched(r, v).freed = r.freed
  BY DEF PolicyRec, Switched
<1> QED BY <1>1, <1>2, <1>3, <1>4
LEMMA PolicyFreed ==
    ASSUME NEW r \in PolicyRec
    PROVE  /\ Freed(r) \in PolicyRec /\ Freed(r).refs = r.refs /\ Freed(r).ver = r.ver
           /\ Freed(r).on = r.on /\ Freed(r).idle = r.idle - 1 /\ Freed(r).freed
<1>1. PICK w \in PolicyRec : /\ w = [r EXCEPT !.idle = @ - 1] /\ w.refs = r.refs /\ w.ver = r.ver
                             /\ w.on = r.on /\ w.idle = r.idle - 1
  <2>1. [r EXCEPT !.idle = @ - 1] \in PolicyRec
    BY DEF PolicyRec
  <2> QED BY <2>1 DEF PolicyRec
<1>2. PICK v \in BOOLEAN : v = TRUE
  OBVIOUS
<1>3. Freed(r) = [w EXCEPT !.freed = v]
  BY <1>1, <1>2 DEF Freed
<1>4. [w EXCEPT !.freed = v] \in PolicyRec
  BY DEF PolicyRec
<1>5. [w EXCEPT !.freed = v].refs = w.refs /\ [w EXCEPT !.freed = v].ver = w.ver /\ [w EXCEPT !.freed = v].idle = w.idle
  BY DEF PolicyRec
<1>6. [w EXCEPT !.freed = v].on = w.on
  BY DEF PolicyRec
<1>7. [w EXCEPT !.freed = v].freed = v
  BY DEF PolicyRec
<1> QED BY <1>1, <1>2, <1>3, <1>4, <1>5, <1>6, <1>7
LEMMA PolicyCounted ==
    ASSUME NEW r \in PolicyRec
    PROVE  /\ Refd(r) \in PolicyRec /\ Refd(r).refs = r.refs + 1 /\ Refd(r).ver = r.ver /\ Refd(r).on = r.on
           /\ Refd(r).idle = r.idle /\ Refd(r).freed = r.freed
           /\ Unrefd(r) \in PolicyRec /\ Unrefd(r).refs = r.refs - 1 /\ Unrefd(r).ver = r.ver /\ Unrefd(r).on = r.on
           /\ Unrefd(r).idle = (IF r.refs = 2 THEN r.idle + 1 ELSE r.idle) /\ Unrefd(r).freed = r.freed
<1>1. /\ Refd(r) \in PolicyRec /\ Refd(r).refs = r.refs + 1 /\ Refd(r).ver = r.ver /\ Refd(r).on = r.on
      /\ Refd(r).idle = r.idle /\ Refd(r).freed = r.freed
  BY DEF PolicyRec, Refd
<1>2. /\ Unrefd(r) \in PolicyRec /\ Unrefd(r).refs = r.refs - 1 /\ Unrefd(r).ver = r.ver /\ Unrefd(r).on = r.on
      /\ Unrefd(r).idle = (IF r.refs = 2 THEN r.idle + 1 ELSE r.idle) /\ Unrefd(r).freed = r.freed
  <2>1. PICK n \in Int : n = IF r.refs = 2 THEN r.idle + 1 ELSE r.idle
    BY DEF PolicyRec
  <2>2. Unrefd(r) = [[r EXCEPT !.refs = @ - 1] EXCEPT !.idle = n]
    BY <2>1 DEF PolicyRec, Unrefd
  <2>3. PICK w \in PolicyRec : /\ w = [r EXCEPT !.refs = @ - 1] /\ w.refs = r.refs - 1 /\ w.ver = r.ver
                               /\ w.on = r.on /\ w.idle = r.idle /\ w.freed = r.freed
    <3>1. [r EXCEPT !.refs = @ - 1] \in PolicyRec
      BY DEF PolicyRec
    <3> QED BY <3>1 DEF PolicyRec
  <2>4. /\ [w EXCEPT !.idle = n] \in PolicyRec /\ [w EXCEPT !.idle = n].refs = w.refs /\ [w EXCEPT !.idle = n].ver = w.ver
        /\ [w EXCEPT !.idle = n].on = w.on /\ [w EXCEPT !.idle = n].idle = n /\ [w EXCEPT !.idle = n].freed = w.freed
    BY DEF PolicyRec
  <2> QED BY <2>1, <2>2, <2>3, <2>4
<1> QED BY <1>1, <1>2

(* The operations on the policies, in terms of those. *)
LEMMA PolicyOps ==
    ASSUME NEW s \in LoopRec, NEW p \in PolicyIds
    PROVE  /\ PolicyRef(s, p) = [s EXCEPT !.pol = [s.pol EXCEPT ![p] = Refd(s.pol[p])]]
           /\ PolicyUnref(s, p) = [s EXCEPT !.pol = [s.pol EXCEPT ![p] = Unrefd(s.pol[p])]]
           /\ PolicyFree(s, p) = [s EXCEPT !.pol = [s.pol EXCEPT ![p] = Freed(s.pol[p])]]
<1>1. PolicyRef(s, p) = [s EXCEPT !.pol = [s.pol EXCEPT ![p] = Refd(s.pol[p])]]
  BY DEF PolicyRef, Refd, LoopRec
<1>2. PolicyUnref(s, p) = [s EXCEPT !.pol = [s.pol EXCEPT ![p] = Unrefd(s.pol[p])]]
  BY DEF PolicyUnref, Unrefd, LoopRec
<1>3. PolicyFree(s, p) = [s EXCEPT !.pol = [s.pol EXCEPT ![p] = Freed(s.pol[p])]]
  BY DEF PolicyFree, Freed, LoopRec
<1> QED BY <1>1, <1>2, <1>3

(* z_policy_free runs from the idle callback. *)
LEMMA FreeStep ==
    ASSUME NEW s \in LoopRec, LoopGood(s), s.at = "dispatch", NEW p \in PolicyIds, <<"idle", p>> \in s.ready,
           NEW t, t = DispatchSource(s, <<"idle", p>>)
    PROVE  t \in LoopRec /\ LoopGood(t)
<1>0. /\ LoopAt(s) /\ \A c \in DOMAIN s.asks : AskAt(s, c)
      /\ PolicyAt(s, p) /\ s.pol[p].idle = 1 /\ s.pol[p] \in PolicyRec
  BY LoopFields DEF LoopGood, LoopAt
<1>1. PICK r \in SUBSET (({"client"} \X AllClients) \union ({"idle"} \X PolicyIds)) : r = s.ready \ {<<"idle", p>>}
  BY DEF LoopRec
<1>2. PICK u \in PolicyRec :
         /\ u = Freed(s.pol[p]) /\ u.refs = s.pol[p].refs /\ u.ver = s.pol[p].ver
         /\ u.on = s.pol[p].on /\ u.idle = s.pol[p].idle - 1 /\ u.freed
  BY <1>0, PolicyFreed
<1>3. PICK f \in [PolicyIds -> PolicyRec] : f = [s.pol EXCEPT ![p] = u]
  BY LoopFields
<1>4. f[p] = u /\ \A q \in PolicyIds : q # p => f[q] = s.pol[q]
  BY <1>3, LoopFields
<1>5. t = [s EXCEPT !.ready = r, !.pol = f]
  <2>1. t = PolicyFree([s EXCEPT !.ready = r], p)
    BY <1>1 DEF DispatchSource
  <2>2. PICK z \in LoopRec : z = [s EXCEPT !.ready = r]
    <3>1. [s EXCEPT !.ready = r] \in LoopRec
      BY DEF LoopRec
    <3> QED BY <3>1
  <2>3. t = [z EXCEPT !.pol = [z.pol EXCEPT ![p] = Freed(z.pol[p])]]
    BY <2>1, <2>2, PolicyOps
  <2>4. z.pol = s.pol
    BY <2>2 DEF LoopRec
  <2>5. t = [z EXCEPT !.pol = f]
    BY <1>2, <1>3, <2>3, <2>4
  <2> QED BY <2>2, <2>5 DEF LoopRec
<1>6. t \in LoopRec
  BY <1>5 DEF LoopRec
<1>7. /\ t.pol = f /\ t.cur = s.cur /\ t.new = s.new /\ t.session = s.session /\ t.asks = s.asks
      /\ t.file = s.file /\ t.result = s.result /\ t.hup = s.hup /\ t.at = s.at /\ t.ready = r
  BY <1>5 DEF LoopRec
<1>8. \A q : SessionsIn(t, q) = SessionsIn(s, q) /\ (InUse(t, q) <=> InUse(s, q))
  BY <1>7 DEF SessionsIn, InUse
<1>9. PolicyAt(t, p)
  <2>1. s.pol[p].ver # 0 /\ s.pol[p].refs = 1 /\ ~s.pol[p].freed
    BY <1>0 DEF PolicyAt, NoPolicy
  <2>2. /\ t.pol[p].ver # 0 /\ t.pol[p].idle = 0 /\ t.pol[p].freed /\ t.pol[p].refs = s.pol[p].refs
        /\ t.pol[p].on = s.pol[p].on
    BY <1>0, <1>2, <1>4, <1>7, <2>1
  <2> QED BY <1>0, <1>8, <2>1, <2>2 DEF PolicyAt
<1>10. LoopAt(t)
  <2>1. \A q \in PolicyIds : t.pol[q].on = s.pol[q].on
    BY <1>2, <1>4, <1>7
  <2>2. \A q \in PolicyIds : <<"idle", q>> \in r => q # p /\ <<"idle", q>> \in s.ready
    BY <1>1
  <2>3. s.cur \in PolicyIds
    BY <1>0, LoopFields DEF LoopAt, Looping, PolicyIds
  <2>4. \A c \in AllClients : <<"client", c>> \in r => <<"client", c>> \in s.ready
    BY <1>1
  <2> QED BY <1>0, <1>4, <1>7, <2>1, <2>2, <2>3, <2>4 DEF LoopAt, Loading
<1>11. ASSUME NEW c \in DOMAIN t.asks PROVE AskAt(t, c)
  <2>1. AskAt(s, c) /\ (<<"client", c>> \in r <=> <<"client", c>> \in s.ready)
    BY <1>0, <1>1, <1>7
  <2>2. \A q \in PolicyIds : t.pol[q].ver = s.pol[q].ver
    BY <1>2, <1>4, <1>7
  <2>3. s.cur \in PolicyIds
    BY <1>0, LoopFields DEF LoopAt, Looping, PolicyIds
  <2> QED BY <1>7, <2>1, <2>2, <2>3 DEF AskAt, Loading
<1>12. t.pol[p].ver = s.pol[p].ver
  BY <1>2, <1>4, <1>7
<1> QED BY <1>4, <1>6, <1>7, <1>8, <1>9, <1>10, <1>11, <1>12, OnePolicy
(* A step that only counts the users of a policy. *)
LEMMA SamePlace ==
    ASSUME NEW s \in LoopRec, NEW t \in LoopRec, LoopGood(s), t.cur = s.cur, t.new = s.new, t.asks = s.asks, t.file = s.file,
           t.result = s.result, t.hup = s.hup, t.at = s.at, t.ready = s.ready,
           \A q \in PolicyIds : /\ t.pol[q].ver = s.pol[q].ver /\ t.pol[q].on = s.pol[q].on
                                /\ s.pol[q].idle = 1 => t.pol[q].idle = 1
    PROVE  LoopAt(t) /\ \A c \in DOMAIN t.asks : AskAt(t, c)
<1>0. LoopAt(s) /\ \A c \in DOMAIN s.asks : AskAt(s, c)
  BY DEF LoopGood
<1>1. (s.cur # 0 => s.cur \in PolicyIds) /\ (s.new # 0 => s.new \in PolicyIds)
  BY LoopFields DEF PolicyIds
<1>2. LoopAt(t)
  BY <1>0, <1>1 DEF LoopAt, Loading
<1>3. ASSUME NEW c \in DOMAIN t.asks PROVE AskAt(t, c)
  <2>1. AskAt(s, c)
    BY <1>0
  <2>2. s.at \in Looping => t.pol[t.cur].ver = s.pol[s.cur].ver
    BY <1>0, <1>1 DEF LoopAt
  <2>3. s.at \in Loading => t.pol[t.new].ver = s.pol[s.new].ver
    BY <1>0, <1>1 DEF LoopAt
  <2> QED BY <2>1, <2>2, <2>3 DEF AskAt
<1> QED BY <1>2, <1>3

(* A session starts in a policy whose init() was run. *)
LEMMA StartStep ==
    ASSUME NEW s \in LoopRec, LoopGood(s), NEW x \in LoopSessions, NEW p \in PolicyIds, s.session[x] = 0, s.pol[p].on,
           NEW t, t = PolicyRef([s EXCEPT !.session[x] = p], p)
    PROVE  t \in LoopRec /\ LoopGood(t)
<1>1. PolicyAt(s, p) /\ s.pol[p] \in PolicyRec
  BY LoopFields DEF LoopGood
<1>2. /\ s.pol[p].ver # 0 /\ InUse(s, p) /\ s.pol[p].refs = 2 + Cardinality(SessionsIn(s, p))
      /\ s.pol[p].idle = 0 /\ ~s.pol[p].freed
  <2>1. s.pol[p].ver # 0
    BY <1>1 DEF PolicyAt, NoPolicy
  <2>2. InUse(s, p) /\ s.pol[p].refs = 2 + Cardinality(SessionsIn(s, p))
    BY <1>1, <2>1 DEF PolicyAt
  <2>3. s.pol[p].refs # 1
    BY <2>2, FiniteSessions
  <2> QED BY <1>1, <2>1, <2>2, <2>3 DEF PolicyAt
<1>3. PICK u \in PolicyRec : /\ u = Refd(s.pol[p]) /\ u.refs = s.pol[p].refs + 1 /\ u.ver = s.pol[p].ver
                             /\ u.on = s.pol[p].on /\ u.idle = s.pol[p].idle /\ u.freed = s.pol[p].freed
  BY <1>1, PolicyCounted
<1>4. PICK f \in [PolicyIds -> PolicyRec] : f = [s.pol EXCEPT ![p] = u]
  BY LoopFields
<1>5. f[p] = u /\ \A q \in PolicyIds : q # p => f[q] = s.pol[q]
  BY <1>4, LoopFields
<1>6. PICK g \in [LoopSessions -> 0 .. MaxPolicies] : g = [s.session EXCEPT ![x] = p]
  <2>1. p \in 0 .. MaxPolicies
    BY LoopConstants DEF PolicyIds
  <2> QED BY <2>1, LoopFields
<1>7. t = [s EXCEPT !.session = g, !.pol = f]
  <2>1. PICK z \in LoopRec : z = [s EXCEPT !.session = g] /\ z.pol = s.pol
    <3>1. [s EXCEPT !.session = g] \in LoopRec /\ [s EXCEPT !.session = g].pol = s.pol
      BY DEF LoopRec
    <3> QED BY <3>1
  <2>2. t = PolicyRef(z, p)
    BY <1>6, <2>1
  <2>3. t = [z EXCEPT !.pol = f]
    <3>1. t = [z EXCEPT !.pol = [z.pol EXCEPT ![p] = Refd(z.pol[p])]]
      BY <2>2, PolicyOps
    <3> QED BY <1>3, <1>4, <2>1, <3>1
  <2> QED BY <2>1, <2>3
<1>8. t \in LoopRec
  BY <1>7, ZenonT(60) DEF LoopRec
<1>9. /\ t.pol = f /\ t.cur = s.cur /\ t.new = s.new /\ t.session = g /\ t.asks = s.asks
      /\ t.file = s.file /\ t.result = s.result /\ t.hup = s.hup /\ t.at = s.at /\ t.ready = s.ready
  BY <1>7 DEF LoopRec
<1>10. \A q : InUse(t, q) <=> InUse(s, q)
  BY <1>9 DEF InUse
<1>11. \A y \in LoopSessions : g[y] = IF y = x THEN p ELSE s.session[y]
  BY <1>6, LoopFields
<1>12. \A q \in PolicyIds : q # p => SessionsIn(t, q) = SessionsIn(s, q)
  <2>1. 0 \notin PolicyIds
    BY DEF PolicyIds
  <2> QED BY <1>9, <1>11, <2>1 DEF SessionsIn
<1>13. Cardinality(SessionsIn(t, p)) = Cardinality(SessionsIn(s, p)) + 1
  <2>1. SessionsIn(t, p) = SessionsIn(s, p) \union {x} /\ x \notin SessionsIn(s, p)
    <3>1. p # 0
      BY DEF PolicyIds
    <3> QED BY <1>9, <1>11, <3>1 DEF SessionsIn
  <2> QED BY <2>1, FiniteSessions, FS_AddElement
<1>14. /\ t.pol[p].ver = s.pol[p].ver /\ t.pol[p].on = s.pol[p].on /\ t.pol[p].idle = s.pol[p].idle
       /\ t.pol[p].freed = s.pol[p].freed /\ t.pol[p].refs = s.pol[p].refs + 1
  BY <1>3, <1>5, <1>9
<1>15. PolicyAt(t, p)
  <2>1. t.pol[p].refs = 2 + Cardinality(SessionsIn(t, p)) /\ t.pol[p].refs # 1
    BY <1>2, <1>13, <1>14, FiniteSessions
  <2> QED BY <1>2, <1>10, <1>14, <2>1 DEF PolicyAt
<1>16. LoopAt(t) /\ \A c \in DOMAIN t.asks : AskAt(t, c)
  <2>1. \A q \in PolicyIds : /\ t.pol[q].ver = s.pol[q].ver /\ t.pol[q].on = s.pol[q].on
                             /\ s.pol[q].idle = 1 => t.pol[q].idle = 1
    BY <1>5, <1>9, <1>14
  <2> QED BY <1>8, <1>9, <2>1, SamePlace
<1> QED BY <1>5, <1>8, <1>9, <1>10, <1>12, <1>14, <1>15, <1>16, OnePolicy

(* A session ends. *)
LEMMA StopStep ==
    ASSUME NEW s \in LoopRec, LoopGood(s), NEW x \in LoopSessions, s.session[x] # 0,
           NEW t, t = PolicyUnref([s EXCEPT !.session[x] = 0], s.session[x])
    PROVE  t \in LoopRec /\ LoopGood(t)
<1>0. PICK p \in PolicyIds : p = s.session[x]
  BY LoopFields DEF PolicyIds
<1>1. PolicyAt(s, p) /\ s.pol[p] \in PolicyRec
  BY LoopFields DEF LoopGood
<1>2. PICK k \in Nat : k = Cardinality(SessionsIn(s, p))
  BY FiniteSessions
<1>3. k >= 1 /\ x \in SessionsIn(s, p)
  <2>1. x \in SessionsIn(s, p)
    BY <1>0 DEF SessionsIn
  <2> QED BY <1>2, <2>1, FiniteSessions, FS_EmptySet
<1>4. /\ s.pol[p].ver # 0 /\ s.pol[p].refs = 1 + (IF InUse(s, p) THEN 1 ELSE 0) + k
      /\ s.pol[p].idle = 0 /\ ~s.pol[p].freed
  <2>1. s.pol[p].ver # 0
    BY <1>1, <1>3 DEF PolicyAt
  <2>2. s.pol[p].refs = 1 + (IF InUse(s, p) THEN 1 ELSE 0) + k
    BY <1>1, <1>2, <2>1 DEF PolicyAt
  <2>3. s.pol[p].refs # 1
    BY <1>3, <2>2
  <2> QED BY <1>1, <2>1, <2>2, <2>3 DEF PolicyAt
<1>5. PICK u \in PolicyRec : /\ u = Unrefd(s.pol[p]) /\ u.refs = s.pol[p].refs - 1 /\ u.ver = s.pol[p].ver
                             /\ u.on = s.pol[p].on /\ u.freed = s.pol[p].freed
                             /\ u.idle = IF s.pol[p].refs = 2 THEN s.pol[p].idle + 1 ELSE s.pol[p].idle
  BY <1>1, PolicyCounted
<1>6. PICK f \in [PolicyIds -> PolicyRec] : f = [s.pol EXCEPT ![p] = u]
  BY LoopFields
<1>7. f[p] = u /\ \A q \in PolicyIds : q # p => f[q] = s.pol[q]
  BY <1>6, LoopFields
<1>8. PICK g \in [LoopSessions -> 0 .. MaxPolicies] : g = [s.session EXCEPT ![x] = 0]
  <2>1. 0 \in 0 .. MaxPolicies
    BY LoopConstants
  <2> QED BY <2>1, LoopFields
<1>9. t = [s EXCEPT !.session = g, !.pol = f]
  <2>1. PICK z \in LoopRec : z = [s EXCEPT !.session = g] /\ z.pol = s.pol
    <3>1. [s EXCEPT !.session = g] \in LoopRec /\ [s EXCEPT !.session = g].pol = s.pol
      BY DEF LoopRec
    <3> QED BY <3>1
  <2>2. t = PolicyUnref(z, p)
    BY <1>0, <1>8, <2>1
  <2>3. t = [z EXCEPT !.pol = f]
    <3>1. t = [z EXCEPT !.pol = [z.pol EXCEPT ![p] = Unrefd(z.pol[p])]]
      BY <2>2, PolicyOps
    <3> QED BY <1>5, <1>6, <2>1, <3>1
  <2> QED BY <2>1, <2>3
<1>10. t \in LoopRec
  BY <1>9 DEF LoopRec
<1>11. /\ t.pol = f /\ t.cur = s.cur /\ t.new = s.new /\ t.session = g /\ t.asks = s.asks
       /\ t.file = s.file /\ t.result = s.result /\ t.hup = s.hup /\ t.at = s.at /\ t.ready = s.ready
  BY <1>9 DEF LoopRec
<1>12. \A q : InUse(t, q) <=> InUse(s, q)
  BY <1>11 DEF InUse
<1>13. \A y \in LoopSessions : g[y] = IF y = x THEN 0 ELSE s.session[y]
  BY <1>8, LoopFields
<1>14. \A q \in PolicyIds : q # p => SessionsIn(t, q) = SessionsIn(s, q)
  <2>1. 0 \notin PolicyIds
    BY DEF PolicyIds
  <2> QED BY <1>0, <1>11, <1>13, <2>1 DEF SessionsIn
<1>15. Cardinality(SessionsIn(t, p)) = k - 1
  <2>1. SessionsIn(t, p) = SessionsIn(s, p) \ {x}
    <3>1. p # 0
      BY DEF PolicyIds
    <3> QED BY <1>11, <1>13, <3>1 DEF SessionsIn
  <2> QED BY <1>2, <1>3, <2>1, FiniteSessions, FS_RemoveElement
<1>16. /\ t.pol[p].ver = s.pol[p].ver /\ t.pol[p].on = s.pol[p].on /\ ~t.pol[p].freed
       /\ t.pol[p].refs = s.pol[p].refs - 1 /\ t.pol[p].idle = IF s.pol[p].refs = 2 THEN 1 ELSE 0
  BY <1>4, <1>5, <1>7, <1>11
<1>17. PolicyAt(t, p)
  <2>1. t.pol[p].refs = 1 + (IF InUse(t, p) THEN 1 ELSE 0) + Cardinality(SessionsIn(t, p))
    BY <1>4, <1>12, <1>15, <1>16
  <2>2. t.pol[p].idle \in {0, 1} /\ (t.pol[p].idle = 1 <=> t.pol[p].refs = 1)
    BY <1>3, <1>4, <1>16
  <2>3. t.pol[p].on => InUse(t, p)
    BY <1>1, <1>4, <1>12, <1>16 DEF PolicyAt
  <2> QED BY <1>4, <1>16, <2>1, <2>2, <2>3 DEF PolicyAt
<1>18. LoopAt(t) /\ \A c \in DOMAIN t.asks : AskAt(t, c)
  <2>1. s.pol[p].idle # 1
    BY <1>4
  <2> QED BY <1>7, <1>10, <1>11, <1>16, <2>1, SamePlace
<1> QED BY <1>7, <1>10, <1>11, <1>12, <1>14, <1>16, <1>17, <1>18, OnePolicy

(* The policies used so far are the first ones. *)
LEMMA UsedFirst ==
    ASSUME NEW s \in LoopRec, LoopGood(s), NEW p, p = Cardinality(Used(s)) + 1, ~(p > MaxPolicies)
    PROVE  p \in PolicyIds /\ \A q \in PolicyIds : q >= p <=> s.pol[q].ver = 0
<1>1. PICK n \in 0 .. MaxPolicies : \A q \in PolicyIds : q > n <=> s.pol[q].ver = 0
  BY DEF LoopGood, InOrder
<1>2. \A q \in PolicyIds : s.pol[q] = NoPolicy <=> s.pol[q].ver = 0
  BY DEF LoopGood, PolicyAt, NoPolicy
<1>3. Used(s) = 1 .. n
  BY <1>1, <1>2, LoopConstants DEF Used, PolicyIds
<1>4. Cardinality(1 .. n) = n
  <2>1. n \in Nat
    BY <1>1, LoopConstants
  <2>2. Cardinality(1 .. n) = IF 1 > n THEN 0 ELSE n - 1 + 1
    BY <2>1, FS_Interval
  <2> QED BY <2>1, <2>2
<1>5. p = n + 1 /\ n \in Nat
  BY <1>1, <1>3, <1>4, LoopConstants
<1> QED BY <1>1, <1>5, LoopConstants DEF PolicyIds

(* A policy is loaded. *)
LEMMA LoadStep ==
    ASSUME NEW s \in LoopRec, LoopGood(s), s.at = "load", NEW t \in LoadPolicy(s)
    PROVE  t \in LoopRec /\ LoopGood(t)
<1>0. LoopAt(s) /\ (\A c \in DOMAIN s.asks : AskAt(s, c)) /\ \A q \in PolicyIds : PolicyAt(s, q)
  BY DEF LoopGood
<1>1. PICK p : p = Cardinality(Used(s)) + 1
  OBVIOUS
<1>2. ~(p > MaxPolicies)
  BY <1>1 DEF LoadPolicy
<1>3. p \in PolicyIds /\ \A q \in PolicyIds : q >= p <=> s.pol[q].ver = 0
  BY <1>1, <1>2, UsedFirst
<1>4. s.pol[p].ver = 0 /\ ~InUse(s, p) /\ SessionsIn(s, p) = {}
  <2>1. p >= p
    BY <1>3 DEF PolicyIds
  <2> QED BY <1>0, <1>3, <2>1 DEF PolicyAt
<1>5. PICK u \in PolicyRec : /\ u = [NoPolicy EXCEPT !.ver = s.file, !.refs = 2] /\ u.ver = s.file /\ u.refs = 2
                             /\ u.idle = 0 /\ ~u.on /\ ~u.freed
  <2>1. s.file \in Nat
    BY LoopFields
  <2>2. PICK r \in PolicyRec : r = NoPolicy /\ r.idle = 0 /\ ~r.on /\ ~r.freed
    <3>1. NoPolicy \in PolicyRec
      BY DEF NoPolicy, PolicyRec
    <3>2. NoPolicy.idle = 0
      BY DEF NoPolicy
    <3>3. ~NoPolicy.on
      BY DEF NoPolicy
    <3>4. ~NoPolicy.freed
      BY DEF NoPolicy
    <3> QED BY <3>1, <3>2, <3>3, <3>4
  <2>3. /\ [r EXCEPT !.ver = s.file] \in PolicyRec /\ [r EXCEPT !.ver = s.file].ver = s.file
        /\ [r EXCEPT !.ver = s.file].idle = r.idle /\ [r EXCEPT !.ver = s.file].on = r.on
        /\ [r EXCEPT !.ver = s.file].freed = r.freed
    BY <2>1 DEF PolicyRec
  <2>4. PICK w \in PolicyRec : /\ w = [r EXCEPT !.ver = s.file] /\ w.ver = s.file /\ w.idle = r.idle
                               /\ w.on = r.on /\ w.freed = r.freed
    BY <2>3
  <2>5. /\ [w EXCEPT !.refs = 2] \in PolicyRec /\ [w EXCEPT !.refs = 2].ver = w.ver /\ [w EXCEPT !.refs = 2].refs = 2
        /\ [w EXCEPT !.refs = 2].idle = w.idle /\ [w EXCEPT !.refs = 2].on = w.on /\ [w EXCEPT !.refs = 2].freed = w.freed
    BY DEF PolicyRec
  <2> QED BY <2>2, <2>4, <2>5
<1>6. PICK f \in [PolicyIds -> PolicyRec] : f = [s.pol EXCEPT ![p] = u]
  BY LoopFields
<1>7. f[p] = u /\ \A q \in PolicyIds : q # p => f[q] = s.pol[q]
  BY <1>3, <1>6, LoopFields
<1>8. PICK a \in {"init", "unload"} : a = IF s.good[s.file] = "bad_load" THEN "unload" ELSE "init"
  OBVIOUS
<1>9. t = [s EXCEPT !.at = a, !.new = p, !.pol = f]
  BY <1>1, <1>2, <1>5, <1>6, <1>8 DEF LoadPolicy, LoopRec
<1>10. t \in LoopRec
  <2>1. p \in 0 .. MaxPolicies /\ a \in LoopAts
    BY <1>3 DEF PolicyIds, LoopAts
  <2> QED BY <1>9, <2>1 DEF LoopRec
<1>11. /\ t.pol = f /\ t.cur = s.cur /\ t.new = p /\ t.session = s.session /\ t.asks = s.asks
       /\ t.file = s.file /\ t.result = s.result /\ t.hup = s.hup /\ t.at = a /\ t.ready = s.ready
  BY <1>9 DEF LoopRec
<1>12. s.new = 0 /\ 0 \notin PolicyIds
  BY <1>0 DEF LoopAt, Loading, PolicyIds
<1>13. \A q \in PolicyIds : SessionsIn(t, q) = SessionsIn(s, q) /\ (q # p => (InUse(t, q) <=> InUse(s, q)))
  BY <1>11, <1>12 DEF SessionsIn, InUse
<1>14. ASSUME NEW q \in PolicyIds PROVE PolicyAt(t, q)
  <2>1. CASE q = p
    <3>1. Cardinality(SessionsIn(t, p)) = 0 /\ InUse(t, p)
      BY <1>3, <1>4, <1>11, <1>13, FS_EmptySet DEF InUse
    <3>2. s.file # 0
      BY LoopFields
    <3>3. t.pol[q] = u
      BY <1>7, <1>11, <2>1
    <3> QED BY <1>5, <2>1, <3>1, <3>2, <3>3 DEF PolicyAt
  <2>2. CASE q # p
    BY <1>0, <1>7, <1>11, <1>13, <2>2 DEF PolicyAt
  <2> QED BY <2>1, <2>2
<1>15. InOrder(t)
  <2>1. p \in 0 .. MaxPolicies
    BY <1>3 DEF PolicyIds
  <2>2. ASSUME NEW q \in PolicyIds PROVE q > p <=> t.pol[q].ver = 0
    <3>1. CASE q = p
      <4>1. t.pol[q].ver = s.file /\ s.file # 0
        <5>1. t.pol[q] = u
          BY <1>7, <1>11, <3>1
        <5>2. s.file # 0
          BY LoopFields
        <5> QED BY <1>5, <5>1, <5>2
      <4> QED BY <3>1, <4>1 DEF PolicyIds
    <3>2. CASE q # p
      <4>1. q > p <=> q >= p
        BY <1>3, <3>2 DEF PolicyIds
      <4> QED BY <1>3, <1>7, <1>11, <3>2, <4>1
    <3> QED BY <3>1, <3>2
  <2> QED BY <2>1, <2>2 DEF InOrder
<1>16. LoopAt(t)
  <2>1. p # 0 /\ p # s.cur
    BY <1>3, <1>4, <1>12 DEF InUse
  <2>2. s.cur # 0 => s.cur \in PolicyIds
    BY LoopFields DEF PolicyIds
  <2> QED BY <1>0, <1>5, <1>7, <1>8, <1>11, <2>1, <2>2 DEF LoopAt, Loading, Looping
<1>17. ASSUME NEW c \in DOMAIN t.asks PROVE AskAt(t, c)
  <2>1. AskAt(s, c)
    BY <1>0, <1>11
  <2> QED BY <1>5, <1>7, <1>8, <1>11, <2>1 DEF AskAt, Loading, Looping
<1> QED BY <1>10, <1>14, <1>15, <1>16, <1>17 DEF LoopGood

(* Its init() is run. *)
LEMMA InitStep ==
    ASSUME NEW s \in LoopRec, LoopGood(s), s.at = "init", NEW t, t = InitPolicy(s)
    PROVE  t \in LoopRec /\ LoopGood(t)
<1>0. LoopAt(s) /\ (\A c \in DOMAIN s.asks : AskAt(s, c)) /\ \A q \in PolicyIds : PolicyAt(s, q)
  BY DEF LoopGood
<1>1. PICK p \in PolicyIds : p = s.new
  BY <1>0, LoopFields DEF LoopAt, Loading, PolicyIds
<1>2. s.pol[p] \in PolicyRec /\ p # s.cur
  BY <1>0, <1>1, LoopFields DEF LoopAt, Loading
<1>3. PICK v \in BOOLEAN : v = TRUE
  OBVIOUS
<1>4. PICK u \in PolicyRec : /\ u = Switched(s.pol[p], v) /\ u.refs = s.pol[p].refs /\ u.ver = s.pol[p].ver
                             /\ u.on = v /\ u.idle = s.pol[p].idle /\ u.freed = s.pol[p].freed
  BY <1>2, PolicySwitched
<1>5. PICK f \in [PolicyIds -> PolicyRec] : f = [s.pol EXCEPT ![p] = u]
  BY LoopFields
<1>6. f[p] = u /\ \A q \in PolicyIds : q # p => f[q] = s.pol[q]
  BY <1>5, LoopFields
<1>7. PICK a \in {"swap", "unload"} : a = IF s.good[s.pol[s.new].ver] = "good" THEN "swap" ELSE "unload"
  OBVIOUS
<1>8. t = [s EXCEPT !.at = a, !.pol = f]
  BY <1>1, <1>3, <1>4, <1>5, <1>7 DEF InitPolicy, Switched, LoopRec
<1>9. t \in LoopRec
  <2>1. a \in LoopAts
    BY DEF LoopAts
  <2> QED BY <1>8, <2>1 DEF LoopRec
<1>10. /\ t.pol = f /\ t.cur = s.cur /\ t.new = p /\ t.session = s.session /\ t.asks = s.asks
       /\ t.file = s.file /\ t.result = s.result /\ t.hup = s.hup /\ t.at = a /\ t.ready = s.ready
  BY <1>1, <1>8 DEF LoopRec
<1>11. \A q : SessionsIn(t, q) = SessionsIn(s, q) /\ (InUse(t, q) <=> InUse(s, q))
  BY <1>1, <1>10 DEF SessionsIn, InUse
<1>12. PolicyAt(t, p) /\ t.pol[p].ver = s.pol[p].ver
  <2>1. PolicyAt(s, p) /\ InUse(s, p)
    BY <1>0, <1>1 DEF InUse
  <2>2. s.pol[p].ver # 0
    BY <2>1 DEF PolicyAt
  <2> QED BY <1>4, <1>6, <1>10, <1>11, <2>1, <2>2 DEF PolicyAt
<1>13. LoopAt(t)
  <2>1. s.cur # 0 => s.cur \in PolicyIds /\ f[s.cur] = s.pol[s.cur]
    BY <1>2, <1>6, LoopFields DEF PolicyIds
  <2>2. p # 0
    BY DEF PolicyIds
  <2> QED BY <1>0, <1>2, <1>3, <1>4, <1>6, <1>7, <1>10, <2>1, <2>2 DEF LoopAt, Loading, Looping
<1>14. ASSUME NEW c \in DOMAIN t.asks PROVE AskAt(t, c)
  <2>1. AskAt(s, c)
    BY <1>0, <1>10
  <2> QED BY <1>1, <1>4, <1>6, <1>7, <1>10, <2>1 DEF AskAt, Loading, Looping
<1> QED BY <1>6, <1>9, <1>10, <1>11, <1>12, <1>13, <1>14, OnePolicy

(* A policy is torn down: its deinit() is run and the main loop lets it go. *)
Dropped(s, p) == [s EXCEPT !.pol = [s.pol EXCEPT ![p] = Unrefd(Switched(s.pol[p], FALSE))]]
LEMMA DropPolicy ==
    ASSUME NEW s \in LoopRec, NEW p \in PolicyIds
    PROVE  PolicyUnref([s EXCEPT !.pol[p] = [s.pol[p] EXCEPT !.on = FALSE]], p) = Dropped(s, p)
<1>1. PICK v \in BOOLEAN : v = FALSE
  OBVIOUS
<1>2. s.pol[p] \in PolicyRec /\ s.pol \in [PolicyIds -> PolicyRec]
  BY LoopFields
<1>3. PICK u \in PolicyRec : u = Switched(s.pol[p], v)
  BY <1>2, PolicySwitched
<1>4. PICK f \in [PolicyIds -> PolicyRec] : f = [s.pol EXCEPT ![p] = u]
  BY <1>2
<1>5. PICK z \in LoopRec : z = [s EXCEPT !.pol = f] /\ z.pol = f
  <2>1. [s EXCEPT !.pol = f] \in LoopRec /\ [s EXCEPT !.pol = f].pol = f
    BY DEF LoopRec
  <2> QED BY <2>1
<1>6. z = [s EXCEPT !.pol[p] = [s.pol[p] EXCEPT !.on = FALSE]]
  BY <1>1, <1>3, <1>4, <1>5 DEF Switched, LoopRec
<1>7. PolicyUnref(z, p) = [z EXCEPT !.pol = [f EXCEPT ![p] = Unrefd(f[p])]]
  <2>1. PolicyUnref(z, p) = [z EXCEPT !.pol = [z.pol EXCEPT ![p] = Unrefd(z.pol[p])]]
    BY PolicyOps
  <2> QED BY <1>5, <2>1
<1>8. f[p] = u /\ [f EXCEPT ![p] = Unrefd(u)] = [s.pol EXCEPT ![p] = Unrefd(u)]
  BY <1>2, <1>4
<1>9. PolicyUnref(z, p) = [s EXCEPT !.pol = [s.pol EXCEPT ![p] = Unrefd(u)]]
  BY <1>5, <1>7, <1>8 DEF LoopRec
<1> QED BY <1>1, <1>3, <1>6, <1>9 DEF Dropped

(* The policy that was torn down afterwards, and the others. *)
LEMMA DroppedAt ==
    ASSUME NEW s \in LoopRec, LoopGood(s), NEW p \in PolicyIds, InUse(s, p)
    PROVE  \E f \in [PolicyIds -> PolicyRec] :
             /\ Dropped(s, p) = [s EXCEPT !.pol = f]
             /\ f[p].ver = s.pol[p].ver /\ ~f[p].on /\ \A q \in PolicyIds : q # p => f[q] = s.pol[q]
             /\ \A t \in LoopRec : t.pol = f /\ ~InUse(t, p) /\ t.session = s.session => PolicyAt(t, p)
<1>1. PICK v \in BOOLEAN : v = FALSE
  OBVIOUS
<1>2. s.pol[p] \in PolicyRec /\ s.pol \in [PolicyIds -> PolicyRec] /\ PolicyAt(s, p)
  BY LoopFields DEF LoopGood
<1>3. PICK w \in PolicyRec : /\ w = Switched(s.pol[p], v) /\ w.refs = s.pol[p].refs /\ w.ver = s.pol[p].ver
                             /\ w.on = v /\ w.idle = s.pol[p].idle /\ w.freed = s.pol[p].freed
  BY <1>2, PolicySwitched
<1>4. PICK u \in PolicyRec : /\ u = Unrefd(w) /\ u.refs = w.refs - 1 /\ u.ver = w.ver /\ u.on = w.on /\ u.freed = w.freed
                             /\ u.idle = IF w.refs = 2 THEN w.idle + 1 ELSE w.idle
  BY PolicyCounted
<1>5. PICK f \in [PolicyIds -> PolicyRec] : f = [s.pol EXCEPT ![p] = u]
  BY <1>2
<1>6. f[p] = u /\ \A q \in PolicyIds : q # p => f[q] = s.pol[q]
  BY <1>2, <1>5
<1>7. Dropped(s, p) = [s EXCEPT !.pol = f]
  BY <1>1, <1>3, <1>4, <1>5 DEF Dropped
<1>8. f[p].ver = s.pol[p].ver /\ ~f[p].on
  BY <1>1, <1>3, <1>4, <1>6
<1>9. ASSUME NEW t \in LoopRec, t.pol = f, ~InUse(t, p), t.session = s.session PROVE PolicyAt(t, p)
  <2>1. SessionsIn(t, p) = SessionsIn(s, p)
    BY <1>9 DEF SessionsIn
  <2>2. PICK k \in Nat : k = Cardinality(SessionsIn(s, p))
    BY FiniteSessions
  <2>3. s.pol[p].ver # 0 /\ s.pol[p].refs = 2 + k /\ s.pol[p].idle = 0 /\ ~s.pol[p].freed
    <3>1. s.pol[p].ver # 0
      BY <1>2 DEF PolicyAt
    <3>2. s.pol[p].refs = 2 + k
      BY <1>2, <2>2, <3>1 DEF PolicyAt
    <3>3. s.pol[p].refs # 1
      BY <3>2
    <3> QED BY <1>2, <3>1, <3>2, <3>3 DEF PolicyAt
  <2>4. t.pol[p].refs = 1 + k /\ t.pol[p].idle = (IF k = 0 THEN 1 ELSE 0)
    BY <1>3, <1>4, <1>6, <1>9, <2>3
  <2>5. t.pol[p].ver # 0 /\ ~t.pol[p].freed /\ ~t.pol[p].on
    BY <1>3, <1>4, <1>6, <1>8, <1>9, <2>3
  <2> QED BY <1>9, <2>1, <2>2, <2>4, <2>5 DEF PolicyAt
<1> QED BY <1>6, <1>7, <1>8, <1>9

(* A policy that could not be loaded goes, and the process goes on with the  *)
(* old one, or ends.                                                        *)
LEMMA UnloadStep ==
    ASSUME NEW s \in LoopRec, LoopGood(s), s.at = "unload", NEW t, t = UnloadPolicy(s)
    PROVE  t \in LoopRec /\ LoopGood(t)
<1>0. LoopAt(s) /\ (\A c \in DOMAIN s.asks : AskAt(s, c)) /\ \A q \in PolicyIds : PolicyAt(s, q)
  BY DEF LoopGood
<1>1. PICK p \in PolicyIds : p = s.new
  BY <1>0, LoopFields DEF LoopAt, Loading, PolicyIds
<1>2. p # s.cur /\ InUse(s, p)
  BY <1>0, <1>1 DEF LoopAt, Loading, InUse
<1>3. PICK f \in [PolicyIds -> PolicyRec] :
         /\ Dropped(s, p) = [s EXCEPT !.pol = f]
         /\ f[p].ver = s.pol[p].ver /\ ~f[p].on /\ \A q \in PolicyIds : q # p => f[q] = s.pol[q]
         /\ \A y \in LoopRec : y.pol = f /\ ~InUse(y, p) /\ y.session = s.session => PolicyAt(y, p)
  BY <1>2, DroppedAt
<1>4. PICK z \in LoopRec : z = [s EXCEPT !.pol = f] /\ z.at = s.at /\ z.cur = s.cur
  <2>1. [s EXCEPT !.pol = f] \in LoopRec /\ [s EXCEPT !.pol = f].at = s.at /\ [s EXCEPT !.pol = f].cur = s.cur
    BY DEF LoopRec
  <2> QED BY <2>1
<1>5. t = FinishLoad(z, FALSE)
  BY <1>1, <1>3, <1>4, DropPolicy DEF UnloadPolicy
<1>6. PICK v \in BOOLEAN : v = FALSE
  OBVIOUS
<1>7. /\ t \in LoopRec /\ t.pol = f /\ t.cur = s.cur /\ t.new = 0 /\ t.session = s.session /\ t.asks = s.asks
      /\ t.file = s.file
      /\ IF s.cur = 0 THEN t.at = "failed" ELSE t.at = "term" /\ ~t.result
  <2>0. 0 \in 0 .. MaxPolicies
    BY LoopConstants
  <2>1. CASE s.cur = 0
    <3>1. t = [s EXCEPT !.pol = f, !.at = "failed", !.new = 0]
      BY <1>4, <1>5, <2>1 DEF FinishLoad
    <3>2. t \in LoopRec
      BY <2>0, <3>1, ZenonT(60) DEF LoopRec, LoopAts
    <3>3. /\ t.pol = f /\ t.cur = s.cur /\ t.new = 0 /\ t.session = s.session /\ t.asks = s.asks /\ t.file = s.file
          /\ t.at = "failed"
      BY <3>1 DEF LoopRec
    <3> QED BY <2>1, <3>2, <3>3
  <2>2. CASE s.cur # 0
    <3>1. t = [[z EXCEPT !.new = 0, !.hup = FALSE, !.result = FALSE] EXCEPT !.at = "term", !.cur = z.cur]
      BY <1>4, <1>5, <2>2 DEF FinishLoad
    <3>2. t = [s EXCEPT !.pol = f, !.new = 0, !.hup = v, !.result = v, !.at = "term", !.cur = s.cur]
      BY <1>4, <1>6, <3>1
    <3>3. t \in LoopRec
      BY <2>0, <3>2, ZenonT(60) DEF LoopRec, LoopAts
    <3>4. /\ t.pol = f /\ t.cur = s.cur /\ t.new = 0 /\ t.session = s.session /\ t.asks = s.asks /\ t.file = s.file
          /\ t.at = "term"
      BY <3>2 DEF LoopRec
    <3>5. t.result = v
      BY <3>2 DEF LoopRec
    <3> QED BY <1>6, <2>2, <3>3, <3>4, <3>5
  <2> QED BY <2>1, <2>2
<1>8. /\ \A q \in PolicyIds : SessionsIn(t, q) = SessionsIn(s, q) /\ (q # p => (InUse(t, q) <=> InUse(s, q)))
      /\ ~InUse(t, p) /\ 0 \notin PolicyIds
  <2>1. 0 \notin PolicyIds
    BY DEF PolicyIds
  <2> QED BY <1>1, <1>2, <1>7, <2>1 DEF SessionsIn, InUse
<1>9. PolicyAt(t, p)
  BY <1>3, <1>7, <1>8
<1>10. LoopAt(t)
  <2>1. s.cur # 0 => s.cur \in PolicyIds /\ f[s.cur] = s.pol[s.cur]
    BY <1>2, <1>3, LoopFields DEF PolicyIds
  <2> QED BY <1>0, <1>7, <2>1 DEF LoopAt, Loading, Looping
<1>11. ASSUME NEW c \in DOMAIN t.asks PROVE AskAt(t, c)
  <2>1. AskAt(s, c)
    BY <1>0, <1>7
  <2> QED BY <1>7, <2>1 DEF AskAt, Loading, Looping
<1> QED BY <1>3, <1>7, <1>8, <1>9, <1>10, <1>11, OnePolicy

(* A policy that could takes the old one's place. *)
LEMMA SwapStep ==
    ASSUME NEW s \in LoopRec, LoopGood(s), s.at = "swap", NEW t, t = SwapPolicy(s)
    PROVE  t \in LoopRec /\ LoopGood(t)
<1>0. LoopAt(s) /\ (\A c \in DOMAIN s.asks : AskAt(s, c)) /\ \A q \in PolicyIds : PolicyAt(s, q)
  BY DEF LoopGood
<1>1. PICK p \in PolicyIds : p = s.new
  BY <1>0, LoopFields DEF LoopAt, Loading, PolicyIds
<1>2. p # s.cur /\ s.pol[p].on /\ p \in 0 .. MaxPolicies /\ p # 0 /\ 0 \in 0 .. MaxPolicies
  BY <1>0, <1>1, LoopConstants DEF LoopAt, Loading, PolicyIds
<1>3. CASE s.cur = 0
  <2>1. t = [s EXCEPT !.at = IF s.term THEN "cleanup" ELSE "poll", !.cur = p, !.new = 0]
    BY <1>1, <1>3 DEF SwapPolicy, FinishLoad
  <2>2. t \in LoopRec
    BY <1>2, <2>1, ZenonT(60) DEF LoopRec, LoopAts
  <2>3. /\ t.pol = s.pol /\ t.cur = p /\ t.new = 0 /\ t.session = s.session /\ t.asks = s.asks
        /\ t.file = s.file /\ t.result = s.result /\ t.hup = s.hup /\ t.at = IF s.term THEN "cleanup" ELSE "poll"
    BY <2>1 DEF LoopRec
  <2>4. \A q : SessionsIn(t, q) = SessionsIn(s, q) /\ (InUse(t, q) <=> InUse(s, q))
    BY <1>1, <1>3, <2>3 DEF SessionsIn, InUse
  <2>5. \A q \in PolicyIds : PolicyAt(t, q)
    BY <1>0, <2>3, <2>4 DEF PolicyAt
  <2>6. InOrder(t)
    BY <2>3 DEF LoopGood, InOrder
  <2>7. LoopAt(t)
    BY <1>2, <2>3 DEF LoopAt, Loading, Looping
  <2>8. ASSUME NEW c \in DOMAIN t.asks PROVE AskAt(t, c)
    <3>1. AskAt(s, c)
      BY <1>0, <2>3
    <3> QED BY <1>2, <1>3, <2>3, <3>1 DEF AskAt, Loading, Looping
  <2> QED BY <2>2, <2>5, <2>6, <2>7, <2>8 DEF LoopGood
<1>4. CASE s.cur # 0
  <2>1. PICK o \in PolicyIds : o = s.cur
    BY <1>4, LoopFields DEF PolicyIds
  <2>2. PICK f \in [PolicyIds -> PolicyRec] :
           /\ Dropped(s, o) = [s EXCEPT !.pol = f]
           /\ f[o].ver = s.pol[o].ver /\ ~f[o].on /\ \A q \in PolicyIds : q # o => f[q] = s.pol[q]
           /\ \A y \in LoopRec : y.pol = f /\ ~InUse(y, o) /\ y.session = s.session => PolicyAt(y, o)
    <3>1. InUse(s, o)
      BY <2>1 DEF InUse
    <3> QED BY <3>1, DroppedAt
  <2>3. PICK z \in LoopRec : z = [s EXCEPT !.pol = f] /\ z.at = s.at /\ z.cur = s.cur /\ z.new = s.new
    <3>1. /\ [s EXCEPT !.pol = f] \in LoopRec /\ [s EXCEPT !.pol = f].at = s.at /\ [s EXCEPT !.pol = f].cur = s.cur
          /\ [s EXCEPT !.pol = f].new = s.new
      BY DEF LoopRec
    <3> QED BY <3>1
  <2>4. t = FinishLoad(z, TRUE)
    BY <1>4, <2>1, <2>2, <2>3, DropPolicy DEF SwapPolicy
  <2>5. PICK v \in BOOLEAN : v = FALSE
    OBVIOUS
  <2>6. PICK w \in BOOLEAN : w = TRUE
    OBVIOUS
  <2>7. t = [s EXCEPT !.pol = f, !.new = 0, !.hup = v, !.result = w, !.at = "term", !.cur = p]
    <3>1. t = [[z EXCEPT !.new = 0, !.hup = FALSE, !.result = TRUE] EXCEPT !.at = "term", !.cur = z.new]
      BY <1>4, <2>3, <2>4 DEF FinishLoad
    <3> QED BY <1>1, <2>3, <2>5, <2>6, <3>1
  <2>8. t \in LoopRec
    <3>1. PICK y \in LoopRec : y = [s EXCEPT !.pol = f, !.new = 0, !.hup = v]
      <4>1. [s EXCEPT !.pol = f, !.new = 0, !.hup = v] \in LoopRec
        BY <1>2 DEF LoopRec
      <4> QED BY <4>1
    <3>2. t = [y EXCEPT !.result = w, !.at = "term", !.cur = p]
      BY <2>7, <3>1
    <3> QED BY <1>2, <3>2, ZenonT(60) DEF LoopRec, LoopAts
  <2>9. /\ t.pol = f /\ t.cur = p /\ t.new = 0 /\ t.session = s.session /\ t.asks = s.asks /\ t.file = s.file
        /\ t.at = "term"
    BY <2>7 DEF LoopRec
  <2>10. /\ \A q \in PolicyIds : SessionsIn(t, q) = SessionsIn(s, q) /\ (q # o => (InUse(t, q) <=> InUse(s, q)))
         /\ ~InUse(t, o)
    <3>1. 0 \notin PolicyIds
      BY DEF PolicyIds
    <3> QED BY <1>1, <1>2, <2>1, <2>9, <3>1 DEF SessionsIn, InUse
  <2>11. PolicyAt(t, o)
    BY <2>2, <2>8, <2>9, <2>10
  <2>12. f[p] = s.pol[p]
    BY <1>2, <2>1, <2>2
  <2>13. LoopAt(t)
    BY <1>2, <2>9, <2>12 DEF LoopAt, Loading, Looping
  <2>14. ASSUME NEW c \in DOMAIN t.asks PROVE AskAt(t, c)
    <3>1. AskAt(s, c)
      BY <1>0, <2>9
    <3>2. s.asks[c].ver <= t.pol[t.cur].ver
      BY <1>1, <2>9, <2>12, <3>1 DEF AskAt, Loading
    <3> QED BY <1>2, <2>9, <3>1, <3>2 DEF AskAt, Loading, Looping
  <2> QED BY <2>2, <2>8, <2>9, <2>10, <2>11, <2>13, <2>14, OnePolicy
<1> QED BY <1>3, <1>4

-----------------------------------------------------------------------------
(* Every step of the main loop keeps the invariant. *)
LoopInv == ml \in LoopRec /\ LoopGood(ml)
LEMMA LoopStarts == LoopInit => LoopInv
<1> SUFFICES ASSUME LoopInit PROVE LoopInv
  OBVIOUS
<1>1. PICK k \in LoopConfs, g \in [1 .. MaxVersions -> Outcomes] :
         ml = [conf |-> k, at |-> "load", file |-> 1, good |-> g, cur |-> 0, new |-> 0,
               pol |-> [p \in PolicyIds |-> NoPolicy], hup |-> FALSE, term |-> FALSE, result |-> FALSE, ready |-> {},
               session |-> [x \in LoopSessions |-> 0], signals |-> 0, wanted |-> 0,
               asks |-> [d \in k.clients |-> [at |-> "idle", ver |-> 0, answer |-> FALSE, told |-> 0]]]
  BY DEF LoopInit, LoopInits
<1>2. PICK f \in [PolicyIds -> PolicyRec] : f = [p \in PolicyIds |-> NoPolicy]
  <2>1. NoPolicy \in PolicyRec
    BY DEF NoPolicy, PolicyRec
  <2> QED BY <2>1
<1>3. PICK h \in [LoopSessions -> 0 .. MaxPolicies] : h = [x \in LoopSessions |-> 0]
  <2>1. 0 \in 0 .. MaxPolicies
    BY LoopConstants
  <2> QED BY <2>1
<1>4. PICK b \in AskRec : b = [at |-> "idle", ver |-> 0, answer |-> FALSE, told |-> 0] /\ b.at = "idle" /\ b.ver = 0
  <2>1. [at |-> "idle", ver |-> 0, answer |-> FALSE, told |-> 0] \in AskRec
    BY DEF AskRec
  <2> QED BY <2>1
<1>5. PICK e \in [k.clients -> AskRec] : e = [d \in k.clients |-> b]
  OBVIOUS
<1>6. e \in UNION {[D -> AskRec] : D \in SUBSET AllClients} /\ DOMAIN e = k.clients /\ \A d \in k.clients : e[d] = b
  BY <1>5 DEF AllClients
<1>7. PICK v \in BOOLEAN : v = FALSE
  OBVIOUS
<1>8. ml = [conf |-> k, at |-> "load", file |-> 1, good |-> g, cur |-> 0, new |-> 0, pol |-> f, hup |-> v, term |-> v,
            result |-> v, ready |-> {}, session |-> h, signals |-> 0, wanted |-> 0, asks |-> e]
  BY <1>1, <1>2, <1>3, <1>4, <1>5, <1>7
<1>9. ml \in LoopRec
  BY <1>6, <1>8, LoopConstants DEF LoopRec, LoopAts
<1>10. ml.at = "load" /\ ml.cur = 0 /\ ml.new = 0 /\ ml.pol = f /\ ml.session = h /\ ml.asks = e /\ ml.file = 1
  BY <1>8
<1>11. \A p \in PolicyIds : ml.pol[p] = NoPolicy /\ ml.pol[p].ver = 0 /\ p # 0
  BY <1>2, <1>10 DEF NoPolicy, PolicyIds
<1>12. InOrder(ml)
  <2>1. 0 \in 0 .. MaxPolicies
    BY LoopConstants
  <2>2. \A p \in PolicyIds : p > 0
    BY DEF PolicyIds
  <2> QED BY <1>11, <2>1, <2>2 DEF InOrder
<1>13. LoopAt(ml)
  BY <1>10 DEF LoopAt, Loading, Looping
<1>14. ASSUME NEW p \in PolicyIds PROVE PolicyAt(ml, p)
  <2>1. ~InUse(ml, p) /\ SessionsIn(ml, p) = {}
    BY <1>3, <1>10, <1>11 DEF InUse, SessionsIn
  <2> QED BY <1>11, <2>1 DEF PolicyAt
<1>15. ASSUME NEW c \in DOMAIN ml.asks PROVE AskAt(ml, c)
  <2>1. ml.asks[c].at = "idle" /\ ml.asks[c].ver = 0
    BY <1>4, <1>6, <1>10
  <2> QED BY <1>10, <2>1 DEF AskAt, Loading, Looping
<1> QED BY <1>9, <1>12, <1>13, <1>14, <1>15 DEF LoopInv, LoopGood

LEMMA LoopSteps == LoopInv /\ [LoopNext]_ml => LoopInv'
<1> SUFFICES ASSUME LoopInv, LoopNext PROVE LoopInv'
  BY DEF LoopInv
<1>0. PICK s \in LoopRec : s = ml /\ LoopGood(s)
  BY DEF LoopInv
<1>1. CASE LoopLoad
  BY <1>0, <1>1, LoadStep DEF LoopLoad, LoopInv
<1>2. CASE LoopInitPolicy
  BY <1>0, <1>2, InitStep DEF LoopInitPolicy, LoopInv
<1>3. CASE LoopUnload
  BY <1>0, <1>3, UnloadStep DEF LoopUnload, LoopInv
<1>4. CASE LoopSwap
  BY <1>0, <1>4, SwapStep DEF LoopSwap, LoopInv
<1>5. CASE LoopPoll \/ LoopCheck \/ LoopGoOn \/ LoopCleanup
  BY <1>0, <1>5, TurnSteps DEF LoopPoll, LoopCheck, LoopGoOn, LoopCleanup, LoopInv
<1>6. CASE LoopDispatch
  <2>1. PICK x \in s.ready : ml' = DispatchSource(s, x) /\ s.at = "dispatch"
    BY <1>0, <1>6 DEF LoopDispatch
  <2>2. \/ \E p \in PolicyIds : x = <<"idle", p>>
        \/ \E d \in AllClients : x = <<"client", d>>
    BY DEF LoopRec
  <2>3. CASE \E p \in PolicyIds : x = <<"idle", p>>
    BY <1>0, <2>1, <2>3, FreeStep DEF LoopInv
  <2>4. CASE \E d \in AllClients : x = <<"client", d>>
    <3>1. PICK d \in AllClients : x = <<"client", d>>
      BY <2>4
    <3>2. d \in DOMAIN s.asks
      BY <1>0, <2>1, <3>1 DEF LoopGood, LoopAt
    <3> QED BY <1>0, <2>1, <3>1, <3>2, ServeStep DEF LoopInv
  <2> QED BY <2>2, <2>3, <2>4
<1>7. CASE SigHup \/ SigTerm \/ AdminWrites
  BY <1>0, <1>7, AroundSteps DEF SigHup, SigTerm, AdminWrites, LoopInv
<1>8. CASE ClientAsks
  BY <1>0, <1>8, ClientStep DEF ClientAsks, LoopInv
<1>9. CASE SessionStarts
  BY <1>0, <1>9, StartStep DEF SessionStarts, LoopInv
<1>10. CASE SessionStops
  BY <1>0, <1>10, StopStep DEF SessionStops, LoopInv
<1> QED BY <1>1, <1>2, <1>3, <1>4, <1>5, <1>6, <1>7, <1>8, <1>9, <1>10 DEF LoopNext, LoopMain

(* LoopInv is an invariant of the main loop. *)
THEOREM LoopInvariant == LoopSpec => []LoopInv
<1>1. LoopInit => LoopInv
  BY LoopStarts
<1>2. LoopInv /\ [LoopNext]_ml => LoopInv'
  BY LoopSteps
<1> QED BY <1>1, <1>2, PTL DEF LoopSpec

(* No policy that is in use is freed, each is freed once and with the main   *)
(* thread's reference alone, and between loads the init() in effect is that  *)
(* of the current policy (z_policy_unref, z_policy_free, z_load_policy).     *)
THEOREM PoliciesAreHeld == LoopSpec => []PolicyHeld
<1>1. LoopInv => PolicyHeld
  <2> SUFFICES ASSUME LoopInv PROVE PolicyHeld
    OBVIOUS
  <2>0. PICK s \in LoopRec : s = ml /\ LoopGood(s)
    BY DEF LoopInv
  <2>1. ASSUME NEW p \in PolicyIds
        PROVE  /\ s.pol[p].idle + (IF s.pol[p].freed THEN 1 ELSE 0) <= 1
               /\ (s.pol[p].freed \/ s.pol[p].idle > 0) => s.pol[p].refs = 1 /\ p # s.cur /\ p # s.new
               /\ \A x \in LoopSessions : s.session[x] = p => ~s.pol[p].freed /\ s.pol[p].idle = 0
    <3>1. PolicyAt(s, p) /\ p # 0
      BY <2>0 DEF LoopGood, PolicyIds
    <3>2. CASE s.pol[p].ver = 0
      <4>1. s.pol[p].idle = 0 /\ ~s.pol[p].freed /\ ~InUse(s, p) /\ SessionsIn(s, p) = {}
        BY <3>1, <3>2 DEF PolicyAt, NoPolicy
      <4> QED BY <4>1 DEF SessionsIn
    <3>3. CASE s.pol[p].ver # 0
      <4>1. PICK k \in Nat : k = Cardinality(SessionsIn(s, p))
        BY FiniteSessions
      <4>2. /\ s.pol[p].refs = 1 + (IF InUse(s, p) THEN 1 ELSE 0) + k
            /\ s.pol[p].idle \in {0, 1} /\ ~(s.pol[p].idle = 1 /\ s.pol[p].freed)
            /\ (s.pol[p].idle = 1 \/ s.pol[p].freed) <=> s.pol[p].refs = 1
        BY <3>1, <3>3, <4>1 DEF PolicyAt
      <4>3. \A x \in LoopSessions : s.session[x] = p => k # 0
        <5> SUFFICES ASSUME NEW x \in LoopSessions, s.session[x] = p PROVE k # 0
          OBVIOUS
        <5>1. x \in SessionsIn(s, p)
          BY DEF SessionsIn
        <5> QED BY <4>1, <5>1, FiniteSessions, FS_EmptySet
      <4>4. s.pol[p].idle = 1 \/ s.pol[p].freed => k = 0 /\ ~InUse(s, p) /\ s.pol[p].refs = 1
        BY <4>2
      <4> QED BY <4>2, <4>3, <4>4 DEF InUse
    <3> QED BY <3>2, <3>3
  <2>2. ASSUME s.at \in {"poll", "dispatch", "term"} PROVE {p \in PolicyIds : s.pol[p].on} = {s.cur}
    <3>1. s.cur \in PolicyIds /\ s.pol[s.cur].on /\ s.new = 0
      BY <2>0, <2>2, LoopFields DEF LoopGood, LoopAt, Looping, Loading, PolicyIds
    <3>2. ASSUME NEW p \in PolicyIds, s.pol[p].on PROVE p = s.cur
      <4>1. PolicyAt(s, p) /\ p # 0
        BY <2>0 DEF LoopGood, PolicyIds
      <4>2. s.pol[p].ver # 0
        BY <3>2, <4>1 DEF PolicyAt, NoPolicy
      <4> QED BY <3>1, <3>2, <4>1, <4>2 DEF PolicyAt, InUse
    <3> QED BY <3>1, <3>2
  <2> QED BY <2>0, <2>1, <2>2 DEF PolicyHeld
<1> QED BY <1>1, LoopInvariant, PTL

(* A client told that its reload succeeded is served by the file it had      *)
(* asked for or a later one (z_main_loop, z_szig_handle_command).            *)
THEOREM ReloadsAreAnswered == LoopSpec => []ReloadAnswered
<1>1. LoopInv => ReloadAnswered
  <2> SUFFICES ASSUME LoopInv, NEW c \in DOMAIN ml.asks, ml.asks[c].at = "done", ml.asks[c].answer
               PROVE  ml.asks[c].told >= ml.asks[c].ver
    BY DEF ReloadAnswered
  <2>1. PICK s \in LoopRec : s = ml /\ LoopGood(s)
    BY DEF LoopInv
  <2>2. AskAt(s, c) /\ s.asks[c].told \in Nat /\ s.asks[c].ver \in Nat
    BY <2>1, LoopFields DEF LoopGood
  <2> QED BY <2>1, <2>2 DEF AskAt
<1> QED BY <1>1, LoopInvariant, PTL

----------------------------------------------------------------------------
(* The shape of the state: the chainer, and a session's place in it. *)
ChainFields == {"at", "first", "cur", "restart", "enumd", "target", "SNAT", "DNAT", "result", "calls", "rounds", "failed", "wrong"}
IsSession(r) == r = [f \in ChainFields |-> r[f]]
ChainShape(c) ==
    /\ c = [f \in {"conf", "count", "down", "nat", "s"} |-> c[f]] /\ c.conf \in ChainConfs
    /\ c.s = [x \in DOMAIN c.conf.client |-> c.s[x]] /\ c.nat = [p \in DOMAIN c.conf.nats |-> c.nat[p]]
    /\ \A x \in DOMAIN c.s : IsSession(c.s[x])

(* NAT caches.  A NAT policy that keeps its answers is used for one type of  *)
(* translation, and one that gives the client's address is asked with it.    *)
Separate(k) ==
    /\ k.snat # "none" /\ k.snat = k.dnat => ~k.nats[k.snat].cacheable
    /\ k.dnat # "none" /\ k.nats[k.dnat].cacheable /\ k.nats[k.dnat].kind = "ForgeClientSourceNAT" => k.forge \/ k.snat # "none"
NatType(k, p) == IF p = k.snat THEN "SNAT" ELSE "DNAT"
AtIp(ip) == [net |-> ip[1], host |-> ip[2], port |-> 0]
KeyTranslations(k, p, key) == Translations(k.nats[p], AtIp(key[1]), [SNAT |-> AtIp(key[1]), DNAT |-> AtIp(key[2])], NatType(k, p))
Right(k, p, key, v) == \E w \in KeyTranslations(k, p, key) : Ip(v) = Ip(w)
CacheRight(k, p, f) == \A key \in DOMAIN f : Right(k, p, key, f[key])
NatGood(c) ==
    /\ ChainShape(c) /\ Separate(c.conf)
    /\ \A p \in DOMAIN c.nat : CacheRight(c.conf, p, c.nat[p].cache) /\ CacheRight(c.conf, p, c.nat[p].old)
    /\ \A x \in DOMAIN c.s : ~c.s[x].wrong

(* Rounds.  The targets a session has been given in its current round, in    *)
(* the order of the list from the first one, around its end.                 *)
Seen(n, r) ==
    IF Fresh(r) THEN {}
    ELSE IF r.first < r.cur THEN r.first .. r.cur - 1 ELSE (r.first .. n - 1) \union (0 .. r.cur - 1)
SeenHosts(c, r) == {Known(c, Target(c, i)) : i \in Seen(Len(c.conf.targets), r)}
AllHosts(c) == {Known(c, Target(c, i)) : i \in Targets(c)}
Stating == {"lookup", "expire", "disable", "differs"}
Trying == {"snat", "dnat", "connect"} \union Stating
(* In such a round a host is passed over only if it failed in it. *)
Knowing(c, r) == c.conf.kind = "multi" \/ r.enumd = 1

PlaceAt(n, r) ==
    /\ r.at \in {"idle", "next"} \union Trying /\ r.restart \in BOOLEAN
    /\ r.first \in -1 .. n - 1 /\ r.cur \in 0 .. n - 1 /\ r.enumd \in 0 .. 2 /\ r.calls \in Nat
RoundAt(c, r) ==
    /\ Knowing(c, r) /\ r.at = "next" => SeenHosts(c, r) \subseteq r.failed
    /\ Knowing(c, r) /\ r.at \in Trying => SeenHosts(c, r) \subseteq r.failed \union {Known(c, r.target)}
    /\ r.at \in {"disable", "differs"} => Known(c, r.target) \in r.failed
    /\ r.at \in Stating => StateBased(c)
    /\ r.enumd = 1 => c.down \subseteq r.failed
    /\ r.at # "idle" => r.enumd # 2
    /\ c.conf.kind = "multi" /\ r.at = "idle" /\ r.result \in {"new", "connected"} => Fresh(r)
    /\ c.conf.kind = "multi" \/ r.calls = 0 => r.enumd = 0
    /\ r.at # "idle" => r.calls # 0
    /\ r.at = "idle" /\ r.result = "none" => AllHosts(c) \subseteq r.failed

(* A session whose chainer has one target. *)
OnlyAt(c, r) ==
    /\ r.at \in Trying => r.target = Target(c, 0)
    /\ r.at = "idle" /\ r.result = "none" => Target(c, 0) \in r.failed

(* A session asks again only where it was served, and a chainer with a state *)
(* once: chainer_targets_enumerated is not reset.                            *)
OneRound(k) == k.kind = "connect" \/ (k.again \subseteq {"connected"} /\ (k.kind # "multi" => k.calls <= 1))
TriedGood(c) ==
    /\ ChainShape(c) /\ OneRound(c.conf)
    /\ IF c.conf.kind = "connect"
       THEN \A x \in DOMAIN c.s : OnlyAt(c, c.s[x])
       ELSE /\ c.count \in Targets(c)
            /\ \A x \in DOMAIN c.s : PlaceAt(Len(c.conf.targets), c.s[x]) /\ RoundAt(c, c.s[x])

(* Steps.  What a step of session x leaves alone. *)
Only(c, d, x) ==
    /\ ChainShape(d) /\ d.conf = c.conf /\ DOMAIN d.s = DOMAIN c.s /\ DOMAIN d.nat = DOMAIN c.nat
    /\ \A y \in DOMAIN c.s : y # x => d.s[y] = c.s[y]
Keeps(r, t, F) == \A f \in ChainFields \ F : t[f] = r[f]

(* Setting one session leaves the others and the shared parts alone. *)
LEMMA SessionSet ==
    ASSUME NEW c, ChainShape(c), NEW x \in DOMAIN c.s, NEW r, IsSession(r)
    PROVE  LET d == [c EXCEPT !.s[x] = r] IN Only(c, d, x) /\ d.s[x] = r /\ d.count = c.count /\ d.down = c.down /\ d.nat = c.nat
<1> DEFINE d == [c EXCEPT !.s[x] = r]
<1> DEFINE g == [c.s EXCEPT ![x] = r]
<1>1. d = [f \in {"conf", "count", "down", "nat", "s"} |-> IF f = "s" THEN g ELSE c[f]]
  BY DEF ChainShape
<1>2. d.conf = c.conf /\ d.count = c.count /\ d.down = c.down /\ d.nat = c.nat /\ d.s = g
  BY <1>1
<1>3. DOMAIN g = DOMAIN c.s /\ g[x] = r /\ (\A y \in DOMAIN c.s : y # x => g[y] = c.s[y]) /\ g = [y \in DOMAIN c.conf.client |-> g[y]]
  BY DEF ChainShape
<1>4. d = [f \in {"conf", "count", "down", "nat", "s"} |-> d[f]]
  BY <1>1
<1>5. \A y \in DOMAIN g : IsSession(g[y])
  BY <1>3 DEF ChainShape
<1> HIDE DEF d, g
<1>6. ChainShape(d)
  BY <1>2, <1>3, <1>4, <1>5 DEF ChainShape
<1> QED
  BY <1>2, <1>3, <1>6 DEF Only, d

(* ChainParent: what a call of chainParent sets. *)
LEMMA ParentStep ==
    ASSUME ChainShape(ch), ChainParent
    PROVE  \E x \in DOMAIN ch.s :
              /\ ch.s[x].at = "idle" /\ ch.s[x].calls < ch.conf.calls /\ ch.s[x].result \in ch.conf.again \union {"new"}
              /\ Only(ch, ch', x) /\ ch'.count = ch.count /\ ch'.down = ch.down /\ ch'.nat = ch.nat
              /\ Keeps(ch.s[x], ch'.s[x], {"at", "calls", "rounds", "failed"})
              /\ ch'.s[x].at = "next" /\ ch'.s[x].calls = ch.s[x].calls + 1
<1>1. PICK x \in DOMAIN ch.s :
        /\ ch.s[x].at = "idle" /\ ch.s[x].calls < ch.conf.calls /\ ch.s[x].result \in ch.conf.again \union {"new"}
        /\ ch' = [ch EXCEPT !.s[x] = [ch.s[x] EXCEPT !.at = "next", !.calls = @ + 1, !.rounds = 0, !.failed = {}]]
  BY DEF ChainParent
<1> DEFINE r == [ch.s[x] EXCEPT !.at = "next", !.calls = @ + 1, !.rounds = 0, !.failed = {}]
<1>2. IsSession(ch.s[x])
  BY DEF ChainShape
<1>3. IsSession(r) /\ Keeps(ch.s[x], r, {"at", "calls", "rounds", "failed"}) /\ r.at = "next" /\ r.calls = ch.s[x].calls + 1
  BY <1>2 DEF IsSession, ChainFields, Keeps
<1>4. ch' = [ch EXCEPT !.s[x] = r]
  BY <1>1
<1> HIDE DEF r
<1>5. Only(ch, ch', x) /\ ch'.s[x] = r /\ ch'.count = ch.count /\ ch'.down = ch.down /\ ch'.nat = ch.nat
  BY <1>3, <1>4, SessionSet
<1> QED
  BY <1>1, <1>3, <1>5

(* The same when the step also changes the count or the hosts that are down. *)
LEMMA SharedSet ==
    ASSUME NEW c, ChainShape(c), NEW v
    PROVE  /\ LET d == [c EXCEPT !.count = v]
              IN  ChainShape(d) /\ d.conf = c.conf /\ d.nat = c.nat /\ d.s = c.s /\ d.count = v /\ d.down = c.down
           /\ LET d == [c EXCEPT !.down = v]
              IN  ChainShape(d) /\ d.conf = c.conf /\ d.nat = c.nat /\ d.s = c.s /\ d.count = c.count /\ d.down = v
<1> DEFINE d == [c EXCEPT !.count = v]
           e == [c EXCEPT !.down = v]
<1>1. d = [f \in {"conf", "count", "down", "nat", "s"} |-> d[f]] /\ d.conf = c.conf /\ d.nat = c.nat /\ d.s = c.s /\ d.count = v /\ d.down = c.down
  BY DEF ChainShape
<1>2. e = [f \in {"conf", "count", "down", "nat", "s"} |-> e[f]] /\ e.conf = c.conf /\ e.nat = c.nat /\ e.s = c.s /\ e.count = c.count /\ e.down = v
  BY DEF ChainShape
<1> HIDE DEF d, e
<1>3. ChainShape(d) /\ ChainShape(e)
  BY <1>1, <1>2 DEF ChainShape
<1> QED
  BY <1>1, <1>2, <1>3 DEF d, e

(* The ways on from a target to the next one. *)
ToOnly(c, d, x) ==
    /\ c.conf.kind = "connect" /\ d.count = c.count /\ d.down = c.down /\ Keeps(c.s[x], d.s[x], {"at", "target"})
    /\ d.s[x].at = "snat" /\ d.s[x].target = Target(c, 0)
ToNext(c, d, x) ==
    LET r == c.s[x]
        t == d.s[x]
        n == Len(c.conf.targets)
        i == Candidate(c, r)
    IN /\ c.conf.kind # "connect" /\ ~Exhausted(c, r) /\ d.count = (c.count + 1) % n /\ d.down = c.down
       /\ Keeps(r, t, {"at", "first", "cur", "restart", "target"})
       /\ t.at = "snat" \/ (t.at = "lookup" /\ StateBased(c))
       /\ t.first = (IF Fresh(r) THEN i ELSE r.first) /\ t.cur = (i + 1) % n /\ t.restart = FALSE /\ t.target = Target(c, i)
ToNone(c, d, x) ==
    /\ c.conf.kind # "connect" /\ Exhausted(c, c.s[x]) /\ d.count = c.count /\ d.down = c.down
    /\ Keeps(c.s[x], d.s[x], {"at", "result", "enumd", "rounds"}) /\ d.s[x].at = "idle" /\ d.s[x].result = "none"
    /\ IF c.conf.kind = "multi" THEN d.s[x].enumd = c.s[x].enumd ELSE c.s[x].enumd + 1 = 2 /\ d.s[x].enumd = 2
ToRestart(c, d, x) ==
    /\ c.conf.kind \notin {"connect", "multi"} /\ Exhausted(c, c.s[x]) /\ d.count = c.count /\ d.down = {} /\ c.s[x].enumd + 1 # 2
    /\ Keeps(c.s[x], d.s[x], {"enumd", "rounds", "restart", "failed"})
    /\ d.s[x].enumd = c.s[x].enumd + 1 /\ d.s[x].restart = TRUE /\ d.s[x].failed = {}

(* ChainNextTarget takes one of the four ways. *)
LEMMA NextStep ==
    ASSUME ChainShape(ch), ChainNextTarget
    PROVE  \E x \in DOMAIN ch.s :
              /\ ch.s[x].at = "next" /\ Only(ch, ch', x) /\ ch'.nat = ch.nat /\ ch'.s[x].wrong = ch.s[x].wrong
              /\ ToOnly(ch, ch', x) \/ ToNext(ch, ch', x) \/ ToNone(ch, ch', x) \/ ToRestart(ch, ch', x)
<1>1. PICK x \in DOMAIN ch.s : ch.s[x].at = "next" /\ ch' = NextTarget(ch, x)
  BY DEF ChainNextTarget
<1> DEFINE r == ch.s[x]
           n == Len(ch.conf.targets)
           i == Candidate(ch, r)
           counted == [r EXCEPT !.enumd = @ + 1, !.rounds = @ + 1]
<1>2. IsSession(r)
  BY DEF ChainShape
<1>3. IsSession(counted) /\ Keeps(r, counted, {"enumd", "rounds"}) /\ counted.enumd = r.enumd + 1
  BY <1>2 DEF IsSession, ChainFields, Keeps
<1>4. SUFFICES /\ Only(ch, ch', x) /\ ch'.nat = ch.nat /\ ch'.s[x].wrong = ch.s[x].wrong
               /\ ToOnly(ch, ch', x) \/ ToNext(ch, ch', x) \/ ToNone(ch, ch', x) \/ ToRestart(ch, ch', x)
  BY <1>1
<1>5. ch.conf.kind \in {"connect", "multi", "failover", "roundrobin"}
  BY ChainConstants DEF ChainShape
<1>6. CASE ch.conf.kind = "connect"
  <2> DEFINE t == [r EXCEPT !.at = "snat", !.target = Target(ch, 0)]
  <2>1. ch' = [ch EXCEPT !.s[x] = t]
    BY <1>1, <1>6 DEF NextTarget
  <2>2. IsSession(t) /\ Keeps(r, t, {"at", "target"}) /\ t.at = "snat" /\ t.target = Target(ch, 0)
    BY <1>2 DEF IsSession, ChainFields, Keeps
  <2> HIDE DEF t
  <2>3. Only(ch, ch', x) /\ ch'.s[x] = t /\ ch'.count = ch.count /\ ch'.down = ch.down /\ ch'.nat = ch.nat
    BY <2>1, <2>2, SessionSet
  <2> QED
    BY <1>6, <2>2, <2>3 DEF ToOnly, Keeps, ChainFields
<1>7. CASE ch.conf.kind # "connect" /\ ~Exhausted(ch, r)
  <2> DEFINE at == IF StateBased(ch) /\ Ip(Target(ch, Candidate(ch, r))) \in ch.down THEN "lookup" ELSE "snat"
             t == [r EXCEPT !.at = at, !.first = IF Fresh(r) THEN i ELSE @, !.cur = (i + 1) % n, !.restart = FALSE, !.target = Target(ch, i)]
  <2>1. ch' = [ch EXCEPT !.count = (ch.count + 1) % n, !.s[x] = t]
    BY <1>1, <1>7 DEF NextTarget, GetNextTarget, ChainShape
  <2>2. /\ IsSession(t) /\ Keeps(r, t, {"at", "first", "cur", "restart", "target"})
        /\ t.at = at /\ t.first = (IF Fresh(r) THEN i ELSE r.first) /\ t.cur = (i + 1) % n /\ t.restart = FALSE /\ t.target = Target(ch, i)
    BY <1>2 DEF IsSession, ChainFields, Keeps
  <2> HIDE DEF t
  <2> DEFINE e == [ch EXCEPT !.s[x] = t]
  <2>a. ch' = [e EXCEPT !.count = (ch.count + 1) % n]
    BY <2>1 DEF ChainShape
  <2>b. Only(ch, e, x) /\ e.s[x] = t /\ e.count = ch.count /\ e.down = ch.down /\ e.nat = ch.nat
    BY <2>2, SessionSet
  <2> HIDE DEF e
  <2>c. ChainShape(e)
    BY <2>b DEF Only
  <2>d. ChainShape(ch') /\ ch'.conf = e.conf /\ ch'.nat = e.nat /\ ch'.s = e.s
    BY <2>a, <2>c, SharedSet
  <2>3. Only(ch, ch', x) /\ ch'.s[x] = t /\ ch'.nat = ch.nat /\ ch'.count = (ch.count + 1) % n /\ ch'.down = ch.down
    BY <2>a, <2>b, <2>c, <2>d, SharedSet DEF Only
  <2> HIDE DEF n, i
  <2>4. Keeps(r, ch'.s[x], {"at", "first", "cur", "restart", "target"}) /\ ch'.s[x].wrong = ch.s[x].wrong
    BY <2>2, <2>3 DEF Keeps, ChainFields
  <2>5. ToNext(ch, ch', x)
    BY <1>7, <2>2, <2>3, <2>4 DEF ToNext, n, i
  <2> QED
    BY <2>3, <2>4, <2>5
<1>8. CASE ch.conf.kind = "multi" /\ Exhausted(ch, r)
  <2> DEFINE t == [r EXCEPT !.at = "idle", !.result = "none"]
  <2>1. ch' = [ch EXCEPT !.s[x] = t]
    BY <1>1, <1>8 DEF NextTarget, ChainEnds
  <2>2. IsSession(t) /\ Keeps(r, t, {"at", "result"}) /\ t.at = "idle" /\ t.result = "none"
    BY <1>2 DEF IsSession, ChainFields, Keeps
  <2> HIDE DEF t
  <2>3. Only(ch, ch', x) /\ ch'.s[x] = t /\ ch'.count = ch.count /\ ch'.down = ch.down /\ ch'.nat = ch.nat
    BY <2>1, <2>2, SessionSet
  <2> QED
    BY <1>8, <2>2, <2>3 DEF ToNone, Keeps, ChainFields
<1>9. CASE ch.conf.kind \notin {"connect", "multi"} /\ Exhausted(ch, r) /\ r.enumd + 1 = 2
  <2> DEFINE d == [ch EXCEPT !.s[x] = counted]
             t == [d.s[x] EXCEPT !.at = "idle", !.result = "none"]
  <2>1. ch' = [d EXCEPT !.s[x] = t]
    BY <1>1, <1>9 DEF NextTarget, ChainEnds
  <2> HIDE DEF counted
  <2>2. Only(ch, d, x) /\ d.s[x] = counted /\ d.count = ch.count /\ d.down = ch.down /\ d.nat = ch.nat
    BY <1>3, SessionSet
  <2> HIDE DEF d
  <2>3. IsSession(t) /\ Keeps(counted, t, {"at", "result"}) /\ t.at = "idle" /\ t.result = "none"
    BY <1>3, <2>2 DEF IsSession, ChainFields, Keeps
  <2> HIDE DEF t
  <2>4. Only(d, ch', x) /\ ch'.s[x] = t /\ ch'.count = d.count /\ ch'.down = d.down /\ ch'.nat = d.nat
    BY <2>1, <2>2, <2>3, SessionSet DEF Only
  <2>5. Only(ch, ch', x)
    BY <2>2, <2>4 DEF Only
  <2>6. Keeps(r, t, {"at", "result", "enumd", "rounds"}) /\ t.enumd = r.enumd + 1 /\ t.wrong = r.wrong
    BY <1>3, <2>3 DEF Keeps, ChainFields
  <2> QED
    BY <1>9, <2>2, <2>3, <2>4, <2>5, <2>6 DEF ToNone
<1>10. CASE ch.conf.kind \notin {"connect", "multi"} /\ Exhausted(ch, r) /\ r.enumd + 1 # 2
  <2> DEFINE t == [counted EXCEPT !.restart = TRUE, !.failed = {}]
  <2>1. ch' = [ch EXCEPT !.down = {}, !.s[x] = t]
    BY <1>1, <1>10 DEF NextTarget
  <2> HIDE DEF counted
  <2>2. IsSession(t) /\ Keeps(counted, t, {"restart", "failed"}) /\ t.restart = TRUE /\ t.failed = {}
    BY <1>3 DEF IsSession, ChainFields, Keeps
  <2> HIDE DEF t
  <2> DEFINE e == [ch EXCEPT !.s[x] = t]
  <2>a. ch' = [e EXCEPT !.down = {}]
    BY <2>1 DEF ChainShape
  <2>b. Only(ch, e, x) /\ e.s[x] = t /\ e.count = ch.count /\ e.down = ch.down /\ e.nat = ch.nat
    BY <2>2, SessionSet
  <2> HIDE DEF e
  <2>c. ChainShape(e)
    BY <2>b DEF Only
  <2>d. ChainShape(ch') /\ ch'.conf = e.conf /\ ch'.nat = e.nat /\ ch'.s = e.s
    BY <2>a, <2>c, SharedSet
  <2>3. Only(ch, ch', x) /\ ch'.s[x] = t /\ ch'.nat = ch.nat /\ ch'.count = ch.count /\ ch'.down = {}
    BY <2>a, <2>b, <2>c, <2>d, SharedSet DEF Only
  <2>4. Keeps(r, t, {"enumd", "rounds", "restart", "failed"}) /\ t.enumd = r.enumd + 1 /\ t.wrong = r.wrong
    BY <1>3, <2>2 DEF Keeps, ChainFields
  <2> QED
    BY <1>10, <2>2, <2>3, <2>4 DEF ToRestart
<1> QED
  BY <1>5, <1>6, <1>7, <1>8, <1>9, <1>10

(* The ways a connection attempt ends: the server is not permitted or there, *)
(* or it is not, which every session's round takes note of.                  *)
Ended(c, d, x) ==
    /\ Only(c, d, x) /\ d.down = c.down /\ Keeps(c.s[x], d.s[x], {"at", "result", "restart"})
    /\ d.s[x].at = "idle" /\ d.s[x].result \in {"denied", "connected"}
    /\ d.s[x].restart = IF d.s[x].result = "connected" THEN c.conf.kind # "connect" ELSE c.s[x].restart
Missed(c, d, x) ==
    /\ ChainShape(d) /\ d.conf = c.conf /\ DOMAIN d.s = DOMAIN c.s
    /\ \A y \in DOMAIN c.s : d.s[y].failed = c.s[y].failed \union {Known(c, c.s[x].target)}
    /\ \A y \in DOMAIN c.s : y # x => Keeps(c.s[y], d.s[y], {"failed"})
    /\ Keeps(c.s[x], d.s[x], {"at", "failed", "result"}) /\ d.down \subseteq c.down \union {Ip(c.s[x].target)}
    /\ \/ c.conf.kind = "connect" /\ d.s[x].at = "idle" /\ d.s[x].result = "none"
       \/ d.s[x].at = "next" /\ d.s[x].result = c.s[x].result
       \/ d.s[x].at = "disable" /\ d.s[x].result = c.s[x].result /\ StateBased(c)

(* Where a session is and its result, set. *)
PutAt(b, x, at, v) == [b EXCEPT !.s[x] = [b.s[x] EXCEPT !.at = at, !.result = v]]
NotedIn(c, b, x) ==
    /\ ChainShape(b) /\ b.conf = c.conf /\ b.count = c.count /\ b.nat = c.nat /\ DOMAIN b.s = DOMAIN c.s
    /\ b.down \subseteq c.down \union {Ip(c.s[x].target)}
    /\ \A y \in DOMAIN c.s : Keeps(c.s[y], b.s[y], {"failed"}) /\ b.s[y].failed = c.s[y].failed \union {Known(c, c.s[x].target)}
MissedAs(c, x, at, v) ==
    \/ c.conf.kind = "connect" /\ at = "idle" /\ v = "none"
    \/ at = "next" /\ v = c.s[x].result
    \/ at = "disable" /\ v = c.s[x].result /\ StateBased(c)

(* What is noted in every session. *)
LEMMA NotedShape ==
    ASSUME NEW c, ChainShape(c), NEW x \in DOMAIN c.s
    PROVE  LET a == Noted(c, x)
           IN  /\ ChainShape(a) /\ a.conf = c.conf /\ a.count = c.count /\ a.down = c.down /\ a.nat = c.nat /\ DOMAIN a.s = DOMAIN c.s
               /\ \A y \in DOMAIN c.s : Keeps(c.s[y], a.s[y], {"failed"}) /\ a.s[y].failed = c.s[y].failed \union {Known(c, c.s[x].target)}
<1> DEFINE k == Known(c, c.s[x].target)
           g == [y \in DOMAIN c.s |-> [c.s[y] EXCEPT !.failed = c.s[y].failed \union {k}]]
           a == Noted(c, x)
<1>1. a = [c EXCEPT !.s = g]
  BY DEF Noted
<1> HIDE DEF k
<1>2. ASSUME NEW y \in DOMAIN c.s
      PROVE  IsSession(g[y]) /\ Keeps(c.s[y], g[y], {"failed"}) /\ g[y].failed = c.s[y].failed \union {k}
  <2>1. IsSession(c.s[y])
    BY DEF ChainShape
  <2>2. g[y] = [c.s[y] EXCEPT !.failed = c.s[y].failed \union {k}]
    OBVIOUS
  <2> HIDE DEF g
  <2> QED
    BY <2>1, <2>2 DEF IsSession, ChainFields, Keeps
<1>3. DOMAIN g = DOMAIN c.s /\ g = [y \in DOMAIN c.conf.client |-> g[y]]
  BY DEF ChainShape
<1> HIDE DEF g, a
<1>4. /\ a = [f \in {"conf", "count", "down", "nat", "s"} |-> a[f]] /\ a.s = g
      /\ a.conf = c.conf /\ a.count = c.count /\ a.down = c.down /\ a.nat = c.nat
  BY <1>1 DEF ChainShape
<1>5. ChainShape(a)
  BY <1>2, <1>3, <1>4 DEF ChainShape
<1> QED
  BY <1>2, <1>3, <1>4, <1>5 DEF a, k

(* Going on from d, which is c but for what is noted and held for down. *)
LEMMA MissedTo ==
    ASSUME NEW c, ChainShape(c), NEW x \in DOMAIN c.s, NEW b, NotedIn(c, b, x), NEW at, NEW v, MissedAs(c, x, at, v)
    PROVE  PutAt(b, x, at, v).count = c.count /\ PutAt(b, x, at, v).nat = c.nat /\ Missed(c, PutAt(b, x, at, v), x)
<1> DEFINE t == [b.s[x] EXCEPT !.at = at, !.result = v]
           d == PutAt(b, x, at, v)
<1>a. ChainShape(b) /\ DOMAIN b.s = DOMAIN c.s
  BY DEF NotedIn
<1>1. IsSession(b.s[x]) /\ x \in DOMAIN b.s
  BY <1>a DEF ChainShape
<1>2. IsSession(t) /\ Keeps(b.s[x], t, {"at", "result"}) /\ t.at = at /\ t.result = v
  BY <1>1 DEF IsSession, ChainFields, Keeps
<1>3. d = [b EXCEPT !.s[x] = t]
  BY DEF PutAt
<1> HIDE DEF t, d
<1>4. Only(b, d, x) /\ d.s[x] = t /\ d.count = b.count /\ d.down = b.down /\ d.nat = b.nat
  BY <1>a, <1>1, <1>2, <1>3, SessionSet
<1>5. ChainShape(d) /\ d.conf = c.conf /\ DOMAIN d.s = DOMAIN c.s /\ \A y \in DOMAIN c.s : y # x => d.s[y] = b.s[y]
  BY <1>a, <1>4 DEF Only, NotedIn
<1>b. Keeps(c.s[x], b.s[x], {"failed"})
  BY DEF NotedIn
<1>6. Keeps(c.s[x], t, {"at", "failed", "result"}) /\ t.failed = b.s[x].failed
  BY <1>2, <1>b DEF Keeps, ChainFields
<1>7. \A y \in DOMAIN c.s : d.s[y].failed = c.s[y].failed \union {Known(c, c.s[x].target)}
  BY <1>4, <1>5, <1>6 DEF NotedIn
<1>8. \A y \in DOMAIN c.s : y # x => Keeps(c.s[y], d.s[y], {"failed"})
  BY <1>5 DEF NotedIn
<1>9. \/ c.conf.kind = "connect" /\ d.s[x].at = "idle" /\ d.s[x].result = "none"
      \/ d.s[x].at = "next" /\ d.s[x].result = c.s[x].result
      \/ d.s[x].at = "disable" /\ d.s[x].result = c.s[x].result /\ StateBased(c)
  BY <1>2, <1>4 DEF MissedAs
<1>10. d.count = c.count /\ d.nat = c.nat /\ d.down \subseteq c.down \union {Ip(c.s[x].target)}
  BY <1>4 DEF NotedIn
<1>11. Missed(c, d, x)
  BY <1>4, <1>5, <1>6, <1>7, <1>8, <1>9, <1>10 DEF Missed
<1> QED
  BY <1>10, <1>11 DEF d

(* ChainConnect ends in one of the two ways. *)
LEMMA ConnectStep ==
    ASSUME ChainShape(ch), ChainConnect
    PROVE  \E x \in DOMAIN ch.s :
              /\ ch.s[x].at = "connect" /\ ch'.count = ch.count /\ ch'.nat = ch.nat
              /\ Ended(ch, ch', x) \/ Missed(ch, ch', x)
<1>1. PICK x \in DOMAIN ch.s : ch.s[x].at = "connect" /\ ch' \in EstablishConnection(ch, x)
  BY DEF ChainConnect
<1> DEFINE r == ch.s[x]
           a == Noted(ch, x)
<1>2. SUFFICES ch'.count = ch.count /\ ch'.nat = ch.nat /\ (Ended(ch, ch', x) \/ Missed(ch, ch', x))
  BY <1>1
<1>3. IsSession(r)
  BY DEF ChainShape
<1>4. \/ \E v \in {"denied", "connected"} :
            ch' = [ch EXCEPT !.s[x] = [r EXCEPT !.at = "idle", !.result = v, !.restart = IF v = "connected" THEN ch.conf.kind # "connect" ELSE r.restart]]
      \/ ch.conf.kind = "connect" /\ ch' = ChainEnds(a, x, "none")
      \/ ch' = ChainTo(a, x, "next")
      \/ StateBased(ch) /\ ch' = ChainTo(a, x, "disable")
  <2>1. CASE ~Permitted(ch, r.DNAT)
    <3>1. ch' = [ch EXCEPT !.s[x] = [r EXCEPT !.at = "idle", !.result = "denied"]]
      BY <1>1, <2>1 DEF EstablishConnection, ChainEnds
    <3>2. [r EXCEPT !.at = "idle", !.result = "denied"] = [r EXCEPT !.at = "idle", !.result = "denied", !.restart = r.restart]
      BY <1>3 DEF IsSession, ChainFields
    <3> QED
      BY <3>1, <3>2
  <2>2. CASE Permitted(ch, r.DNAT)
    <3>1. \/ ch' = [ch EXCEPT !.s[x] = [r EXCEPT !.at = "idle", !.result = "connected", !.restart = ch.conf.kind # "connect"]]
          \/ ch.conf.kind = "connect" /\ ch' = ChainEnds(a, x, "none")
          \/ ch.conf.kind # "connect" /\ ch' = ChainTo(a, x, IF StateBased(ch) THEN "disable" ELSE "next")
      BY <1>1, <2>2 DEF EstablishConnection
    <3> QED
      BY <3>1
  <2> QED
    BY <2>1, <2>2
<1>5. /\ ChainShape(a) /\ a.conf = ch.conf /\ a.count = ch.count /\ a.down = ch.down /\ a.nat = ch.nat /\ DOMAIN a.s = DOMAIN ch.s
      /\ \A y \in DOMAIN ch.s : Keeps(ch.s[y], a.s[y], {"failed"}) /\ a.s[y].failed = ch.s[y].failed \union {Known(ch, r.target)}
  BY NotedShape
<1> HIDE DEF a
<1>a. NotedIn(ch, a, x)
  BY <1>5 DEF NotedIn
<1>6. IsSession(a.s[x]) /\ a.s[x].result = r.result
  BY <1>5 DEF ChainShape, Keeps, ChainFields
<1>7. \A at : [a.s[x] EXCEPT !.at = at] = [a.s[x] EXCEPT !.at = at, !.result = r.result]
  BY <1>6 DEF IsSession, ChainFields
<1>8. CASE \E v \in {"denied", "connected"} :
            ch' = [ch EXCEPT !.s[x] = [r EXCEPT !.at = "idle", !.result = v, !.restart = IF v = "connected" THEN ch.conf.kind # "connect" ELSE r.restart]]
  <2>1. PICK v \in {"denied", "connected"} :
            ch' = [ch EXCEPT !.s[x] = [r EXCEPT !.at = "idle", !.result = v, !.restart = IF v = "connected" THEN ch.conf.kind # "connect" ELSE r.restart]]
    BY <1>8
  <2> DEFINE q == IF v = "connected" THEN ch.conf.kind # "connect" ELSE r.restart
             t == [r EXCEPT !.at = "idle", !.result = v, !.restart = q]
  <2> HIDE DEF q
  <2>2. IsSession(t) /\ Keeps(r, t, {"at", "result", "restart"}) /\ t.at = "idle" /\ t.result = v /\ t.restart = q
    BY <1>3 DEF IsSession, ChainFields, Keeps
  <2>3. ch' = [ch EXCEPT !.s[x] = t]
    BY <2>1 DEF q
  <2> HIDE DEF t
  <2>4. Only(ch, ch', x) /\ ch'.s[x] = t /\ ch'.count = ch.count /\ ch'.down = ch.down /\ ch'.nat = ch.nat
    BY <2>2, <2>3, SessionSet
  <2> QED
    BY <2>2, <2>4 DEF Ended, q
<1>9. CASE ch.conf.kind = "connect" /\ ch' = ChainEnds(a, x, "none")
  <2>1. ch' = PutAt(a, x, "idle", "none") /\ MissedAs(ch, x, "idle", "none")
    BY <1>9 DEF ChainEnds, PutAt, MissedAs
  <2> QED
    BY <1>a, <2>1, MissedTo
<1>10. CASE ch' = ChainTo(a, x, "next")
  <2>1. ch' = PutAt(a, x, "next", r.result) /\ MissedAs(ch, x, "next", r.result)
    BY <1>7, <1>10 DEF ChainTo, PutAt, MissedAs
  <2> QED
    BY <1>a, <2>1, MissedTo
<1>11. CASE StateBased(ch) /\ ch' = ChainTo(a, x, "disable")
  <2>1. ch' = PutAt(a, x, "disable", r.result) /\ MissedAs(ch, x, "disable", r.result)
    BY <1>7, <1>11 DEF ChainTo, PutAt, MissedAs
  <2> QED
    BY <1>a, <2>1, MissedTo
<1> QED
  BY <1>4, <1>8, <1>9, <1>10, <1>11

(* A translation: asked of no policy, or answered by policy p. *)
Asked(c, d, x, p, type) ==
    /\ Only(c, d, x) /\ d.count = c.count /\ d.down = c.down
    /\ Keeps(c.s[x], d.s[x], {"at", "SNAT", "DNAT", "wrong"}) /\ d.s[x].at \in Trying \ Stating
    /\ IF p = "none" THEN d.nat = c.nat /\ d.s[x].wrong = c.s[x].wrong
       ELSE \E r \in Answers(c, x, p, type) :
               d.nat = [c.nat EXCEPT ![p] = r.t] /\ d.s[x].wrong = Wrong(c, x, p, type, r.addr)

(* ChainLocal: the translation of the local address. *)
LEMMA LocalStep ==
    ASSUME ChainShape(ch), ChainLocal
    PROVE  \E x \in DOMAIN ch.s : ch.s[x].at = "snat" /\ Asked(ch, ch', x, ch.conf.snat, "SNAT")
<1>1. PICK x \in DOMAIN ch.s : ch.s[x].at = "snat" /\ ch' \in TranslateLocal(ch, x)
  BY DEF ChainLocal
<1> DEFINE s == ch.s[x]
           p == ch.conf.snat
<1>2. SUFFICES Asked(ch, ch', x, p, "SNAT")
  BY <1>1
<1>3. IsSession(s)
  BY DEF ChainShape
<1>4. CASE p = "none"
  <2>1. PICK a : ch' = [ch EXCEPT !.s[x] = [s EXCEPT !.at = "dnat", !.SNAT = a]]
    BY <1>1, <1>4 DEF TranslateLocal
  <2> DEFINE t == [s EXCEPT !.at = "dnat", !.SNAT = a]
  <2>2. IsSession(t) /\ Keeps(s, t, {"at", "SNAT"}) /\ t.at = "dnat"
    BY <1>3 DEF IsSession, ChainFields, Keeps
  <2>3. ch' = [ch EXCEPT !.s[x] = t]
    BY <2>1
  <2> HIDE DEF t
  <2>4. Only(ch, ch', x) /\ ch'.s[x] = t /\ ch'.count = ch.count /\ ch'.down = ch.down /\ ch'.nat = ch.nat
    BY <2>2, <2>3, SessionSet
  <2>5. Keeps(s, t, {"at", "SNAT", "DNAT", "wrong"}) /\ t.wrong = s.wrong /\ t.at \in Trying \ Stating
    BY <2>2 DEF Keeps, ChainFields, Trying, Stating
  <2> QED
    BY <1>4, <2>4, <2>5 DEF Asked
<1>5. CASE p # "none"
  <2>1. PICK r \in Answers(ch, x, p, "SNAT") : \E a :
           ch' = [ch EXCEPT !.nat[p] = r.t, !.s[x] = [s EXCEPT !.at = "dnat", !.SNAT = a, !.wrong = Wrong(ch, x, p, "SNAT", r.addr)]]
    BY <1>1, <1>5 DEF TranslateLocal
  <2>2. PICK a : ch' = [ch EXCEPT !.nat[p] = r.t, !.s[x] = [s EXCEPT !.at = "dnat", !.SNAT = a, !.wrong = Wrong(ch, x, p, "SNAT", r.addr)]]
    BY <2>1
  <2> DEFINE w == Wrong(ch, x, p, "SNAT", r.addr)
             t == [s EXCEPT !.at = "dnat", !.SNAT = a, !.wrong = w]
             e == [ch EXCEPT !.s[x] = t]
  <2>3. ch' = [ch EXCEPT !.nat[p] = r.t, !.s[x] = t]
    BY <2>2
  <2> HIDE DEF w
  <2>4. IsSession(t) /\ Keeps(s, t, {"at", "SNAT", "wrong"}) /\ t.at = "dnat" /\ t.wrong = w
    BY <1>3 DEF IsSession, ChainFields, Keeps
  <2> HIDE DEF t
  <2>5. Only(ch, e, x) /\ e.s[x] = t /\ e.count = ch.count /\ e.down = ch.down /\ e.nat = ch.nat
    BY <2>4, SessionSet
  <2> DEFINE g == [ch.nat EXCEPT ![p] = r.t]
  <2>6. ch' = [e EXCEPT !.nat = g]
    BY <2>3 DEF ChainShape
  <2>7. DOMAIN g = DOMAIN ch.nat /\ g = [q \in DOMAIN ch.conf.nats |-> g[q]]
    BY DEF ChainShape
  <2> HIDE DEF e, g
  <2>8. /\ ch' = [f \in {"conf", "count", "down", "nat", "s"} |-> ch'[f]] /\ ch'.s = e.s
        /\ ch'.conf = e.conf /\ ch'.count = e.count /\ ch'.down = e.down /\ ch'.nat = g
    BY <2>5, <2>6 DEF ChainShape, Only
  <2>9. ChainShape(ch')
    BY <2>5, <2>7, <2>8 DEF ChainShape, Only
  <2>10. Only(ch, ch', x)
    BY <2>5, <2>7, <2>8, <2>9 DEF Only
  <2>11. Keeps(s, t, {"at", "SNAT", "DNAT", "wrong"}) /\ t.at \in Trying \ Stating
    BY <2>4 DEF Keeps, ChainFields, Trying, Stating
  <2> QED
    BY <1>5, <2>4, <2>5, <2>8, <2>10, <2>11 DEF Asked, g, w
<1> QED
  BY <1>4, <1>5

(* ChainRemote: the translation of the server's address. *)
LEMMA RemoteStep ==
    ASSUME ChainShape(ch), ChainRemote
    PROVE  \E x \in DOMAIN ch.s : ch.s[x].at = "dnat" /\ Asked(ch, ch', x, ch.conf.dnat, "DNAT")
<1>1. PICK x \in DOMAIN ch.s : ch.s[x].at = "dnat" /\ ch' \in TranslateRemote(ch, x)
  BY DEF ChainRemote
<1> DEFINE s == ch.s[x]
           p == ch.conf.dnat
<1>2. SUFFICES Asked(ch, ch', x, p, "DNAT")
  BY <1>1
<1>3. IsSession(s)
  BY DEF ChainShape
<1>4. CASE p = "none"
  <2>1. PICK a : ch' = [ch EXCEPT !.s[x] = [s EXCEPT !.at = "connect", !.DNAT = a]]
    BY <1>1, <1>4 DEF TranslateRemote
  <2> DEFINE t == [s EXCEPT !.at = "connect", !.DNAT = a]
  <2>2. IsSession(t) /\ Keeps(s, t, {"at", "DNAT"}) /\ t.at = "connect"
    BY <1>3 DEF IsSession, ChainFields, Keeps
  <2>3. ch' = [ch EXCEPT !.s[x] = t]
    BY <2>1
  <2> HIDE DEF t
  <2>4. Only(ch, ch', x) /\ ch'.s[x] = t /\ ch'.count = ch.count /\ ch'.down = ch.down /\ ch'.nat = ch.nat
    BY <2>2, <2>3, SessionSet
  <2>5. Keeps(s, t, {"at", "SNAT", "DNAT", "wrong"}) /\ t.wrong = s.wrong /\ t.at \in Trying \ Stating
    BY <2>2 DEF Keeps, ChainFields, Trying, Stating
  <2> QED
    BY <1>4, <2>4, <2>5 DEF Asked
<1>5. CASE p # "none"
  <2>1. PICK r \in Answers(ch, x, p, "DNAT") : \E a :
           ch' = [ch EXCEPT !.nat[p] = r.t, !.s[x] = [s EXCEPT !.at = "connect", !.DNAT = a, !.wrong = Wrong(ch, x, p, "DNAT", r.addr)]]
    BY <1>1, <1>5 DEF TranslateRemote
  <2>2. PICK a : ch' = [ch EXCEPT !.nat[p] = r.t, !.s[x] = [s EXCEPT !.at = "connect", !.DNAT = a, !.wrong = Wrong(ch, x, p, "DNAT", r.addr)]]
    BY <2>1
  <2> DEFINE w == Wrong(ch, x, p, "DNAT", r.addr)
             t == [s EXCEPT !.at = "connect", !.DNAT = a, !.wrong = w]
             e == [ch EXCEPT !.s[x] = t]
  <2>3. ch' = [ch EXCEPT !.nat[p] = r.t, !.s[x] = t]
    BY <2>2
  <2> HIDE DEF w
  <2>4. IsSession(t) /\ Keeps(s, t, {"at", "DNAT", "wrong"}) /\ t.at = "connect" /\ t.wrong = w
    BY <1>3 DEF IsSession, ChainFields, Keeps
  <2> HIDE DEF t
  <2>5. Only(ch, e, x) /\ e.s[x] = t /\ e.count = ch.count /\ e.down = ch.down /\ e.nat = ch.nat
    BY <2>4, SessionSet
  <2> DEFINE g == [ch.nat EXCEPT ![p] = r.t]
  <2>6. ch' = [e EXCEPT !.nat = g]
    BY <2>3 DEF ChainShape
  <2>7. DOMAIN g = DOMAIN ch.nat /\ g = [q \in DOMAIN ch.conf.nats |-> g[q]]
    BY DEF ChainShape
  <2> HIDE DEF e, g
  <2>8. /\ ch' = [f \in {"conf", "count", "down", "nat", "s"} |-> ch'[f]] /\ ch'.s = e.s
        /\ ch'.conf = e.conf /\ ch'.count = e.count /\ ch'.down = e.down /\ ch'.nat = g
    BY <2>5, <2>6 DEF ChainShape, Only
  <2>9. ChainShape(ch')
    BY <2>5, <2>7, <2>8 DEF ChainShape, Only
  <2>10. Only(ch, ch', x)
    BY <2>5, <2>7, <2>8, <2>9 DEF Only
  <2>11. Keeps(s, t, {"at", "SNAT", "DNAT", "wrong"}) /\ t.at \in Trying \ Stating
    BY <2>4 DEF Keeps, ChainFields, Trying, Stating
  <2> QED
    BY <1>5, <2>4, <2>5, <2>8, <2>10, <2>11 DEF Asked, g, w
<1> QED
  BY <1>4, <1>5

(* A step that changes the hosts that are down. *)
LEMMA DownSet ==
    ASSUME NEW c, ChainShape(c), NEW h, NEW b, b = [c EXCEPT !.down = h]
    PROVE  ChainShape(b) /\ b.conf = c.conf /\ b.nat = c.nat /\ b.s = c.s /\ b.count = c.count /\ b.down = h
<1>1. /\ b = [f \in {"conf", "count", "down", "nat", "s"} |-> b[f]]
      /\ b.conf = c.conf /\ b.nat = c.nat /\ b.s = c.s /\ b.count = c.count /\ b.down = h
  BY DEF ChainShape
<1> QED
  BY <1>1 DEF ChainShape

(* The ways on from what the state of hosts says. *)
Looked(c, d, x) ==
    /\ Only(c, d, x) /\ d.down \subseteq c.down /\ Keeps(c.s[x], d.s[x], {"at", "result"})
    /\ \/ d.s[x].at = "idle" /\ d.s[x].result = "error"
       \/ d.s[x].at \in {"expire", "snat"} /\ d.s[x].result = c.s[x].result
       \/ d.s[x].at = "differs" /\ d.s[x].result = c.s[x].result /\ c.s[x].at = "disable"
       \/ d.s[x].at = "next" /\ d.s[x].result = c.s[x].result /\ c.s[x].at \in {"lookup", "differs"} /\ IsDown(c, x)

HeldIn(c, b) == ChainShape(b) /\ b.conf = c.conf /\ b.count = c.count /\ b.nat = c.nat /\ b.s = c.s /\ b.down \subseteq c.down
LookedAs(c, x, at, v) ==
    \/ at = "idle" /\ v = "error"
    \/ at \in {"expire", "snat"} /\ v = c.s[x].result
    \/ at = "differs" /\ v = c.s[x].result /\ c.s[x].at = "disable"
    \/ at = "next" /\ v = c.s[x].result /\ c.s[x].at \in {"lookup", "differs"} /\ IsDown(c, x)

(* Setting where a session is and its result. *)
LEMMA LookedTo ==
    ASSUME NEW c, ChainShape(c), NEW x \in DOMAIN c.s, NEW b, HeldIn(c, b), NEW at, NEW v, LookedAs(c, x, at, v)
    PROVE  PutAt(b, x, at, v).count = c.count /\ PutAt(b, x, at, v).nat = c.nat /\ Looked(c, PutAt(b, x, at, v), x)
<1> DEFINE t == [b.s[x] EXCEPT !.at = at, !.result = v]
           d == PutAt(b, x, at, v)
<1>a. ChainShape(b) /\ b.s = c.s
  BY DEF HeldIn
<1>1. IsSession(b.s[x]) /\ x \in DOMAIN b.s
  BY <1>a DEF ChainShape
<1>2. IsSession(t) /\ Keeps(b.s[x], t, {"at", "result"}) /\ t.at = at /\ t.result = v
  BY <1>1 DEF IsSession, ChainFields, Keeps
<1>3. d = [b EXCEPT !.s[x] = t]
  BY DEF PutAt
<1> HIDE DEF t, d
<1>4. Only(b, d, x) /\ d.s[x] = t /\ d.count = b.count /\ d.down = b.down /\ d.nat = b.nat
  BY <1>a, <1>1, <1>2, <1>3, SessionSet
<1>5. Only(c, d, x)
  BY <1>4 DEF Only, HeldIn
<1>6. \/ d.s[x].at = "idle" /\ d.s[x].result = "error"
      \/ d.s[x].at \in {"expire", "snat"} /\ d.s[x].result = c.s[x].result
      \/ d.s[x].at = "differs" /\ d.s[x].result = c.s[x].result /\ c.s[x].at = "disable"
      \/ d.s[x].at = "next" /\ d.s[x].result = c.s[x].result /\ c.s[x].at \in {"lookup", "differs"} /\ IsDown(c, x)
  BY <1>2, <1>4 DEF LookedAs
<1>7. d.count = c.count /\ d.nat = c.nat /\ d.down \subseteq c.down /\ Keeps(c.s[x], d.s[x], {"at", "result"})
  BY <1>a, <1>2, <1>4 DEF HeldIn
<1>8. Looked(c, d, x)
  BY <1>5, <1>6, <1>7 DEF Looked
<1> QED
  BY <1>7, <1>8 DEF d

(* ChainTo and ChainEnds set it. *)
LEMMA PutIs ==
    ASSUME NEW b, ChainShape(b), NEW x \in DOMAIN b.s
    PROVE  (\A at : ChainTo(b, x, at) = PutAt(b, x, at, b.s[x].result)) /\ ChainEnds(b, x, "error") = PutAt(b, x, "idle", "error")
<1>1. IsSession(b.s[x])
  BY DEF ChainShape
<1>2. \A at : [b.s[x] EXCEPT !.at = at] = [b.s[x] EXCEPT !.at = at, !.result = b.s[x].result]
  BY <1>1 DEF IsSession, ChainFields
<1> QED
  BY <1>2 DEF ChainTo, ChainEnds, PutAt

(* What the four steps of TimedCache's lookup and store do. *)
LEMMA StateStep ==
    ASSUME ChainShape(ch), ChainLookup \/ ChainExpire \/ ChainDisable \/ ChainDiffers
    PROVE  \E x \in DOMAIN ch.s :
              /\ ch.s[x].at \in Stating /\ ch'.count = ch.count /\ ch'.nat = ch.nat
              /\ Looked(ch, ch', x) \/ (ch.s[x].at = "disable" /\ Missed(ch, ch', x))
<1>1. HeldIn(ch, ch)
  BY DEF HeldIn
<1>6. ASSUME NEW x \in DOMAIN ch.s, NEW at, NEW v, ch' = PutAt(ch, x, at, v), LookedAs(ch, x, at, v)
      PROVE  ch'.count = ch.count /\ ch'.nat = ch.nat /\ Looked(ch, ch', x)
  BY <1>1, <1>6, LookedTo
<1>2. CASE ChainLookup
  <2>1. PICK x \in DOMAIN ch.s : ch.s[x].at = "lookup" /\ ch' \in Lookup(ch, x)
    BY <1>2 DEF ChainLookup
  <2>2. \/ IsDown(ch, x) /\ ch' = ChainTo(ch, x, "next")
        \/ ch' = ChainTo(ch, x, "expire")
        \/ ch' = ChainEnds(ch, x, "error")
    BY <2>1 DEF Lookup
  <2>3. \E at, v : ch' = PutAt(ch, x, at, v) /\ LookedAs(ch, x, at, v)
    BY <2>1, <2>2, PutIs DEF LookedAs
  <2> QED
    BY <1>6, <2>1, <2>3 DEF Stating
<1>3. CASE ChainExpire
  <2>1. PICK x \in DOMAIN ch.s : ch.s[x].at = "expire" /\ ch' = Expire(ch, x)
    BY <1>3 DEF ChainExpire
  <2> DEFINE h == ch.down \ {Ip(ch.s[x].target)}
             b == [ch EXCEPT !.down = h]
  <2>2. ch' = ChainTo(b, x, "snat") \/ ch' = ChainEnds(ch, x, "error")
    BY <2>1 DEF Expire
  <2>a. h \subseteq ch.down
    OBVIOUS
  <2> HIDE DEF h
  <2>b. b = [ch EXCEPT !.down = h]
    OBVIOUS
  <2> HIDE DEF b
  <2>3. ChainShape(b) /\ b.conf = ch.conf /\ b.nat = ch.nat /\ b.s = ch.s /\ b.count = ch.count /\ b.down = h
    BY <2>b, DownSet
  <2>4. HeldIn(ch, b)
    BY <2>a, <2>3 DEF HeldIn
  <2>5. CASE ch' = ChainTo(b, x, "snat")
    <3>1. ch' = PutAt(b, x, "snat", ch.s[x].result) /\ LookedAs(ch, x, "snat", ch.s[x].result)
      BY <2>3, <2>5, PutIs DEF LookedAs
    <3>2. ch'.count = ch.count /\ ch'.nat = ch.nat /\ Looked(ch, ch', x)
      BY <2>4, <3>1, LookedTo
    <3> QED
      BY <2>1, <3>2 DEF Stating
  <2>6. CASE ch' = ChainEnds(ch, x, "error")
    <3>1. ch' = PutAt(ch, x, "idle", "error") /\ LookedAs(ch, x, "idle", "error")
      BY <2>6, PutIs DEF LookedAs
    <3> QED
      BY <1>6, <2>1, <3>1 DEF Stating
  <2> QED
    BY <2>2, <2>5, <2>6
<1>4. CASE ChainDisable
  <2>1. PICK x \in DOMAIN ch.s : ch.s[x].at = "disable" /\ ch' = DisableTarget(ch, x)
    BY <1>4 DEF ChainDisable
  <2> DEFINE a == Noted(ch, x)
             h == a.down \union {Ip(ch.s[x].target)}
             b == [a EXCEPT !.down = h]
  <2>2. ch' = ChainTo(ch, x, "differs") \/ ch' = ChainTo(b, x, "next")
    BY <2>1 DEF DisableTarget
  <2>3. CASE ch' = ChainTo(ch, x, "differs")
    <3>1. ch' = PutAt(ch, x, "differs", ch.s[x].result) /\ LookedAs(ch, x, "differs", ch.s[x].result)
      BY <2>1, <2>3, PutIs DEF LookedAs
    <3> QED
      BY <1>6, <2>1, <3>1 DEF Stating
  <2>4. CASE ch' = ChainTo(b, x, "next")
    <3>1. /\ ChainShape(a) /\ a.conf = ch.conf /\ a.count = ch.count /\ a.down = ch.down /\ a.nat = ch.nat /\ DOMAIN a.s = DOMAIN ch.s
          /\ \A y \in DOMAIN ch.s : Keeps(ch.s[y], a.s[y], {"failed"}) /\ a.s[y].failed = ch.s[y].failed \union {Known(ch, ch.s[x].target)}
      BY NotedShape
    <3> HIDE DEF a
    <3>a. h = ch.down \union {Ip(ch.s[x].target)}
      BY <3>1
    <3> HIDE DEF h
    <3>b. b = [a EXCEPT !.down = h]
      OBVIOUS
    <3> HIDE DEF b
    <3>2. ChainShape(b) /\ b.conf = a.conf /\ b.nat = a.nat /\ b.s = a.s /\ b.count = a.count /\ b.down = h
      BY <3>b, <3>1, DownSet
    <3>3. b.s[x].result = ch.s[x].result /\ x \in DOMAIN b.s
      BY <3>1, <3>2 DEF Keeps, ChainFields
    <3>4. NotedIn(ch, b, x)
      BY <3>1, <3>a, <3>2 DEF NotedIn
    <3>5. ch' = PutAt(b, x, "next", ch.s[x].result) /\ MissedAs(ch, x, "next", ch.s[x].result)
      BY <2>4, <3>2, <3>3, PutIs DEF MissedAs
    <3>6. ch'.count = ch.count /\ ch'.nat = ch.nat /\ Missed(ch, ch', x)
      BY <3>4, <3>5, MissedTo
    <3> QED
      BY <2>1, <3>6 DEF Stating
  <2> QED
    BY <2>2, <2>3, <2>4
<1>5. CASE ChainDiffers
  <2>1. PICK x \in DOMAIN ch.s : ch.s[x].at = "differs" /\ ch' = Differs(ch, x)
    BY <1>5 DEF ChainDiffers
  <2>2. \/ IsDown(ch, x) /\ ch' = ChainTo(ch, x, "next")
        \/ ch' = ChainEnds(ch, x, "error")
    BY <2>1 DEF Differs
  <2>3. \E at, v : ch' = PutAt(ch, x, at, v) /\ LookedAs(ch, x, at, v)
    BY <2>1, <2>2, PutIs DEF LookedAs
  <2> QED
    BY <1>6, <2>1, <2>3 DEF Stating
<1> QED
  BY <1>2, <1>3, <1>4, <1>5

(* Addresses with the same IPs are translated to the same IPs. *)
LEMMA SameIps ==
    ASSUME NEW n, n.kind \in NatKinds, NEW type \in {"SNAT", "DNAT"}, NEW A, NEW B, NEW c1, NEW c2,
           \A u \in {"SNAT", "DNAT"} : Ip(A[u]) = Ip(B[u]), n.kind = "ForgeClientSourceNAT" => Ip(c1) = Ip(c2),
           NEW v \in Translations(n, c1, A, type)
    PROVE  \E w \in Translations(n, c2, B, type) : Ip(v) = Ip(w)
<1>1. \A u \in {"SNAT", "DNAT"} : A[u].net = B[u].net /\ A[u].host = B[u].host
  BY DEF Ip
<1>2. CASE n.kind = "GeneralNAT"
  <2>1. Matching(n, A) = Matching(n, B)
    BY <1>1 DEF Matching, InNet
  <2>2. v = GeneralNAT(n, A, type) /\ GeneralNAT(n, B, type) \in Translations(n, c2, B, type)
    BY <1>2 DEF Translations
  <2>3. Ip(GeneralNAT(n, A, type)) = Ip(GeneralNAT(n, B, type))
    BY <1>1, <2>1 DEF GeneralNAT, Ip
  <2> QED
    BY <2>2, <2>3
<1>3. CASE n.kind = "StaticNAT"
  BY <1>3 DEF Translations
<1>4. CASE n.kind = "ForgeClientSourceNAT"
  <2>1. v = ForgeClientSourceNAT(c1) /\ ForgeClientSourceNAT(c2) \in Translations(n, c2, B, type)
    BY <1>4 DEF Translations
  <2> QED
    BY <1>4, <2>1 DEF ForgeClientSourceNAT, Ip
<1>5. CASE n.kind = "OneToOneNAT"
  <2>1. v = OneToOneNAT(n, A[type], type) /\ OneToOneNAT(n, B[type], type) \in Translations(n, c2, B, type)
    BY <1>5 DEF Translations
  <2>2. Ip(OneToOneNAT(n, A[type], type)) = Ip(OneToOneNAT(n, B[type], type))
    BY <1>1 DEF OneToOneNAT, Ip
  <2> QED
    BY <2>1, <2>2
<1>6. CASE n.kind = "RandomNAT"
  BY <1>6 DEF Translations
<1> QED
  BY <1>2, <1>3, <1>4, <1>5, <1>6 DEF NatKinds

(* A right answer added to a cache leaves right answers. *)
LEMMA PutRight ==
    ASSUME NEW k, NEW p, NEW f, CacheRight(k, p, f), NEW key, NEW v, Right(k, p, key, v)
    PROVE  CacheRight(k, p, Put(f, key, v))
<1> DEFINE g == Put(f, key, v)
<1>1. DOMAIN g = DOMAIN f \union {key} /\ \A j \in DOMAIN g : g[j] = IF j = key THEN v ELSE f[j]
  BY DEF Put
<1> HIDE DEF g
<1> QED
  BY <1>1 DEF CacheRight, g

(* An entry taken from a cache leaves right answers. *)
LEMMA DropRight ==
    ASSUME NEW k, NEW p, NEW f, CacheRight(k, p, f), NEW key
    PROVE  CacheRight(k, p, Drop(f, key))
<1> DEFINE g == Drop(f, key)
<1>1. DOMAIN g = DOMAIN f \ {key} /\ \A j \in DOMAIN g : g[j] = f[j]
  BY DEF Drop
<1> HIDE DEF g
<1> QED
  BY <1>1 DEF CacheRight, g

(* performTranslation: the answer, from the cache or from the NAT, is one of *)
(* the NAT's, and what lookup and store leave in the cache is right.         *)
LEMMA AnswerRight ==
    ASSUME NEW c, NEW x, NEW p, NEW type \in {"SNAT", "DNAT"}, c.conf.nats[p].kind \in NatKinds,
           CacheRight(c.conf, p, c.nat[p].cache), CacheRight(c.conf, p, c.nat[p].old),
           c.conf.nats[p].cacheable =>
               /\ type = NatType(c.conf, p)
               /\ c.conf.nats[p].kind = "ForgeClientSourceNAT" => Ip(TargetLocal(c, x)) = Ip(c.conf.client[x]),
           NEW r \in Answers(c, x, p, type)
    PROVE  /\ CacheRight(c.conf, p, r.t.cache) /\ CacheRight(c.conf, p, r.t.old)
           /\ \E v \in Translations(c.conf.nats[p], c.conf.client[x], Addresses(c, x), type) :
                 Answer(c.conf.nats[p], r.addr, v, Addresses(c, x)[type].port)
<1> DEFINE n == c.conf.nats[p]
           u == c.nat[p]
           A == Addresses(c, x)
           T == Translations(n, c.conf.client[x], A, type)
           key == NatKey(A)
           B == [SNAT |-> AtIp(key[1]), DNAT |-> AtIp(key[2])]
           hit == ShiftLookup(u, key)
<1>1. ASSUME NEW v, n.cacheable
      PROVE  /\ v \in T => Right(c.conf, p, key, v)
             /\ Right(c.conf, p, key, v) => \E w \in T : Ip(v) = Ip(w)
  <2>1. A["SNAT"] = TargetLocal(c, x) /\ key[1] = Ip(A["SNAT"]) /\ key[2] = Ip(A["DNAT"])
    BY DEF NatKey, Addresses
  <2>2. Ip(AtIp(key[1])) = Ip(A["SNAT"]) /\ Ip(AtIp(key[2])) = Ip(A["DNAT"])
    BY <2>1 DEF AtIp, Ip
  <2> HIDE DEF A, key
  <2>3. \A t \in {"SNAT", "DNAT"} : Ip(B[t]) = Ip(A[t])
    BY <2>2
  <2>4. n.kind = "ForgeClientSourceNAT" => Ip(AtIp(key[1])) = Ip(c.conf.client[x])
    BY <1>1, <2>1, <2>2
  <2>5. KeyTranslations(c.conf, p, key) = Translations(n, AtIp(key[1]), B, type)
    BY <1>1 DEF KeyTranslations
  <2> HIDE DEF B, n
  <2>6. ASSUME v \in T PROVE \E w \in Translations(n, AtIp(key[1]), B, type) : Ip(v) = Ip(w)
    BY <2>3, <2>4, <2>6, SameIps DEF n
  <2>7. ASSUME NEW w \in Translations(n, AtIp(key[1]), B, type) PROVE \E z \in T : Ip(w) = Ip(z)
    BY <2>3, <2>4, <2>7, SameIps DEF n
  <2> HIDE DEF T
  <2> QED
    BY <2>5, <2>6, <2>7 DEF Right
<1>2. PICK v : \/ n.cacheable /\ hit.value # NoAddr /\ r = [addr |-> WithPort(hit.value, A[type].port), t |-> hit.t]
               \/ n.cacheable /\ v \in T /\ r = [addr |-> v, t |-> ShiftStore(hit.t, key, v)]
               \/ v \in T /\ r = [addr |-> v, t |-> u]
  BY DEF Answers, PerformTranslation
<1> HIDE DEF key, u, T
<1>3. /\ CacheRight(c.conf, p, hit.t.cache) /\ CacheRight(c.conf, p, hit.t.old)
      /\ hit.value # NoAddr => Right(c.conf, p, key, hit.value)
  <2>1. CASE key \in DOMAIN u.cache
    <3>1. hit = [value |-> u.cache[key], t |-> u]
      BY <2>1 DEF ShiftLookup
    <3> QED
      BY <2>1, <3>1 DEF CacheRight, u
  <2>2. CASE key \notin DOMAIN u.cache /\ key \in DOMAIN u.old
    <3>1. hit = [value |-> u.old[key], t |-> [cache |-> Put(u.cache, key, u.old[key]), old |-> Drop(u.old, key)]]
      BY <2>2 DEF ShiftLookup
    <3>2. Right(c.conf, p, key, u.old[key])
      BY <2>2 DEF CacheRight, u
    <3>3. CacheRight(c.conf, p, Put(u.cache, key, u.old[key])) /\ CacheRight(c.conf, p, Drop(u.old, key))
      BY <3>2, PutRight, DropRight DEF u
    <3> QED
      BY <3>1, <3>2, <3>3
  <2>3. CASE key \notin DOMAIN u.cache /\ key \notin DOMAIN u.old
    <3>1. hit = [value |-> NoAddr, t |-> u]
      BY <2>3 DEF ShiftLookup
    <3> QED
      BY <3>1 DEF u
  <2> QED
    BY <2>1, <2>2, <2>3
<1> HIDE DEF hit, A, n
<1>4. CASE n.cacheable /\ hit.value # NoAddr /\ r = [addr |-> WithPort(hit.value, A[type].port), t |-> hit.t]
  <2>1. PICK w \in T : Ip(hit.value) = Ip(w)
    BY <1>1, <1>3, <1>4
  <2>2. Ip(r.addr) = Ip(hit.value) /\ r.addr.port = A[type].port
    BY <1>4 DEF WithPort, Ip
  <2>3. Answer(n, r.addr, w, A[type].port)
    BY <1>4, <2>1, <2>2 DEF Answer
  <2> QED
    BY <1>3, <1>4, <2>1, <2>3 DEF T, n, A
<1>5. CASE n.cacheable /\ v \in T /\ r = [addr |-> v, t |-> ShiftStore(hit.t, key, v)]
  <2> DEFINE full == Cardinality(DOMAIN hit.t.cache) > NatThreshold
             cache == IF full THEN <<>> ELSE hit.t.cache
             old == IF full THEN hit.t.cache ELSE hit.t.old
  <2>1. ShiftStore(hit.t, key, v) = [cache |-> IF v # NoAddr THEN Put(cache, key, v) ELSE Drop(cache, key), old |-> Drop(old, key)]
    BY DEF ShiftStore
  <2>2. CacheRight(c.conf, p, <<>>)
    BY DEF CacheRight
  <2>3. CacheRight(c.conf, p, cache) /\ CacheRight(c.conf, p, old)
    BY <1>3, <2>2
  <2> HIDE DEF cache, old
  <2>4. Right(c.conf, p, key, v)
    BY <1>1, <1>5
  <2>5. CacheRight(c.conf, p, Put(cache, key, v)) /\ CacheRight(c.conf, p, Drop(cache, key)) /\ CacheRight(c.conf, p, Drop(old, key))
    BY <2>3, <2>4, PutRight, DropRight
  <2>6. CacheRight(c.conf, p, r.t.cache) /\ CacheRight(c.conf, p, r.t.old)
    BY <1>5, <2>1, <2>5
  <2>7. Answer(n, r.addr, v, A[type].port)
    BY <1>5 DEF Answer
  <2> QED
    BY <1>5, <2>6, <2>7 DEF T, n, A
<1>6. CASE v \in T /\ r = [addr |-> v, t |-> u]
  <2>1. Answer(n, r.addr, v, A[type].port)
    BY <1>6 DEF Answer
  <2> QED
    BY <1>6, <2>1 DEF u, T, n, A
<1> QED
  BY <1>2, <1>4, <1>5, <1>6

(* A translation keeps the caches right and gets the NAT's own answer. *)
LEMMA AskedRight ==
    ASSUME NatGood(ch), NEW x \in DOMAIN ch.s, NEW p, NEW type \in {"SNAT", "DNAT"},
           p # "none" => p \in DOMAIN ch.nat,
           p # "none" /\ ch.conf.nats[p].cacheable =>
               /\ type = NatType(ch.conf, p)
               /\ ch.conf.nats[p].kind = "ForgeClientSourceNAT" => Ip(TargetLocal(ch, x)) = Ip(ch.conf.client[x]),
           Asked(ch, ch', x, p, type)
    PROVE  NatGood(ch')
<1>1. /\ Only(ch, ch', x) /\ ChainShape(ch) /\ ChainShape(ch')
  BY DEF Asked, NatGood, Only
<1>2. CASE p = "none"
  BY <1>1, <1>2 DEF Asked, NatGood, Only
<1>3. CASE p # "none"
  <2>1. PICK r \in Answers(ch, x, p, type) : ch'.nat = [ch.nat EXCEPT ![p] = r.t] /\ ch'.s[x].wrong = Wrong(ch, x, p, type, r.addr)
    BY <1>3 DEF Asked
  <2>2. p \in DOMAIN ch.conf.nats
    BY <1>1, <1>3 DEF ChainShape
  <2>3. ch.conf.nats[p].kind \in NatKinds
    BY <1>1, <2>2, ChainConstants DEF ChainShape
  <2>4. /\ CacheRight(ch.conf, p, r.t.cache) /\ CacheRight(ch.conf, p, r.t.old)
        /\ \E v \in Translations(ch.conf.nats[p], ch.conf.client[x], Addresses(ch, x), type) :
              Answer(ch.conf.nats[p], r.addr, v, Addresses(ch, x)[type].port)
    BY <1>3, <2>3, AnswerRight DEF NatGood
  <2>5. ~ch'.s[x].wrong
    BY <2>1, <2>4 DEF Wrong, NatGood
  <2>6. \A q \in DOMAIN ch'.nat : CacheRight(ch'.conf, q, ch'.nat[q].cache) /\ CacheRight(ch'.conf, q, ch'.nat[q].old)
    BY <1>1, <1>3, <2>1, <2>4 DEF NatGood, Only
  <2>7. \A y \in DOMAIN ch'.s : ~ch'.s[y].wrong
    BY <1>1, <2>5 DEF NatGood, Only
  <2> QED
    BY <1>1, <2>6, <2>7 DEF NatGood, Only
<1> QED
  BY <1>2, <1>3

(* Whatever the caches hold, a NAT policy answers with one of the addresses  *)
(* its NAT gives for the addresses it was asked about and this client, but   *)
(* that the port of a cached answer may be the one it was asked about        *)
(* (NATPolicy.performTranslation, ShiftCache), for any number of sessions,   *)
(* policies and cache sizes, where a policy is used for one of the two types *)
(* of translation.  The key of the cache has no type: a policy used for both *)
(* can be given the answer kept for the other.                               *)
THEOREM TranslationsAreFaithful ==
    ASSUME \A k \in ChainConfs : Separate(k)
    PROVE  ChainSpec => []NatFaithful
<1>1. ChainInit => NatGood(ch)
  <2> SUFFICES ASSUME ChainInit PROVE NatGood(ch)
    OBVIOUS
  <2>1. PICK k \in ChainConfs :
          ch = [conf |-> k, count |-> 0, down |-> {}, nat |-> [p \in DOMAIN k.nats |-> [cache |-> <<>>, old |-> <<>>]],
                s |-> [x \in DOMAIN k.client |-> NewChain]]
    BY DEF ChainInit, ChainInits
  <2>2. /\ ch = [f \in {"conf", "count", "down", "nat", "s"} |-> ch[f]] /\ ch.conf = k
        /\ ch.s = [x \in DOMAIN k.client |-> NewChain] /\ ch.nat = [p \in DOMAIN k.nats |-> [cache |-> <<>>, old |-> <<>>]]
    BY <2>1
  <2>3. IsSession(NewChain) /\ ~NewChain.wrong
    BY DEF IsSession, NewChain, ChainFields
  <2>4. ChainShape(ch)
    BY <2>2, <2>3 DEF ChainShape
  <2>5. \A p \in DOMAIN ch.nat : CacheRight(k, p, ch.nat[p].cache) /\ CacheRight(k, p, ch.nat[p].old)
    BY <2>2 DEF CacheRight
  <2> QED
    BY <2>2, <2>3, <2>4, <2>5 DEF NatGood
<1>2. NatGood(ch) /\ [ChainNext]_ch => NatGood(ch)'
  <2> SUFFICES ASSUME NatGood(ch), [ChainNext]_ch PROVE NatGood(ch')
    OBVIOUS
  <2>1. ChainShape(ch) /\ Separate(ch.conf)
    BY DEF NatGood
  <2>2. /\ ch.conf \in ChainConfs /\ DOMAIN ch.nat = DOMAIN ch.conf.nats
        /\ ch.conf.snat \in DOMAIN ch.conf.nats \union {"none"} /\ ch.conf.dnat \in DOMAIN ch.conf.nats \union {"none"}
    BY <2>1, ChainConstants DEF ChainShape
  <2>3. CASE ChainParent
    BY <2>1, <2>3, ParentStep DEF NatGood, Only, Keeps, ChainFields
  <2>4. CASE ChainNextTarget
    BY <2>1, <2>4, NextStep DEF NatGood, Only
  <2>5. CASE ChainLocal
    <3>1. PICK x \in DOMAIN ch.s : Asked(ch, ch', x, ch.conf.snat, "SNAT")
      BY <2>1, <2>5, LocalStep
    <3>2. ch.conf.snat # "none" => Ip(TargetLocal(ch, x)) = Ip(ch.conf.client[x])
      BY DEF TargetLocal, Ip
    <3> QED
      BY <2>2, <3>1, <3>2, AskedRight DEF NatType
  <2>6. CASE ChainRemote
    <3>1. PICK x \in DOMAIN ch.s : Asked(ch, ch', x, ch.conf.dnat, "DNAT")
      BY <2>1, <2>6, RemoteStep
    <3>2. ch.conf.dnat # "none" /\ ch.conf.nats[ch.conf.dnat].cacheable /\ ch.conf.nats[ch.conf.dnat].kind = "ForgeClientSourceNAT"
            => Ip(TargetLocal(ch, x)) = Ip(ch.conf.client[x])
      BY <2>1 DEF TargetLocal, Separate, Ip
    <3>3. ch.conf.dnat # "none" /\ ch.conf.nats[ch.conf.dnat].cacheable => NatType(ch.conf, ch.conf.dnat) = "DNAT"
      BY <2>1 DEF NatType, Separate
    <3> QED
      BY <2>2, <3>1, <3>2, <3>3, AskedRight
  <2>7. CASE ChainConnect
    <3>1. PICK x \in DOMAIN ch.s : ch'.nat = ch.nat /\ (Ended(ch, ch', x) \/ Missed(ch, ch', x))
      BY <2>1, <2>7, ConnectStep
    <3>2. ChainShape(ch') /\ ch'.conf = ch.conf /\ DOMAIN ch'.s = DOMAIN ch.s
      BY <3>1 DEF Ended, Missed, Only
    <3>3. \A y \in DOMAIN ch.s : ch'.s[y].wrong = ch.s[y].wrong
      BY <3>1 DEF Ended, Missed, Only, Keeps, ChainFields
    <3> QED
      BY <3>1, <3>2, <3>3 DEF NatGood
  <2>8. CASE ChainLookup \/ ChainExpire \/ ChainDisable \/ ChainDiffers
    <3>1. PICK x \in DOMAIN ch.s : ch'.nat = ch.nat /\ (Looked(ch, ch', x) \/ Missed(ch, ch', x))
      BY <2>1, <2>8, StateStep
    <3>2. ChainShape(ch') /\ ch'.conf = ch.conf /\ DOMAIN ch'.s = DOMAIN ch.s
      BY <3>1 DEF Looked, Missed, Only
    <3>3. \A y \in DOMAIN ch.s : ch'.s[y].wrong = ch.s[y].wrong
      BY <3>1 DEF Looked, Missed, Only, Keeps, ChainFields
    <3> QED
      BY <3>1, <3>2, <3>3 DEF NatGood
  <2>9. CASE UNCHANGED ch
    BY <2>9 DEF NatGood, ChainShape
  <2> QED
    BY <2>3, <2>4, <2>5, <2>6, <2>7, <2>8, <2>9 DEF ChainNext
<1>3. NatGood(ch) => NatFaithful
  BY DEF NatGood, NatFaithful
<1> QED
  BY <1>1, <1>2, <1>3, PTL DEF ChainSpec

(* The next target is the next one of the round. *)
LEMMA SeenGrows ==
    ASSUME NEW n \in Nat \ {0}, NEW r, PlaceAt(n, r), NEW i \in 0 .. n - 1, Fresh(r) \/ (i = r.cur /\ r.first # r.cur),
           NEW t, t.first = (IF Fresh(r) THEN i ELSE r.first), t.cur = (i + 1) % n, t.restart = FALSE
    PROVE  ~Fresh(t) /\ Seen(n, t) = Seen(n, r) \union {i}
<1>1. t.cur = IF i + 1 = n THEN 0 ELSE i + 1
  OBVIOUS
<1>2. r.first \in -1 .. n - 1 /\ r.cur \in 0 .. n - 1
  BY DEF PlaceAt
<1>3. CASE Fresh(r)
  <2>1. t.first = i /\ ~Fresh(t) /\ Seen(n, r) = {}
    BY <1>3 DEF Fresh, Seen
  <2>2. Seen(n, t) = {i}
    BY <1>1, <2>1 DEF Seen
  <2> QED
    BY <2>1, <2>2
<1>4. CASE ~Fresh(r)
  <2>1. i = r.cur /\ r.first # r.cur /\ r.first \in 0 .. n - 1 /\ t.first = r.first /\ ~Fresh(t)
    BY <1>2, <1>4 DEF Fresh
  <2>2. Seen(n, r) = IF r.first < r.cur THEN r.first .. r.cur - 1 ELSE (r.first .. n - 1) \union (0 .. r.cur - 1)
    BY <1>4 DEF Seen
  <2>3. Seen(n, t) = IF t.first < t.cur THEN t.first .. t.cur - 1 ELSE (t.first .. n - 1) \union (0 .. t.cur - 1)
    BY <2>1 DEF Seen
  <2>4. CASE r.first < r.cur
    <3>1. CASE i + 1 = n
      <4>1. t.cur = 0 /\ r.cur = n - 1
        BY <1>1, <1>2, <2>1, <3>1
      <4>2. Seen(n, r) = r.first .. (n - 1) - 1
        BY <2>2, <2>4, <4>1
      <4>3. ~(t.first < t.cur)
        BY <2>1, <4>1
      <4>4. Seen(n, t) = (r.first .. n - 1) \union (0 .. 0 - 1)
        BY <2>1, <2>3, <4>1, <4>3
      <4> QED
        BY <1>2, <2>1, <4>1, <4>2, <4>4
    <3>2. CASE i + 1 # n
      BY <1>1, <1>2, <2>1, <2>2, <2>3, <2>4, <3>2, SMTT(60)
    <3> QED
      BY <3>1, <3>2
  <2>5. CASE ~(r.first < r.cur)
    BY <1>1, <1>2, <2>1, <2>2, <2>3, <2>5
  <2> QED
    BY <2>1, <2>4, <2>5
<1> QED
  BY <1>3, <1>4

(* A session that is back at its first target has been given all of them. *)
LEMMA SeenAll ==
    ASSUME NEW n \in Nat \ {0}, NEW r, PlaceAt(n, r), ~Fresh(r), r.first = r.cur
    PROVE  Seen(n, r) = 0 .. n - 1
<1>1. r.first \in 0 .. n - 1 /\ r.cur = r.first
  BY DEF PlaceAt, Fresh
<1>2. Seen(n, r) = (r.first .. n - 1) \union (0 .. r.cur - 1)
  BY <1>1 DEF Seen
<1> QED
  BY <1>1, <1>2

(* What a session's round says depends on little of it, and only gets truer  *)
(* when more hosts have failed or fewer are held for down.                   *)
LEMMA RoundKept ==
    ASSUME NEW c, NEW d, d.conf = c.conf, NEW r, NEW t, Keeps(r, t, {"failed", "target", "SNAT", "DNAT", "wrong", "rounds"}),
           r.at \in Trying => t.target = r.target, r.failed \subseteq t.failed, r.enumd = 1 => d.down \subseteq c.down \union t.failed,
           PlaceAt(Len(c.conf.targets), r), RoundAt(c, r)
    PROVE  PlaceAt(Len(d.conf.targets), t) /\ RoundAt(d, t)
<1>1. /\ t.at = r.at /\ t.first = r.first /\ t.cur = r.cur /\ t.restart = r.restart /\ t.enumd = r.enumd
      /\ t.result = r.result /\ t.calls = r.calls
  BY DEF Keeps, ChainFields
<1>2. Seen(Len(c.conf.targets), t) = Seen(Len(c.conf.targets), r) /\ (Fresh(t) <=> Fresh(r))
  BY <1>1 DEF Seen, Fresh
<1>a. (StateBased(d) <=> StateBased(c)) /\ \A a : Known(d, a) = Known(c, a)
  BY DEF Known, StateBased
<1>3. SeenHosts(d, t) = SeenHosts(c, r) /\ AllHosts(d) = AllHosts(c) /\ (Knowing(d, t) <=> Knowing(c, r))
  BY <1>1, <1>2, <1>a DEF SeenHosts, AllHosts, Knowing, Target, Targets
<1>4. PlaceAt(Len(d.conf.targets), t)
  BY <1>1 DEF PlaceAt
<1>5. /\ Knowing(d, t) /\ t.at = "next" => SeenHosts(d, t) \subseteq t.failed
      /\ Knowing(d, t) /\ t.at \in Trying => SeenHosts(d, t) \subseteq t.failed \union {Known(d, t.target)}
      /\ t.at \in {"disable", "differs"} => Known(d, t.target) \in t.failed
      /\ t.at \in Stating => StateBased(d)
      /\ t.enumd = 1 => d.down \subseteq t.failed
      /\ t.at = "idle" /\ t.result = "none" => AllHosts(d) \subseteq t.failed
  BY <1>1, <1>a, <1>3 DEF RoundAt, Trying, Stating
<1>6. RoundAt(d, t)
  BY <1>1, <1>2, <1>5 DEF RoundAt
<1> QED
  BY <1>4, <1>6

(* A chainer with one target. *)
LEMMA OnlyTargetStep ==
    ASSUME TriedGood(ch), ch.conf.kind = "connect", ChainNext
    PROVE  TriedGood(ch')
<1>1. ChainShape(ch) /\ OneRound(ch.conf) /\ \A x \in DOMAIN ch.s : OnlyAt(ch, ch.s[x])
  BY DEF TriedGood
<1>2. SUFFICES ChainShape(ch') /\ ch'.conf = ch.conf /\ DOMAIN ch'.s = DOMAIN ch.s /\ \A y \in DOMAIN ch.s : OnlyAt(ch, ch'.s[y])
  <2>1. ch'.conf = ch.conf => \A r : OnlyAt(ch', r) <=> OnlyAt(ch, r)
    BY DEF OnlyAt, Target
  <2> QED
    BY <1>1, <1>2, <2>1 DEF TriedGood
<1>8. ASSUME NEW x \in DOMAIN ch.s, ch.s[x].at \in Trying, Missed(ch, ch', x)
      PROVE  ChainShape(ch') /\ ch'.conf = ch.conf /\ DOMAIN ch'.s = DOMAIN ch.s /\ \A y \in DOMAIN ch.s : OnlyAt(ch, ch'.s[y])
  <2>1. ch.s[x].target = Target(ch, 0) /\ ch'.s[x].target = ch.s[x].target
    BY <1>1, <1>8 DEF OnlyAt, Missed, Keeps, ChainFields
  <2>2. \A y \in DOMAIN ch.s : y # x => ch'.s[y].at = ch.s[y].at /\ ch'.s[y].result = ch.s[y].result /\ ch'.s[y].target = ch.s[y].target
    BY <1>8 DEF Missed, Keeps, ChainFields
  <2>3. Known(ch, ch.s[x].target) = Target(ch, 0)
    BY <2>1 DEF Known, StateBased
  <2>4. \A y \in DOMAIN ch.s : ch'.s[y].failed = ch.s[y].failed \union {Target(ch, 0)}
    BY <1>8, <2>3 DEF Missed
  <2>5. OnlyAt(ch, ch'.s[x])
    BY <2>1, <2>4 DEF OnlyAt
  <2>6. \A y \in DOMAIN ch.s : y # x => OnlyAt(ch, ch'.s[y])
    BY <1>1, <2>2, <2>4 DEF OnlyAt
  <2> QED
    BY <1>8, <2>5, <2>6 DEF Missed
<1>3. CASE ChainParent
  <2>1. PICK x \in DOMAIN ch.s : Only(ch, ch', x) /\ ch'.s[x].at = "next"
    BY <1>1, <1>3, ParentStep
  <2> QED
    BY <1>1, <2>1 DEF Only, OnlyAt, Trying, Stating
<1>4. CASE ChainNextTarget
  <2>1. PICK x \in DOMAIN ch.s : Only(ch, ch', x) /\ ToOnly(ch, ch', x)
    BY <1>1, <1>4, NextStep DEF ToNext, ToNone, ToRestart
  <2> QED
    BY <1>1, <2>1 DEF Only, OnlyAt, ToOnly
<1>5. CASE ChainLocal \/ ChainRemote
  <2>1. PICK x \in DOMAIN ch.s : ch.s[x].at \in Trying /\ Only(ch, ch', x) /\ ch'.s[x].at \in Trying /\ ch'.s[x].target = ch.s[x].target
    BY <1>1, <1>5, LocalStep, RemoteStep DEF Asked, Keeps, ChainFields, Trying
  <2> QED
    BY <1>1, <2>1 DEF Only, OnlyAt, Trying, Stating
<1>6. CASE ChainConnect
  <2>1. PICK x \in DOMAIN ch.s : ch.s[x].at = "connect" /\ (Ended(ch, ch', x) \/ Missed(ch, ch', x))
    BY <1>1, <1>6, ConnectStep
  <2>2. CASE Ended(ch, ch', x)
    BY <1>1, <2>2 DEF Ended, Only, OnlyAt, Trying, Stating
  <2> QED
    BY <1>8, <2>1, <2>2 DEF Trying
<1>7. CASE ChainLookup \/ ChainExpire \/ ChainDisable \/ ChainDiffers
  <2>1. PICK x \in DOMAIN ch.s : ch.s[x].at \in Trying /\ (Looked(ch, ch', x) \/ Missed(ch, ch', x))
    BY <1>1, <1>7, StateStep DEF Trying
  <2>2. CASE Looked(ch, ch', x)
    <3>1. ch'.s[x].target = ch.s[x].target /\ ch.s[x].target = Target(ch, 0) /\ Only(ch, ch', x)
      BY <1>1, <2>1, <2>2 DEF Looked, Keeps, ChainFields, OnlyAt
    <3>2. ch'.s[x].at = "idle" => ch'.s[x].result = "error"
      BY <2>2 DEF Looked
    <3>3. OnlyAt(ch, ch'.s[x])
      BY <3>1, <3>2 DEF OnlyAt, Trying, Stating
    <3> QED
      BY <1>1, <3>1, <3>3 DEF Only
  <2> QED
    BY <1>8, <2>1, <2>2
<1> QED
  BY <1>3, <1>4, <1>5, <1>6, <1>7 DEF ChainNext

(* A chainer with a list of targets. *)
LEMMA TargetsStep ==
    ASSUME TriedGood(ch), ch.conf.kind # "connect", ChainNext
    PROVE  TriedGood(ch')
<1> DEFINE n == Len(ch.conf.targets)
<1>1. /\ ChainShape(ch) /\ OneRound(ch.conf) /\ ch.count \in Targets(ch)
      /\ \A x \in DOMAIN ch.s : PlaceAt(n, ch.s[x]) /\ RoundAt(ch, ch.s[x])
  BY DEF TriedGood
<1>2. n \in Nat \ {0} /\ ch.conf.kind \in {"multi", "failover", "roundrobin"} /\ ch.conf.calls \in Nat /\ Targets(ch) = 0 .. n - 1
  BY <1>1, ChainConstants DEF ChainShape, Targets
<1>3. SUFFICES /\ ChainShape(ch') /\ ch'.conf = ch.conf /\ DOMAIN ch'.s = DOMAIN ch.s /\ ch'.count \in Targets(ch)
               /\ \A y \in DOMAIN ch.s : PlaceAt(n, ch'.s[y]) /\ RoundAt(ch', ch'.s[y])
  BY <1>1, <1>3 DEF TriedGood, Targets
<1>4. ASSUME NEW y \in DOMAIN ch.s, ch'.conf = ch.conf, ch'.s[y] = ch.s[y], ch'.down \subseteq ch.down
      PROVE  PlaceAt(n, ch'.s[y]) /\ RoundAt(ch', ch'.s[y])
  <2>1. Keeps(ch.s[y], ch'.s[y], {"failed", "target", "SNAT", "DNAT", "wrong", "rounds"})
    BY <1>4 DEF Keeps
  <2> QED
    BY <1>1, <1>4, <2>1, RoundKept
<1>a. ch'.conf = ch.conf => (StateBased(ch') <=> StateBased(ch)) /\ \A a : Known(ch', a) = Known(ch, a)
  BY DEF Known, StateBased
<1> HIDE DEF n
<1>5. CASE ChainParent
  <2>1. PICK x \in DOMAIN ch.s :
              /\ ch.s[x].at = "idle" /\ ch.s[x].calls < ch.conf.calls /\ ch.s[x].result \in ch.conf.again \union {"new"}
              /\ Only(ch, ch', x) /\ ch'.count = ch.count /\ ch'.down = ch.down
              /\ Keeps(ch.s[x], ch'.s[x], {"at", "calls", "rounds", "failed"})
              /\ ch'.s[x].at = "next" /\ ch'.s[x].calls = ch.s[x].calls + 1
    BY <1>1, <1>5, ParentStep
  <2> DEFINE r == ch.s[x]
             t == ch'.s[x]
  <2>2. /\ t.first = r.first /\ t.cur = r.cur /\ t.restart = r.restart /\ t.enumd = r.enumd /\ t.result = r.result
    BY <2>1 DEF Keeps, ChainFields
  <2>3. PlaceAt(n, r) /\ RoundAt(ch, r)
    BY <1>1
  <2>4. PlaceAt(n, t) /\ t.calls # 0
    BY <2>1, <2>2, <2>3 DEF PlaceAt
  <2>5. r.result \in {"new", "connected"} /\ (ch.conf.kind # "multi" => r.calls = 0)
    BY <1>1, <1>2, <2>1, <2>3 DEF OneRound, PlaceAt
  <2>6. t.enumd = 0
    BY <2>2, <2>3, <2>5 DEF RoundAt
  <2>7. ch.conf.kind = "multi" => Fresh(t)
    BY <2>1, <2>2, <2>3, <2>5 DEF RoundAt, Fresh
  <2>8. ch'.conf = ch.conf
    BY <2>1 DEF Only
  <2>9. Knowing(ch', t) => SeenHosts(ch', t) = {}
    BY <2>6, <2>7, <2>8 DEF Knowing, SeenHosts, Seen
  <2>10. RoundAt(ch', t)
    BY <2>1, <2>4, <2>6, <2>8, <2>9 DEF RoundAt, Trying, Stating
  <2> QED
    BY <1>1, <1>4, <2>1, <2>4, <2>10 DEF Only
<1>6. CASE ChainNextTarget
  <2>1. PICK x \in DOMAIN ch.s :
              /\ ch.s[x].at = "next" /\ Only(ch, ch', x)
              /\ ToNext(ch, ch', x) \/ ToNone(ch, ch', x) \/ ToRestart(ch, ch', x)
    BY <1>1, <1>6, NextStep DEF ToOnly
  <2> DEFINE r == ch.s[x]
             t == ch'.s[x]
             i == Candidate(ch, r)
  <2>2. PlaceAt(n, r) /\ RoundAt(ch, r) /\ ch'.conf = ch.conf
    BY <1>1, <2>1 DEF Only
  <2>3. SUFFICES ch'.count \in Targets(ch) /\ ch'.down \subseteq ch.down /\ PlaceAt(n, t) /\ RoundAt(ch', t)
    BY <1>4, <2>1 DEF Only
  <2>4. CASE ToNext(ch, ch', x)
    <3>1. i \in 0 .. n - 1
      BY <1>1, <1>2, <2>2 DEF Candidate, FirstTargetIndex, PlaceAt
    <3> HIDE DEF i
    <3>2. /\ ch'.count = (ch.count + 1) % n /\ ch'.down = ch.down /\ t.at \in {"lookup", "snat"}
          /\ t.at = "lookup" => StateBased(ch)
          /\ t.first = (IF Fresh(r) THEN i ELSE r.first) /\ t.cur = (i + 1) % n /\ t.restart = FALSE /\ t.target = Target(ch, i)
      BY <2>4 DEF ToNext, n, i
    <3>3. t.enumd = r.enumd /\ t.result = r.result /\ t.calls = r.calls /\ t.failed = r.failed
      BY <2>4 DEF ToNext, Keeps, ChainFields
    <3>4. Fresh(r) \/ (i = r.cur /\ r.first # r.cur)
      BY <2>4 DEF ToNext, Exhausted, Candidate, i
    <3>5. ~Fresh(t) /\ Seen(n, t) = Seen(n, r) \union {i}
      <4> HIDE DEF r, t
      <4>1. t.first = (IF Fresh(r) THEN i ELSE r.first) /\ t.cur = (i + 1) % n /\ t.restart = FALSE
        BY <3>2
      <4> QED
        BY <1>2, <2>2, <3>1, <3>4, <4>1, SeenGrows, Zenon
    <3>6. SeenHosts(ch', t) = SeenHosts(ch, r) \union {Known(ch, Target(ch, i))}
      BY <1>a, <2>2, <3>5 DEF SeenHosts, Target, n
    <3>7. t.cur = IF i + 1 = n THEN 0 ELSE i + 1
      BY <1>2, <3>1, <3>2
    <3>8. ch'.count \in Targets(ch)
      BY <1>1, <1>2, <3>2
    <3>9. PlaceAt(n, t)
      <4>1. t.restart \in BOOLEAN
        BY <3>2, Zenon
      <4>2. t.at \in {"idle", "next"} \union Trying
        BY <3>2 DEF Trying, Stating
      <4>3. t.first \in -1 .. n - 1 /\ t.cur \in 0 .. n - 1
        BY <1>2, <2>2, <3>1, <3>2, <3>7 DEF PlaceAt
      <4> QED
        BY <2>2, <3>3, <4>1, <4>2, <4>3 DEF PlaceAt
    <3>10. Knowing(ch', t) <=> Knowing(ch, r)
      BY <2>2, <3>3 DEF Knowing
    <3>12. Knowing(ch', t) => SeenHosts(ch', t) \subseteq t.failed \union {Known(ch', t.target)}
      BY <1>a, <2>1, <2>2, <3>2, <3>3, <3>6, <3>10 DEF RoundAt
    <3>13. RoundAt(ch', t)
      BY <1>a, <2>1, <2>2, <3>2, <3>3, <3>12 DEF RoundAt, Stating, Trying
    <3> QED
      BY <3>2, <3>8, <3>9, <3>13
  <2>5. CASE ToNone(ch, ch', x)
    <3>1. /\ t.at = "idle" /\ t.result = "none" /\ ch'.count = ch.count /\ ch'.down = ch.down /\ t.first = r.first /\ t.cur = r.cur
          /\ t.restart = r.restart /\ t.calls = r.calls /\ t.failed = r.failed
      BY <2>5 DEF ToNone, Keeps, ChainFields
    <3>2. IF ch.conf.kind = "multi" THEN t.enumd = r.enumd ELSE r.enumd = 1 /\ t.enumd = 2
      BY <2>2, <2>5 DEF ToNone, PlaceAt
    <3>3. Seen(n, r) = 0 .. n - 1
      BY <1>2, <2>2, <2>5, SeenAll DEF ToNone, Exhausted
    <3>4. SeenHosts(ch, r) = AllHosts(ch)
      BY <1>2, <3>3 DEF SeenHosts, AllHosts, n
    <3>5. AllHosts(ch) \subseteq t.failed
      BY <2>1, <2>2, <3>1, <3>2, <3>4 DEF RoundAt, Knowing
    <3>6. AllHosts(ch') = AllHosts(ch)
      BY <1>a, <2>2 DEF AllHosts, Target, Targets
    <3>7. PlaceAt(n, t)
      BY <2>2, <3>1, <3>2 DEF PlaceAt
    <3>8. RoundAt(ch', t)
      BY <2>1, <2>2, <3>1, <3>2, <3>5, <3>6 DEF RoundAt, Trying, Stating
    <3> QED
      BY <1>1, <3>1, <3>7, <3>8
  <2>6. CASE ToRestart(ch, ch', x)
    <3>1. /\ t.at = "next" /\ t.result = r.result /\ ch'.count = ch.count /\ ch'.down = {} /\ t.first = r.first /\ t.cur = r.cur
          /\ t.restart = TRUE /\ t.calls = r.calls /\ t.failed = {} /\ ch.conf.kind # "multi"
      BY <2>1, <2>6 DEF ToRestart, Keeps, ChainFields
    <3>2. t.enumd = 1
      BY <2>1, <2>2, <2>6 DEF ToRestart, PlaceAt, RoundAt
    <3>3. PlaceAt(n, t)
      <4>1. t.restart \in BOOLEAN
        BY <3>1, Zenon
      <4>2. t.at \in {"idle", "next"} \union Trying
        BY <3>1
      <4> QED
        BY <2>2, <3>1, <3>2, <4>1, <4>2 DEF PlaceAt
    <3>4. SeenHosts(ch', t) = {}
      BY <3>1 DEF SeenHosts, Seen, Fresh
    <3>5. RoundAt(ch', t)
      BY <2>1, <2>2, <3>1, <3>2, <3>4 DEF RoundAt, Trying, Stating
    <3> QED
      BY <1>1, <3>1, <3>3, <3>5
  <2> QED
    BY <2>1, <2>4, <2>5, <2>6
<1>7. CASE ChainLocal \/ ChainRemote
  <2>1. PICK x \in DOMAIN ch.s :
              /\ ch.s[x].at \in Trying /\ Only(ch, ch', x) /\ ch'.count = ch.count /\ ch'.down = ch.down
              /\ Keeps(ch.s[x], ch'.s[x], {"at", "SNAT", "DNAT", "wrong"}) /\ ch'.s[x].at \in Trying \ Stating
    BY <1>1, <1>7, LocalStep, RemoteStep DEF Asked, Trying
  <2> DEFINE r == ch.s[x]
             t == ch'.s[x]
  <2>2. /\ t.first = r.first /\ t.cur = r.cur /\ t.restart = r.restart /\ t.enumd = r.enumd /\ t.result = r.result
        /\ t.calls = r.calls /\ t.failed = r.failed /\ t.target = r.target
    BY <2>1 DEF Keeps, ChainFields
  <2>3. PlaceAt(n, r) /\ RoundAt(ch, r) /\ ch'.conf = ch.conf
    BY <1>1, <2>1 DEF Only
  <2>4. SeenHosts(ch', t) = SeenHosts(ch, r) /\ (Knowing(ch', t) <=> Knowing(ch, r))
    BY <1>a, <2>2, <2>3 DEF SeenHosts, Seen, Fresh, Knowing, Target
  <2>5. PlaceAt(n, t)
    BY <2>1, <2>2, <2>3 DEF PlaceAt
  <2>6. RoundAt(ch', t)
    BY <1>a, <2>1, <2>2, <2>3, <2>4 DEF RoundAt, Trying, Stating
  <2> QED
    BY <1>1, <1>4, <2>1, <2>5, <2>6 DEF Only
<1>b. ASSUME NEW x \in DOMAIN ch.s, ch.s[x].at \in Trying, Missed(ch, ch', x)
      PROVE  ChainShape(ch') /\ ch'.conf = ch.conf /\ DOMAIN ch'.s = DOMAIN ch.s /\ \A y \in DOMAIN ch.s : PlaceAt(n, ch'.s[y]) /\ RoundAt(ch', ch'.s[y])
  <2> DEFINE r == ch.s[x]
             t == ch'.s[x]
             k == Known(ch, r.target)
  <2>1. ChainShape(ch') /\ ch'.conf = ch.conf /\ DOMAIN ch'.s = DOMAIN ch.s /\ PlaceAt(n, r) /\ RoundAt(ch, r)
    BY <1>1, <1>b DEF Missed
  <2>2. /\ t.first = r.first /\ t.cur = r.cur /\ t.enumd = r.enumd /\ t.calls = r.calls /\ t.restart = r.restart /\ t.target = r.target
        /\ t.result = r.result /\ t.at \in {"next", "disable"} /\ (t.at = "disable" => StateBased(ch)) /\ t.failed = r.failed \union {k}
    BY <1>b DEF Missed, Keeps, ChainFields
  <2>3. ASSUME NEW y \in DOMAIN ch.s, ch.s[y].enumd = 1 PROVE ch'.down \subseteq ch.down \union {k}
    <3>1. StateBased(ch)
      BY <1>1, <1>2, <2>3 DEF RoundAt, StateBased
    <3> QED
      BY <1>b, <3>1 DEF Missed, Known
  <2> HIDE DEF k
  <2>4. ASSUME NEW y \in DOMAIN ch.s, y # x PROVE PlaceAt(n, ch'.s[y]) /\ RoundAt(ch', ch'.s[y])
    <3>1. ch'.s[y].failed = ch.s[y].failed \union {k} /\ Keeps(ch.s[y], ch'.s[y], {"failed"})
      BY <1>b, <2>4 DEF Missed, k
    <3>2. Keeps(ch.s[y], ch'.s[y], {"failed", "target", "SNAT", "DNAT", "wrong", "rounds"}) /\ ch'.s[y].target = ch.s[y].target
      BY <3>1 DEF Keeps, ChainFields
    <3>3. PlaceAt(n, ch.s[y]) /\ RoundAt(ch, ch.s[y])
      BY <1>1
    <3>4. ch.s[y].enumd = 1 => ch'.down \subseteq ch.down \union ch'.s[y].failed
      BY <2>3, <3>1
    <3> QED
      BY <2>1, <3>1, <3>2, <3>3, <3>4, RoundKept DEF n
  <2>5. SeenHosts(ch', t) = SeenHosts(ch, r) /\ (Knowing(ch', t) <=> Knowing(ch, r)) /\ Known(ch', t.target) = k
    BY <1>a, <2>1, <2>2 DEF SeenHosts, Seen, Fresh, Knowing, Target, k
  <2>6. PlaceAt(n, t)
    BY <2>1, <2>2 DEF PlaceAt, Trying, Stating
  <2>7. Knowing(ch', t) => SeenHosts(ch', t) \subseteq t.failed
    BY <1>b, <2>1, <2>2, <2>5 DEF RoundAt, k
  <2>8. t.enumd = 1 => ch'.down \subseteq t.failed
    BY <2>1, <2>2, <2>3 DEF RoundAt
  <2>9. r.at # "idle"
    BY <1>b DEF Trying, Stating
  <2>10. RoundAt(ch', t)
    BY <1>a, <2>1, <2>2, <2>5, <2>7, <2>8, <2>9 DEF RoundAt, Trying, Stating
  <2> QED
    BY <2>1, <2>4, <2>6, <2>10
<1>8. CASE ChainConnect
  <2>1. PICK x \in DOMAIN ch.s : ch.s[x].at = "connect" /\ ch'.count = ch.count /\ (Ended(ch, ch', x) \/ Missed(ch, ch', x))
    BY <1>1, <1>8, ConnectStep
  <2> DEFINE r == ch.s[x]
             t == ch'.s[x]
  <2>4. CASE Ended(ch, ch', x)
    <3>1. /\ t.at = "idle" /\ t.result \in {"denied", "connected"} /\ t.failed = r.failed /\ ch'.down = ch.down /\ ch'.conf = ch.conf
          /\ t.first = r.first /\ t.cur = r.cur /\ t.enumd = r.enumd /\ t.calls = r.calls /\ PlaceAt(n, r) /\ RoundAt(ch, r)
      BY <1>1, <2>4 DEF Ended, Keeps, ChainFields, Only
    <3>2. t.restart \in BOOLEAN /\ (t.result = "connected" => Fresh(t))
      BY <2>4, <3>1 DEF Ended, PlaceAt, Fresh
    <3>3. PlaceAt(n, t)
      BY <3>1, <3>2 DEF PlaceAt
    <3>4. RoundAt(ch', t)
      BY <3>1, <3>2 DEF RoundAt, Trying, Stating
    <3> QED
      BY <1>1, <1>4, <2>1, <2>4, <3>1, <3>3, <3>4 DEF Ended, Only
  <2>5. CASE Missed(ch, ch', x)
    BY <1>1, <1>b, <2>1, <2>5 DEF Trying
  <2> QED
    BY <2>1, <2>4, <2>5
<1>9. CASE ChainLookup \/ ChainExpire \/ ChainDisable \/ ChainDiffers
  <2>1. PICK x \in DOMAIN ch.s :
              /\ ch.s[x].at \in Stating /\ ch'.count = ch.count
              /\ Looked(ch, ch', x) \/ Missed(ch, ch', x)
    BY <1>1, <1>9, StateStep
  <2> DEFINE r == ch.s[x]
             t == ch'.s[x]
             k == Known(ch, r.target)
  <2>2. CASE Looked(ch, ch', x)
    <3>1. /\ Only(ch, ch', x) /\ ch'.down \subseteq ch.down /\ ch'.conf = ch.conf /\ PlaceAt(n, r) /\ RoundAt(ch, r)
      BY <1>1, <2>2 DEF Looked, Only
    <3>2. /\ t.first = r.first /\ t.cur = r.cur /\ t.enumd = r.enumd /\ t.calls = r.calls /\ t.restart = r.restart /\ t.target = r.target
          /\ t.failed = r.failed
      BY <2>2 DEF Looked, Keeps, ChainFields
    <3>3. /\ t.at \in {"idle", "expire", "snat", "differs", "next"} /\ (t.at = "idle" => t.result = "error")
          /\ t.at = "differs" => r.at = "disable"
          /\ t.at = "next" => r.at \in {"lookup", "differs"} /\ IsDown(ch, x)
          /\ t.at # "idle" => t.result = r.result
      BY <2>2 DEF Looked
    <3>4. StateBased(ch) /\ ch.conf.kind # "multi" /\ k = Ip(r.target) /\ r.at \in Trying /\ r.at # "idle"
      BY <2>1, <3>1 DEF RoundAt, StateBased, Known, Trying, Stating
    <3>5. SeenHosts(ch', t) = SeenHosts(ch, r) /\ (Knowing(ch', t) <=> Knowing(ch, r)) /\ Known(ch', t.target) = k
      BY <1>a, <3>1, <3>2 DEF SeenHosts, Seen, Fresh, Knowing, Target
    <3> HIDE DEF k
    <3>6. Knowing(ch, r) => SeenHosts(ch, r) \subseteq r.failed \union {k}
      BY <3>1, <3>4 DEF RoundAt, k
    <3>7. Knowing(ch, r) /\ t.at = "next" => k \in r.failed
      BY <3>1, <3>3, <3>4 DEF RoundAt, Knowing, IsDown
    <3>8. t.at = "differs" => k \in r.failed
      BY <3>1, <3>3 DEF RoundAt, k
    <3>9. PlaceAt(n, t)
      BY <3>1, <3>2, <3>3 DEF PlaceAt, Trying, Stating
    <3>10. RoundAt(ch', t)
      BY <1>a, <3>1, <3>2, <3>3, <3>4, <3>5, <3>6, <3>7, <3>8 DEF RoundAt, Trying, Stating
    <3> QED
      BY <1>1, <1>4, <2>1, <3>1, <3>9, <3>10 DEF Only
  <2>3. CASE Missed(ch, ch', x)
    BY <1>1, <1>b, <2>1, <2>3 DEF Trying
  <2> QED
    BY <2>1, <2>2, <2>3
<1> QED
  BY <1>5, <1>6, <1>7, <1>8, <1>9 DEF ChainNext

(* A session is told that there is no server only after each of its targets  *)
(* failed, or was stored as failed, in its current round (of a chainer with  *)
(* a state: each of their IPs), for any number of sessions, targets and any  *)
(* sharing of the count and the down state (MultiTargetChainer and           *)
(* StateBasedChainer.getNextTarget), where a session asks again only after   *)
(* it was served, and once of a chainer with a state, whose                  *)
(* chainer_targets_enumerated is never reset.                                *)
THEOREM TargetsAreAllTried ==
    ASSUME \A k \in ChainConfs : OneRound(k)
    PROVE  ChainSpec => []AllTried
<1>1. ChainInit => TriedGood(ch)
  <2> SUFFICES ASSUME ChainInit PROVE TriedGood(ch)
    OBVIOUS
  <2>1. PICK k \in ChainConfs :
          ch = [conf |-> k, count |-> 0, down |-> {}, nat |-> [p \in DOMAIN k.nats |-> [cache |-> <<>>, old |-> <<>>]],
                s |-> [x \in DOMAIN k.client |-> NewChain]]
    BY DEF ChainInit, ChainInits
  <2>2. /\ ch = [f \in {"conf", "count", "down", "nat", "s"} |-> ch[f]] /\ ch.conf = k /\ ch.count = 0 /\ ch.down = {}
        /\ ch.s = [x \in DOMAIN k.client |-> NewChain] /\ ch.nat = [p \in DOMAIN k.nats |-> [cache |-> <<>>, old |-> <<>>]]
    BY <2>1
  <2>3. /\ IsSession(NewChain) /\ NewChain.at = "idle" /\ NewChain.first = -1 /\ NewChain.cur = 0 /\ NewChain.restart = FALSE
        /\ NewChain.enumd = 0 /\ NewChain.result = "new" /\ NewChain.calls = 0
    BY DEF IsSession, NewChain, ChainFields
  <2> HIDE DEF NewChain
  <2>4. ChainShape(ch)
    BY <2>2, <2>3 DEF ChainShape
  <2>5. Len(k.targets) \in Nat \ {0} /\ OneRound(k)
    BY ChainConstants
  <2>6. PlaceAt(Len(k.targets), NewChain)
    <3>1. NewChain.restart \in BOOLEAN
      BY <2>3, Zenon
    <3>2. NewChain.at \in {"idle", "next"} \union Trying
      BY <2>3
    <3> QED
      BY <2>3, <2>5, <3>1, <3>2 DEF PlaceAt
  <2>7. Fresh(NewChain)
    BY <2>3 DEF Fresh
  <2>8. RoundAt(ch, NewChain) /\ OnlyAt(ch, NewChain)
    BY <2>2, <2>3, <2>7 DEF RoundAt, OnlyAt, Trying, Stating
  <2>9. ch.count \in Targets(ch)
    BY <2>2, <2>5 DEF Targets
  <2> QED
    BY <2>2, <2>4, <2>5, <2>6, <2>8, <2>9 DEF TriedGood
<1>2. TriedGood(ch) /\ [ChainNext]_ch => TriedGood(ch)'
  <2> SUFFICES ASSUME TriedGood(ch), [ChainNext]_ch PROVE TriedGood(ch')
    OBVIOUS
  <2>1. CASE ChainNext
    BY <2>1, OnlyTargetStep, TargetsStep
  <2>2. CASE UNCHANGED ch
    BY <2>2
  <2> QED
    BY <2>1, <2>2
<1>3. TriedGood(ch) => AllTried
  <2> SUFFICES ASSUME TriedGood(ch), NEW x \in DOMAIN ch.s, ch.s[x].result = "none", ch.s[x].at = "idle"
               PROVE  (IF ch.conf.kind = "connect" THEN {Target(ch, 0)} ELSE {Known(ch, Target(ch, i)) : i \in Targets(ch)}) \subseteq ch.s[x].failed
    BY DEF AllTried
  <2>1. CASE ch.conf.kind = "connect"
    BY <2>1 DEF TriedGood, OnlyAt
  <2>2. CASE ch.conf.kind # "connect"
    <3>1. RoundAt(ch, ch.s[x])
      BY <2>2 DEF TriedGood
    <3> QED
      BY <2>2, <3>1 DEF RoundAt, AllHosts
  <2> QED
    BY <2>1, <2>2
<1> QED
  BY <1>1, <1>2, <1>3, PTL DEF ChainSpec
-----------------------------------------------------------------------------
(* zorpctl.  The parts of its state. *)
CtlFields == {"conf", "procs", "file", "term", "pid", "cmd", "n", "blind"}
CmdFields == {"name", "names", "of", "at", "todo", "seen", "status", "ok", "exit"}
IsCtl(s) == s = [f \in CtlFields |-> s[f]]
IsCmd(c) == c = [f \in CmdFields |-> c[f]]
IsProc(c) == c = [of |-> c.of, at |-> c.at, auto |-> c.auto]
CtlKept(s, t, F) == \A f \in CtlFields \ F : t[f] = s[f]
CmdKept(c, d, F) == \A f \in CmdFields \ F : d[f] = c[f]
IsStop(s) == s.cmd.name \in {"stop", "force-stop"}

(* No copy of a process is up or on its way, or zorpctl has lost sight of it.*)
NoCopy(s, p) == p \notin s.blind => \A x \in DOMAIN s.procs : s.procs[x].of = p => s.procs[x].at = "going"

(* Pids are given once, and only processes that exist have a SIGTERM on its  *)
(* way.                                                                      *)
Pids(s) ==
    /\ s.pid \in Nat /\ \A x \in DOMAIN s.procs : x \in 1 .. s.pid /\ IsProc(s.procs[x]) /\ s.procs[x].at \in {"coming", "up", "going"}
    /\ s.term \subseteq DOMAIN s.procs /\ IsFiniteSet(DOMAIN s.file)

(* A process that zorpctl has not lost sight of has one copy, and that has   *)
(* its pidfile once it is up.                                                *)
Filed(s) ==
    \A x \in DOMAIN s.procs : s.procs[x].at # "going" /\ s.procs[x].of \notin s.blind =>
        /\ \A y \in DOMAIN s.procs : s.procs[y].at # "going" /\ s.procs[y].of = s.procs[x].of => y = x
        /\ s.procs[x].at = "up" => s.procs[x].of \in DOMAIN s.file /\ s.file[s.procs[x].of] = x

(* A stop has gone through a part of its list, and success_all still says    *)
(* that none of that part runs.                                              *)
Gone(s) == Len(s.cmd.of) - Len(s.cmd.todo)
Listed(s) ==
    /\ \E S : s.cmd.of \in Seq(S) /\ s.cmd.todo \in Seq(S)
    /\ Gone(s) \in Nat
    /\ \A i \in 1 .. Len(s.cmd.todo) : s.cmd.todo[i] = s.cmd.of[Gone(s) + i]
GoneStopped(s) == \A i \in 1 .. Gone(s) : InstanceMatches(s.cmd.of[i], s.cmd.names) => NoCopy(s, s.cmd.of[i].proc)
StopSoFar(s) ==
    /\ s.cmd.at \in {"next", "stop", "kill", "wait", "remove", "ended"}
    /\ s.cmd.ok \in BOOLEAN
    /\ Listed(s)
    /\ s.cmd.ok => GoneStopped(s)
    /\ s.cmd.at \in {"stop", "kill", "wait", "remove"} => s.cmd.todo # <<>>
    /\ s.cmd.at = "ended" => s.cmd.todo = <<>> /\ (s.cmd.exit = 0 => s.cmd.ok)

CtlInv(s) ==
    /\ IsCtl(s) /\ IsCmd(s.cmd) /\ Pids(s) /\ Filed(s)
    /\ s.cmd.at \in {"clean", "spawn", "remove"} => NoCopy(s, Head(s.cmd.todo).proc)
    /\ IsStop(s) => StopSoFar(s)

(* What happens to the processes around a command: no process is lost, and   *)
(* nothing comes up that was found stopped.                                  *)
Sound(s, u) == IsCtl(u) /\ u.cmd = s.cmd /\ u.conf = s.conf /\ Pids(u) /\ Filed(u)
Shrinks(s, t) == \A p : NoCopy(s, p) => NoCopy(t, p)
Goes(s, u) == Sound(s, u) /\ Shrinks(s, u)

(* What the assignments of a command leave alone. *)
LEMMA CtlToIs ==
    ASSUME NEW s, IsCtl(s), IsCmd(s.cmd), NEW at
    PROVE  /\ IsCtl(CtlTo(s, at)) /\ CtlKept(s, CtlTo(s, at), {"cmd"})
           /\ IsCmd(CtlTo(s, at).cmd) /\ CmdKept(s.cmd, CtlTo(s, at).cmd, {"at"}) /\ CtlTo(s, at).cmd.at = at
<1> DEFINE t == CtlTo(s, at)  c == [s.cmd EXCEPT !["at"] = at]
<1>1. t = [s EXCEPT !["cmd"] = c]
  BY DEF CtlTo
<1>2. IsCmd(c) /\ CmdKept(s.cmd, c, {"at"}) /\ c.at = at
  BY DEF IsCmd, CmdKept, CmdFields
<1> HIDE DEF t, c
<1>3. IsCtl(t) /\ CtlKept(s, t, {"cmd"}) /\ t.cmd = c
  BY <1>1 DEF IsCtl, CtlKept, CtlFields
<1> QED BY <1>2, <1>3 DEF t

(* One process of the list is done with: z_aggregate_by_process_list. *)
LEMMA HandledIs ==
    ASSUME NEW s, IsCtl(s), IsCmd(s.cmd), NEW b, NEW status, NEW t, t = Handled(s, b, status)
    PROVE  /\ IsCtl(t) /\ CtlKept(s, t, {"cmd"})
           /\ IsCmd(t.cmd) /\ CmdKept(s.cmd, t.cmd, {"at", "todo", "status", "ok"})
           /\ t.cmd.at = "next" /\ t.cmd.todo = Tail(s.cmd.todo) /\ t.cmd.ok = (s.cmd.ok /\ (b \/ status = "WARN"))
<1> DEFINE c == [s.cmd EXCEPT !.at = "next", !.todo = Tail(s.cmd.todo), !.status = status, !.ok = s.cmd.ok /\ (b \/ status = "WARN")]
<1>1. t = [s EXCEPT !["cmd"] = c]
  BY Zenon DEF Handled
<1>2. IsCmd(c) /\ CmdKept(s.cmd, c, {"at", "todo", "status", "ok"}) /\ c.at = "next" /\ c.todo = Tail(s.cmd.todo)
  BY DEF IsCmd, CmdKept, CmdFields
<1>3. c.ok = (s.cmd.ok /\ (b \/ status = "WARN"))
  BY Zenon DEF IsCmd, CmdFields
<1> HIDE DEF c
<1>4. IsCtl(t) /\ CtlKept(s, t, {"cmd"}) /\ t.cmd = c
  BY <1>1 DEF IsCtl, CtlKept, CtlFields
<1> QED BY <1>2, <1>3, <1>4

(* The process part of a state decides what zorpctl may know. *)
LEMMA SameProcs ==
    ASSUME NEW s, NEW t, Pids(s), Filed(s), t.procs = s.procs, t.file = s.file, t.term = s.term, t.pid = s.pid, t.blind = s.blind
    PROVE  Pids(t) /\ Filed(t) /\ Shrinks(s, t) /\ (\A p : NoCopy(s, p) <=> NoCopy(t, p))
<1>1. Pids(t)
  BY DEF Pids
<1>2. Filed(t)
  BY DEF Filed
<1>3. \A p : NoCopy(s, p) <=> NoCopy(t, p)
  BY DEF NoCopy
<1> QED BY <1>1, <1>2, <1>3 DEF Shrinks

(* A process is gone. *)
LEMMA DiedIs ==
    ASSUME NEW s, IsCtl(s), Pids(s), NEW pid, NEW t, t = Died(s, pid)
    PROVE  /\ IsCtl(t) /\ CtlKept(s, t, {"procs", "term"}) /\ Pids(t)
           /\ DOMAIN t.procs = DOMAIN s.procs \ {pid} /\ \A x \in DOMAIN t.procs : t.procs[x] = s.procs[x]
<1> DEFINE l == [x \in DOMAIN s.procs \ {pid} |-> s.procs[x]]  m == s.term \ {pid}
<1>1. t = [s EXCEPT !["procs"] = l, !["term"] = m]
  BY DEF Died
<1>2. DOMAIN l = DOMAIN s.procs \ {pid} /\ \A x \in DOMAIN l : l[x] = s.procs[x]
  OBVIOUS
<1>3. m \subseteq DOMAIN l
  BY DEF Pids
<1> HIDE DEF l, m
<1>4. IsCtl(t) /\ CtlKept(s, t, {"procs", "term"}) /\ t.procs = l /\ t.term = m
  BY <1>1 DEF IsCtl, CtlKept, CtlFields
<1>5. t.pid = s.pid /\ t.file = s.file
  BY <1>4 DEF CtlKept, CtlFields
<1> QED BY <1>2, <1>3, <1>4, <1>5 DEF Pids

(* A process that dies leaves what zorpctl knows as it was. *)
LEMMA DiedGoes ==
    ASSUME NEW s, IsCtl(s), Pids(s), Filed(s), NEW pid, NEW t, t = Died(s, pid) PROVE Goes(s, t)
<1>1. /\ IsCtl(t) /\ CtlKept(s, t, {"procs", "term"}) /\ Pids(t)
      /\ DOMAIN t.procs = DOMAIN s.procs \ {pid} /\ \A x \in DOMAIN t.procs : t.procs[x] = s.procs[x]
  BY DiedIs
<1>2. t.cmd = s.cmd /\ t.conf = s.conf /\ t.file = s.file /\ t.blind = s.blind
  BY <1>1 DEF CtlKept, CtlFields
<1>3. Filed(t)
  BY <1>1, <1>2 DEF Filed
<1>4. Shrinks(s, t)
  BY <1>1, <1>2 DEF Shrinks, NoCopy
<1> QED BY <1>1, <1>2, <1>3, <1>4 DEF Goes, Sound

(* A pidfile is removed: z_instance_remove_stale_pidfile. *)
LEMMA RemovePidfileIs ==
    ASSUME NEW s, IsCtl(s), Pids(s), NEW p, NEW t, t = RemovePidfile(s, p)
    PROVE  /\ IsCtl(t) /\ CtlKept(s, t, {"file"}) /\ Pids(t)
           /\ DOMAIN t.file = DOMAIN s.file \ {p} /\ \A q \in DOMAIN t.file : t.file[q] = s.file[q]
<1> DEFINE f == [q \in DOMAIN s.file \ {p} |-> s.file[q]]
<1>1. t = [s EXCEPT !["file"] = f]
  BY DEF RemovePidfile
<1>2. DOMAIN f = DOMAIN s.file \ {p} /\ \A q \in DOMAIN f : f[q] = s.file[q]
  OBVIOUS
<1> HIDE DEF f
<1>3. IsCtl(t) /\ CtlKept(s, t, {"file"}) /\ t.file = f
  BY <1>1 DEF IsCtl, CtlKept, CtlFields
<1>4. t.pid = s.pid /\ t.procs = s.procs /\ t.term = s.term
  BY <1>3 DEF CtlKept, CtlFields
<1>5. IsFiniteSet(DOMAIN f)
  BY <1>2, FS_Subset DEF Pids
<1> QED BY <1>2, <1>3, <1>4, <1>5 DEF Pids

(* A pidfile of a process without a copy goes. *)
LEMMA RemoveGoes ==
    ASSUME NEW s, IsCtl(s), Pids(s), Filed(s), NEW p, NoCopy(s, p), NEW t, t = RemovePidfile(s, p) PROVE Goes(s, t)
<1>1. /\ IsCtl(t) /\ CtlKept(s, t, {"file"}) /\ Pids(t)
      /\ DOMAIN t.file = DOMAIN s.file \ {p} /\ \A q \in DOMAIN t.file : t.file[q] = s.file[q]
  BY RemovePidfileIs
<1>2. t.cmd = s.cmd /\ t.conf = s.conf /\ t.procs = s.procs /\ t.blind = s.blind
  BY <1>1 DEF CtlKept, CtlFields
<1>3. Filed(t)
  BY <1>1, <1>2 DEF Filed, NoCopy
<1>4. Shrinks(s, t)
  BY <1>2 DEF Shrinks, NoCopy
<1> QED BY <1>1, <1>2, <1>3, <1>4 DEF Goes, Sound

(* A process gets a new pid, *)
LEMMA ForkIs ==
    ASSUME NEW s, IsCtl(s), Pids(s), NEW p, NEW auto, NEW at \in {"coming", "up", "going"}, NEW t, t = Fork(s, p, auto, at)
    PROVE  /\ IsCtl(t) /\ CtlKept(s, t, {"procs", "pid"}) /\ Pids(t)
           /\ s.pid + 1 \notin DOMAIN s.procs /\ DOMAIN t.procs = DOMAIN s.procs \union {s.pid + 1}
           /\ t.procs[s.pid + 1].of = p /\ t.procs[s.pid + 1].at = at /\ \A x \in DOMAIN s.procs : t.procs[x] = s.procs[x]
<1> DEFINE k == s.pid + 1
           r == [of |-> p, at |-> at, auto |-> auto]
           l == [x \in DOMAIN s.procs \union {k} |-> IF x = k THEN r ELSE s.procs[x]]
<1>1. t = [s EXCEPT !["pid"] = k, !["procs"] = l]
  BY DEF Fork
<1>2. r.of = p /\ r.at = at /\ IsProc(r)
  BY DEF IsProc
<1> HIDE DEF r
<1>3. DOMAIN l = DOMAIN s.procs \union {k} /\ l[k] = r /\ \A x \in DOMAIN s.procs : x # k => l[x] = s.procs[x]
  OBVIOUS
<1>4. k \in Nat /\ k \notin DOMAIN s.procs /\ \A x \in DOMAIN l : x \in 1 .. k
  BY <1>3 DEF Pids
<1>5. \A x \in DOMAIN l : IsProc(l[x]) /\ l[x].at \in {"coming", "up", "going"}
  BY <1>2, <1>3 DEF Pids
<1> HIDE DEF k, l
<1>6. IsCtl(t) /\ CtlKept(s, t, {"procs", "pid"}) /\ t.pid = k /\ t.procs = l
  BY <1>1 DEF IsCtl, CtlKept, CtlFields
<1>7. t.term = s.term /\ t.file = s.file
  BY <1>6 DEF CtlKept, CtlFields
<1>8. Pids(t)
  BY <1>3, <1>4, <1>5, <1>6, <1>7 DEF Pids
<1>9. t.procs[k].of = p /\ t.procs[k].at = at /\ \A x \in DOMAIN s.procs : t.procs[x] = s.procs[x]
  BY <1>2, <1>3, <1>4, <1>6
<1> QED BY <1>3, <1>4, <1>6, <1>8, <1>9 DEF k

(* and is the only copy where there was none. *)
LEMMA ForkSound ==
    ASSUME NEW s, IsCtl(s), Pids(s), Filed(s), NEW p, NoCopy(s, p), NEW auto, NEW t, t = Fork(s, p, auto, "coming")
    PROVE  Sound(s, t)
<1> DEFINE k == s.pid + 1
<1>1. /\ IsCtl(t) /\ CtlKept(s, t, {"procs", "pid"}) /\ Pids(t)
      /\ k \notin DOMAIN s.procs /\ DOMAIN t.procs = DOMAIN s.procs \union {k}
      /\ t.procs[k].of = p /\ t.procs[k].at = "coming" /\ \A x \in DOMAIN s.procs : t.procs[x] = s.procs[x]
  BY ForkIs
<1> HIDE DEF k
<1>2. t.cmd = s.cmd /\ t.conf = s.conf /\ t.file = s.file /\ t.blind = s.blind
  BY <1>1 DEF CtlKept, CtlFields
<1>3. Filed(t)
  <2> SUFFICES ASSUME NEW x \in DOMAIN t.procs, t.procs[x].at # "going", t.procs[x].of \notin t.blind
               PROVE  /\ \A y \in DOMAIN t.procs : t.procs[y].at # "going" /\ t.procs[y].of = t.procs[x].of => y = x
                      /\ t.procs[x].at = "up" => t.procs[x].of \in DOMAIN t.file /\ t.file[t.procs[x].of] = x
    BY DEF Filed
  <2>1. CASE x = k
    BY <1>1, <1>2, <2>1 DEF NoCopy
  <2>2. CASE x # k
    <3>1. x \in DOMAIN s.procs /\ s.procs[x].of # p
      BY <1>1, <1>2, <2>2 DEF NoCopy
    <3> QED BY <1>1, <1>2, <3>1 DEF Filed
  <2> QED BY <2>1, <2>2
<1> QED BY <1>1, <1>2, <1>3 DEF Sound

(* A process writes its pidfile. *)
LEMMA WritePidfileIs ==
    ASSUME NEW s, IsCtl(s), Pids(s), NEW p, NEW pid, NEW t, t = WritePidfile(s, p, pid)
    PROVE  /\ IsCtl(t) /\ CtlKept(s, t, {"file"}) /\ Pids(t)
           /\ DOMAIN t.file = DOMAIN s.file \union {p} /\ t.file[p] = pid /\ \A q \in DOMAIN s.file : q # p => t.file[q] = s.file[q]
<1> DEFINE f == [q \in DOMAIN s.file \union {p} |-> IF q = p THEN pid ELSE s.file[q]]
<1>1. t = [s EXCEPT !["file"] = f]
  BY DEF WritePidfile
<1>2. DOMAIN f = DOMAIN s.file \union {p} /\ f[p] = pid /\ \A q \in DOMAIN s.file : q # p => f[q] = s.file[q]
  OBVIOUS
<1> HIDE DEF f
<1>3. IsCtl(t) /\ CtlKept(s, t, {"file"}) /\ t.file = f
  BY <1>1 DEF IsCtl, CtlKept, CtlFields
<1>4. t.pid = s.pid /\ t.procs = s.procs /\ t.term = s.term
  BY <1>3 DEF CtlKept, CtlFields
<1>5. IsFiniteSet(DOMAIN f)
  BY <1>2, FS_AddElement DEF Pids
<1> QED BY <1>2, <1>3, <1>4, <1>5 DEF Pids

(* A process that came up within the wait has its pidfile. *)
LEMMA UpSound ==
    ASSUME NEW s, IsCtl(s), Pids(s), Filed(s), NEW p, NoCopy(s, p), NEW auto,
           NEW t, t = WritePidfile(Fork(s, p, auto, "up"), p, s.pid + 1)
    PROVE  Sound(s, t)
<1> DEFINE k == s.pid + 1  u == Fork(s, p, auto, "up")
<1>1. /\ IsCtl(u) /\ CtlKept(s, u, {"procs", "pid"}) /\ Pids(u)
      /\ k \notin DOMAIN s.procs /\ DOMAIN u.procs = DOMAIN s.procs \union {k}
      /\ u.procs[k].of = p /\ u.procs[k].at = "up" /\ \A x \in DOMAIN s.procs : u.procs[x] = s.procs[x]
  BY ForkIs
<1>2. t = WritePidfile(u, p, k)
  OBVIOUS
<1> HIDE DEF k, u
<1>3. /\ IsCtl(t) /\ CtlKept(u, t, {"file"}) /\ Pids(t)
      /\ DOMAIN t.file = DOMAIN u.file \union {p} /\ t.file[p] = k /\ \A q \in DOMAIN u.file : q # p => t.file[q] = u.file[q]
  BY <1>1, <1>2, WritePidfileIs
<1>4. t.cmd = s.cmd /\ t.conf = s.conf /\ u.file = s.file /\ t.blind = s.blind /\ t.procs = u.procs
  BY <1>1, <1>3 DEF CtlKept, CtlFields
<1>5. Filed(t)
  <2> SUFFICES ASSUME NEW x \in DOMAIN t.procs, t.procs[x].at # "going", t.procs[x].of \notin t.blind
               PROVE  /\ \A y \in DOMAIN t.procs : t.procs[y].at # "going" /\ t.procs[y].of = t.procs[x].of => y = x
                      /\ t.procs[x].at = "up" => t.procs[x].of \in DOMAIN t.file /\ t.file[t.procs[x].of] = x
    BY DEF Filed
  <2>1. CASE x = k
    BY <1>1, <1>3, <1>4, <2>1 DEF NoCopy
  <2>2. CASE x # k
    <3>1. x \in DOMAIN s.procs /\ s.procs[x].of # p
      BY <1>1, <1>4, <2>2 DEF NoCopy
    <3> QED BY <1>1, <1>3, <1>4, <3>1 DEF Filed
  <2> QED BY <2>1, <2>2
<1> QED BY <1>3, <1>4, <1>5 DEF Sound

(* A process moves on in its life. *)
LEMMA MovedIs ==
    ASSUME NEW s, IsCtl(s), Pids(s), NEW pid \in DOMAIN s.procs, NEW at \in {"coming", "up", "going"}, NEW t, t = [s EXCEPT !.procs[pid].at = at]
    PROVE  /\ IsCtl(t) /\ CtlKept(s, t, {"procs"}) /\ Pids(t) /\ DOMAIN t.procs = DOMAIN s.procs
           /\ t.procs[pid].of = s.procs[pid].of /\ t.procs[pid].at = at /\ \A x \in DOMAIN s.procs : x # pid => t.procs[x] = s.procs[x]
<1> DEFINE r == [s.procs[pid] EXCEPT !.at = at]  l == [s.procs EXCEPT ![pid] = r]
<1>1. t = [s EXCEPT !["procs"] = l]
  OBVIOUS
<1>2. IsProc(s.procs[pid])
  BY DEF Pids
<1>3. r = [of |-> s.procs[pid].of, at |-> at, auto |-> s.procs[pid].auto]
  BY <1>2 DEF IsProc
<1>4. IsProc(r) /\ r.of = s.procs[pid].of /\ r.at = at
  BY <1>3 DEF IsProc
<1> HIDE DEF r
<1>5. DOMAIN l = DOMAIN s.procs /\ l[pid] = r /\ \A x \in DOMAIN s.procs : x # pid => l[x] = s.procs[x]
  OBVIOUS
<1> HIDE DEF l
<1>6. IsCtl(t) /\ CtlKept(s, t, {"procs"}) /\ t.procs = l
  BY <1>1 DEF IsCtl, CtlKept, CtlFields
<1>7. t.pid = s.pid /\ t.term = s.term /\ t.file = s.file
  BY <1>6 DEF CtlKept, CtlFields
<1>8. Pids(t)
  BY <1>4, <1>5, <1>6, <1>7 DEF Pids
<1> QED BY <1>4, <1>5, <1>6, <1>8

(* A process comes up late. *)
LEMMA ComesUpGoes ==
    ASSUME NEW s, IsCtl(s), Pids(s), Filed(s), NEW pid \in DOMAIN s.procs, s.procs[pid].at = "coming", NEW t, t = ComesUp(s, pid)
    PROVE  Goes(s, t)
<1> DEFINE u == [s EXCEPT !.procs[pid].at = "up"]  p == s.procs[pid].of
<1>1. /\ IsCtl(u) /\ CtlKept(s, u, {"procs"}) /\ Pids(u) /\ DOMAIN u.procs = DOMAIN s.procs
      /\ u.procs[pid].of = p /\ u.procs[pid].at = "up" /\ \A x \in DOMAIN s.procs : x # pid => u.procs[x] = s.procs[x]
  BY MovedIs
<1>2. t = WritePidfile(u, p, pid)
  BY DEF ComesUp
<1> HIDE DEF u
<1>3. /\ IsCtl(t) /\ CtlKept(u, t, {"file"}) /\ Pids(t)
      /\ DOMAIN t.file = DOMAIN u.file \union {p} /\ t.file[p] = pid /\ \A q \in DOMAIN u.file : q # p => t.file[q] = u.file[q]
  BY <1>1, <1>2, WritePidfileIs
<1>4. t.cmd = s.cmd /\ t.conf = s.conf /\ u.file = s.file /\ t.blind = s.blind /\ t.procs = u.procs
  BY <1>1, <1>3 DEF CtlKept, CtlFields
<1>5. Filed(t)
  <2> SUFFICES ASSUME NEW x \in DOMAIN t.procs, t.procs[x].at # "going", t.procs[x].of \notin t.blind
               PROVE  /\ \A y \in DOMAIN t.procs : t.procs[y].at # "going" /\ t.procs[y].of = t.procs[x].of => y = x
                      /\ t.procs[x].at = "up" => t.procs[x].of \in DOMAIN t.file /\ t.file[t.procs[x].of] = x
    BY DEF Filed
  <2>1. s.procs[x].at # "going" /\ s.procs[x].of = t.procs[x].of /\ s.procs[x].of \notin s.blind
    BY <1>1, <1>4
  <2>2. \A y \in DOMAIN s.procs : t.procs[y].at # "going" => s.procs[y].at # "going" /\ s.procs[y].of = t.procs[y].of
    BY <1>1, <1>4
  <2>3. \A y \in DOMAIN s.procs : s.procs[y].at # "going" /\ s.procs[y].of = s.procs[x].of => y = x
    BY <1>1, <1>4, <2>1 DEF Filed
  <2>4. \A y \in DOMAIN t.procs : t.procs[y].at # "going" /\ t.procs[y].of = t.procs[x].of => y = x
    BY <1>1, <1>4, <2>1, <2>2, <2>3
  <2>5. CASE x = pid
    BY <1>3, <1>4, <2>1, <2>4, <2>5
  <2>6. CASE x # pid
    <3>1. s.procs[x].of # p
      BY <2>3, <2>6
    <3>2. s.procs[x].at = "up" => s.procs[x].of \in DOMAIN s.file /\ s.file[s.procs[x].of] = x
      BY <1>1, <1>4, <2>1 DEF Filed
    <3>3. t.procs[x] = s.procs[x]
      BY <1>1, <1>4, <2>6
    <3> QED BY <1>3, <1>4, <2>4, <3>1, <3>2, <3>3
  <2> QED BY <2>5, <2>6
<1>6. Shrinks(s, t)
  <2> SUFFICES ASSUME NEW q, NoCopy(s, q) PROVE NoCopy(t, q)
    BY DEF Shrinks
  <2>1. q # p \/ q \in s.blind
    BY DEF NoCopy
  <2> QED BY <1>1, <1>4, <2>1 DEF NoCopy
<1> QED BY <1>3, <1>4, <1>5, <1>6 DEF Goes, Sound

(* A process removes its pidfile, or that of whoever wrote it last, and goes. *)
LEMMA EndGoes ==
    ASSUME NEW s, IsCtl(s), Pids(s), Filed(s), NEW pid \in DOMAIN s.procs, s.procs[pid].at = "up", NEW t, t = ProcessEnds(s, pid)
    PROVE  Goes(s, t)
<1> DEFINE u == [s EXCEPT !.procs[pid].at = "going"]  p == s.procs[pid].of
<1>1. /\ IsCtl(u) /\ CtlKept(s, u, {"procs"}) /\ Pids(u) /\ DOMAIN u.procs = DOMAIN s.procs
      /\ u.procs[pid].of = p /\ u.procs[pid].at = "going" /\ \A x \in DOMAIN s.procs : x # pid => u.procs[x] = s.procs[x]
  BY MovedIs
<1>2. t = RemovePidfile(u, p)
  BY DEF ProcessEnds
<1> HIDE DEF u
<1>3. u.cmd = s.cmd /\ u.conf = s.conf /\ u.file = s.file /\ u.blind = s.blind
  BY <1>1 DEF CtlKept, CtlFields
<1>4. Filed(u)
  BY <1>1, <1>3 DEF Filed
<1>5. NoCopy(u, p)
  BY <1>1, <1>3 DEF NoCopy, Filed
<1>6. Shrinks(s, u)
  BY <1>1, <1>3 DEF Shrinks, NoCopy
<1>7. Goes(u, t)
  BY <1>1, <1>2, <1>4, <1>5, RemoveGoes
<1> QED BY <1>3, <1>6, <1>7 DEF Goes, Sound, Shrinks

(* A process crashes, and its supervisor starts it again. *)
LEMMA CrashGoes ==
    ASSUME NEW s, IsCtl(s), Pids(s), Filed(s), NEW pid \in DOMAIN s.procs, NEW t, t = Crashed(s, pid)
    PROVE  Goes(s, t)
<1> DEFINE p == s.procs[pid].of
           d == Died(s, pid)
           b == IF s.procs[pid].at = "going" THEN s.blind \union {p} ELSE s.blind
           u == [d EXCEPT !["blind"] = b]
<1>1. Goes(s, d)
  BY DiedGoes
<1>2. /\ IsCtl(d) /\ CtlKept(s, d, {"procs", "term"}) /\ Pids(d)
      /\ DOMAIN d.procs = DOMAIN s.procs \ {pid} /\ \A x \in DOMAIN d.procs : d.procs[x] = s.procs[x]
  BY DiedIs
<1>3. d.blind = s.blind
  BY <1>2 DEF CtlKept, CtlFields
<1>4. t = d \/ t = Fork(u, p, s.procs[pid].auto, "coming")
  BY <1>3 DEF Crashed
<1>5. CASE t = Fork(u, p, s.procs[pid].auto, "coming")
  <2>0. s.blind \subseteq b /\ (s.procs[pid].at = "going" => p \in b)
    OBVIOUS
  <2> HIDE DEF d, b
  <2>1. IsCtl(u) /\ CtlKept(d, u, {"blind"}) /\ u.blind = b
    BY <1>2 DEF IsCtl, CtlKept, CtlFields
  <2> HIDE DEF u
  <2>2. u.procs = d.procs /\ u.file = d.file /\ u.term = d.term /\ u.pid = d.pid /\ u.cmd = d.cmd /\ u.conf = d.conf
    BY <2>1 DEF CtlKept, CtlFields
  <2>3. Pids(u)
    BY <1>2, <2>2 DEF Pids
  <2>4. Filed(u) /\ Shrinks(d, u)
    BY <1>1, <1>3, <2>0, <2>1, <2>2 DEF Goes, Sound, Filed, Shrinks, NoCopy
  <2>5. NoCopy(u, p)
    BY <1>2, <2>0, <2>1, <2>2 DEF NoCopy, Filed
  <2>6. Sound(u, t)
    BY <1>5, <2>1, <2>3, <2>4, <2>5, ForkSound
  <2>7. /\ CtlKept(u, t, {"procs", "pid"}) /\ DOMAIN t.procs = DOMAIN u.procs \union {u.pid + 1}
        /\ t.procs[u.pid + 1].of = p /\ \A x \in DOMAIN u.procs : t.procs[x] = u.procs[x]
    <3> HIDE DEF p
    <3>1. "coming" \in {"coming", "up", "going"}
      OBVIOUS
    <3>2. /\ IsCtl(t) /\ CtlKept(u, t, {"procs", "pid"}) /\ Pids(t)
          /\ u.pid + 1 \notin DOMAIN u.procs /\ DOMAIN t.procs = DOMAIN u.procs \union {u.pid + 1}
          /\ t.procs[u.pid + 1].of = p /\ t.procs[u.pid + 1].at = "coming" /\ \A x \in DOMAIN u.procs : t.procs[x] = u.procs[x]
      BY <1>5, <2>1, <2>3, <3>1, ForkIs
    <3> QED BY <3>2
  <2>8. t.blind = b
    BY <2>1, <2>7 DEF CtlKept, CtlFields
  <2>9. ASSUME NEW q, NoCopy(s, q) PROVE NoCopy(t, q)
    <3>1. CASE q = p
      <4>1. p \in b
        BY <2>0, <2>9, <3>1 DEF NoCopy
      <4> QED BY <2>8, <3>1, <4>1 DEF NoCopy
    <3>2. CASE q # p
      <4>1. NoCopy(u, q)
        BY <1>1, <2>4, <2>9 DEF Goes, Shrinks
      <4> QED BY <2>1, <2>7, <2>8, <3>2, <4>1 DEF NoCopy
    <3> QED BY <3>1, <3>2
  <2> QED BY <1>1, <2>2, <2>6, <2>9 DEF Goes, Sound, Shrinks
<1> QED BY <1>1, <1>4, <1>5

(* A process is found not running by its pidfile. *)
LEMMA FoundDownGoes ==
    ASSUME NEW s, IsCtl(s), Pids(s), Filed(s), NEW p, ~InstanceRunning(s, p), NEW t, t = FoundDown(s, p)
    PROVE  Goes(s, t) /\ NoCopy(t, p) /\ t.file = s.file
<1> DEFINE b == IF Copies(s, p, "coming") = {} THEN s.blind ELSE s.blind \union {p}
<1>1. t = [s EXCEPT !["blind"] = b]
  BY DEF FoundDown
<1>2. s.blind \subseteq b /\ (p \notin b => Copies(s, p, "coming") = {})
  OBVIOUS
<1> HIDE DEF b
<1>3. IsCtl(t) /\ CtlKept(s, t, {"blind"}) /\ t.blind = b
  BY <1>1 DEF IsCtl, CtlKept, CtlFields
<1>4. t.procs = s.procs /\ t.file = s.file /\ t.term = s.term /\ t.pid = s.pid /\ t.cmd = s.cmd /\ t.conf = s.conf
  BY <1>3 DEF CtlKept, CtlFields
<1>5. Pids(t)
  BY <1>4 DEF Pids
<1>6. Filed(t) /\ Shrinks(s, t)
  BY <1>2, <1>3, <1>4 DEF Filed, Shrinks, NoCopy
<1>7. ASSUME p \notin b, NEW x \in DOMAIN s.procs, s.procs[x].of = p PROVE s.procs[x].at = "going"
  <2>1. s.procs[x].at # "coming"
    BY <1>2, <1>7 DEF Copies
  <2>2. s.procs[x].at # "up"
    BY <1>2, <1>7 DEF Filed, InstanceRunning
  <2> QED BY <1>7, <2>1, <2>2 DEF Pids
<1> QED BY <1>3, <1>4, <1>5, <1>6, <1>7 DEF Goes, Sound, NoCopy

(* A stop stays honest while its list does not move, *)
LEMMA StopStays ==
    ASSUME NEW s, NEW t, Shrinks(s, t), IsCmd(s.cmd), IsCmd(t.cmd), StopSoFar(s),
           CmdKept(s.cmd, t.cmd, {"at", "seen", "exit", "status"}), t.cmd.at \in {"next", "stop", "kill", "wait", "remove", "ended"},
           t.cmd.at \in {"stop", "kill", "wait", "remove"} => s.cmd.todo # <<>>,
           t.cmd.at = "ended" => s.cmd.todo = <<>> /\ (t.cmd.exit = 0 => s.cmd.ok)
    PROVE  StopSoFar(t)
<1>1. t.cmd.of = s.cmd.of /\ t.cmd.todo = s.cmd.todo /\ t.cmd.names = s.cmd.names /\ t.cmd.ok = s.cmd.ok
  BY DEF CmdKept, CmdFields
<1>2. Listed(t) /\ Gone(t) = Gone(s)
  BY <1>1 DEF StopSoFar, Listed, Gone
<1>3. GoneStopped(s) => GoneStopped(t)
  BY <1>1, <1>2 DEF GoneStopped, Shrinks
<1> QED BY <1>1, <1>2, <1>3 DEF StopSoFar

(* and when a process that does not run, or was not asked for, leaves the list. *)
LEMMA StopGoesOn ==
    ASSUME NEW s, NEW t, Shrinks(s, t), IsCmd(s.cmd), IsCmd(t.cmd), StopSoFar(s), s.cmd.todo # <<>>,
           t.cmd.of = s.cmd.of, t.cmd.names = s.cmd.names, t.cmd.todo = Tail(s.cmd.todo), t.cmd.at = "next", t.cmd.ok \in BOOLEAN,
           t.cmd.ok => s.cmd.ok /\ (InstanceMatches(Head(s.cmd.todo), s.cmd.names) => NoCopy(t, Head(s.cmd.todo).proc))
    PROVE  StopSoFar(t)
<1> PICK S : s.cmd.of \in Seq(S) /\ s.cmd.todo \in Seq(S)
  BY DEF StopSoFar, Listed
<1>1. /\ Tail(s.cmd.todo) \in Seq(S) /\ Len(Tail(s.cmd.todo)) = Len(s.cmd.todo) - 1 /\ Len(s.cmd.todo) \in Nat /\ Len(s.cmd.of) \in Nat
      /\ Len(s.cmd.todo) # 0 /\ Head(s.cmd.todo) = s.cmd.todo[1]
      /\ \A i \in 1 .. Len(s.cmd.todo) - 1 : Tail(s.cmd.todo)[i] = s.cmd.todo[i + 1]
  OBVIOUS
<1>2. Gone(t) = Gone(s) + 1 /\ Gone(s) \in Nat
  <2>1. Gone(s) \in Nat
    BY DEF StopSoFar, Listed
  <2>2. Gone(t) = Len(s.cmd.of) - Len(Tail(s.cmd.todo))
    BY DEF Gone
  <2>3. Gone(s) = Len(s.cmd.of) - Len(s.cmd.todo)
    BY DEF Gone
  <2>4. \A a, b \in Nat : a - (b - 1) = (a - b) + 1
    OBVIOUS
  <2> QED BY <1>1, <2>1, <2>2, <2>3, <2>4
<1>3. \A i \in 1 .. Len(s.cmd.todo) : s.cmd.todo[i] = s.cmd.of[Gone(s) + i]
  BY DEF StopSoFar, Listed
<1>4. Listed(t)
  <2>1. t.cmd.of \in Seq(S) /\ t.cmd.todo \in Seq(S) /\ Gone(t) \in Nat
    BY <1>1, <1>2
  <2>2. ASSUME NEW i \in 1 .. Len(t.cmd.todo) PROVE t.cmd.todo[i] = t.cmd.of[Gone(t) + i]
    <3>1. t.cmd.todo[i] = s.cmd.todo[i + 1] /\ i + 1 \in 1 .. Len(s.cmd.todo)
      BY <1>1
    <3>2. Gone(s) + (i + 1) = Gone(t) + i
      BY <1>2
    <3> QED BY <1>3, <3>1, <3>2
  <2> QED BY <2>1, <2>2 DEF Listed
<1>5. Head(s.cmd.todo) = s.cmd.of[Gone(s) + 1]
  BY <1>1, <1>3
<1>6. ASSUME t.cmd.ok PROVE GoneStopped(t)
  <2>1. GoneStopped(s)
    BY <1>6 DEF StopSoFar
  <2>2. ASSUME NEW i \in 1 .. Gone(t), InstanceMatches(s.cmd.of[i], s.cmd.names) PROVE NoCopy(t, s.cmd.of[i].proc)
    <3>1. CASE i \in 1 .. Gone(s)
      BY <2>1, <2>2, <3>1 DEF GoneStopped, Shrinks
    <3>2. CASE i = Gone(s) + 1
      BY <1>5, <1>6, <2>2, <3>2
    <3> QED BY <1>2, <3>1, <3>2
  <2> QED BY <2>2 DEF GoneStopped
<1> QED BY <1>4, <1>6 DEF StopSoFar

(* The command moves on with a process, or is done with one, after the       *)
(* state went from s to u with the command as it was.                        *)
LEMMA MovesOn ==
    ASSUME NEW s, NEW u, NEW t, CtlInv(s), Goes(s, u), NEW at, t = CtlTo(u, at),
           at \in {"clean", "spawn", "remove"} => NoCopy(u, Head(s.cmd.todo).proc),
           IsStop(s) => at \in {"stop", "kill", "wait", "remove"} /\ s.cmd.todo # <<>>
    PROVE  CtlInv(t)
<1>1. IsCmd(u.cmd) /\ IsCtl(u) /\ u.cmd = s.cmd /\ Pids(u) /\ Filed(u) /\ Shrinks(s, u)
  BY DEF CtlInv, Goes, Sound
<1>2. /\ IsCtl(t) /\ CtlKept(u, t, {"cmd"}) /\ IsCmd(t.cmd) /\ CmdKept(u.cmd, t.cmd, {"at"}) /\ t.cmd.at = at
  BY <1>1, CtlToIs
<1>3. t.procs = u.procs /\ t.file = u.file /\ t.term = u.term /\ t.pid = u.pid /\ t.blind = u.blind
  BY <1>2 DEF CtlKept, CtlFields
<1>4. t.cmd.todo = s.cmd.todo /\ t.cmd.name = s.cmd.name
  BY <1>1, <1>2 DEF CmdKept, CmdFields
<1>5. Pids(t) /\ Filed(t) /\ Shrinks(u, t)
  BY <1>1, <1>3, SameProcs
<1>6. ASSUME IsStop(t) PROVE StopSoFar(t)
  <2>1. StopSoFar(s) /\ IsStop(s) /\ IsCmd(s.cmd)
    BY <1>4, <1>6 DEF CtlInv, IsStop
  <2>2. CmdKept(s.cmd, t.cmd, {"at", "seen", "exit", "status"})
    BY <1>1, <1>2 DEF CmdKept, CmdFields
  <2>3. at \in {"stop", "kill", "wait", "remove"} /\ s.cmd.todo # <<>>
    BY <2>1
  <2>4. Shrinks(s, t)
    BY <1>1, <1>5 DEF Shrinks
  <2> QED BY <1>2, <2>1, <2>2, <2>3, <2>4, StopStays
<1>7. ASSUME t.cmd.at \in {"clean", "spawn", "remove"} PROVE NoCopy(t, Head(t.cmd.todo).proc)
  BY <1>2, <1>4, <1>5, <1>7 DEF Shrinks
<1> QED BY <1>2, <1>5, <1>6, <1>7 DEF CtlInv

(* The command is done with a process. *)
LEMMA DoneWith ==
    ASSUME NEW s, NEW u, NEW t, CtlInv(s), Sound(s, u), NEW b \in BOOLEAN, NEW status, t = Handled(u, b, status),
           IsStop(s) => Shrinks(s, u) /\ s.cmd.todo # <<>> /\ (b \/ status = "WARN" => NoCopy(u, Head(s.cmd.todo).proc))
    PROVE  CtlInv(t)
<1>1. IsCmd(u.cmd) /\ IsCtl(u) /\ u.cmd = s.cmd /\ Pids(u) /\ Filed(u)
  BY DEF CtlInv, Sound
<1>2. /\ IsCtl(t) /\ CtlKept(u, t, {"cmd"})
      /\ IsCmd(t.cmd) /\ CmdKept(u.cmd, t.cmd, {"at", "todo", "status", "ok"})
      /\ t.cmd.at = "next" /\ t.cmd.todo = Tail(u.cmd.todo) /\ t.cmd.ok = (u.cmd.ok /\ (b \/ status = "WARN"))
  BY <1>1, HandledIs
<1>3. t.procs = u.procs /\ t.file = u.file /\ t.term = u.term /\ t.pid = u.pid /\ t.blind = u.blind
  BY <1>2 DEF CtlKept, CtlFields
<1>4. t.cmd.of = s.cmd.of /\ t.cmd.name = s.cmd.name /\ t.cmd.names = s.cmd.names
  BY <1>1, <1>2 DEF CmdKept, CmdFields
<1>5. Pids(t) /\ Filed(t) /\ Shrinks(u, t)
  BY <1>1, <1>3, SameProcs
<1>6. ASSUME IsStop(t) PROVE StopSoFar(t)
  <2>1. StopSoFar(s) /\ IsStop(s) /\ IsCmd(s.cmd) /\ s.cmd.ok \in BOOLEAN
    BY <1>4, <1>6 DEF CtlInv, IsStop, StopSoFar
  <2>2. Shrinks(s, t) /\ s.cmd.todo # <<>>
    BY <1>5, <2>1 DEF Shrinks
  <2>3. t.cmd.ok = (s.cmd.ok /\ (b \/ status = "WARN"))
    BY <1>1, <1>2
  <2>4. t.cmd.ok \in BOOLEAN /\ (t.cmd.ok => s.cmd.ok /\ (b \/ status = "WARN"))
    BY <2>1, <2>3
  <2>5. NoCopy(u, Head(s.cmd.todo).proc) => NoCopy(t, Head(s.cmd.todo).proc)
    BY <1>5 DEF Shrinks
  <2>6. t.cmd.ok => NoCopy(t, Head(s.cmd.todo).proc)
    BY <2>1, <2>4, <2>5
  <2>7. t.cmd.todo = Tail(s.cmd.todo)
    BY <1>1, <1>2
  <2> QED BY <1>2, <1>4, <2>1, <2>2, <2>4, <2>6, <2>7, StopGoesOn
<1> QED BY <1>2, <1>5, <1>6 DEF CtlInv

(* Nothing happened to the processes. *)
LEMMA StaysGoes == ASSUME NEW s, CtlInv(s) PROVE Goes(s, s) /\ Sound(s, s) /\ IsCtl(s) /\ IsCmd(s.cmd) /\ Pids(s) /\ Filed(s)
BY DEF CtlInv, Goes, Sound, Shrinks

(* The signal of a stop. *)
LEMMA KillGoes ==
    ASSUME NEW s, CtlInv(s), NEW pid, NEW signo, NEW u, u = Kill(s, pid, signo) PROVE Goes(s, u)
<1>0. IsCtl(s) /\ Pids(s) /\ Filed(s)
  BY StaysGoes
<1>1. CASE u = s
  BY <1>1, StaysGoes
<1>2. CASE u = Crashed(s, pid) /\ pid \in DOMAIN s.procs
  BY <1>0, <1>2, CrashGoes
<1>3. CASE u = [s EXCEPT !.term = @ \union {pid}] /\ pid \in DOMAIN s.procs
  <2>1. IsCtl(u) /\ CtlKept(s, u, {"term"}) /\ u.term = s.term \union {pid}
    BY <1>0, <1>3 DEF IsCtl, CtlKept, CtlFields
  <2>2. u.cmd = s.cmd /\ u.conf = s.conf /\ u.file = s.file /\ u.procs = s.procs /\ u.pid = s.pid /\ u.blind = s.blind
    BY <2>1 DEF CtlKept, CtlFields
  <2>3. Pids(u)
    BY <1>0, <1>3, <2>1, <2>2 DEF Pids
  <2>4. Filed(u) /\ Shrinks(s, u)
    BY <1>0, <2>2 DEF Filed, Shrinks, NoCopy
  <2> QED BY <2>1, <2>2, <2>3, <2>4 DEF Goes, Sound
<1>4. u = s \/ (u = Crashed(s, pid) /\ pid \in DOMAIN s.procs) \/ (u = [s EXCEPT !.term = @ \union {pid}] /\ pid \in DOMAIN s.procs)
  BY Zenon DEF Kill
<1> QED BY <1>1, <1>2, <1>3, <1>4

(* The steps of a command.  A stop is never at the steps of a start. *)
LEMMA NoStart ==
    ASSUME NEW s, CtlInv(s), s.cmd.at \in {"start", "clean", "spawn", "reload"} PROVE ~IsStop(s)
BY DEF CtlInv, StopSoFar

(* A stop that is at a process has that process in its list. *)
LEMMA HasHead ==
    ASSUME NEW s, CtlInv(s), s.cmd.at \in {"stop", "kill", "wait", "remove"}, IsStop(s) PROVE s.cmd.todo # <<>>
BY DEF CtlInv, StopSoFar

(* z_process_start_instance looks at the pidfile *)
LEMMA StartKeeps ==
    ASSUME NEW s, CtlInv(s), s.cmd.at = "start", NEW t, t = StartInstance(s, Head(s.cmd.todo)) PROVE CtlInv(t)
<1> DEFINE e == Head(s.cmd.todo)
<1>0. ~IsStop(s) /\ Sound(s, s) /\ IsCtl(s) /\ Pids(s) /\ Filed(s)
  BY NoStart, StaysGoes
<1>1. CASE InstanceRunning(s, e.proc)
  <2>1. t = Handled(s, FALSE, "WARN")
    BY <1>1 DEF StartInstance
  <2> QED BY <1>0, <2>1, DoneWith
<1>2. CASE ~InstanceRunning(s, e.proc)
  <2> DEFINE u == FoundDown(s, e.proc)  at == IF e.proc \in DOMAIN s.file THEN "clean" ELSE "spawn"
  <2>1. t = CtlTo(u, at)
    BY <1>2 DEF StartInstance
  <2>2. Goes(s, u) /\ NoCopy(u, Head(s.cmd.todo).proc)
    BY <1>0, <1>2, FoundDownGoes
  <2> HIDE DEF u, at
  <2> QED BY <1>0, <2>1, <2>2, MovesOn
<1> QED BY <1>1, <1>2

(* and removes a stale one. *)
LEMMA CleanKeeps ==
    ASSUME NEW s, CtlInv(s), s.cmd.at = "clean", NEW t, t = Clean(s, Head(s.cmd.todo)) PROVE CtlInv(t)
<1> DEFINE u == RemovePidfile(s, Head(s.cmd.todo).proc)
<1>0. ~IsStop(s) /\ IsCtl(s) /\ Pids(s) /\ Filed(s) /\ NoCopy(s, Head(s.cmd.todo).proc)
  BY NoStart, StaysGoes DEF CtlInv
<1>1. t = CtlTo(u, "spawn")
  BY DEF Clean
<1>2. Goes(s, u)
  BY <1>0, RemoveGoes
<1>3. NoCopy(u, Head(s.cmd.todo).proc)
  BY <1>0, <1>2 DEF Goes, Shrinks
<1> HIDE DEF u
<1> QED BY <1>0, <1>1, <1>2, <1>3, MovesOn

(* z_start_instance: the process comes up, fails, or is given up on. *)
LEMMA SpawnKeeps ==
    ASSUME NEW s, CtlInv(s), s.cmd.at = "spawn", NEW t, t \in Spawn(s, Head(s.cmd.todo)) PROVE CtlInv(t)
<1> DEFINE e == Head(s.cmd.todo)  p == e.proc
           u == WritePidfile(Fork(s, p, e.auto, "up"), p, s.pid + 1)
           v == Fork(s, p, e.auto, "coming")
<1>0. ~IsStop(s) /\ Sound(s, s) /\ IsCtl(s) /\ Pids(s) /\ Filed(s) /\ NoCopy(s, p)
  BY NoStart, StaysGoes DEF CtlInv
<1>1. Sound(s, u) /\ Sound(s, v)
  BY <1>0, UpSound, ForkSound
<1>2. \/ t = Handled(s, TRUE, "SUCCESS") \/ t = Handled(s, FALSE, "FAILURE") \/ t = Handled(u, TRUE, "SUCCESS")
      \/ t = Handled(v, FALSE, "FAILURE") \/ t = Handled(v, TRUE, "SUCCESS")
  BY DEF Spawn, Spawned
<1> HIDE DEF u, v
<1> QED BY <1>0, <1>1, <1>2, DoneWith

(* z_process_stop_instance ends, and a restart goes on. *)
LEMMA StoppedKeeps ==
    ASSUME NEW s, CtlInv(s), s.cmd.at \in {"stop", "wait", "remove"}, NEW u, NEW t, NEW e, Goes(s, u),
           NEW b \in BOOLEAN, NEW status, t = Stopped(u, e, b, status),
           b \/ status = "WARN" => NoCopy(u, Head(s.cmd.todo).proc)
    PROVE  CtlInv(t)
<1>0. u.cmd = s.cmd /\ Sound(s, u) /\ Shrinks(s, u)
  BY DEF Goes, Sound
<1>1. IsStop(s) => s.cmd.todo # <<>>
  BY HasHead
<1>2. CASE IsStop(s)
  <2>1. t = Handled(u, b, status)
    BY <1>0, <1>2 DEF Stopped, IsStop
  <2> QED BY <1>0, <1>1, <2>1, DoneWith
<1>3. CASE ~IsStop(s) /\ e.conf
  <2>1. t = CtlTo(u, "start")
    BY <1>0, <1>3 DEF Stopped, IsStop
  <2> QED BY <1>3, <2>1, MovesOn
<1>4. CASE ~IsStop(s) /\ ~e.conf
  <2>1. t = Handled(u, FALSE, status)
    BY <1>0, <1>4 DEF Stopped, IsStop
  <2> QED BY <1>0, <1>4, <2>1, DoneWith
<1> QED BY <1>2, <1>3, <1>4

(* z_process_stop_instance reads the pidfile, *)
LEMMA StopKeeps ==
    ASSUME NEW s, CtlInv(s), s.cmd.at = "stop", NEW t, t = StopInstance(s, Head(s.cmd.todo)) PROVE CtlInv(t)
<1> DEFINE e == Head(s.cmd.todo)
<1>0. IsCtl(s) /\ IsCmd(s.cmd) /\ Pids(s) /\ Filed(s)
  BY StaysGoes
<1>1. CASE ~InstanceRunning(s, e.proc)
  <2> DEFINE u == FoundDown(s, e.proc)
  <2>1. t = Stopped(u, e, FALSE, "WARN")
    BY <1>1 DEF StopInstance
  <2>2. Goes(s, u) /\ NoCopy(u, Head(s.cmd.todo).proc)
    BY <1>0, <1>1, FoundDownGoes
  <2> HIDE DEF u, e
  <2> QED BY <2>1, <2>2, StoppedKeeps
<1>2. CASE InstanceRunning(s, e.proc)
  <2> DEFINE k == PidOf(s, e.proc)  c == [s.cmd EXCEPT !["seen"] = k]  u == [s EXCEPT !["cmd"] = c]
  <2>1. t = CtlTo(u, "kill")
    BY <1>2 DEF StopInstance
  <2> HIDE DEF k
  <2>2. IsCmd(c) /\ CmdKept(s.cmd, c, {"seen"})
    BY <1>0 DEF IsCmd, CmdKept, CmdFields
  <2> HIDE DEF c
  <2>3. IsCtl(u) /\ CtlKept(s, u, {"cmd"}) /\ u.cmd = c
    BY <1>0 DEF IsCtl, CtlKept, CtlFields
  <2> HIDE DEF u
  <2>4. u.procs = s.procs /\ u.file = s.file /\ u.term = s.term /\ u.pid = s.pid /\ u.blind = s.blind
    BY <2>3 DEF CtlKept, CtlFields
  <2>5. u.cmd.at = "stop" /\ u.cmd.name = s.cmd.name /\ u.cmd.todo = s.cmd.todo
    BY <2>2, <2>3 DEF CmdKept, CmdFields
  <2>6. Pids(u) /\ Filed(u) /\ Shrinks(s, u)
    BY <1>0, <2>4, SameProcs
  <2>7. ASSUME IsStop(u) PROVE StopSoFar(u)
    <3>1. StopSoFar(s) /\ s.cmd.todo # <<>>
      BY <2>5, <2>7, HasHead DEF CtlInv, IsStop
    <3>2. CmdKept(s.cmd, u.cmd, {"at", "seen", "exit", "status"})
      BY <2>2, <2>3 DEF CmdKept, CmdFields
    <3>3. IsCmd(u.cmd)
      BY <2>2, <2>3
    <3> QED BY <1>0, <2>5, <2>6, <3>1, <3>2, <3>3, StopStays
  <2>8. CtlInv(u)
    BY <2>2, <2>3, <2>5, <2>6, <2>7 DEF CtlInv
  <2>9. IsStop(u) => u.cmd.todo # <<>>
    BY <2>5, <2>8, HasHead
  <2> QED BY <2>1, <2>8, <2>9, StaysGoes, MovesOn
<1> QED BY <1>1, <1>2

(* sends the signal, *)
LEMMA KillKeeps ==
    ASSUME NEW s, CtlInv(s), s.cmd.at = "kill", NEW t, t = CtlTo(Kill(s, s.cmd.seen, Signo(s.cmd.name)), "wait") PROVE CtlInv(t)
<1> DEFINE u == Kill(s, s.cmd.seen, Signo(s.cmd.name))
<1> HIDE DEF u
<1>1. Goes(s, u)
  BY KillGoes DEF u
<1>2. IsStop(s) => s.cmd.todo # <<>>
  BY HasHead
<1>3. t = CtlTo(u, "wait")
  BY DEF u
<1> QED BY <1>1, <1>2, <1>3, MovesOn

(* waits for the end of the process, *)
LEMMA WaitKeeps ==
    ASSUME NEW s, CtlInv(s), s.cmd.at = "wait", NEW t, t = StopWait(s, Head(s.cmd.todo)) PROVE CtlInv(t)
<1> DEFINE e == Head(s.cmd.todo)  u == FoundDown(s, e.proc)
<1>0. Goes(s, s) /\ IsCtl(s) /\ Pids(s) /\ Filed(s)
  BY StaysGoes
<1>1. CASE InstanceRunning(s, e.proc)
  <2>1. t = Stopped(s, e, FALSE, "FAILURE")
    BY <1>1 DEF StopWait
  <2>2. ~(FALSE \/ "FAILURE" = "WARN")
    OBVIOUS
  <2> HIDE DEF e
  <2> QED BY <1>0, <2>1, <2>2, StoppedKeeps
<1>2. CASE ~InstanceRunning(s, e.proc)
  <2>1. t = CtlTo(u, "remove") \/ t = Stopped(u, e, TRUE, "SUCCESS")
    BY <1>2 DEF StopWait
  <2>2. Goes(s, u) /\ NoCopy(u, Head(s.cmd.todo).proc)
    BY <1>0, <1>2, FoundDownGoes
  <2>3. IsStop(s) => s.cmd.todo # <<>>
    BY HasHead
  <2> HIDE DEF u, e
  <2>4. CASE t = CtlTo(u, "remove")
    BY <2>2, <2>3, <2>4, MovesOn
  <2>5. CASE t = Stopped(u, e, TRUE, "SUCCESS")
    BY <2>2, <2>5, StoppedKeeps
  <2> QED BY <2>1, <2>4, <2>5
<1> QED BY <1>1, <1>2

(* and removes the pidfile of one it killed. *)
LEMMA KilledKeeps ==
    ASSUME NEW s, CtlInv(s), s.cmd.at = "remove", NEW t, t = Killed(s, Head(s.cmd.todo)) PROVE CtlInv(t)
<1> DEFINE e == Head(s.cmd.todo)  u == RemovePidfile(s, e.proc)
<1>0. IsCtl(s) /\ Pids(s) /\ Filed(s) /\ NoCopy(s, Head(s.cmd.todo).proc)
  BY StaysGoes DEF CtlInv
<1>1. t = Stopped(u, e, TRUE, "SUCCESS")
  BY DEF Killed
<1>2. Goes(s, u)
  BY <1>0, RemoveGoes
<1>3. NoCopy(u, Head(s.cmd.todo).proc)
  BY <1>0, <1>2 DEF Goes, Shrinks
<1> HIDE DEF u, e
<1> QED BY <1>1, <1>2, <1>3, StoppedKeeps

(* z_process_reload and z_process_reload_or_restart *)
LEMMA ReloadKeeps ==
    ASSUME NEW s, CtlInv(s), s.cmd.at = "reload", NEW t, t \in ReloadInstance(s, Head(s.cmd.todo)) PROVE CtlInv(t)
<1>0. ~IsStop(s) /\ Goes(s, s) /\ Sound(s, s)
  BY NoStart, StaysGoes
<1>2. t = Handled(s, FALSE, "INVALID") \/ t = CtlTo(s, "stop") \/ t = Handled(s, TRUE, "INVALID")
  BY DEF ReloadInstance
<1>3. CASE t = Handled(s, FALSE, "INVALID")
  BY <1>0, <1>3, DoneWith
<1>4. CASE t = CtlTo(s, "stop")
  BY <1>0, <1>4, MovesOn
<1>5. CASE t = Handled(s, TRUE, "INVALID")
  BY <1>0, <1>5, DoneWith
<1> QED BY <1>2, <1>3, <1>4, <1>5

(* The next process of the list, or its end. *)
LEMMA NextKeeps ==
    ASSUME NEW s, CtlInv(s), s.cmd.at = "next", NEW t, t = CmdNext(s) PROVE CtlInv(t)
<1>0. IsCtl(s) /\ IsCmd(s.cmd) /\ Pids(s) /\ Filed(s) /\ Goes(s, s)
  BY StaysGoes
<1>1. CASE s.cmd.todo = <<>>
  <2> DEFINE x == IF s.cmd.ok THEN 0 ELSE 1  c == [s.cmd EXCEPT !["at"] = "ended", !["exit"] = x]
  <2>1. t = [s EXCEPT !["cmd"] = c]
    BY <1>1 DEF CmdNext
  <2> HIDE DEF x
  <2>2. IsCmd(c) /\ CmdKept(s.cmd, c, {"at", "exit"}) /\ c.at = "ended" /\ c.exit = x
    BY <1>0 DEF IsCmd, CmdKept, CmdFields
  <2> HIDE DEF c
  <2>3. IsCtl(t) /\ CtlKept(s, t, {"cmd"}) /\ t.cmd = c
    BY <1>0, <2>1 DEF IsCtl, CtlKept, CtlFields
  <2>4. t.procs = s.procs /\ t.file = s.file /\ t.term = s.term /\ t.pid = s.pid /\ t.blind = s.blind
    BY <2>3 DEF CtlKept, CtlFields
  <2>5. Pids(t) /\ Shrinks(s, t) /\ Filed(t)
    BY <1>0, <2>4, SameProcs
  <2>6. t.cmd.name = s.cmd.name
    BY <2>2, <2>3 DEF CmdKept, CmdFields
  <2>7. ASSUME IsStop(t) PROVE StopSoFar(t)
    <3>1. StopSoFar(s)
      BY <2>6, <2>7 DEF CtlInv, IsStop
    <3>2. CmdKept(s.cmd, t.cmd, {"at", "seen", "exit", "status"}) /\ IsCmd(t.cmd)
      BY <2>2, <2>3 DEF CmdKept, CmdFields
    <3>3. t.cmd.at = "ended" /\ (t.cmd.exit = 0 => s.cmd.ok)
      BY <2>2, <2>3 DEF x
    <3> QED BY <1>0, <1>1, <2>5, <3>1, <3>2, <3>3, StopStays
  <2> QED BY <2>2, <2>3, <2>5, <2>7 DEF CtlInv
<1>2. CASE s.cmd.todo # <<>> /\ ~InstanceMatches(Head(s.cmd.todo), s.cmd.names)
  <2> DEFINE r == Tail(s.cmd.todo)  c == [s.cmd EXCEPT !["todo"] = r]
  <2>1. t = [s EXCEPT !["cmd"] = c]
    BY <1>2 DEF CmdNext
  <2> HIDE DEF r
  <2>2. IsCmd(c) /\ CmdKept(s.cmd, c, {"todo"}) /\ c.todo = r
    BY <1>0 DEF IsCmd, CmdKept, CmdFields
  <2> HIDE DEF c
  <2>3. IsCtl(t) /\ CtlKept(s, t, {"cmd"}) /\ t.cmd = c
    BY <1>0, <2>1 DEF IsCtl, CtlKept, CtlFields
  <2>4. t.procs = s.procs /\ t.file = s.file /\ t.term = s.term /\ t.pid = s.pid /\ t.blind = s.blind
    BY <2>3 DEF CtlKept, CtlFields
  <2>5. Pids(t) /\ Shrinks(s, t) /\ Filed(t)
    BY <1>0, <2>4, SameProcs
  <2>6. t.cmd.name = s.cmd.name /\ t.cmd.of = s.cmd.of /\ t.cmd.names = s.cmd.names /\ t.cmd.at = "next" /\ t.cmd.ok = s.cmd.ok
    BY <2>2, <2>3 DEF CmdKept, CmdFields
  <2>7. ASSUME IsStop(t) PROVE StopSoFar(t)
    <3>1. StopSoFar(s) /\ s.cmd.ok \in BOOLEAN
      BY <2>6, <2>7 DEF CtlInv, IsStop, StopSoFar
    <3>2. t.cmd.todo = Tail(s.cmd.todo) /\ IsCmd(t.cmd)
      BY <2>2, <2>3 DEF r
    <3> QED BY <1>0, <1>2, <2>5, <2>6, <3>1, <3>2, StopGoesOn
  <2> QED BY <2>2, <2>3, <2>5, <2>6, <2>7 DEF CtlInv
<1>3. CASE s.cmd.todo # <<>> /\ InstanceMatches(Head(s.cmd.todo), s.cmd.names)
  <2> DEFINE at == CASE s.cmd.name \in {"start", "force-start"} -> "start"
                     [] s.cmd.name \in {"reload", "reload-or-restart"} -> "reload"
                     [] OTHER -> "stop"
  <2>1. t = CtlTo(s, at)
    BY <1>3 DEF CmdNext
  <2>2. at \in {"start", "reload", "stop"} /\ (IsStop(s) => at = "stop")
    BY DEF IsStop
  <2> HIDE DEF at
  <2> QED BY <1>0, <1>3, <2>1, <2>2, MovesOn
<1> QED BY <1>1, <1>2, <1>3

(* Every step of a command. *)
LEMMA StepKeeps ==
    ASSUME NEW s, CtlInv(s), NEW t, t \in CmdStep(s) PROVE CtlInv(t)
<1>1. CASE s.cmd.at = "next"
  BY <1>1, NextKeeps DEF CmdStep
<1>2. CASE s.cmd.at = "start"
  BY <1>2, StartKeeps DEF CmdStep
<1>3. CASE s.cmd.at = "spawn"
  BY <1>3, SpawnKeeps DEF CmdStep
<1>4. CASE s.cmd.at = "stop"
  BY <1>4, StopKeeps DEF CmdStep
<1>5. CASE s.cmd.at = "kill"
  BY <1>5, KillKeeps DEF CmdStep
<1>6. CASE s.cmd.at = "wait"
  BY <1>6, WaitKeeps DEF CmdStep
<1>7. CASE s.cmd.at = "reload"
  BY <1>7, ReloadKeeps DEF CmdStep
<1>8. CASE s.cmd.at = "clean"
  BY <1>8, CleanKeeps DEF CmdStep
<1>9. CASE s.cmd.at = "remove"
  BY <1>9, KilledKeeps DEF CmdStep
<1>10. CASE s.cmd.at \notin {"next", "start", "clean", "spawn", "stop", "kill", "wait", "remove", "reload"}
  BY <1>10 DEF CmdStep
<1> QED BY <1>1, <1>2, <1>3, <1>4, <1>5, <1>6, <1>7, <1>8, <1>9, <1>10

(* The pidfiles make a list. *)
LEMMA PidfilesList ==
    ASSUME NEW s, IsFiniteSet(DOMAIN s.file) PROVE \E S : Pidfiles(s) \in Seq(S)
<1> DEFINE D == DOMAIN s.file  k == Cardinality(D)  fs == SetToSeq(D)
<1>1. k \in Nat /\ ExistsBijection(1 .. k, D)
  BY FS_CardinalityType
<1>2. \E f \in [1 .. k -> D] : IsInjective(f)
  BY <1>1 DEF ExistsBijection, Bijection, Injection
<1>3. fs \in [1 .. k -> D]
  BY <1>2 DEF SetToSeq
<1> HIDE DEF k, fs
<1> DEFINE g == [i \in 1 .. k |-> [proc |-> fs[i], conf |-> FALSE, disabled |-> FALSE, auto |-> FALSE]]
           R == {g[i] : i \in 1 .. k}
<1>4. Pidfiles(s) = g
  BY <1>3 DEF Pidfiles, fs
<1>5. g \in [1 .. k -> R]
  OBVIOUS
<1> HIDE DEF g, R
<1>6. g \in Seq(R)
  BY <1>1, <1>5
<1> QED BY <1>4, <1>6

(* z_process_args: a command begins. *)
LEMMA BeginKeeps ==
    ASSUME NEW s, CtlInv(s), NEW name, NEW names, NEW t, t \in CmdBegin(s, name, names) PROVE CtlInv(t)
<1> DEFINE of == Aggregated(s, name)
           c == [name |-> name, names |-> names, of |-> of, at |-> "next", todo |-> of, seen |-> 0, status |-> "INVALID", ok |-> TRUE, exit |-> 0]
           x == IF name \in {"start", "force-start", "restart"} THEN 1 ELSE 0
           d == [c EXCEPT !.at = "refused", !.todo = <<>>, !.exit = x]
           m == s.n + 1
           b == [s EXCEPT !["n"] = m, !["cmd"] = c]
<1>0. IsCtl(s) /\ Pids(s) /\ Filed(s)
  BY DEF CtlInv
<1>1. t = b \/ (t = [b EXCEPT !["cmd"] = d] /\ name \in AsksKzorpd)
  BY DEF CmdBegin
<1> HIDE DEF x, m, of
<1>2. IsCmd(c) /\ c.at = "next" /\ c.name = name /\ c.of = of /\ c.todo = of /\ c.ok = TRUE
  BY DEF IsCmd, CmdFields
<1>3. IsCmd(d) /\ d.at = "refused" /\ d.name = name
  BY DEF IsCmd, CmdFields
<1> HIDE DEF c, d
<1>4. IsCtl(b) /\ CtlKept(s, b, {"n", "cmd"}) /\ b.cmd = c
  BY <1>0 DEF IsCtl, CtlKept, CtlFields
<1> HIDE DEF b
<1>5. IsCtl(t) /\ CtlKept(s, t, {"n", "cmd"}) /\ (t.cmd = c \/ (t.cmd = d /\ name \in AsksKzorpd))
  BY <1>1, <1>4 DEF IsCtl, CtlKept, CtlFields
<1>6. t.procs = s.procs /\ t.file = s.file /\ t.term = s.term /\ t.pid = s.pid /\ t.blind = s.blind
  BY <1>5 DEF CtlKept, CtlFields
<1>7. Pids(t) /\ Filed(t)
  BY <1>0, <1>6, SameProcs
<1>8. IsCmd(t.cmd) /\ t.cmd.at \in {"next", "refused"}
  BY <1>2, <1>3, <1>5
<1>9. ASSUME IsStop(t) PROVE StopSoFar(t)
  <2>1. name \in {"stop", "force-stop"} /\ t.cmd = c
    BY <1>2, <1>3, <1>5, <1>9 DEF IsStop, AsksKzorpd
  <2>2. of = Pidfiles(s)
    BY <2>1 DEF Aggregated, of
  <2>3. PICK S : of \in Seq(S)
    BY <1>0, <2>2, PidfilesList DEF Pids
  <2>4. Gone(t) = 0
    BY <1>2, <2>1, <2>3 DEF Gone
  <2>5. Listed(t)
    BY <1>2, <2>1, <2>3, <2>4 DEF Listed
  <2>6. GoneStopped(t)
    BY <2>4 DEF GoneStopped
  <2> QED BY <1>2, <2>1, <2>5, <2>6 DEF StopSoFar
<1> QED BY <1>5, <1>7, <1>8, <1>9 DEF CtlInv

(* The processes go their own way. *)
LEMMA GoesKeeps ==
    ASSUME NEW s, CtlInv(s), NEW t, Goes(s, t) PROVE CtlInv(t)
<1>0. IsCtl(t) /\ t.cmd = s.cmd /\ Pids(t) /\ Filed(t) /\ Shrinks(s, t)
  BY DEF Goes, Sound
<1>1. t.cmd.at \in {"clean", "spawn", "remove"} => NoCopy(t, Head(t.cmd.todo).proc)
  BY <1>0 DEF CtlInv, Shrinks
<1>2. ASSUME IsStop(t) PROVE StopSoFar(t)
  <2>1. StopSoFar(s) /\ IsCmd(s.cmd)
    BY <1>0, <1>2 DEF CtlInv, IsStop
  <2>2. CmdKept(s.cmd, t.cmd, {"at", "seen", "exit", "status"})
    BY <1>0 DEF CmdKept
  <2>3. /\ t.cmd.at \in {"next", "stop", "kill", "wait", "remove", "ended"}
        /\ t.cmd.at \in {"stop", "kill", "wait", "remove"} => s.cmd.todo # <<>>
        /\ t.cmd.at = "ended" => s.cmd.todo = <<>> /\ (t.cmd.exit = 0 => s.cmd.ok)
    BY <1>0, <2>1 DEF StopSoFar
  <2> QED BY <1>0, <2>1, <2>2, <2>3, StopStays
<1>3. IsCmd(t.cmd)
  BY <1>0 DEF CtlInv
<1> QED BY <1>0, <1>1, <1>2, <1>3 DEF CtlInv

(* Nothing runs at first. *)
LEMMA CtlStarts == ASSUME NEW s, s \in CtlInits PROVE CtlInv(s)
<1> PICK c \in CtlConfs : s = [conf |-> c, procs |-> <<>>, file |-> <<>>, term |-> {}, pid |-> 0, cmd |-> NoCmd, n |-> 0, blind |-> {}]
  BY DEF CtlInits
<1>1. IsCtl(s) /\ s.procs = <<>> /\ s.file = <<>> /\ s.term = {} /\ s.pid = 0 /\ s.cmd = NoCmd
  BY DEF IsCtl, CtlFields
<1>2. IsCmd(s.cmd) /\ s.cmd.at = "ended" /\ s.cmd.name = "none"
  BY <1>1 DEF NoCmd, IsCmd, CmdFields
<1>3. DOMAIN s.procs = {} /\ DOMAIN s.file = {}
  BY <1>1
<1>4. Pids(s) /\ Filed(s)
  BY <1>1, <1>3, FS_EmptySet DEF Pids, Filed
<1> QED BY <1>1, <1>2, <1>4 DEF CtlInv, IsStop

(* The invariant says what zorpctl knows. *)
LEMMA CtlInvHonest == ASSUME CtlInv(ctl) PROVE CtlHonest
<1>1. CtlOneCopy
  BY DEF CtlInv, CtlOneCopy, Filed, PidOf
<1>2. ASSUME ctl.cmd.at = "ended", ctl.cmd.name \in {"stop", "force-stop"}, ctl.cmd.exit = 0,
             NEW i \in DOMAIN ctl.cmd.of, InstanceMatches(ctl.cmd.of[i], ctl.cmd.names)
      PROVE  NoCopy(ctl, ctl.cmd.of[i].proc)
  <2>1. StopSoFar(ctl) /\ ctl.cmd.todo = <<>> /\ ctl.cmd.ok
    BY <1>2 DEF CtlInv, IsStop, StopSoFar
  <2>2. PICK S : ctl.cmd.of \in Seq(S)
    BY <2>1 DEF StopSoFar, Listed
  <2>3. i \in 1 .. Gone(ctl)
    BY <2>1, <2>2 DEF Gone
  <2> QED BY <1>2, <2>1, <2>3 DEF StopSoFar, GoneStopped
<1>3. CtlStopped
  BY <1>2 DEF CtlStopped, NoCopy, Copies
<1> QED BY <1>1, <1>3 DEF CtlHonest

(* Every step of zorpctl and of the processes. *)
LEMMA CtlNextKeeps == ASSUME CtlInv(ctl), [CtlNext]_ctl PROVE CtlInv(ctl)'
<1>0. IsCtl(ctl) /\ Pids(ctl) /\ Filed(ctl)
  BY StaysGoes
<1>1. CASE CtlCommand
  <2>1. PICK name, names : ctl' \in CmdBegin(ctl, name, names)
    BY <1>1 DEF CtlCommand
  <2> QED BY <2>1, BeginKeeps
<1>2. CASE CtlStep
  BY <1>2, StepKeeps DEF CtlStep
<1>3. CASE CtlTerminates
  <2>1. PICK pid \in ctl.term : ctl.procs[pid].at = "up" /\ ctl' = ProcessEnds(ctl, pid)
    BY <1>3 DEF CtlTerminates
  <2>2. pid \in DOMAIN ctl.procs
    BY <1>0 DEF Pids
  <2> QED BY <1>0, <2>1, <2>2, EndGoes, GoesKeeps
<1>4. CASE CtlExits
  BY <1>0, <1>4, DiedGoes, GoesKeeps DEF CtlExits
<1>5. CASE CtlCrash
  BY <1>0, <1>5, CrashGoes, GoesKeeps DEF CtlCrash
<1>6. CASE CtlLate
  <2>1. PICK pid \in DOMAIN ctl.procs : ctl.procs[pid].at = "coming" /\ (ctl' = ComesUp(ctl, pid) \/ ctl' = Died(ctl, pid))
    BY <1>6 DEF CtlLate
  <2> QED BY <1>0, <2>1, ComesUpGoes, DiedGoes, GoesKeeps
<1>7. CASE ctl' = ctl
  BY <1>7
<1> QED BY <1>1, <1>2, <1>3, <1>4, <1>5, <1>6, <1>7 DEF CtlNext

(* For any instances.conf, any commands and any number of processes, with    *)
(* their supervisors or without: whatever crashes, automatic restarts, stale *)
(* pidfiles, stops that time out and processes that end between two steps of *)
(* a command make of it, z_process_start_instance starts no second copy of a *)
(* process, and a stop whose z_aggregate_by_process_list says success leaves *)
(* none of its processes running -- except for the processes that zorpctl    *)
(* found down while a copy was on its way, or that a supervisor restarted    *)
(* after they had removed their pidfile.                                     *)
THEOREM ZorpctlHonest == CtlSpec => []CtlHonest
<1>1. CtlInit => CtlInv(ctl)
  BY CtlStarts DEF CtlInit
<1>2. CtlInv(ctl) /\ [CtlNext]_ctl => CtlInv(ctl)'
  BY CtlNextKeeps
<1>3. CtlInv(ctl) => CtlHonest
  BY CtlInvHonest
<1> QED BY <1>1, <1>2, <1>3, PTL DEF CtlSpec

-----------------------------------------------------------------------------
(* A set of natural numbers has a least element. *)
LEMMA LeastNat ==
    ASSUME NEW T, T \subseteq Nat, T # {} PROVE \E x \in T : \A y \in T : x <= y
<1> DEFINE R == OpToRel(<, Nat)
<1>1. IsWellFoundedOn(R, Nat)
  BY NatLessThanWellFounded
<1>2. \A x, y \in Nat : <<y, x>> \in R <=> y < x
  BY DEF OpToRel
<1> HIDE DEF R
<1>3. PICK x \in T : \A y \in T : <<y, x>> \notin R
  BY <1>1, WFMin
<1>4. \A y \in T : ~(y < x)
  BY <1>2, <1>3
<1>5. \A y \in T : x <= y
  BY <1>4
<1> QED BY <1>5

(* Induction, for a set of numbers. *)
LEMMA SetInduction ==
    ASSUME NEW S, 0 \in S, \A n \in Nat : n \in S => n + 1 \in S PROVE Nat \subseteq S
<1> SUFFICES ASSUME Nat \ S # {} PROVE FALSE
  OBVIOUS
<1>1. PICK x \in Nat \ S : \A y \in Nat \ S : x <= y
  BY LeastNat
<1>2. x # 0 /\ x - 1 \in Nat /\ x - 1 \notin Nat \ S
  BY <1>1
<1> QED BY <1>1, <1>2

(* ... and a bounded one has a greatest. *)
LEMMA GreatestNat ==
    ASSUME NEW n \in Nat, NEW T, T \subseteq 0 .. n, T # {}
    PROVE  Max(T) \in T /\ \A y \in T : y <= Max(T)
<1> DEFINE U == {k \in Nat : n - k \in T}
<1>1. U # {} /\ U \subseteq Nat
  <2>1. PICK x \in T : TRUE
    OBVIOUS
  <2>2. n - x \in Nat /\ n - (n - x) = x
    BY <2>1
  <2> QED BY <2>1, <2>2
<1>2. PICK k \in U : \A l \in U : k <= l
  BY <1>1, LeastNat
<1>3. \A y \in T : y <= n - k
  <2> SUFFICES ASSUME NEW y \in T PROVE y <= n - k
    OBVIOUS
  <2>1. n - y \in Nat /\ n - (n - y) = y /\ y \in Nat
    OBVIOUS
  <2>2. n - y \in U
    BY <2>1
  <2> QED BY <1>2, <2>1, <2>2, SMTT(60)
<1>4. n - k \in T /\ \A y \in T : n - k >= y
  BY <1>2, <1>3
<1> QED BY <1>4 DEF Max

-----------------------------------------------------------------------------
(* The averaged rate.  The sum of the first values of the queue: the         *)
(* recursion has a solution.                                                 *)
LEMMA SumOfIs ==
    ASSUME NEW values \in Seq(Int \X Int)
    PROVE  /\ SumOf(values)[0] = 0
           /\ \A k \in 1 .. Len(values) : SumOf(values)[k] = SumOf(values)[k - 1] + values[k][1]
<1> DEFINE N == Len(values)
           Sums(f, n) == f[0] = 0 /\ \A k \in 1 .. n : f[k] = f[k - 1] + values[k][1]
           Some(n) == \E f \in [0 .. n -> Int] : Sums(f, n)
           S == {n \in Nat : n <= N => Some(n)}
<1>0. N \in Nat /\ \A k \in 1 .. N : values[k][1] \in Int
  OBVIOUS
<1>1. 0 \in S
  <2>1. [i \in 0 .. 0 |-> 0] \in [0 .. 0 -> Int] /\ Sums([i \in 0 .. 0 |-> 0], 0)
    OBVIOUS
  <2>2. Some(0)
    BY <2>1
  <2> HIDE DEF Some
  <2> QED BY <2>2
<1>2. ASSUME NEW n \in Nat, n \in S PROVE n + 1 \in S
  <2> SUFFICES ASSUME n + 1 <= N PROVE Some(n + 1)
    <3> HIDE DEF Some, N
    <3> QED OBVIOUS
  <2>0. Some(n)
    <3> HIDE DEF Some, N
    <3> QED BY <1>0, <1>2
  <2>1. PICK f \in [0 .. n -> Int] : Sums(f, n)
    BY <2>0
  <2> DEFINE g == [i \in 0 .. n + 1 |-> IF i = n + 1 THEN f[n] + values[n + 1][1] ELSE f[i]]
  <2>2. g \in [0 .. n + 1 -> Int]
    BY <1>0
  <2>3. Sums(g, n + 1)
    <3>1. g[0] = 0
      BY <2>1
    <3>2. \A k \in 1 .. n : g[k] = g[k - 1] + values[k][1]
      BY <2>1, SMTT(60)
    <3>3. g[n + 1] = g[n] + values[n + 1][1]
      OBVIOUS
    <3>4. \A k \in 1 .. n + 1 : k \in 1 .. n \/ k = n + 1
      OBVIOUS
    <3> HIDE DEF g
    <3> QED BY <3>1, <3>2, <3>3, <3>4, SMTT(60)
  <2> QED BY <2>2, <2>3
<1>3. N \in S
  <2> HIDE DEF S, N
  <2> QED BY <1>0, <1>1, <1>2, SetInduction
<1>4. PICK f \in [0 .. N -> Int] : Sums(f, N)
  <2>1. Some(N)
    <3> HIDE DEF Some, N
    <3> QED BY <1>0, <1>3
  <2> QED BY <2>1
<1>5. f = [k \in 0 .. N |-> IF k = 0 THEN 0 ELSE f[k - 1] + values[k][1]]
  BY <1>0, <1>4
<1>6. SumOf(values) = [k \in 0 .. N |-> IF k = 0 THEN 0 ELSE SumOf(values)[k - 1] + values[k][1]]
  BY <1>5 DEF SumOf
<1> DEFINE g == SumOf(values)
<1>7. g = [k \in 0 .. N |-> IF k = 0 THEN 0 ELSE g[k - 1] + values[k][1]]
  BY <1>6
<1> HIDE DEF N, g
<1>8. 0 \in 0 .. N /\ \A k \in 1 .. N : k \in 0 .. N /\ k # 0
  BY <1>0
<1>9. g[0] = 0 /\ \A k \in 1 .. N : g[k] = g[k - 1] + values[k][1]
  BY <1>7, <1>8
<1> QED BY <1>9 DEF N, g

(* What is at the head of the queue of values and too old. *)
LEMMA OutdatedIs ==
    ASSUME NEW values \in Seq(Int \X Int), NEW now \in Int, NEW c, c = Outdated(values, now)
    PROVE  /\ c \in 0 .. Len(values) /\ \A i \in 1 .. c : TooOld(values[i][2], now)
           /\ c < Len(values) => ~TooOld(values[c + 1][2], now)
<1> DEFINE T == {k \in 0 .. Len(values) : \A i \in 1 .. k : TooOld(values[i][2], now)}
<1>1. Len(values) \in Nat /\ T \subseteq 0 .. Len(values) /\ c = Max(T)
  BY DEF Outdated
<1>2. 0 \in T
  BY <1>1
<1>3. c \in T /\ \A y \in T : y <= c
  <2> HIDE DEF T
  <2> QED BY <1>1, <1>2, GreatestNat
<1>4. ASSUME c < Len(values), TooOld(values[c + 1][2], now) PROVE c + 1 \in T
  <2>0. c \in 0 .. Len(values)
    BY <1>3
  <2>1. c + 1 \in 0 .. Len(values) /\ \A i \in 1 .. c + 1 : i \in 1 .. c \/ i = c + 1
    <3> HIDE DEF T
    <3>1. c \in Nat /\ c < Len(values)
      BY <1>1, <1>4, <2>0
    <3>2. c + 1 \in 0 .. Len(values)
      BY <1>1, <3>1
    <3> QED BY <3>1, <3>2
  <2>2. \A i \in 1 .. c : TooOld(values[i][2], now)
    BY <1>3
  <2>3. \A i \in 1 .. c + 1 : TooOld(values[i][2], now)
    BY <1>4, <2>1, <2>2
  <2> QED BY <2>1, <2>3
<1>5. c + 1 \in T => FALSE
  <2>1. c \in Int
    BY <1>1, <1>3
  <2> HIDE DEF T
  <2> QED BY <1>3, <2>1
<1>6. c \in 0 .. Len(values) /\ \A i \in 1 .. c : TooOld(values[i][2], now)
  BY <1>3
<1> QED BY <1>4, <1>5, <1>6

(* The ticks processed so far: thread_number and the time, which grows. *)
IsLog(log) == log \in Seq(Int \X Int) /\ \A i, j \in 1 .. Len(log) : i < j => log[i][2] < log[j][2]
Value(log, i) == IF i = 0 THEN 0 ELSE log[i][1]

(* The last tick before the interval that ends now. *)
Base(log, now, b) ==
    b \in 0 .. Len(log) /\ \A i \in 1 .. Len(log) : TooOld(log[i][2], now) <=> i <= b

(* There is such a tick, or none. *)
LEMMA BaseIs ==
    ASSUME NEW log, IsLog(log), NEW now \in Int PROVE \E b : Base(log, now, b)
<1> DEFINE T == {0} \union {i \in 1 .. Len(log) : TooOld(log[i][2], now)}
<1>1. Len(log) \in Nat /\ T \subseteq 0 .. Len(log) /\ 0 \in T
  BY DEF IsLog
<1>2. Max(T) \in T /\ \A y \in T : y <= Max(T)
  <2> HIDE DEF T
  <2> QED BY <1>1, GreatestNat
<1>3. PICK b \in T : \A y \in T : y <= b
  BY <1>2
<1>4. ASSUME NEW i \in 1 .. Len(log), TooOld(log[i][2], now) PROVE i <= b
  BY <1>3, <1>4
<1>5. ASSUME NEW i \in 1 .. Len(log), i <= b PROVE TooOld(log[i][2], now)
  <2>1. b \in 1 .. Len(log) /\ TooOld(log[b][2], now)
    BY <1>1, <1>3, <1>5
  <2>2. i = b \/ log[i][2] < log[b][2]
    BY <1>5, <2>1 DEF IsLog
  <2>3. log[i][2] \in Int /\ log[b][2] \in Int /\ SzigInterval \in Int
    BY <1>5, <2>1, SzigConstants DEF IsLog
  <2> QED BY <2>1, <2>2, <2>3 DEF TooOld
<1>6. b \in 0 .. Len(log)
  BY <1>1, <1>3
<1> QED BY <1>4, <1>5, <1>6 DEF Base

(* The values in the queue are the differences at the ticks m(1), m(2), ...  *)
(* of the interval; between them nothing changed.                            *)
RateAt(a, log, b, m) ==
    /\ a.values \in Seq(Int \X Int) /\ b \in 0 .. Len(log) /\ m \in [1 .. Len(a.values) -> b + 1 .. Len(log)]
    /\ \A j, k \in 1 .. Len(a.values) : j < k => m[j] < m[k]
    /\ \A k \in 1 .. Len(a.values) : a.values[k] = <<Value(log, m[k]) - Value(log, m[k] - 1), log[m[k]][2]>>
    /\ \A i, j \in b .. Len(log) :
          i <= j /\ (\A k \in 1 .. Len(a.values) : ~(i < m[k] /\ m[k] <= j)) => Value(log, i) = Value(log, j)
    /\ a.sum = Value(log, Len(log)) - Value(log, b)
    /\ a.last = Value(log, Len(log))

(* The values of the log are numbers. *)
LEMMA ValueInt ==
    ASSUME NEW log, IsLog(log), NEW i \in 0 .. Len(log) PROVE Value(log, i) \in Int
<1>1. CASE i = 0
  BY <1>1 DEF Value
<1>2. CASE i # 0
  <2>1. i \in 1 .. Len(log) /\ log[i] \in Int \X Int
    BY <1>2 DEF IsLog
  <2> QED BY <1>2, <2>1 DEF Value
<1> QED BY <1>1, <1>2

(* The first values of the queue add up to the change since the interval     *)
(* began.                                                                    *)
LEMMA FirstValues ==
    ASSUME NEW a, NEW log, IsLog(log), NEW b, NEW m, RateAt(a, log, b, m)
    PROVE  /\ SumOf(a.values)[0] = 0
           /\ \A k \in 1 .. Len(a.values) : SumOf(a.values)[k] = Value(log, m[k]) - Value(log, b)
<1> DEFINE v == a.values  p == Len(v)  sum == SumOf(v)
           S == {k \in Nat : k \in 1 .. p => sum[k] = Value(log, m[k]) - Value(log, b)}
<1>1. v \in Seq(Int \X Int) /\ p \in Nat /\ Len(log) \in Nat /\ b \in 0 .. Len(log)
  BY DEF RateAt, IsLog
<1>2. sum[0] = 0 /\ \A k \in 1 .. p : sum[k] = sum[k - 1] + v[k][1]
  BY <1>1, SumOfIs
<1>3. \A k \in 1 .. p : m[k] \in b + 1 .. Len(log) /\ v[k][1] = Value(log, m[k]) - Value(log, m[k] - 1)
  <2>1. m \in [1 .. p -> b + 1 .. Len(log)]
    BY DEF RateAt
  <2>2. \A k \in 1 .. p : v[k] = <<Value(log, m[k]) - Value(log, m[k] - 1), log[m[k]][2]>>
    BY DEF RateAt
  <2> QED BY <2>1, <2>2
<1>4. \A k \in 1 .. p : Value(log, m[k]) \in Int /\ Value(log, m[k] - 1) \in Int
  <2> SUFFICES ASSUME NEW k \in 1 .. p PROVE Value(log, m[k]) \in Int /\ Value(log, m[k] - 1) \in Int
    OBVIOUS
  <2>1. m[k] \in 0 .. Len(log) /\ m[k] - 1 \in 0 .. Len(log)
    BY <1>1, <1>3
  <2> QED BY <2>1, ValueInt
<1>5. Value(log, b) \in Int
  BY <1>1, ValueInt
<1>6. \A j, k \in 1 .. p : j < k => m[j] < m[k]
  BY DEF RateAt
<1>7. \A i, j \in b .. Len(log) :
          i <= j /\ (\A k \in 1 .. p : ~(i < m[k] /\ m[k] <= j)) => Value(log, i) = Value(log, j)
  BY DEF RateAt
<1> HIDE DEF v, p, sum
<1>8. ASSUME NEW k \in Nat, k \in S PROVE k + 1 \in S
  <2> SUFFICES ASSUME k + 1 \in 1 .. p PROVE sum[k + 1] = Value(log, m[k + 1]) - Value(log, b)
    OBVIOUS
  <2>1. sum[k + 1] = sum[k] + (Value(log, m[k + 1]) - Value(log, m[k + 1] - 1))
    BY <1>2, <1>3
  <2>2. CASE k = 0
    <3>1. m[1] - 1 \in b .. Len(log) /\ b \in b .. Len(log) /\ b <= m[1] - 1
      BY <1>1, <1>3, <2>2
    <3>2. \A l \in 1 .. p : ~(b < m[l] /\ m[l] <= m[1] - 1)
      <4> SUFFICES ASSUME NEW l \in 1 .. p PROVE ~(m[l] <= m[1] - 1)
        OBVIOUS
      <4>1. l = 1 \/ m[1] < m[l]
        BY <1>1, <1>6, <2>2
      <4>2. m[l] \in Int /\ m[1] \in Int
        BY <1>1, <1>3, <2>2
      <4> QED BY <4>1, <4>2
    <3>3. Value(log, b) = Value(log, m[1] - 1)
      BY <1>7, <3>1, <3>2
    <3> QED BY <1>2, <1>4, <1>5, <2>1, <2>2, <3>3
  <2>3. CASE k # 0
    <3>0. k \in 1 .. p /\ k < k + 1
      BY <1>1, <2>3
    <3>1. m[k] < m[k + 1] /\ m[k] \in b + 1 .. Len(log) /\ m[k + 1] \in b + 1 .. Len(log)
      BY <1>3, <1>6, <3>0
    <3>2. m[k] \in b .. Len(log) /\ m[k + 1] - 1 \in b .. Len(log) /\ m[k] <= m[k + 1] - 1
      BY <1>1, <3>1
    <3>3. \A l \in 1 .. p : ~(m[k] < m[l] /\ m[l] <= m[k + 1] - 1)
      <4> SUFFICES ASSUME NEW l \in 1 .. p, m[k] < m[l], m[l] <= m[k + 1] - 1 PROVE FALSE
        OBVIOUS
      <4>1. m[l] \in Int /\ m[k] \in Int /\ m[k + 1] \in Int
        BY <1>1, <1>3, <3>0
      <4>2. ~(l < k) /\ l # k
        BY <1>6, <3>0, <4>1
      <4>3. ~(k + 1 < l) /\ l # k + 1
        BY <1>6, <4>1
      <4> QED BY <4>2, <4>3
    <3>4. Value(log, m[k]) = Value(log, m[k + 1] - 1)
      BY <1>7, <3>2, <3>3
    <3>5. sum[k] = Value(log, m[k]) - Value(log, b)
      BY <1>8, <3>0
    <3> QED BY <1>4, <1>5, <2>1, <3>0, <3>4, <3>5
  <2> QED BY <2>2, <2>3
<1>9. 0 \in S
  OBVIOUS
<1>10. Nat \subseteq S
  <2> HIDE DEF S
  <2> QED BY <1>8, <1>9, SetInduction
<1> QED BY <1>1, <1>2, <1>10 DEF v, p, sum

(* The log grows by a tick. *)
Grows(log, log2, x, now) ==
    /\ log2 \in Seq(Int \X Int) /\ Len(log2) = Len(log) + 1 /\ Len(log) \in Nat
    /\ log2[Len(log) + 1] = <<x, now>> /\ \A i \in 1 .. Len(log) : log2[i] = log[i]

(* The tick that is appended. *)
LEMMA LogGrows ==
    ASSUME NEW log, IsLog(log), NEW x \in Int, NEW now \in Int PROVE Grows(log, Append(log, <<x, now>>), x, now)
BY DEF IsLog, Grows

(* The longer log is one, and agrees with the shorter. *)
LEMMA LongerLog ==
    ASSUME NEW log, IsLog(log), NEW x \in Int, NEW now \in Int, \A i \in 1 .. Len(log) : log[i][2] < now,
           NEW log2, Grows(log, log2, x, now)
    PROVE  /\ IsLog(log2) /\ \A i \in 0 .. Len(log) : Value(log2, i) = Value(log, i)
           /\ Value(log2, Len(log) + 1) = x
<1>1. /\ log2 \in Seq(Int \X Int) /\ Len(log2) = Len(log) + 1 /\ Len(log) \in Nat
      /\ log2[Len(log) + 1] = <<x, now>> /\ \A i \in 1 .. Len(log) : log2[i] = log[i]
  BY DEF Grows
<1>2. IsLog(log2)
  <2> SUFFICES ASSUME NEW i \in 1 .. Len(log2), NEW j \in 1 .. Len(log2), i < j PROVE log2[i][2] < log2[j][2]
    BY <1>1 DEF IsLog
  <2>1. i \in 1 .. Len(log) /\ (j \in 1 .. Len(log) \/ j = Len(log) + 1)
    <3>1. Len(log2) = Len(log) + 1 /\ Len(log) \in Nat
      BY <1>1
    <3> QED BY <3>1
  <2>2. CASE j \in 1 .. Len(log)
    BY <1>1, <2>1, <2>2 DEF IsLog
  <2>3. CASE j = Len(log) + 1
    <3>1. log2[j][2] = now /\ log2[i] = log[i]
      BY <1>1, <2>1, <2>3
    <3> QED BY <2>1, <3>1
  <2> QED BY <2>1, <2>2, <2>3
<1>3. ASSUME NEW i \in 0 .. Len(log) PROVE Value(log2, i) = Value(log, i)
  <2>1. CASE i = 0
    BY <2>1 DEF Value
  <2>2. CASE i # 0
    <3>1. i \in 1 .. Len(log)
      BY <2>2
    <3>2. log2[i] = log[i]
      BY <3>1 DEF Grows
    <3> QED BY <3>2 DEF Value
  <2> QED BY <2>1, <2>2
<1>4. Value(log2, Len(log) + 1) = x
  <2>1. Len(log) + 1 # 0
    <3>1. Len(log) \in Nat
      BY <1>1
    <3> QED BY <3>1
  <2>2. log2[Len(log) + 1][1] = x
    BY <1>1
  <2> QED BY <2>1, <2>2 DEF Value
<1> QED BY <1>2, <1>3, <1>4

(* A list without its first c elements. *)
LEMMA WithoutFirst ==
    ASSUME NEW q \in Seq(Int \X Int), NEW c \in 0 .. Len(q)
    PROVE  /\ SubSeq(q, c + 1, Len(q)) \in Seq(Int \X Int) /\ Len(SubSeq(q, c + 1, Len(q))) = Len(q) - c
           /\ \A k \in 1 .. Len(q) - c : SubSeq(q, c + 1, Len(q))[k] = q[c + k]
<1>1. Len(q) \in Nat /\ c + 1 \in 1 .. Len(q) + 1
  OBVIOUS
<1>2. Len(SubSeq(q, c + 1, Len(q))) = Len(q) - c
  BY <1>1, SMTT(60)
<1>3. ASSUME NEW k \in 1 .. Len(q) - c PROVE SubSeq(q, c + 1, Len(q))[k] = q[c + k]
  BY <1>1, SMTT(60)
<1>4. SubSeq(q, c + 1, Len(q)) \in Seq(Int \X Int)
  BY <1>1, SMTT(60)
<1> QED BY <1>2, <1>3, <1>4

(* z_szig_agr_average_rate at a tick: the sum is again the change since the  *)
(* interval began.                                                           *)
LEMMA RateStep ==
    ASSUME NEW a, NEW log, IsLog(log), NEW b, NEW m, RateAt(a, log, b, m),
           NEW x \in Int, NEW now \in Int, \A i \in 1 .. Len(log) : log[i][2] < now,
           NEW log2, Grows(log, log2, x, now), NEW a2, a2 = AgrAverageRate(a, x, now),
           NEW b2, Base(log2, now, b2), b <= b2
    PROVE  \E m2 : RateAt(a2, log2, b2, m2)
<1> DEFINE v == a.values  p == Len(v)  n == Len(log)  c == Outdated(v, now)  kept == SubSeq(v, c + 1, p)
           left == IF kept = <<>> THEN 0 ELSE a.sum - SumOf(v)[c]
<1>1. v \in Seq(Int \X Int) /\ p \in Nat /\ n \in Nat /\ b \in 0 .. n
  BY DEF RateAt, IsLog
<1>2. c \in 0 .. p /\ (\A i \in 1 .. c : TooOld(v[i][2], now)) /\ (c < p => ~TooOld(v[c + 1][2], now))
  BY <1>1, OutdatedIs
<1>3. /\ IsLog(log2) /\ Len(log2) = n + 1 /\ log2[n + 1] = <<x, now>> /\ \A i \in 1 .. n : log2[i] = log[i]
      /\ \A i \in 0 .. n : Value(log2, i) = Value(log, i)
      /\ Value(log2, n + 1) = x
  <2>1. Len(log2) = n + 1 /\ log2[n + 1] = <<x, now>> /\ \A i \in 1 .. n : log2[i] = log[i]
    BY DEF Grows
  <2>2. IsLog(log2)
    BY LongerLog
  <2>3. (\A i \in 0 .. n : Value(log2, i) = Value(log, i)) /\ Value(log2, n + 1) = x
    <3> HIDE DEF v, p, c, kept, left
    <3>1. Value(log2, Len(log) + 1) = x
      BY LongerLog
    <3>2. ASSUME NEW i \in 0 .. Len(log) PROVE Value(log2, i) = Value(log, i)
      BY LongerLog
    <3> QED BY <3>1, <3>2
  <2> QED BY <2>1, <2>2, <2>3
<1>4. kept \in Seq(Int \X Int) /\ Len(kept) = p - c /\ \A k \in 1 .. p - c : kept[k] = v[c + k]
  BY <1>1, <1>2, WithoutFirst
<1>5. /\ a2.last = x /\ a2.values = IF x - a.last # 0 THEN Append(kept, <<x - a.last, now>>) ELSE kept
      /\ a2.sum = left + (x - a.last)
  BY DEF AgrAverageRate
<1>6. /\ \A j, k \in 1 .. p : j < k => m[j] < m[k]
      /\ \A k \in 1 .. p : m[k] \in b + 1 .. n
      /\ \A k \in 1 .. p : v[k] = <<Value(log, m[k]) - Value(log, m[k] - 1), log[m[k]][2]>>
  BY DEF RateAt
<1>7. \A i, j \in b .. n : i <= j /\ (\A k \in 1 .. p : ~(i < m[k] /\ m[k] <= j)) => Value(log, i) = Value(log, j)
  BY DEF RateAt
<1>8. a.sum = Value(log, n) - Value(log, b) /\ a.last = Value(log, n)
  BY DEF RateAt
<1>9. SumOf(v)[0] = 0 /\ \A k \in 1 .. p : SumOf(v)[k] = Value(log, m[k]) - Value(log, b)
  BY FirstValues
<1>10. b2 \in 0 .. n
  <2>1. b2 \in 0 .. n + 1 /\ (TooOld(log2[n + 1][2], now) <=> n + 1 <= b2)
    <3>1. n + 1 \in 1 .. n + 1
      BY <1>1
    <3>2. Len(log2) = n + 1
      BY <1>3
    <3>3. b2 \in 0 .. Len(log2) /\ \A i \in 1 .. Len(log2) : TooOld(log2[i][2], now) <=> i <= b2
      BY DEF Base
    <3> QED BY <3>1, <3>2, <3>3
  <2>2. ~TooOld(log2[n + 1][2], now)
    BY <1>3, SzigConstants DEF TooOld
  <2> QED BY <1>1, <2>1, <2>2
<1>11. \A i \in 1 .. n : TooOld(log[i][2], now) <=> i <= b2
  BY <1>1, <1>3 DEF Base
<1> HIDE DEF v, p, n, c, kept, left
<1>12. \A k \in 1 .. p : k <= c <=> m[k] <= b2
  <2> SUFFICES ASSUME NEW k \in 1 .. p PROVE k <= c <=> m[k] <= b2
    OBVIOUS
  <2>1. m[k] \in 1 .. n /\ v[k][2] = log[m[k]][2]
    BY <1>1, <1>6
  <2>2. CASE k <= c
    BY <1>2, <1>11, <2>1, <2>2
  <2>3. CASE c < k
    <3>1. c + 1 \in 1 .. p /\ (c + 1 = k \/ m[c + 1] < m[k])
      BY <1>1, <1>2, <1>6, <2>3
    <3>2. m[c + 1] \in 1 .. n /\ v[c + 1][2] = log[m[c + 1]][2]
      <4>1. m[c + 1] \in b + 1 .. n
        BY <1>6, <3>1
      <4>2. v[c + 1] = <<Value(log, m[c + 1]) - Value(log, m[c + 1] - 1), log[m[c + 1]][2]>>
        BY <1>6, <3>1
      <4> QED BY <1>1, <4>1, <4>2
    <3>3. ~TooOld(log[m[c + 1]][2], now)
      BY <1>1, <1>2, <3>1, <3>2
    <3>4. b2 < m[c + 1]
      BY <1>1, <1>10, <1>11, <3>2, <3>3
    <3> QED BY <1>1, <1>2, <1>10, <2>1, <2>3, <3>1, <3>2, <3>4
  <2> QED BY <1>1, <1>2, <2>2, <2>3
<1>13. \A i \in 0 .. n : Value(log, i) \in Int
  BY ValueInt DEF n
<1>14. SumOf(v)[c] = Value(log, b2) - Value(log, b)
  <2>1. CASE c = 0
    <3>1. \A k \in 1 .. p : ~(b < m[k] /\ m[k] <= b2)
      BY <1>1, <1>12, <2>1
    <3>2. Value(log, b) = Value(log, b2)
      BY <1>1, <1>7, <1>10, <3>1
    <3> QED BY <1>1, <1>9, <1>10, <1>13, <2>1, <3>2
  <2>2. CASE c # 0
    <3>1. c \in 1 .. p /\ m[c] <= b2 /\ m[c] \in b + 1 .. n
      BY <1>1, <1>2, <1>6, <1>12, <2>2, SMTT(60)
    <3>2. \A k \in 1 .. p : ~(m[c] < m[k] /\ m[k] <= b2)
      <4> SUFFICES ASSUME NEW k \in 1 .. p, m[c] < m[k], m[k] <= b2 PROVE FALSE
        OBVIOUS
      <4>1. k <= c /\ k # c
        BY <1>12, <3>1
      <4>2. m[k] < m[c] /\ m[k] \in Int /\ m[c] \in Int
        BY <1>1, <1>6, <3>1, <4>1
      <4> QED BY <4>2
    <3>3. m[c] \in b .. n /\ b2 \in b .. n
      BY <1>1, <1>10, <3>1
    <3>4. Value(log, m[c]) = Value(log, b2)
      BY <1>7, <3>1, <3>2, <3>3
    <3> QED BY <1>9, <3>1, <3>4
  <2> QED BY <2>1, <2>2
<1>15. left = Value(log, n) - Value(log, b2)
  <2>0. Value(log, n) \in Int /\ Value(log, b) \in Int /\ Value(log, b2) \in Int
    BY <1>1, <1>10, <1>13
  <2>1. CASE kept = <<>>
    <3>1. c = p
      BY <1>1, <1>2, <1>4, <2>1
    <3>2. \A k \in 1 .. p : ~(b2 < m[k] /\ m[k] <= n)
      BY <1>1, <1>6, <1>10, <1>12, <3>1
    <3>3. Value(log, b2) = Value(log, n)
      BY <1>1, <1>7, <1>10, <3>2
    <3> QED BY <2>0, <2>1, <3>3 DEF left
  <2>2. CASE kept # <<>>
    BY <1>8, <1>14, <2>0, <2>2 DEF left
  <2> QED BY <2>1, <2>2
<1>16. a2.sum = Value(log2, n + 1) - Value(log2, b2) /\ a2.last = Value(log2, n + 1)
  <2>1. Value(log, n) \in Int /\ Value(log, b2) \in Int /\ Value(log2, b2) = Value(log, b2)
    BY <1>1, <1>3, <1>10, <1>13, SMTT(60)
  <2> QED BY <1>3, <1>5, <1>8, <1>15, <2>1
<1>17. \A k \in 1 .. p - c : /\ c + k \in 1 .. p /\ m[c + k] \in b2 + 1 .. n
                             /\ kept[k] = <<Value(log2, m[c + k]) - Value(log2, m[c + k] - 1), log2[m[c + k]][2]>>
  <2> SUFFICES ASSUME NEW k \in 1 .. p - c
               PROVE  /\ c + k \in 1 .. p /\ m[c + k] \in b2 + 1 .. n
                      /\ kept[k] = <<Value(log2, m[c + k]) - Value(log2, m[c + k] - 1), log2[m[c + k]][2]>>
    OBVIOUS
  <2>1. c + k \in 1 .. p /\ ~(c + k <= c)
    BY <1>1, <1>2
  <2>2. m[c + k] \in b2 + 1 .. n
    BY <1>1, <1>6, <1>10, <1>12, <2>1
  <2>3. m[c + k] \in 1 .. n /\ m[c + k] \in 0 .. n /\ m[c + k] - 1 \in 0 .. n
    BY <1>1, <1>10, <2>2
  <2>4. kept[k] = <<Value(log, m[c + k]) - Value(log, m[c + k] - 1), log[m[c + k]][2]>>
    BY <1>4, <1>6, <2>1
  <2>5. Value(log2, m[c + k]) = Value(log, m[c + k]) /\ Value(log2, m[c + k] - 1) = Value(log, m[c + k] - 1)
        /\ log2[m[c + k]] = log[m[c + k]]
    BY <1>3, <2>3
  <2> QED BY <2>1, <2>2, <2>4, <2>5
<1>18. \A i, j \in b2 .. n : i <= j /\ (\A k \in 1 .. p - c : ~(i < m[c + k] /\ m[c + k] <= j))
                              => Value(log2, i) = Value(log2, j)
  <2> SUFFICES ASSUME NEW i \in b2 .. n, NEW j \in b2 .. n, i <= j, \A k \in 1 .. p - c : ~(i < m[c + k] /\ m[c + k] <= j)
               PROVE  Value(log2, i) = Value(log2, j)
    OBVIOUS
  <2>1. ASSUME NEW k \in 1 .. p PROVE ~(i < m[k] /\ m[k] <= j)
    <3>1. CASE k <= c
      BY <1>1, <1>6, <1>10, <1>12, <2>1, <3>1
    <3>2. CASE ~(k <= c)
      <4>1. k - c \in 1 .. p - c /\ c + (k - c) = k
        BY <1>1, <1>2, <3>2
      <4> QED BY <4>1
    <3> QED BY <3>1, <3>2
  <2>2. i \in b .. n /\ j \in b .. n /\ i \in 0 .. n /\ j \in 0 .. n
    BY <1>1, <1>10
  <2> QED BY <1>3, <1>7, <2>1, <2>2
<1>19. \A j, k \in 1 .. p - c : j < k => m[c + j] < m[c + k]
  BY <1>1, <1>2, <1>6, <1>17
<1>20. CASE x - a.last = 0
  <2> DEFINE m2 == [k \in 1 .. p - c |-> m[c + k]]
  <2>1. a2.values = kept
    BY <1>5, <1>20
  <2>2. m2 \in [1 .. p - c -> b2 + 1 .. n + 1]
    BY <1>1, <1>10, <1>17
  <2>3. \A j, k \in 1 .. p - c : j < k => m2[j] < m2[k]
    BY <1>19
  <2>4. \A k \in 1 .. p - c : kept[k] = <<Value(log2, m2[k]) - Value(log2, m2[k] - 1), log2[m2[k]][2]>>
    BY <1>17
  <2>5. Value(log2, n + 1) = Value(log2, n)
    <3>1. n \in 0 .. n /\ Value(log, n) \in Int
      BY <1>1, <1>13
    <3>2. x = Value(log, n)
      BY <1>8, <1>20, <3>1
    <3> QED BY <1>3, <3>1, <3>2
  <2>6. ASSUME NEW i \in b2 .. n + 1, NEW j \in b2 .. n + 1, i <= j, \A k \in 1 .. p - c : ~(i < m2[k] /\ m2[k] <= j)
        PROVE  Value(log2, i) = Value(log2, j)
    <3>0. \A k \in 1 .. p - c : ~(i < m[c + k] /\ m[c + k] <= j)
      BY <2>6
    <3>1. CASE j \in b2 .. n
      <4>1. i \in b2 .. n
        BY <1>1, <1>10, <2>6, <3>1
      <4> QED BY <1>18, <2>6, <3>0, <3>1, <4>1
    <3>2. CASE j = n + 1 /\ i = n + 1
      BY <3>2
    <3>3. CASE j = n + 1 /\ i \in b2 .. n
      <4>1. n \in b2 .. n /\ i <= n
        BY <1>1, <1>10, <3>3
      <4>2. \A k \in 1 .. p - c : ~(i < m[c + k] /\ m[c + k] <= n)
        BY <1>1, <1>10, <1>17, <3>0, <3>3
      <4>3. Value(log2, i) = Value(log2, n)
        BY <1>18, <3>3, <4>1, <4>2
      <4> QED BY <2>5, <3>3, <4>3
    <3> QED BY <1>1, <1>10, <3>1, <3>2, <3>3
  <2> HIDE DEF m2
  <2>7. b2 \in 0 .. n + 1
    BY <1>1, <1>10
  <2>8. RateAt(a2, log2, b2, m2)
    BY <1>3, <1>4, <1>16, <2>1, <2>2, <2>3, <2>4, <2>6, <2>7 DEF RateAt
  <2> QED BY <2>8
<1>21. CASE x - a.last # 0
  <2> DEFINE r == p - c  m2 == [k \in 1 .. r + 1 |-> IF k = r + 1 THEN n + 1 ELSE m[c + k]]
  <2>0. r \in Nat /\ x - a.last \in Int /\ x - a.last = Value(log2, n + 1) - Value(log2, n)
    <3>1. n \in 0 .. n /\ Value(log, n) \in Int
      BY <1>1, <1>13
    <3> QED BY <1>1, <1>2, <1>3, <1>8, <3>1, SMTT(60)
  <2>1. a2.values = Append(kept, <<x - a.last, now>>) /\ <<x - a.last, now>> \in Int \X Int
    BY <1>5, <1>21, <2>0
  <2>2. /\ a2.values \in Seq(Int \X Int) /\ Len(a2.values) = r + 1 /\ a2.values[r + 1] = <<x - a.last, now>>
        /\ \A k \in 1 .. r : a2.values[k] = kept[k]
    BY <1>4, <2>0, <2>1
  <2>3. (\A k \in 1 .. r : m2[k] = m[c + k]) /\ m2[r + 1] = n + 1 /\ \A k \in 1 .. r + 1 : k \in 1 .. r \/ k = r + 1
    BY <2>0
  <2>4. m2 \in [1 .. r + 1 -> b2 + 1 .. n + 1]
    <3>1. \A k \in 1 .. r : m[c + k] \in b2 + 1 .. n + 1
      BY <1>1, <1>10, <1>17
    <3>2. n + 1 \in b2 + 1 .. n + 1
      BY <1>1, <1>10
    <3> HIDE DEF r
    <3> QED BY <2>3, <3>1, <3>2
  <2> HIDE DEF m2
  <2>5. \A j, k \in 1 .. r + 1 : j < k => m2[j] < m2[k]
    <3> SUFFICES ASSUME NEW j \in 1 .. r + 1, NEW k \in 1 .. r + 1, j < k PROVE m2[j] < m2[k]
      OBVIOUS
    <3>1. j \in 1 .. r
      BY <2>0
    <3>2. CASE k \in 1 .. r
      BY <1>19, <2>3, <3>1, <3>2 DEF r
    <3>3. CASE k = r + 1
      <4>1. m2[j] \in b2 + 1 .. n
        BY <1>17, <2>3, <3>1 DEF r
      <4> QED BY <1>1, <1>10, <2>3, <3>3, <4>1
    <3> QED BY <2>3, <3>2, <3>3
  <2>6. \A k \in 1 .. r + 1 : a2.values[k] = <<Value(log2, m2[k]) - Value(log2, m2[k] - 1), log2[m2[k]][2]>>
    <3> SUFFICES ASSUME NEW k \in 1 .. r + 1
                 PROVE  a2.values[k] = <<Value(log2, m2[k]) - Value(log2, m2[k] - 1), log2[m2[k]][2]>>
      OBVIOUS
    <3>1. CASE k \in 1 .. r
      BY <1>17, <2>2, <2>3, <3>1 DEF r
    <3>2. CASE k = r + 1
      <4>1. m2[k] = n + 1 /\ m2[k] - 1 = n /\ log2[m2[k]][2] = now
        <5>1. m2[k] = n + 1 /\ log2[n + 1] = <<x, now>>
          BY <1>3, <2>3, <3>2
        <5> QED BY <1>1, <5>1
      <4> QED BY <2>0, <2>2, <3>2, <4>1
    <3> QED BY <2>3, <3>1, <3>2
  <2>7. ASSUME NEW i \in b2 .. n + 1, NEW j \in b2 .. n + 1, i <= j, \A k \in 1 .. r + 1 : ~(i < m2[k] /\ m2[k] <= j)
        PROVE  Value(log2, i) = Value(log2, j)
    <3>1. CASE j \in b2 .. n
      <4>1. i \in b2 .. n
        BY <1>1, <1>10, <2>7, <3>1
      <4>2. \A k \in 1 .. r : ~(i < m[c + k] /\ m[c + k] <= j)
        BY <2>0, <2>3, <2>7
      <4> QED BY <1>18, <2>7, <3>1, <4>1, <4>2 DEF r
    <3>2. CASE j = n + 1 /\ i = n + 1
      BY <3>2
    <3>3. CASE j = n + 1 /\ i \in b2 .. n
      <4>1. r + 1 \in 1 .. r + 1 /\ i < n + 1 /\ m2[r + 1] = n + 1
        BY <1>1, <1>10, <2>0, <2>3, <3>3
      <4> QED BY <1>1, <2>7, <3>3, <4>1
    <3> QED BY <1>1, <1>10, <3>1, <3>2, <3>3
  <2>8. b2 \in 0 .. n + 1
    BY <1>1, <1>10
  <2> HIDE DEF r
  <2>9. RateAt(a2, log2, b2, m2)
    BY <1>3, <1>16, <2>2, <2>4, <2>5, <2>6, <2>7, <2>8 DEF RateAt
  <2> QED BY <2>9
<1> QED BY <1>20, <1>21

-----------------------------------------------------------------------------
(* The queue of events, from which the SZIG thread takes the head. *)
IsQueue(q) == \E S : q \in Seq(S)
About(e, ev, x) == e.ev = ev /\ e.id = x
Held(q, ev) == {i \in 1 .. Len(q) : q[i].ev = ev}
HowMany(q, ev) == Cardinality(Held(q, ev))

Pushed(q, e, r) ==
    /\ IsQueue(r) /\ Len(q) \in Nat /\ Len(r) = Len(q) + 1
    /\ r[Len(q) + 1] = e /\ \A i \in 1 .. Len(q) : r[i] = q[i]
Popped(q, r) ==
    /\ IsQueue(r) /\ Len(q) \in Nat /\ Len(q) >= 1 /\ Len(r) = Len(q) - 1
    /\ Head(q) = q[1] /\ \A i \in 1 .. Len(r) : r[i] = q[i + 1]

(* g_async_queue_push. *)
LEMMA QueuePush ==
    ASSUME NEW q, IsQueue(q), NEW e PROVE Pushed(q, e, Append(q, e))
<1> DEFINE r == Append(q, e)
<1> PICK S : q \in Seq(S)
  BY DEF IsQueue
<1>1. q \in Seq(S \union {e}) /\ e \in S \union {e}
  OBVIOUS
<1>2. r \in Seq(S \union {e})
  BY <1>1
<1>3. IsQueue(r)
  BY <1>2 DEF IsQueue
<1>4. Len(q) \in Nat /\ Len(r) = Len(q) + 1 /\ r[Len(q) + 1] = e /\ \A i \in 1 .. Len(q) : r[i] = q[i]
  BY <1>1
<1> QED BY <1>3, <1>4 DEF Pushed

(* g_async_queue_pop. *)
LEMMA QueuePop ==
    ASSUME NEW q, IsQueue(q), q # <<>> PROVE Popped(q, Tail(q))
<1> DEFINE r == Tail(q)
<1> PICK S : q \in Seq(S)
  BY DEF IsQueue
<1>1. r \in Seq(S) /\ Len(q) \in Nat /\ Len(q) >= 1 /\ Len(r) = Len(q) - 1
  OBVIOUS
<1>2. IsQueue(r)
  BY <1>1 DEF IsQueue
<1>3. Head(q) = q[1] /\ \A i \in 1 .. Len(r) : r[i] = q[i + 1]
  BY <1>1
<1> QED BY <1>1, <1>2, <1>3 DEF Popped

(* The events of a kind are finitely many. *)
LEMMA HeldFinite ==
    ASSUME NEW q, IsQueue(q), NEW ev PROVE IsFiniteSet(Held(q, ev)) /\ HowMany(q, ev) \in Nat
<1>1. Len(q) \in Nat
  BY DEF IsQueue
<1>2. IsFiniteSet(1 .. Len(q)) /\ Held(q, ev) \subseteq 1 .. Len(q)
  BY <1>1, FS_Interval DEF Held
<1>3. IsFiniteSet(Held(q, ev))
  BY <1>2, FS_Subset
<1> QED BY <1>3, FS_CardinalityType DEF HowMany

(* How many events of a kind wait, after a push and after a pop. *)
LEMMA CountPush ==
    ASSUME NEW q, IsQueue(q), NEW e, NEW r, Pushed(q, e, r), NEW ev
    PROVE  HowMany(r, ev) = HowMany(q, ev) + (IF e.ev = ev THEN 1 ELSE 0)
<1>1. /\ Len(q) \in Nat /\ Len(r) = Len(q) + 1 /\ r[Len(q) + 1] = e /\ \A i \in 1 .. Len(q) : r[i] = q[i]
  BY DEF Pushed
<1>2. IsFiniteSet(Held(q, ev)) /\ HowMany(q, ev) \in Nat
  BY HeldFinite
<1>3. Held(r, ev) = IF e.ev = ev THEN Held(q, ev) \union {Len(q) + 1} ELSE Held(q, ev)
  <2>1. \A i : i \in 1 .. Len(r) <=> i \in 1 .. Len(q) \/ i = Len(q) + 1
    BY <1>1
  <2> QED BY <1>1, <2>1 DEF Held
<1>4. Len(q) + 1 \notin Held(q, ev)
  BY <1>1 DEF Held
<1>5. CASE e.ev = ev
  BY <1>2, <1>3, <1>4, <1>5, FS_AddElement DEF HowMany
<1>6. CASE e.ev # ev
  BY <1>2, <1>3, <1>6 DEF HowMany
<1> QED BY <1>5, <1>6

(* The event that is popped is counted no more. *)
LEMMA CountPop ==
    ASSUME NEW q, IsQueue(q), NEW r, Popped(q, r), NEW ev
    PROVE  HowMany(q, ev) = HowMany(r, ev) + (IF q[1].ev = ev THEN 1 ELSE 0)
<1>1. /\ IsQueue(r) /\ Len(q) \in Nat /\ Len(q) >= 1 /\ Len(r) = Len(q) - 1 /\ \A i \in 1 .. Len(r) : r[i] = q[i + 1]
  BY DEF Popped
<1> DEFINE H == Held(q, ev) \ {1}  f == [i \in Held(r, ev) |-> i + 1]
<1>2. IsFiniteSet(Held(q, ev)) /\ IsFiniteSet(Held(r, ev)) /\ HowMany(r, ev) \in Nat
  BY <1>1, HeldFinite
<1>3. f \in Bijection(Held(r, ev), H)
  <2>1. f \in [Held(r, ev) -> H]
    BY <1>1 DEF Held
  <2>2. \A i, j \in Held(r, ev) : i # j => f[i] # f[j]
    BY <1>1 DEF Held
  <2>3. \A k \in H : \E i \in Held(r, ev) : f[i] = k
    <3> SUFFICES ASSUME NEW k \in H PROVE \E i \in Held(r, ev) : f[i] = k
      OBVIOUS
    <3>1. k \in 1 .. Len(q) /\ k # 1 /\ q[k].ev = ev
      BY DEF Held
    <3>2. k - 1 \in 1 .. Len(r) /\ r[k - 1] = q[(k - 1) + 1] /\ (k - 1) + 1 = k
      BY <1>1, <3>1
    <3>3. k - 1 \in Held(r, ev) /\ f[k - 1] = k
      BY <3>1, <3>2 DEF Held
    <3> QED BY <3>3
  <2> HIDE DEF f, H
  <2>4. f \in Injection(Held(r, ev), H)
    BY <2>1, <2>2 DEF Injection, IsInjective
  <2>5. f \in Surjection(Held(r, ev), H)
    BY <2>1, <2>3 DEF Surjection
  <2> QED BY <2>4, <2>5 DEF Bijection
<1>4. Cardinality(H) = HowMany(r, ev)
  <2>1. ExistsBijection(Held(r, ev), H)
    BY <1>3 DEF ExistsBijection
  <2> HIDE DEF H
  <2> QED BY <1>2, <2>1, FS_Bijection DEF HowMany
<1>5. CASE q[1].ev = ev
  <2>1. 1 \in Held(q, ev)
    BY <1>1, <1>5 DEF Held
  <2>2. Cardinality(H) = Cardinality(Held(q, ev)) - 1 /\ Cardinality(Held(q, ev)) \in Nat
    BY <1>2, <2>1, FS_RemoveElement, FS_CardinalityType
  <2> HIDE DEF H
  <2> QED BY <1>2, <1>4, <1>5, <2>2 DEF HowMany
<1>6. CASE q[1].ev # ev
  <2>1. H = Held(q, ev)
    BY <1>6 DEF Held
  <2> HIDE DEF H
  <2> QED BY <1>2, <1>4, <1>6, <2>1 DEF HowMany
<1> QED BY <1>5, <1>6

(* Whether a session will be listed once the queue is drained. *)
WillList(q, C, x) ==
    \/ \E i \in 1 .. Len(q) : /\ About(q[i], "CONNECTION_PROPS", x)
                              /\ \A j \in i + 1 .. Len(q) : ~About(q[j], "CONNECTION_STOP", x)
    \/ x \in C /\ \A j \in 1 .. Len(q) : ~About(q[j], "CONNECTION_STOP", x)

(* A property of the session makes it listed, its end takes it off the list. *)
LEMMA ListPush ==
    ASSUME NEW q, IsQueue(q), NEW e, NEW r, Pushed(q, e, r), NEW C, NEW x
    PROVE  WillList(r, C, x) <=> About(e, "CONNECTION_PROPS", x) \/ (WillList(q, C, x) /\ ~About(e, "CONNECTION_STOP", x))
<1>1. /\ Len(q) \in Nat /\ Len(r) = Len(q) + 1 /\ r[Len(q) + 1] = e /\ \A i \in 1 .. Len(q) : r[i] = q[i]
  BY DEF Pushed
<1>2. \A i : i \in 1 .. Len(r) <=> i \in 1 .. Len(q) \/ i = Len(q) + 1
  BY <1>1
<1>3. \A i \in 1 .. Len(q) : \A j : j \in i + 1 .. Len(r) <=> j \in i + 1 .. Len(q) \/ j = Len(q) + 1
  BY <1>1
<1>4. \A i \in 1 .. Len(q) : \A j \in i + 1 .. Len(q) : j \in 1 .. Len(q)
  BY <1>1
<1>5. (Len(q) + 1) + 1 .. Len(r) = {}
  BY <1>1
<1>6. ASSUME About(e, "CONNECTION_PROPS", x) PROVE WillList(r, C, x)
  BY <1>1, <1>2, <1>5, <1>6 DEF WillList
<1>7. ASSUME WillList(q, C, x), ~About(e, "CONNECTION_STOP", x) PROVE WillList(r, C, x)
  <2>1. CASE x \in C /\ \A j \in 1 .. Len(q) : ~About(q[j], "CONNECTION_STOP", x)
    BY <1>1, <1>2, <1>7, <2>1 DEF WillList
  <2>2. ASSUME NEW i \in 1 .. Len(q), About(q[i], "CONNECTION_PROPS", x), \A j \in i + 1 .. Len(q) : ~About(q[j], "CONNECTION_STOP", x)
        PROVE  WillList(r, C, x)
    <3>1. i \in 1 .. Len(r) /\ About(r[i], "CONNECTION_PROPS", x)
      BY <1>1, <1>2, <2>2
    <3>2. \A j \in i + 1 .. Len(r) : ~About(r[j], "CONNECTION_STOP", x)
      BY <1>1, <1>3, <1>4, <1>7, <2>2
    <3> QED BY <3>1, <3>2 DEF WillList
  <2> QED BY <1>7, <2>1, <2>2 DEF WillList
<1>8. ASSUME WillList(r, C, x), ~About(e, "CONNECTION_PROPS", x) PROVE WillList(q, C, x) /\ ~About(e, "CONNECTION_STOP", x)
  <2>1. CASE x \in C /\ \A j \in 1 .. Len(r) : ~About(r[j], "CONNECTION_STOP", x)
    BY <1>1, <1>2, <2>1 DEF WillList
  <2>2. ASSUME NEW i \in 1 .. Len(r), About(r[i], "CONNECTION_PROPS", x), \A j \in i + 1 .. Len(r) : ~About(r[j], "CONNECTION_STOP", x)
        PROVE  WillList(q, C, x) /\ ~About(e, "CONNECTION_STOP", x)
    <3>1. i \in 1 .. Len(q) /\ About(q[i], "CONNECTION_PROPS", x)
      BY <1>1, <1>2, <1>8, <2>2
    <3>2. \A j \in i + 1 .. Len(q) : ~About(q[j], "CONNECTION_STOP", x)
      BY <1>1, <1>3, <1>4, <2>2, <3>1
    <3>3. ~About(e, "CONNECTION_STOP", x)
      BY <1>1, <1>3, <2>2, <3>1
    <3> QED BY <3>1, <3>2, <3>3 DEF WillList
  <2> QED BY <1>8, <2>1, <2>2 DEF WillList
<1> QED BY <1>6, <1>7, <1>8

(* An event that takes effect does not change what will be. *)
LEMMA ListPop ==
    ASSUME NEW q, IsQueue(q), NEW r, Popped(q, r), NEW C, NEW D, NEW x,
           About(q[1], "CONNECTION_PROPS", x) => x \in D,
           About(q[1], "CONNECTION_STOP", x) => x \notin D,
           ~About(q[1], "CONNECTION_PROPS", x) /\ ~About(q[1], "CONNECTION_STOP", x) => (x \in D <=> x \in C)
    PROVE  WillList(r, D, x) <=> WillList(q, C, x)
<1>1. /\ IsQueue(r) /\ Len(q) \in Nat /\ Len(q) >= 1 /\ Len(r) = Len(q) - 1 /\ \A i \in 1 .. Len(r) : r[i] = q[i + 1]
  BY DEF Popped
<1>2. \A i \in 1 .. Len(q) : i = 1 \/ (i - 1 \in 1 .. Len(r) /\ q[i] = r[i - 1])
  <2> SUFFICES ASSUME NEW i \in 1 .. Len(q), i # 1 PROVE i - 1 \in 1 .. Len(r) /\ q[i] = r[i - 1]
    OBVIOUS
  <2>1. i - 1 \in 1 .. Len(r) /\ (i - 1) + 1 = i
    BY <1>1
  <2> QED BY <1>1, <2>1
<1>3. ASSUME NEW i \in 1 .. Len(r)
      PROVE  (\A j \in i + 1 .. Len(r) : ~About(r[j], "CONNECTION_STOP", x)) <=> (\A j \in (i + 1) + 1 .. Len(q) : ~About(q[j], "CONNECTION_STOP", x))
  <2>1. ASSUME NEW j \in i + 1 .. Len(r) PROVE j + 1 \in (i + 1) + 1 .. Len(q) /\ r[j] = q[j + 1]
    <3>1. j \in 1 .. Len(r) /\ j + 1 \in (i + 1) + 1 .. Len(q)
      BY <1>1
    <3> QED BY <1>1, <3>1
  <2>2. ASSUME NEW j \in (i + 1) + 1 .. Len(q) PROVE j - 1 \in i + 1 .. Len(r) /\ q[j] = r[j - 1]
    <3>1. j \in 1 .. Len(q) /\ j # 1 /\ j - 1 \in i + 1 .. Len(r)
      BY <1>1
    <3> QED BY <1>2, <3>1
  <2> QED BY <2>1, <2>2
<1>4. (\A j \in 1 .. Len(r) : ~About(r[j], "CONNECTION_STOP", x)) <=> (\A j \in 1 + 1 .. Len(q) : ~About(q[j], "CONNECTION_STOP", x))
  <2>1. ASSUME NEW j \in 1 .. Len(r) PROVE j + 1 \in 1 + 1 .. Len(q) /\ r[j] = q[j + 1]
    BY <1>1
  <2>2. ASSUME NEW j \in 1 + 1 .. Len(q) PROVE j - 1 \in 1 .. Len(r) /\ q[j] = r[j - 1]
    <3>1. j \in 1 .. Len(q) /\ j # 1
      BY <1>1
    <3> QED BY <1>2, <3>1
  <2> QED BY <2>1, <2>2
<1>5. \A j \in 1 .. Len(q) : j = 1 \/ j \in 1 + 1 .. Len(q)
  BY <1>1
<1>6. 1 \in 1 .. Len(q) /\ \A j \in 1 + 1 .. Len(q) : j \in 1 .. Len(q)
  BY <1>1
<1>7. ASSUME WillList(r, D, x) PROVE WillList(q, C, x)
  <2>1. CASE x \in D /\ \A j \in 1 .. Len(r) : ~About(r[j], "CONNECTION_STOP", x)
    <3>1. \A j \in 1 + 1 .. Len(q) : ~About(q[j], "CONNECTION_STOP", x)
      BY <1>4, <2>1
    <3>2. CASE About(q[1], "CONNECTION_PROPS", x)
      BY <1>6, <3>1, <3>2 DEF WillList
    <3>3. CASE ~About(q[1], "CONNECTION_PROPS", x)
      <4>1. x \in C /\ ~About(q[1], "CONNECTION_STOP", x)
        BY <2>1, <3>3
      <4> QED BY <1>5, <3>1, <4>1 DEF WillList
    <3> QED BY <3>2, <3>3
  <2>2. ASSUME NEW i \in 1 .. Len(r), About(r[i], "CONNECTION_PROPS", x), \A j \in i + 1 .. Len(r) : ~About(r[j], "CONNECTION_STOP", x)
        PROVE  WillList(q, C, x)
    <3>1. i + 1 \in 1 .. Len(q) /\ About(q[i + 1], "CONNECTION_PROPS", x)
      BY <1>1, <2>2
    <3>2. \A j \in (i + 1) + 1 .. Len(q) : ~About(q[j], "CONNECTION_STOP", x)
      BY <1>3, <2>2
    <3> QED BY <3>1, <3>2 DEF WillList
  <2> QED BY <1>7, <2>1, <2>2 DEF WillList
<1>8. ASSUME WillList(q, C, x) PROVE WillList(r, D, x)
  <2>1. CASE x \in C /\ \A j \in 1 .. Len(q) : ~About(q[j], "CONNECTION_STOP", x)
    <3>1. x \in D
      BY <1>6, <2>1
    <3>2. \A j \in 1 + 1 .. Len(q) : ~About(q[j], "CONNECTION_STOP", x)
      BY <1>6, <2>1
    <3> QED BY <1>4, <3>1, <3>2 DEF WillList
  <2>2. ASSUME NEW i \in 1 .. Len(q), About(q[i], "CONNECTION_PROPS", x), \A j \in i + 1 .. Len(q) : ~About(q[j], "CONNECTION_STOP", x)
        PROVE  WillList(r, D, x)
    <3>1. CASE i = 1
      <4>1. \A j \in 1 + 1 .. Len(q) : ~About(q[j], "CONNECTION_STOP", x)
        BY <2>2, <3>1
      <4>2. \A j \in 1 .. Len(r) : ~About(r[j], "CONNECTION_STOP", x)
        BY <1>4, <4>1
      <4>3. x \in D
        BY <2>2, <3>1
      <4> QED BY <4>2, <4>3 DEF WillList
    <3>2. CASE i # 1
      <4>1. i - 1 \in 1 .. Len(r) /\ q[i] = r[i - 1] /\ (i - 1) + 1 = i
        BY <1>1, <1>2, <3>2
      <4>2. \A j \in (i - 1) + 1 .. Len(r) : ~About(r[j], "CONNECTION_STOP", x)
        BY <1>3, <2>2, <4>1
      <4> QED BY <2>2, <4>1, <4>2 DEF WillList
    <3> QED BY <3>1, <3>2
  <2> QED BY <1>8, <2>1, <2>2 DEF WillList
<1> QED BY <1>7, <1>8

-----------------------------------------------------------------------------
(* The states of SZIG. *)
SzFields == {"conf", "queue", "stats", "conns", "service", "avg", "maxdiff", "at", "val", "num", "lock", "walk", "clock",
             "log", "changed"}
StatFields == {"sessions_running", "threads_running", "thread_number", "threads_max"}
IsSz(s) == s = [f \in SzFields |-> s[f]]
IsStats(d) == d = [f \in StatFields |-> d[f]]
SzKept(s, t, F) == IsSz(t) /\ \A f \in SzFields \ F : t[f] = s[f]

Places == {"idle", "counted", "count", "register", "start", "started", "thread", "connect", "run", "end", "uncounted",
           "recount", "exit", "gone", "failed", "dropped", "retold"}
OnList == {"start", "started", "thread", "connect", "run"}
Reg == {"started", "thread", "connect", "run"}
EventNames == {"CONNECTION_START", "CONNECTION_STOP", "THREAD_START", "THREAD_STOP", "CONNECTION_PROPS", "SERVICE_COUNT", "TICK"}
InPlaces(at, P) == {x \in DOMAIN at : at[x] \in P}
Here(p, P) == IF p \in P THEN 1 ELSE 0

(* A session will be listed exactly while it is registered. *)
SzLists(s) ==
    \A x : WillList(s.queue, DOMAIN s.conns, x) <=> (x \in DOMAIN s.at /\ s.at[x] \in OnList)

(* The counts, with what is on its way to them. *)
SzCounts(s) ==
    /\ s.stats.sessions_running \in Int /\ s.stats.threads_running \in Int /\ s.stats.thread_number \in Int
    /\ s.stats.sessions_running + HowMany(s.queue, "CONNECTION_START") - HowMany(s.queue, "CONNECTION_STOP")
          = Cardinality(InPlaces(s.at, Reg))
    /\ s.stats.threads_running + HowMany(s.queue, "THREAD_START") - HowMany(s.queue, "THREAD_STOP")
          = 2 + Cardinality(InPlaces(s.at, Threads))

(* The ticks are processed in the order of their times. *)
SzTicks(s) ==
    /\ s.clock \in Int /\ IsLog(s.log)
    /\ \A k \in 1 .. Len(s.log) : s.log[k][2] <= s.clock
    /\ \A i \in 1 .. Len(s.queue) : s.queue[i].ev = "TICK" =>
          /\ s.queue[i].time \in Int /\ s.queue[i].time <= s.clock
          /\ \A k \in 1 .. Len(s.log) : s.log[k][2] < s.queue[i].time
          /\ \A j \in 1 .. Len(s.queue) : i < j /\ s.queue[j].ev = "TICK" => s.queue[i].time < s.queue[j].time

(* The averaged rate is that of the interval before the last tick. *)
SzRate(s) ==
    \E b, m : RateAt(s.avg, s.log, b, m) /\ (Len(s.log) > 0 => Base(s.log, s.log[Len(s.log)][2], b))

SzInv(s) ==
    /\ IsSz(s) /\ s.conf \in SzigConfs /\ s.at \in [s.conf.sessions -> Places] /\ IsStats(s.stats)
    /\ IsQueue(s.queue) /\ \A i \in 1 .. Len(s.queue) : s.queue[i].ev \in EventNames
    /\ SzLists(s) /\ SzCounts(s) /\ SzTicks(s) /\ SzRate(s)

(* A session goes from one place to another. *)
LEMMA PlaceMoves ==
    ASSUME NEW S, IsFiniteSet(S), NEW at \in [S -> Places], NEW x \in S, NEW p \in Places,
           NEW at2, at2 = [at EXCEPT ![x] = p], NEW P
    PROVE  /\ Cardinality(InPlaces(at, P)) \in Nat /\ Cardinality(InPlaces(at2, P)) \in Nat
           /\ Cardinality(InPlaces(at2, P)) = Cardinality(InPlaces(at, P)) + Here(p, P) - Here(at[x], P)
<1> DEFINE I == InPlaces(at, P)  J == InPlaces(at2, P)
<1>1. I \subseteq S /\ J \subseteq S
  BY DEF InPlaces
<1>2. IsFiniteSet(I) /\ IsFiniteSet(J) /\ Cardinality(I) \in Nat /\ Cardinality(J) \in Nat
  BY <1>1, FS_Subset, FS_CardinalityType
<1>3. x \in I <=> at[x] \in P
  BY DEF InPlaces
<1>4. x \in J <=> p \in P
  BY DEF InPlaces
<1>5. I \ {x} = J \ {x}
  BY DEF InPlaces
<1> HIDE DEF I, J
<1>6. Cardinality(I \ {x}) = Cardinality(I) - Here(at[x], P)
  <2>1. CASE x \in I
    BY <1>2, <1>3, <2>1, FS_RemoveElement DEF Here
  <2>2. CASE x \notin I
    <3>1. Cardinality(I \ {x}) = Cardinality(I)
      <4>1. I = I \ {x}
        BY <2>2
      <4> QED BY <4>1, Zenon
    <3>2. Here(at[x], P) = 0
      BY <1>3, <2>2 DEF Here
    <3> QED BY <1>2, <3>1, <3>2
  <2> QED BY <2>1, <2>2
<1>7. Cardinality(J \ {x}) = Cardinality(J) - Here(p, P)
  <2>1. CASE x \in J
    BY <1>2, <1>4, <2>1, FS_RemoveElement DEF Here
  <2>2. CASE x \notin J
    <3>1. J \ {x} = J
      BY <2>2
    <3> QED BY <1>2, <1>4, <2>2, <3>1 DEF Here
  <2> QED BY <2>1, <2>2
<1>8. Here(p, P) \in Int /\ Here(at[x], P) \in Int
  BY DEF Here
<1>9. Cardinality(J) = Cardinality(I) + Here(p, P) - Here(at[x], P)
  BY <1>2, <1>5, <1>6, <1>7, <1>8
<1> QED BY <1>2, <1>9 DEF I, J

(* What the assignments leave alone. *)
LEMMA EventIs ==
    ASSUME NEW s, IsSz(s), NEW e PROVE SzKept(s, SzigEvent(s, e), {"queue"}) /\ SzigEvent(s, e).queue = Append(s.queue, e)
<1> DEFINE q == Append(s.queue, e)  t == [s EXCEPT !["queue"] = q]
<1>1. SzigEvent(s, e) = t
  BY DEF SzigEvent
<1> HIDE DEF q
<1>2. SzKept(s, t, {"queue"}) /\ t.queue = q
  BY DEF IsSz, SzKept, SzFields
<1> QED BY <1>1, <1>2 DEF q

(* A session is at another place. *)
AtPlace(s, x, p) == [s EXCEPT !.at[x] = p]
(* ... and nothing else. *)
LEMMA AtPlaceIs ==
    ASSUME NEW s, IsSz(s), NEW x, NEW p PROVE SzKept(s, AtPlace(s, x, p), {"at"}) /\ AtPlace(s, x, p).at = [s.at EXCEPT ![x] = p]
<1> DEFINE a == [s.at EXCEPT ![x] = p]  t == [s EXCEPT !["at"] = a]
<1>1. AtPlace(s, x, p) = t
  BY DEF AtPlace
<1> HIDE DEF a
<1>2. SzKept(s, t, {"at"}) /\ t.at = a
  BY DEF IsSz, SzKept, SzFields
<1> QED BY <1>1, <1>2 DEF a

(* num_instances goes up and down. *)
LEMMA NumIs ==
    ASSUME NEW s, IsSz(s)
    PROVE  SzKept(s, [s EXCEPT !.num = @ + 1], {"num", "val"}) /\ SzKept(s, [s EXCEPT !.num = @ - 1], {"num", "val"})
BY DEF IsSz, SzKept, SzFields

(* The number a session is about to report. *)
LEMMA ValIs ==
    ASSUME NEW s, IsSz(s), NEW x, NEW n PROVE SzKept(s, [s EXCEPT !.val[x] = n], {"num", "val"})
BY DEF IsSz, SzKept, SzFields

(* The steps of a session: it changes its place and may send an event. *)
SessionMoved(s, t, x, p) == SzKept(s, t, {"queue", "at", "num", "val"}) /\ t.at = [s.at EXCEPT ![x] = p]
Silent == {<<"idle", "counted">>, <<"counted", "count">>, <<"end", "uncounted">>, <<"uncounted", "recount">>,
           <<"failed", "dropped">>, <<"dropped", "retold">>}
Says(s, x, e, p) ==
    \/ s.at[x] = "count" /\ p = "register" /\ e.ev = "SERVICE_COUNT"
    \/ s.at[x] = "register" /\ p = "start" /\ About(e, "CONNECTION_PROPS", x)
    \/ s.at[x] = "start" /\ p = "started" /\ e.ev = "CONNECTION_START"
    \/ s.at[x] = "started" /\ p = "thread" /\ e.ev = "THREAD_START"
    \/ s.at[x] = "thread" /\ p = "connect" /\ About(e, "CONNECTION_PROPS", x)
    \/ s.at[x] = "connect" /\ p = "run" /\ About(e, "CONNECTION_PROPS", x)
    \/ s.at[x] \in {"thread", "connect", "run"} /\ p = "end" /\ About(e, "CONNECTION_STOP", x)
    \/ s.at[x] = "started" /\ p = "failed" /\ About(e, "CONNECTION_STOP", x)
    \/ s.at[x] = "recount" /\ p = "exit" /\ e.ev = "SERVICE_COUNT"
    \/ s.at[x] = "retold" /\ p = "gone" /\ e.ev = "SERVICE_COUNT"
    \/ s.at[x] = "exit" /\ p = "gone" /\ e.ev = "THREAD_STOP"

SessionGoes(s, t, x) ==
    \E p \in Places : /\ SessionMoved(s, t, x, p)
                      /\ \/ <<s.at[x], p>> \in Silent /\ t.queue = s.queue
                         \/ \E e : Says(s, x, e, p) /\ t.queue = Append(s.queue, e)

(* A step that sends an event. *)
LEMMA SaidThenMoved ==
    ASSUME NEW s, IsSz(s), NEW x, NEW p \in Places, NEW e, Says(s, x, e, p) PROVE SessionGoes(s, AtPlace(SzigEvent(s, e), x, p), x)
<1> DEFINE u == SzigEvent(s, e)  t == AtPlace(u, x, p)
<1>1. SzKept(s, u, {"queue"}) /\ u.queue = Append(s.queue, e)
  BY EventIs
<1>2. IsSz(u) /\ u.at = s.at
  BY <1>1 DEF SzKept, SzFields
<1> HIDE DEF u
<1>3. SzKept(u, t, {"at"}) /\ t.at = [u.at EXCEPT ![x] = p]
  BY <1>2, AtPlaceIs
<1> HIDE DEF t
<1>4. SzKept(s, t, {"queue", "at", "num", "val"}) /\ t.queue = u.queue
  BY <1>1, <1>3 DEF SzKept, SzFields
<1>5. SessionMoved(s, t, x, p) /\ t.queue = Append(s.queue, e)
  BY <1>1, <1>2, <1>3, <1>4 DEF SessionMoved
<1>6. SessionGoes(s, t, x)
  BY <1>5 DEF SessionGoes
<1> QED BY <1>6 DEF t, u

(* A step that sends none. *)
LEMMA QuietlyMoved ==
    ASSUME NEW s, NEW u, SzKept(s, u, {"num", "val"}), NEW x, NEW p \in Places, <<s.at[x], p>> \in Silent
    PROVE  SessionGoes(s, AtPlace(u, x, p), x)
<1> DEFINE t == AtPlace(u, x, p)
<1>0. IsSz(u)
  BY DEF SzKept
<1>1. u.at = s.at /\ u.queue = s.queue
  BY DEF SzKept, SzFields
<1>2. SzKept(u, t, {"at"}) /\ t.at = [u.at EXCEPT ![x] = p]
  BY <1>0, AtPlaceIs
<1> HIDE DEF t
<1>3. SzKept(s, t, {"queue", "at", "num", "val"}) /\ t.queue = u.queue
  BY <1>2 DEF SzKept, SzFields
<1>4. SessionMoved(s, t, x, p) /\ t.queue = s.queue
  BY <1>1, <1>2, <1>3 DEF SessionMoved
<1>5. SessionGoes(s, t, x)
  BY <1>4 DEF SessionGoes
<1> QED BY <1>5 DEF t

(* Every step of a session is one of these. *)
LEMMA StepIs ==
    ASSUME NEW s, IsSz(s), NEW x, s.at[x] \in Places, s.at[x] # "gone" PROVE SessionGoes(s, SessionStep(s, x), x)
<1>1. CASE s.at[x] = "idle"
  <2> DEFINE u == [s EXCEPT !.num = @ + 1]
  <2>1. SessionStep(s, x) = AtPlace(u, x, "counted")
    BY <1>1 DEF SessionStep, AtPlace
  <2>2. SzKept(s, u, {"num", "val"})
    BY NumIs
  <2>3. <<s.at[x], "counted">> \in Silent /\ "counted" \in Places
    BY <1>1 DEF Silent, Places
  <2> HIDE DEF u
  <2>4. SessionGoes(s, AtPlace(u, x, "counted"), x)
    BY <2>2, <2>3, QuietlyMoved
  <2> QED BY <2>1, <2>4
<1>2. CASE s.at[x] = "counted"
  <2> DEFINE u == [s EXCEPT !.val[x] = s.num]
  <2>1. SessionStep(s, x) = AtPlace(u, x, "count")
    BY <1>2 DEF SessionStep, AtPlace
  <2>2. SzKept(s, u, {"num", "val"})
    BY ValIs
  <2>3. <<s.at[x], "count">> \in Silent /\ "count" \in Places
    BY <1>2 DEF Silent, Places
  <2> HIDE DEF u
  <2>4. SessionGoes(s, AtPlace(u, x, "count"), x)
    BY <2>2, <2>3, QuietlyMoved
  <2> QED BY <2>1, <2>4
<1>3. CASE s.at[x] = "count"
  <2> DEFINE e == CountEvent(s.val[x])
  <2>1. SessionStep(s, x) = AtPlace(SzigEvent(s, e), x, "register")
    BY <1>3 DEF SessionStep, AtPlace
  <2>2. Says(s, x, e, "register") /\ "register" \in Places
    BY <1>3 DEF Says, Places, About, CountEvent, PropsEvent, Bare
  <2> HIDE DEF e
  <2>3. SessionGoes(s, AtPlace(SzigEvent(s, e), x, "register"), x)
    BY <2>2, SaidThenMoved
  <2> QED BY <2>1, <2>3
<1>4. CASE s.at[x] = "register"
  <2> DEFINE e == PropsEvent(x, {"client_zone"})
  <2>1. SessionStep(s, x) = AtPlace(SzigEvent(s, e), x, "start")
    BY <1>4 DEF SessionStep, AtPlace
  <2>2. Says(s, x, e, "start") /\ "start" \in Places
    BY <1>4 DEF Says, Places, About, CountEvent, PropsEvent, Bare
  <2> HIDE DEF e
  <2>3. SessionGoes(s, AtPlace(SzigEvent(s, e), x, "start"), x)
    BY <2>2, SaidThenMoved
  <2> QED BY <2>1, <2>3
<1>5. CASE s.at[x] = "start"
  <2> DEFINE e == Bare("CONNECTION_START")
  <2>1. SessionStep(s, x) = AtPlace(SzigEvent(s, e), x, "started")
    BY <1>5 DEF SessionStep, AtPlace
  <2>2. Says(s, x, e, "started") /\ "started" \in Places
    BY <1>5 DEF Says, Places, About, CountEvent, PropsEvent, Bare
  <2> HIDE DEF e
  <2>3. SessionGoes(s, AtPlace(SzigEvent(s, e), x, "started"), x)
    BY <2>2, SaidThenMoved
  <2> QED BY <2>1, <2>3
<1>6. CASE s.at[x] = "started"
  <2> DEFINE e == Bare("THREAD_START")
  <2>1. SessionStep(s, x) = AtPlace(SzigEvent(s, e), x, "thread")
    BY <1>6 DEF SessionStep, AtPlace
  <2>2. Says(s, x, e, "thread") /\ "thread" \in Places
    BY <1>6 DEF Says, Places, About, CountEvent, PropsEvent, Bare
  <2> HIDE DEF e
  <2>3. SessionGoes(s, AtPlace(SzigEvent(s, e), x, "thread"), x)
    BY <2>2, SaidThenMoved
  <2> QED BY <2>1, <2>3
<1>7. CASE s.at[x] = "thread"
  <2> DEFINE e == PropsEvent(x, {"thread_id"})
  <2>1. SessionStep(s, x) = AtPlace(SzigEvent(s, e), x, "connect")
    BY <1>7 DEF SessionStep, AtPlace
  <2>2. Says(s, x, e, "connect") /\ "connect" \in Places
    BY <1>7 DEF Says, Places, About, CountEvent, PropsEvent, Bare
  <2> HIDE DEF e
  <2>3. SessionGoes(s, AtPlace(SzigEvent(s, e), x, "connect"), x)
    BY <2>2, SaidThenMoved
  <2> QED BY <2>1, <2>3
<1>8. CASE s.at[x] = "connect"
  <2> DEFINE e == PropsEvent(x, {"server_zone"})
  <2>1. SessionStep(s, x) = AtPlace(SzigEvent(s, e), x, "run")
    BY <1>8 DEF SessionStep, AtPlace
  <2>2. Says(s, x, e, "run") /\ "run" \in Places
    BY <1>8 DEF Says, Places, About, CountEvent, PropsEvent, Bare
  <2> HIDE DEF e
  <2>3. SessionGoes(s, AtPlace(SzigEvent(s, e), x, "run"), x)
    BY <2>2, SaidThenMoved
  <2> QED BY <2>1, <2>3
<1>9. CASE s.at[x] = "run"
  <2> DEFINE e == [ev |-> "CONNECTION_STOP", id |-> x]
  <2>1. SessionStep(s, x) = AtPlace(SzigEvent(s, e), x, "end")
    BY <1>9 DEF SessionStep, AtPlace
  <2>2. Says(s, x, e, "end") /\ "end" \in Places
    BY <1>9 DEF Says, Places, About, CountEvent, PropsEvent, Bare
  <2> HIDE DEF e
  <2>3. SessionGoes(s, AtPlace(SzigEvent(s, e), x, "end"), x)
    BY <2>2, SaidThenMoved
  <2> QED BY <2>1, <2>3
<1>10. CASE s.at[x] = "end"
  <2> DEFINE u == [s EXCEPT !.num = @ - 1]
  <2>1. SessionStep(s, x) = AtPlace(u, x, "uncounted")
    BY <1>10 DEF SessionStep, AtPlace
  <2>2. SzKept(s, u, {"num", "val"})
    BY NumIs
  <2>3. <<s.at[x], "uncounted">> \in Silent /\ "uncounted" \in Places
    BY <1>10 DEF Silent, Places
  <2> HIDE DEF u
  <2>4. SessionGoes(s, AtPlace(u, x, "uncounted"), x)
    BY <2>2, <2>3, QuietlyMoved
  <2> QED BY <2>1, <2>4
<1>11. CASE s.at[x] = "uncounted"
  <2> DEFINE u == [s EXCEPT !.val[x] = s.num]
  <2>1. SessionStep(s, x) = AtPlace(u, x, "recount")
    BY <1>11 DEF SessionStep, AtPlace
  <2>2. SzKept(s, u, {"num", "val"})
    BY ValIs
  <2>3. <<s.at[x], "recount">> \in Silent /\ "recount" \in Places
    BY <1>11 DEF Silent, Places
  <2> HIDE DEF u
  <2>4. SessionGoes(s, AtPlace(u, x, "recount"), x)
    BY <2>2, <2>3, QuietlyMoved
  <2> QED BY <2>1, <2>4
<1>12. CASE s.at[x] = "recount"
  <2> DEFINE e == CountEvent(s.val[x])
  <2>1. SessionStep(s, x) = AtPlace(SzigEvent(s, e), x, "exit")
    BY <1>12 DEF SessionStep, AtPlace
  <2>2. Says(s, x, e, "exit") /\ "exit" \in Places
    BY <1>12 DEF Says, Places, About, CountEvent, PropsEvent, Bare
  <2> HIDE DEF e
  <2>3. SessionGoes(s, AtPlace(SzigEvent(s, e), x, "exit"), x)
    BY <2>2, SaidThenMoved
  <2> QED BY <2>1, <2>3
<1>13. CASE s.at[x] = "exit"
  <2> DEFINE e == Bare("THREAD_STOP")
  <2>1. SessionStep(s, x) = AtPlace(SzigEvent(s, e), x, "gone")
    BY <1>13 DEF SessionStep, AtPlace
  <2>2. Says(s, x, e, "gone") /\ "gone" \in Places
    BY <1>13 DEF Says, Places, About, CountEvent, PropsEvent, Bare
  <2> HIDE DEF e
  <2>3. SessionGoes(s, AtPlace(SzigEvent(s, e), x, "gone"), x)
    BY <2>2, SaidThenMoved
  <2> QED BY <2>1, <2>3
<1>14. CASE s.at[x] = "failed"
  <2> DEFINE u == [s EXCEPT !.num = @ - 1]
  <2>1. SessionStep(s, x) = AtPlace(u, x, "dropped")
    BY <1>14 DEF SessionStep, AtPlace
  <2>2. SzKept(s, u, {"num", "val"})
    BY NumIs
  <2>3. <<s.at[x], "dropped">> \in Silent /\ "dropped" \in Places
    BY <1>14 DEF Silent, Places
  <2> HIDE DEF u
  <2>4. SessionGoes(s, AtPlace(u, x, "dropped"), x)
    BY <2>2, <2>3, QuietlyMoved
  <2> QED BY <2>1, <2>4
<1>15. CASE s.at[x] = "dropped"
  <2> DEFINE u == [s EXCEPT !.val[x] = s.num]
  <2>1. SessionStep(s, x) = AtPlace(u, x, "retold")
    BY <1>15 DEF SessionStep, AtPlace
  <2>2. SzKept(s, u, {"num", "val"})
    BY ValIs
  <2>3. <<s.at[x], "retold">> \in Silent /\ "retold" \in Places
    BY <1>15 DEF Silent, Places
  <2> HIDE DEF u
  <2>4. SessionGoes(s, AtPlace(u, x, "retold"), x)
    BY <2>2, <2>3, QuietlyMoved
  <2> QED BY <2>1, <2>4
<1>16. CASE s.at[x] = "retold"
  <2> DEFINE e == CountEvent(s.val[x])
  <2>1. SessionStep(s, x) = AtPlace(SzigEvent(s, e), x, "gone")
    BY <1>16 DEF SessionStep, AtPlace
  <2>2. Says(s, x, e, "gone") /\ "gone" \in Places
    BY <1>16 DEF Says, Places, About, CountEvent, PropsEvent, Bare
  <2> HIDE DEF e
  <2>3. SessionGoes(s, AtPlace(SzigEvent(s, e), x, "gone"), x)
    BY <2>2, SaidThenMoved
  <2> QED BY <2>1, <2>3
<1> QED BY <1>1, <1>2, <1>3, <1>4, <1>5, <1>6, <1>7, <1>8, <1>9, <1>10, <1>11, <1>12, <1>13, <1>14, <1>15, <1>16
         DEF Places

(* registerStop of a session that fails on its way: cut short. *)
LEMMA CutIs ==
    ASSUME NEW s, IsSz(s), NEW x, NEW t, t \in SessionCutShort(s, x)
    PROVE  SessionGoes(s, t, x)
<1> DEFINE e == [ev |-> "CONNECTION_STOP", id |-> x]  u(p) == AtPlace(s, x, p)
<1>1. PICK p \in {"end", "failed"} : Says(s, x, e, p) /\ t = SzigEvent(u(p), e)
  <2>1. CASE s.at[x] \in {"thread", "connect"}
    <3>1. Says(s, x, e, "end") /\ t = SzigEvent(u("end"), e)
      BY <2>1 DEF SessionCutShort, AtPlace, Says, About
    <3> QED BY <3>1
  <2>2. CASE s.at[x] = "started"
    <3>1. Says(s, x, e, "failed") /\ t = SzigEvent(u("failed"), e)
      BY <2>2 DEF SessionCutShort, AtPlace, Says, About
    <3> QED BY <3>1
  <2> QED BY <2>1, <2>2 DEF SessionCutShort
<1> DEFINE v == u(p)
<1>2. SzKept(s, v, {"at"}) /\ v.at = [s.at EXCEPT ![x] = p]
  BY AtPlaceIs
<1>2a. t = SzigEvent(v, e)
  BY <1>1
<1> HIDE DEF v, u, e
<1>4. SzKept(v, t, {"queue"}) /\ t.queue = Append(v.queue, e)
  BY <1>2, <1>2a, EventIs DEF SzKept
<1>5. v.queue = s.queue /\ t.at = v.at /\ SzKept(s, t, {"queue", "at", "num", "val"})
  BY <1>2, <1>4 DEF SzKept, SzFields
<1>6. SessionMoved(s, t, x, p) /\ t.queue = Append(s.queue, e)
  BY <1>2, <1>4, <1>5 DEF SessionMoved
<1>7. p \in Places
  BY DEF Places
<1> QED BY <1>1, <1>6, <1>7 DEF SessionGoes

-----------------------------------------------------------------------------
(* What a push does to the ticks on their way. *)
LEMMA TicksPush ==
    ASSUME NEW s, IsQueue(s.queue), SzTicks(s), NEW e, NEW t, Pushed(s.queue, e, t.queue), t.log = s.log,
           \/ e.ev # "TICK" /\ t.clock = s.clock
           \/ t.clock = s.clock + 1 /\ e.time = s.clock + 1
    PROVE  SzTicks(t)
<1> DEFINE q == s.queue  r == t.queue  n == Len(q)
<1>1. /\ n \in Nat /\ Len(r) = n + 1 /\ r[n + 1] = e /\ \A i \in 1 .. n : r[i] = q[i]
  BY DEF Pushed
<1>2. s.clock \in Int /\ IsLog(s.log) /\ \A k \in 1 .. Len(s.log) : s.log[k][2] \in Int /\ s.log[k][2] <= s.clock
  <2>1. s.clock \in Int /\ IsLog(s.log) /\ \A k \in 1 .. Len(s.log) : s.log[k][2] <= s.clock
    BY DEF SzTicks
  <2>2. s.log \in Seq(Int \X Int)
    BY <2>1 DEF IsLog
  <2>3. ASSUME NEW k \in 1 .. Len(s.log) PROVE s.log[k][2] \in Int
    <3>1. s.log[k] \in Int \X Int
      BY <2>2
    <3> QED BY <3>1
  <2> QED BY <2>1, <2>3
<1>3. \A i \in 1 .. n : q[i].ev = "TICK" =>
          /\ q[i].time \in Int /\ q[i].time <= s.clock
          /\ \A k \in 1 .. Len(s.log) : s.log[k][2] < q[i].time
          /\ \A j \in 1 .. n : i < j /\ q[j].ev = "TICK" => q[i].time < q[j].time
  BY DEF SzTicks
<1>4. t.clock \in Int /\ s.clock <= t.clock /\ (e.ev = "TICK" => e.time = s.clock + 1 /\ t.clock = s.clock + 1)
  BY <1>2
<1> HIDE DEF q, r, n
<1>5. ASSUME NEW i \in 1 .. n + 1, r[i].ev = "TICK"
      PROVE  /\ r[i].time \in Int /\ r[i].time <= t.clock
             /\ \A k \in 1 .. Len(s.log) : s.log[k][2] < r[i].time
             /\ \A j \in 1 .. n + 1 : i < j /\ r[j].ev = "TICK" => r[i].time < r[j].time
  <2>1. CASE i = n + 1
    <3>1. r[i].time = s.clock + 1 /\ t.clock = s.clock + 1
      BY <1>1, <1>4, <1>5, <2>1
    <3>2. \A j \in 1 .. n + 1 : ~(i < j)
      BY <1>1, <2>1
    <3>3. \A k \in 1 .. Len(s.log) : s.log[k][2] < r[i].time
      BY <1>2, <3>1
    <3> QED BY <1>2, <3>1, <3>2, <3>3
  <2>2. CASE i \in 1 .. n
    <3>1. r[i] = q[i] /\ q[i].ev = "TICK"
      BY <1>1, <1>5, <2>2
    <3>2. q[i].time \in Int /\ q[i].time <= s.clock /\ \A k \in 1 .. Len(s.log) : s.log[k][2] < q[i].time
      BY <1>3, <2>2, <3>1
    <3>3. ASSUME NEW j \in 1 .. n + 1, i < j, r[j].ev = "TICK" PROVE q[i].time < r[j].time
      <4>1. CASE j = n + 1
        <5>1. r[j].time = s.clock + 1
          BY <1>1, <1>4, <3>3, <4>1
        <5> QED BY <1>2, <3>2, <5>1
      <4>2. CASE j \in 1 .. n
        <5>1. r[j] = q[j]
          BY <1>1, <4>2
        <5> QED BY <1>3, <2>2, <3>1, <3>3, <4>2, <5>1
      <4> QED BY <1>1, <4>1, <4>2
    <3>4. q[i].time <= t.clock
      BY <1>2, <1>4, <3>2
    <3> QED BY <3>1, <3>2, <3>3, <3>4
  <2> QED BY <1>1, <2>1, <2>2
<1>6. \A k \in 1 .. Len(s.log) : s.log[k][2] <= t.clock
  BY <1>2, <1>4
<1>7. r = t.queue /\ Len(r) = n + 1
  BY <1>1 DEF r
<1> QED BY <1>2, <1>4, <1>5, <1>6, <1>7 DEF SzTicks

(* A session that sends an event. *)
LEMMA SaidKeeps ==
    ASSUME NEW s, SzInv(s), NEW x \in DOMAIN s.at, NEW p \in Places, NEW t, SessionMoved(s, t, x, p),
           NEW e, Says(s, x, e, p), Pushed(s.queue, e, t.queue)
    PROVE  SzInv(t)
<1>1. /\ IsSz(t) /\ t.conf = s.conf /\ t.stats = s.stats /\ t.conns = s.conns /\ t.avg = s.avg /\ t.log = s.log
      /\ t.clock = s.clock /\ t.at = [s.at EXCEPT ![x] = p]
  BY DEF SessionMoved, SzKept, SzFields
<1>2. /\ s.conf \in SzigConfs /\ s.at \in [s.conf.sessions -> Places] /\ IsStats(s.stats) /\ IsQueue(s.queue)
      /\ \A i \in 1 .. Len(s.queue) : s.queue[i].ev \in EventNames
  BY DEF SzInv
<1>0. IsQueue(s.queue)
  BY DEF SzInv
<1>3. SzLists(s) /\ SzCounts(s) /\ SzTicks(s) /\ SzRate(s)
  BY DEF SzInv
<1>4. t.at \in [s.conf.sessions -> Places] /\ DOMAIN s.at = s.conf.sessions /\ DOMAIN t.at = s.conf.sessions
  BY <1>1, <1>2
<1>5. e.ev \in EventNames /\ e.ev # "TICK"
  BY DEF Says, About, EventNames
<1>6. IsQueue(t.queue) /\ \A i \in 1 .. Len(t.queue) : t.queue[i].ev \in EventNames
  <2>1. /\ IsQueue(t.queue) /\ Len(s.queue) \in Nat /\ Len(t.queue) = Len(s.queue) + 1
        /\ t.queue[Len(s.queue) + 1] = e /\ \A i \in 1 .. Len(s.queue) : t.queue[i] = s.queue[i]
    BY DEF Pushed
  <2>2. ASSUME NEW i \in 1 .. Len(s.queue) + 1 PROVE t.queue[i].ev \in EventNames
    <3>1. i \in 1 .. Len(s.queue) \/ i = Len(s.queue) + 1
      BY <2>1
    <3> QED BY <1>2, <1>5, <2>1, <3>1
  <2> QED BY <2>1, <2>2
<1>7. SzTicks(t)
  BY <1>1, <1>2, <1>3, <1>5, TicksPush
<1>8. SzRate(t)
  BY <1>1, <1>3 DEF SzRate
<1>9. SzLists(t)
  <2> SUFFICES ASSUME NEW y PROVE WillList(t.queue, DOMAIN t.conns, y) <=> (y \in DOMAIN t.at /\ t.at[y] \in OnList)
    BY DEF SzLists
  <2>1. WillList(t.queue, DOMAIN t.conns, y) <=>
            About(e, "CONNECTION_PROPS", y) \/ (WillList(s.queue, DOMAIN s.conns, y) /\ ~About(e, "CONNECTION_STOP", y))
    <3>1. WillList(t.queue, DOMAIN s.conns, y) <=>
              About(e, "CONNECTION_PROPS", y) \/ (WillList(s.queue, DOMAIN s.conns, y) /\ ~About(e, "CONNECTION_STOP", y))
      BY <1>0, ListPush
    <3> QED BY <1>1, <3>1
  <2>2. WillList(s.queue, DOMAIN s.conns, y) <=> (y \in DOMAIN s.at /\ s.at[y] \in OnList)
    BY <1>3 DEF SzLists
  <2>3. CASE y = x
    <3>1. t.at[x] = p /\ x \in DOMAIN t.at
      BY <1>1, <1>2, <1>4
    <3>2. p \in OnList <=> About(e, "CONNECTION_PROPS", x) \/ (s.at[x] \in OnList /\ ~About(e, "CONNECTION_STOP", x))
      BY DEF Says, About, OnList
    <3> QED BY <2>1, <2>2, <2>3, <3>1, <3>2
  <2>4. CASE y # x
    <3>1. ~About(e, "CONNECTION_PROPS", y) /\ ~About(e, "CONNECTION_STOP", y)
      BY <2>4 DEF Says, About
    <3>2. (y \in DOMAIN t.at <=> y \in DOMAIN s.at) /\ (y \in DOMAIN s.at => t.at[y] = s.at[y])
      BY <1>1, <1>2, <1>4, <2>4
    <3> QED BY <2>1, <2>2, <3>1, <3>2
  <2> QED BY <2>3, <2>4
<1>10. SzCounts(t)
  <2> DEFINE Add(ev) == IF e.ev = ev THEN 1 ELSE 0
             A == Cardinality(InPlaces(s.at, Reg))  B == Cardinality(InPlaces(s.at, Threads))
             C == Cardinality(InPlaces(t.at, Reg))  D == Cardinality(InPlaces(t.at, Threads))
  <2>1. IsFiniteSet(s.conf.sessions)
    BY <1>2, SzigConstants
  <2>2. A \in Nat /\ C \in Nat /\ C = A + Here(p, Reg) - Here(s.at[x], Reg)
    BY <1>1, <1>2, <1>4, <2>1, PlaceMoves
  <2>3. B \in Nat /\ D \in Nat /\ D = B + Here(p, Threads) - Here(s.at[x], Threads)
    BY <1>1, <1>2, <1>4, <2>1, PlaceMoves
  <2>4. \A ev : HowMany(t.queue, ev) = HowMany(s.queue, ev) + Add(ev) /\ HowMany(s.queue, ev) \in Nat
    <3> SUFFICES ASSUME NEW ev PROVE HowMany(t.queue, ev) = HowMany(s.queue, ev) + Add(ev) /\ HowMany(s.queue, ev) \in Nat
      OBVIOUS
    <3>1. HowMany(t.queue, ev) = HowMany(s.queue, ev) + Add(ev)
      BY <1>0, CountPush
    <3>2. HowMany(s.queue, ev) \in Nat
      BY <1>0, HeldFinite
    <3> QED BY <3>1, <3>2
  <2>5. /\ Here(p, Reg) - Here(s.at[x], Reg) = Add("CONNECTION_START") - Add("CONNECTION_STOP")
        /\ Here(p, Threads) - Here(s.at[x], Threads) = Add("THREAD_START") - Add("THREAD_STOP")
    BY DEF Says, About, Here, Reg, Threads
  <2>6. /\ s.stats.sessions_running \in Int /\ s.stats.threads_running \in Int /\ s.stats.thread_number \in Int
        /\ s.stats.sessions_running + HowMany(s.queue, "CONNECTION_START") - HowMany(s.queue, "CONNECTION_STOP") = A
        /\ s.stats.threads_running + HowMany(s.queue, "THREAD_START") - HowMany(s.queue, "THREAD_STOP") = 2 + B
    BY <1>3 DEF SzCounts
  <2>7. \A ev : Add(ev) \in Int
    OBVIOUS
  <2>8. Here(p, Reg) \in Int /\ Here(s.at[x], Reg) \in Int /\ Here(p, Threads) \in Int /\ Here(s.at[x], Threads) \in Int
    BY DEF Here
  <2> HIDE DEF Add, A, B, C, D
  <2>10. s.stats.sessions_running + HowMany(t.queue, "CONNECTION_START") - HowMany(t.queue, "CONNECTION_STOP") = C
    <3> DEFINE n == s.stats.sessions_running  f == HowMany(s.queue, "CONNECTION_START")  g == HowMany(s.queue, "CONNECTION_STOP")
               h == Here(p, Reg)  k == Here(s.at[x], Reg)  c == Add("CONNECTION_START")  d == Add("CONNECTION_STOP")
    <3>1. HowMany(t.queue, "CONNECTION_START") = f + c /\ HowMany(t.queue, "CONNECTION_STOP") = g + d /\ f \in Nat /\ g \in Nat
      BY <2>4
    <3>2. c \in Int /\ d \in Int
      BY <2>7
    <3>3. h \in Int /\ k \in Int /\ h - k = c - d
      BY <2>5, <2>8
    <3>4. n \in Int /\ n + f - g = A
      BY <2>6
    <3>5. A \in Nat /\ C = A + h - k
      BY <2>2
    <3> HIDE DEF n, f, g, h, k, c, d
    <3>6. n + (f + c) - (g + d) = C
      BY <3>1, <3>2, <3>3, <3>4, <3>5
    <3> QED BY <3>1, <3>6 DEF n
  <2>11. s.stats.threads_running + HowMany(t.queue, "THREAD_START") - HowMany(t.queue, "THREAD_STOP") = 2 + D
    <3> DEFINE n == s.stats.threads_running  f == HowMany(s.queue, "THREAD_START")  g == HowMany(s.queue, "THREAD_STOP")
               h == Here(p, Threads)  k == Here(s.at[x], Threads)  c == Add("THREAD_START")  d == Add("THREAD_STOP")
    <3>1. HowMany(t.queue, "THREAD_START") = f + c /\ HowMany(t.queue, "THREAD_STOP") = g + d /\ f \in Nat /\ g \in Nat
      BY <2>4
    <3>2. c \in Int /\ d \in Int
      BY <2>7
    <3>3. h \in Int /\ k \in Int /\ h - k = c - d
      BY <2>5, <2>8
    <3>4. n \in Int /\ n + f - g = 2 + B
      BY <2>6
    <3>5. B \in Nat /\ D = B + h - k
      BY <2>3
    <3> HIDE DEF n, f, g, h, k, c, d
    <3>6. n + (f + c) - (g + d) = 2 + D
      BY <3>1, <3>2, <3>3, <3>4, <3>5
    <3> QED BY <3>1, <3>6 DEF n
  <2> QED BY <1>1, <2>6, <2>10, <2>11 DEF SzCounts, C, D
<1> QED BY <1>1, <1>2, <1>4, <1>6, <1>7, <1>8, <1>9, <1>10 DEF SzInv

(* A session that goes on silently. *)
LEMMA SilentKeeps ==
    ASSUME NEW s, SzInv(s), NEW x \in DOMAIN s.at, NEW p \in Places, NEW t, SessionMoved(s, t, x, p),
           <<s.at[x], p>> \in Silent, t.queue = s.queue
    PROVE  SzInv(t)
<1>1. /\ IsSz(t) /\ t.conf = s.conf /\ t.stats = s.stats /\ t.conns = s.conns /\ t.avg = s.avg /\ t.log = s.log
      /\ t.clock = s.clock /\ t.at = [s.at EXCEPT ![x] = p]
  BY DEF SessionMoved, SzKept, SzFields
<1>2. s.at \in [s.conf.sessions -> Places]
  BY DEF SzInv
<1>3. t.at \in [s.conf.sessions -> Places] /\ DOMAIN s.at = s.conf.sessions /\ DOMAIN t.at = s.conf.sessions
  BY <1>1, <1>2
<1>4. /\ p \notin OnList \union Reg /\ s.at[x] \notin OnList \union Reg /\ (p \in Threads <=> s.at[x] \in Threads)
  BY DEF Silent, OnList, Reg, Threads
<1>5. \A y \in s.conf.sessions : /\ t.at[y] \in OnList <=> s.at[y] \in OnList
                                 /\ t.at[y] \in Reg <=> s.at[y] \in Reg
                                 /\ t.at[y] \in Threads <=> s.at[y] \in Threads
  BY <1>1, <1>2, <1>3, <1>4
<1>6. InPlaces(t.at, Reg) = InPlaces(s.at, Reg) /\ InPlaces(t.at, Threads) = InPlaces(s.at, Threads)
  BY <1>3, <1>5 DEF InPlaces
<1>7. SzLists(t)
  BY <1>1, <1>3, <1>5 DEF SzLists, SzInv
<1>8. SzCounts(t)
  BY <1>1, <1>6 DEF SzCounts, SzInv
<1>9. SzTicks(t) /\ SzRate(t)
  BY <1>1 DEF SzTicks, SzRate, SzInv
<1> QED BY <1>1, <1>3, <1>7, <1>8, <1>9 DEF SzInv

-----------------------------------------------------------------------------
(* The tick is processed: the rate is that of the interval before it. *)
LEMMA RateTicks ==
    ASSUME NEW s, IsLog(s.log), SzRate(s), NEW x \in Int, NEW now \in Int, \A k \in 1 .. Len(s.log) : s.log[k][2] < now,
           NEW t, Grows(s.log, t.log, x, now), t.avg = AgrAverageRate(s.avg, x, now)
    PROVE  IsLog(t.log) /\ SzRate(t)
<1>1. PICK b, m : RateAt(s.avg, s.log, b, m) /\ (Len(s.log) > 0 => Base(s.log, s.log[Len(s.log)][2], b))
  BY DEF SzRate
<1>2. IsLog(t.log)
  BY LongerLog
<1>3. PICK b2 : Base(t.log, now, b2)
  BY <1>2, BaseIs
<1> DEFINE n == Len(s.log)
<1>4. n \in Nat /\ Len(t.log) = n + 1 /\ t.log[n + 1] = <<x, now>> /\ \A i \in 1 .. n : t.log[i] = s.log[i]
  BY DEF Grows
<1>5. b \in 0 .. n /\ b2 \in 0 .. n + 1 /\ \A i \in 1 .. n + 1 : TooOld(t.log[i][2], now) <=> i <= b2
  <2>1. b \in 0 .. n
    BY <1>1 DEF RateAt
  <2> QED BY <1>3, <1>4, <2>1 DEF Base
<1> HIDE DEF n
<1>6. b <= b2
  <2>1. CASE b = 0
    BY <1>4, <1>5, <2>1
  <2>2. CASE b # 0
    <3>1. b \in 1 .. n /\ n \in 1 .. n /\ n > 0 /\ b \in 1 .. n + 1
      BY <1>4, <1>5, <2>2
    <3>2. TooOld(s.log[b][2], s.log[n][2])
      BY <1>1, <3>1 DEF Base, n
    <3>3. s.log[b] \in Int \X Int /\ s.log[n] \in Int \X Int /\ s.log[n][2] < now
      BY <3>1, SMTT(60) DEF IsLog, n
    <3>4. s.log[b][2] \in Int /\ s.log[n][2] \in Int
      BY <3>3
    <3>5. TooOld(s.log[b][2], now)
      BY <3>2, <3>3, <3>4, SzigConstants DEF TooOld
    <3>6. TooOld(t.log[b][2], now)
      BY <1>4, <3>1, <3>5
    <3> QED BY <1>5, <3>1, <3>6
  <2> QED BY <2>1, <2>2
<1>7. \E m2 : RateAt(t.avg, t.log, b2, m2)
  BY <1>1, <1>3, <1>6, RateStep
<1>8. t.log[Len(t.log)][2] = now
  BY <1>4
<1> QED BY <1>2, <1>3, <1>7, <1>8 DEF SzRate

(* What a pop does to the ticks on their way. *)
LEMMA TicksPop ==
    ASSUME NEW s, IsQueue(s.queue), SzTicks(s), NEW t, Popped(s.queue, t.queue), t.clock = s.clock,
           \/ t.log = s.log
           \/ s.queue[1].ev = "TICK" /\ IsLog(t.log) /\ \E x : Grows(s.log, t.log, x, s.queue[1].time)
    PROVE  SzTicks(t)
<1> DEFINE q == s.queue  r == t.queue  n == Len(q)
<1>1. /\ n \in Nat /\ n >= 1 /\ Len(r) = n - 1 /\ \A i \in 1 .. n - 1 : r[i] = q[i + 1]
  BY DEF Popped
<1>2. s.clock \in Int /\ IsLog(s.log) /\ \A k \in 1 .. Len(s.log) : s.log[k][2] <= s.clock
  BY DEF SzTicks
<1>3. \A i \in 1 .. n : q[i].ev = "TICK" =>
          /\ q[i].time \in Int /\ q[i].time <= s.clock
          /\ \A k \in 1 .. Len(s.log) : s.log[k][2] < q[i].time
          /\ \A j \in 1 .. n : i < j /\ q[j].ev = "TICK" => q[i].time < q[j].time
  BY DEF SzTicks
<1>4. r = t.queue /\ Len(r) = n - 1
  BY <1>1
<1>5. \A k \in 1 .. Len(t.log) : \/ k \in 1 .. Len(s.log) /\ t.log[k] = s.log[k]
                                 \/ q[1].ev = "TICK" /\ t.log[k][2] = q[1].time
  <2>1. CASE t.log = s.log
    BY <2>1
  <2>2. ASSUME NEW x, q[1].ev = "TICK", Grows(s.log, t.log, x, q[1].time)
        PROVE  \A k \in 1 .. Len(t.log) : \/ k \in 1 .. Len(s.log) /\ t.log[k] = s.log[k]
                                          \/ q[1].ev = "TICK" /\ t.log[k][2] = q[1].time
    <3> SUFFICES ASSUME NEW k \in 1 .. Len(t.log) PROVE (k \in 1 .. Len(s.log) /\ t.log[k] = s.log[k]) \/ t.log[k][2] = q[1].time
      BY <2>2
    <3>1. Len(s.log) \in Nat /\ Len(t.log) = Len(s.log) + 1 /\ t.log[Len(s.log) + 1] = <<x, q[1].time>>
          /\ \A i \in 1 .. Len(s.log) : t.log[i] = s.log[i]
      BY <2>2 DEF Grows
    <3>2. k \in 1 .. Len(s.log) \/ k = Len(s.log) + 1
      BY <3>1
    <3> QED BY <3>1, <3>2
  <2> QED BY <2>1, <2>2
<1>6. IsLog(t.log)
  BY <1>2
<1> HIDE DEF q, r, n
<1>7. 1 \in 1 .. n
  BY <1>1
<1>8. \A k \in 1 .. Len(t.log) : t.log[k][2] <= s.clock
  BY <1>2, <1>3, <1>5, <1>7
<1>9. ASSUME NEW i \in 1 .. n - 1, r[i].ev = "TICK"
      PROVE  /\ r[i].time \in Int /\ r[i].time <= s.clock
             /\ \A k \in 1 .. Len(t.log) : t.log[k][2] < r[i].time
             /\ \A j \in 1 .. n - 1 : i < j /\ r[j].ev = "TICK" => r[i].time < r[j].time
  <2>1. i + 1 \in 1 .. n /\ 1 < i + 1 /\ r[i] = q[i + 1]
    BY <1>1
  <2>2. q[i + 1].time \in Int /\ q[i + 1].time <= s.clock /\ \A k \in 1 .. Len(s.log) : s.log[k][2] < q[i + 1].time
    BY <1>3, <1>9, <2>1
  <2>3. q[1].ev = "TICK" => q[1].time < q[i + 1].time
    BY <1>3, <1>7, <1>9, <2>1
  <2>4. \A k \in 1 .. Len(t.log) : t.log[k][2] < q[i + 1].time
    BY <1>5, <2>2, <2>3
  <2>5. ASSUME NEW j \in 1 .. n - 1, i < j, r[j].ev = "TICK" PROVE q[i + 1].time < r[j].time
    <3>1. j + 1 \in 1 .. n /\ i + 1 < j + 1 /\ r[j] = q[j + 1]
      BY <1>1, <2>5
    <3> QED BY <1>3, <1>9, <2>1, <2>5, <3>1
  <2> QED BY <2>1, <2>2, <2>4, <2>5
<1> QED BY <1>2, <1>4, <1>6, <1>8, <1>9 DEF SzTicks

(* An event is taken from the queue: what its handlers must do. *)
Plus(e, ev) == IF e.ev = ev THEN 1 ELSE 0
(* A handler that does so keeps the invariant. *)
LEMMA PopKeeps ==
    ASSUME NEW s, SzInv(s), NEW t, IsSz(t), t.conf = s.conf, t.at = s.at, t.clock = s.clock, Popped(s.queue, t.queue), IsStats(t.stats),
           NEW e, e = s.queue[1],
           \A x : /\ About(e, "CONNECTION_PROPS", x) => x \in DOMAIN t.conns
                  /\ About(e, "CONNECTION_STOP", x) => x \notin DOMAIN t.conns
                  /\ ~About(e, "CONNECTION_PROPS", x) /\ ~About(e, "CONNECTION_STOP", x) => (x \in DOMAIN t.conns <=> x \in DOMAIN s.conns),
           t.stats.sessions_running = s.stats.sessions_running + Plus(e, "CONNECTION_START") - Plus(e, "CONNECTION_STOP"),
           t.stats.threads_running = s.stats.threads_running + Plus(e, "THREAD_START") - Plus(e, "THREAD_STOP"),
           t.stats.thread_number \in Int,
           \/ t.log = s.log /\ t.avg = s.avg
           \/ /\ e.ev = "TICK" /\ Grows(s.log, t.log, s.stats.thread_number, e.time)
              /\ t.avg = AgrAverageRate(s.avg, s.stats.thread_number, e.time)
    PROVE  SzInv(t)
<1>1. IsQueue(s.queue) /\ \A i \in 1 .. Len(s.queue) : s.queue[i].ev \in EventNames
  BY DEF SzInv
<1>2. SzLists(s) /\ SzCounts(s) /\ SzTicks(s) /\ SzRate(s)
  BY DEF SzInv
<1>3. IsQueue(t.queue) /\ \A i \in 1 .. Len(t.queue) : t.queue[i].ev \in EventNames
  <2>1. IsQueue(t.queue) /\ Len(s.queue) \in Nat /\ Len(t.queue) = Len(s.queue) - 1 /\ \A i \in 1 .. Len(t.queue) : t.queue[i] = s.queue[i + 1]
    BY DEF Popped
  <2>2. \A i \in 1 .. Len(t.queue) : i + 1 \in 1 .. Len(s.queue)
    BY <2>1
  <2> QED BY <1>1, <2>1, <2>2
<1>4. SzLists(t)
  <2> SUFFICES ASSUME NEW x PROVE WillList(t.queue, DOMAIN t.conns, x) <=> (x \in DOMAIN t.at /\ t.at[x] \in OnList)
    BY DEF SzLists
  <2>1. WillList(t.queue, DOMAIN t.conns, x) <=> WillList(s.queue, DOMAIN s.conns, x)
    BY <1>1, ListPop
  <2> QED BY <1>2, <2>1 DEF SzLists
<1>5. SzCounts(t)
  <2>1. \A ev : /\ HowMany(s.queue, ev) = HowMany(t.queue, ev) + Plus(e, ev)
                /\ HowMany(t.queue, ev) \in Int /\ Plus(e, ev) \in Int
    <3> SUFFICES ASSUME NEW ev PROVE /\ HowMany(s.queue, ev) = HowMany(t.queue, ev) + Plus(e, ev)
                                     /\ HowMany(t.queue, ev) \in Int /\ Plus(e, ev) \in Int
      OBVIOUS
    <3>1. HowMany(s.queue, ev) = HowMany(t.queue, ev) + (IF s.queue[1].ev = ev THEN 1 ELSE 0)
      BY <1>1, CountPop
    <3>2. HowMany(t.queue, ev) \in Int
      BY <1>3, HeldFinite
    <3> QED BY <3>1, <3>2 DEF Plus
  <2>2. /\ s.stats.sessions_running \in Int /\ s.stats.threads_running \in Int
        /\ s.stats.sessions_running + HowMany(s.queue, "CONNECTION_START") - HowMany(s.queue, "CONNECTION_STOP")
              = Cardinality(InPlaces(s.at, Reg))
        /\ s.stats.threads_running + HowMany(s.queue, "THREAD_START") - HowMany(s.queue, "THREAD_STOP")
              = 2 + Cardinality(InPlaces(s.at, Threads))
    BY <1>2 DEF SzCounts
  <2>3. /\ t.stats.sessions_running \in Int
        /\ t.stats.sessions_running + HowMany(t.queue, "CONNECTION_START") - HowMany(t.queue, "CONNECTION_STOP")
              = Cardinality(InPlaces(s.at, Reg))
    <3> DEFINE f == HowMany(t.queue, "CONNECTION_START")  g == HowMany(t.queue, "CONNECTION_STOP")
               c == Plus(e, "CONNECTION_START")  d == Plus(e, "CONNECTION_STOP")
               n == s.stats.sessions_running  k == t.stats.sessions_running
    <3>1. f \in Int /\ g \in Int /\ c \in Int /\ d \in Int
      BY <2>1
    <3>2. n \in Int /\ k = n + c - d /\ n + (f + c) - (g + d) = Cardinality(InPlaces(s.at, Reg))
      BY <2>1, <2>2
    <3> HIDE DEF f, g, c, d, n, k
    <3>3. k \in Int /\ k + f - g = n + (f + c) - (g + d)
      BY <3>1, <3>2
    <3> QED BY <3>2, <3>3 DEF f, g, k
  <2>4. /\ t.stats.threads_running \in Int
        /\ t.stats.threads_running + HowMany(t.queue, "THREAD_START") - HowMany(t.queue, "THREAD_STOP")
              = 2 + Cardinality(InPlaces(s.at, Threads))
    <3> DEFINE f == HowMany(t.queue, "THREAD_START")  g == HowMany(t.queue, "THREAD_STOP")
               c == Plus(e, "THREAD_START")  d == Plus(e, "THREAD_STOP")
               n == s.stats.threads_running  k == t.stats.threads_running
    <3>1. f \in Int /\ g \in Int /\ c \in Int /\ d \in Int
      BY <2>1
    <3>2. n \in Int /\ k = n + c - d /\ n + (f + c) - (g + d) = 2 + Cardinality(InPlaces(s.at, Threads))
      BY <2>1, <2>2
    <3> HIDE DEF f, g, c, d, n, k
    <3>3. k \in Int /\ k + f - g = n + (f + c) - (g + d)
      BY <3>1, <3>2
    <3> QED BY <3>2, <3>3 DEF f, g, k
  <2> QED BY <2>3, <2>4 DEF SzCounts
<1>6. SzTicks(t) /\ SzRate(t)
  <2>1. CASE t.log = s.log /\ t.avg = s.avg
    <3>1. SzTicks(t)
      BY <1>1, <1>2, <2>1, TicksPop
    <3> QED BY <1>2, <2>1, <3>1 DEF SzRate
  <2>2. CASE /\ e.ev = "TICK" /\ Grows(s.log, t.log, s.stats.thread_number, e.time)
             /\ t.avg = AgrAverageRate(s.avg, s.stats.thread_number, e.time)
    <3>1. s.stats.thread_number \in Int /\ IsLog(s.log)
      BY <1>2 DEF SzCounts, SzTicks
    <3>2. 1 \in 1 .. Len(s.queue)
      BY DEF Popped
    <3>3. e.time \in Int /\ \A k \in 1 .. Len(s.log) : s.log[k][2] < e.time
      BY <1>2, <2>2, <3>2 DEF SzTicks
    <3>4. IsLog(t.log) /\ SzRate(t)
      BY <1>2, <2>2, <3>1, <3>3, RateTicks
    <3>5. SzTicks(t)
      BY <1>1, <1>2, <2>2, <3>4, TicksPop
    <3> QED BY <3>4, <3>5
  <2> QED BY <2>1, <2>2
<1> QED BY <1>3, <1>4, <1>5, <1>6 DEF SzInv

-----------------------------------------------------------------------------
(* The handlers of an event. *)
LEMMA TailIs ==
    ASSUME NEW s, IsSz(s), NEW u, u = [s EXCEPT !.queue = Tail(@)] PROVE SzKept(s, u, {"queue"}) /\ u.queue = Tail(s.queue)
<1> DEFINE q == Tail(s.queue)
<1>1. u = [s EXCEPT !["queue"] = q]
  OBVIOUS
<1> HIDE DEF q
<1>2. SzKept(s, u, {"queue"}) /\ u.queue = q
  BY <1>1 DEF IsSz, SzKept, SzFields
<1> QED BY <1>2 DEF q

(* Only the counts change. *)
WithStats(s, d) == [s EXCEPT !.stats = d]
(* ... and nothing else. *)
LEMMA WithStatsIs ==
    ASSUME NEW s, IsSz(s), NEW d PROVE SzKept(s, WithStats(s, d), {"stats"}) /\ WithStats(s, d).stats = d
BY DEF IsSz, SzKept, SzFields, WithStats

(* Only the list of instances changes. *)
WithConns(s, c) == [s EXCEPT !.conns = c]
(* ... and nothing else. *)
LEMMA WithConnsIs ==
    ASSUME NEW s, IsSz(s), NEW c PROVE SzKept(s, WithConns(s, c), {"conns"}) /\ WithConns(s, c).conns = c
BY DEF IsSz, SzKept, SzFields, WithConns

(* The counts after an event that starts or stops something. *)
LEMMA StatsMove ==
    ASSUME NEW d, IsStats(d)
    PROVE  /\ LET c == [d EXCEPT !.sessions_running = @ + 1] IN
              /\ IsStats(c) /\ c.sessions_running = d.sessions_running + 1 /\ c.threads_running = d.threads_running /\ c.thread_number = d.thread_number
           /\ LET c == [d EXCEPT !.sessions_running = @ - 1] IN
              /\ IsStats(c) /\ c.sessions_running = d.sessions_running - 1 /\ c.threads_running = d.threads_running /\ c.thread_number = d.thread_number
           /\ LET c == [d EXCEPT !.threads_running = @ - 1] IN
              /\ IsStats(c) /\ c.threads_running = d.threads_running - 1 /\ c.sessions_running = d.sessions_running /\ c.thread_number = d.thread_number
BY DEF IsStats, StatFields

(* A thread more. *)
LEMMA ThreadStats ==
    ASSUME NEW d, IsStats(d)
    PROVE  LET c == ThreadStarted(d) IN
           /\ IsStats(c) /\ c.threads_running = d.threads_running + 1 /\ c.thread_number = d.thread_number + 1
           /\ c.sessions_running = d.sessions_running
BY DEF IsStats, StatFields, ThreadStarted

(* z_szig_process_event, event by event. *)
LEMMA PopHandled ==
    ASSUME NEW s, SzInv(s), s.queue # <<>>, NEW u, SzKept(s, u, {"queue"}), u.queue = Tail(s.queue), NEW t, NEW e, e = s.queue[1],
           t = ProcessEvent(u, e)
    PROVE  SzInv(t)
<1>1. /\ IsSz(u) /\ u.conf = s.conf /\ u.stats = s.stats /\ u.conns = s.conns /\ u.avg = s.avg /\ u.log = s.log
      /\ u.clock = s.clock /\ u.at = s.at
  BY DEF SzKept, SzFields
<1>2. IsQueue(s.queue) /\ IsStats(s.stats)
  BY DEF SzInv
<1>3. Popped(s.queue, u.queue)
  BY <1>2, QueuePop
<1>4. e.ev \in EventNames
  <2>1. 1 \in 1 .. Len(s.queue)
    BY <1>3 DEF Popped
  <2> QED BY <2>1 DEF SzInv
<1>5. s.stats.sessions_running \in Int /\ s.stats.threads_running \in Int /\ s.stats.thread_number \in Int
  BY DEF SzInv, SzCounts
<1>6. CASE e.ev = "CONNECTION_START"
  <2> DEFINE d == [s.stats EXCEPT !.sessions_running = @ + 1]
  <2>1. t = WithStats(u, d)
    BY <1>1, <1>6 DEF ProcessEvent, WithStats
  <2>2. /\ IsStats(d) /\ d.sessions_running = s.stats.sessions_running + 1 /\ d.threads_running = s.stats.threads_running
        /\ d.thread_number = s.stats.thread_number
    BY <1>2, StatsMove
  <2> HIDE DEF d
  <2>3. SzKept(u, t, {"stats"}) /\ t.stats = d
    BY <1>1, <2>1, WithStatsIs
  <2>4. /\ IsSz(t) /\ t.conf = u.conf /\ t.conns = u.conns /\ t.avg = u.avg /\ t.log = u.log
        /\ t.clock = u.clock /\ t.at = u.at /\ t.queue = u.queue
    BY <2>3 DEF SzKept, SzFields
  <2>5. Plus(e, "CONNECTION_START") = 1 /\ Plus(e, "CONNECTION_STOP") = 0 /\ Plus(e, "THREAD_START") = 0 /\ Plus(e, "THREAD_STOP") = 0
    BY <1>6 DEF Plus
  <2>6. \A x : ~About(e, "CONNECTION_PROPS", x) /\ ~About(e, "CONNECTION_STOP", x)
    BY <1>6 DEF About
  <2> QED BY <1>1, <1>3, <1>5, <2>2, <2>3, <2>4, <2>5, <2>6, PopKeeps
<1>7. CASE e.ev = "CONNECTION_STOP"
  <2> DEFINE d == [s.stats EXCEPT !.sessions_running = @ - 1]  v == WithStats(u, d)
             c == [i \in DOMAIN s.conns \ {e.id} |-> s.conns[i]]
  <2>1. t = DelConnectionProps(v, e)
    BY <1>1, <1>7 DEF ProcessEvent, WithStats
  <2>2. /\ IsStats(d) /\ d.sessions_running = s.stats.sessions_running - 1 /\ d.threads_running = s.stats.threads_running
        /\ d.thread_number = s.stats.thread_number
    BY <1>2, StatsMove
  <2>3. DOMAIN c = DOMAIN s.conns \ {e.id}
    OBVIOUS
  <2> HIDE DEF d
  <2>4. SzKept(u, v, {"stats"}) /\ v.stats = d
    BY <1>1, WithStatsIs
  <2> HIDE DEF v
  <2>5. v.conns = s.conns /\ IsSz(v)
    BY <1>1, <2>4 DEF SzKept, SzFields
  <2>6. t = WithConns(v, c)
    BY <2>1, <2>5 DEF DelConnectionProps, WithConns
  <2> HIDE DEF c
  <2>7. SzKept(v, t, {"conns"}) /\ t.conns = c
    BY <2>5, <2>6, WithConnsIs
  <2>8. /\ IsSz(t) /\ t.conf = u.conf /\ t.avg = u.avg /\ t.log = u.log
        /\ t.clock = u.clock /\ t.at = u.at /\ t.queue = u.queue /\ t.stats = d
    BY <2>4, <2>7 DEF SzKept, SzFields
  <2>9. Plus(e, "CONNECTION_START") = 0 /\ Plus(e, "CONNECTION_STOP") = 1 /\ Plus(e, "THREAD_START") = 0 /\ Plus(e, "THREAD_STOP") = 0
    BY <1>7 DEF Plus
  <2>10. \A x : /\ About(e, "CONNECTION_PROPS", x) => x \in DOMAIN t.conns
                /\ About(e, "CONNECTION_STOP", x) => x \notin DOMAIN t.conns
                /\ ~About(e, "CONNECTION_PROPS", x) /\ ~About(e, "CONNECTION_STOP", x) => (x \in DOMAIN t.conns <=> x \in DOMAIN s.conns)
    BY <1>7, <2>3, <2>7 DEF About
  <2> QED BY <1>1, <1>3, <1>5, <2>2, <2>8, <2>9, <2>10, PopKeeps
<1>8. CASE e.ev = "THREAD_START"
  <2> DEFINE d == ThreadStarted(u.stats)
  <2>1. t = WithStats(u, d)
    BY <1>8 DEF ProcessEvent, WithStats
  <2>2. /\ IsStats(d) /\ d.sessions_running = s.stats.sessions_running /\ d.threads_running = s.stats.threads_running + 1
        /\ d.thread_number = s.stats.thread_number + 1
    <3>1. IsStats(u.stats)
      BY <1>1, <1>2
    <3>2. /\ IsStats(d) /\ d.sessions_running = u.stats.sessions_running /\ d.threads_running = u.stats.threads_running + 1
          /\ d.thread_number = u.stats.thread_number + 1
      BY <3>1, ThreadStats
    <3> HIDE DEF d
    <3> QED BY <1>1, <3>2
  <2> HIDE DEF d
  <2>3. SzKept(u, t, {"stats"}) /\ t.stats = d
    BY <1>1, <2>1, WithStatsIs
  <2>4. /\ IsSz(t) /\ t.conf = u.conf /\ t.conns = u.conns /\ t.avg = u.avg /\ t.log = u.log
        /\ t.clock = u.clock /\ t.at = u.at /\ t.queue = u.queue
    BY <2>3 DEF SzKept, SzFields
  <2>5. Plus(e, "CONNECTION_START") = 0 /\ Plus(e, "CONNECTION_STOP") = 0 /\ Plus(e, "THREAD_START") = 1 /\ Plus(e, "THREAD_STOP") = 0
    BY <1>8 DEF Plus
  <2>6. \A x : ~About(e, "CONNECTION_PROPS", x) /\ ~About(e, "CONNECTION_STOP", x)
    BY <1>8 DEF About
  <2> QED BY <1>1, <1>3, <1>5, <2>2, <2>3, <2>4, <2>5, <2>6, PopKeeps
<1>9. CASE e.ev = "THREAD_STOP"
  <2> DEFINE d == [s.stats EXCEPT !.threads_running = @ - 1]
  <2>1. t = WithStats(u, d)
    BY <1>1, <1>9 DEF ProcessEvent, WithStats
  <2>2. /\ IsStats(d) /\ d.sessions_running = s.stats.sessions_running /\ d.threads_running = s.stats.threads_running - 1
        /\ d.thread_number = s.stats.thread_number
    BY <1>2, StatsMove
  <2> HIDE DEF d
  <2>3. SzKept(u, t, {"stats"}) /\ t.stats = d
    BY <1>1, <2>1, WithStatsIs
  <2>4. /\ IsSz(t) /\ t.conf = u.conf /\ t.conns = u.conns /\ t.avg = u.avg /\ t.log = u.log
        /\ t.clock = u.clock /\ t.at = u.at /\ t.queue = u.queue
    BY <2>3 DEF SzKept, SzFields
  <2>5. Plus(e, "CONNECTION_START") = 0 /\ Plus(e, "CONNECTION_STOP") = 0 /\ Plus(e, "THREAD_START") = 0 /\ Plus(e, "THREAD_STOP") = 1
    BY <1>9 DEF Plus
  <2>6. \A x : ~About(e, "CONNECTION_PROPS", x) /\ ~About(e, "CONNECTION_STOP", x)
    BY <1>9 DEF About
  <2> QED BY <1>1, <1>3, <1>5, <2>2, <2>3, <2>4, <2>5, <2>6, PopKeeps
<1>10. CASE e.ev = "CONNECTION_PROPS"
  <2> DEFINE old == IF e.id \in DOMAIN u.conns THEN u.conns[e.id] ELSE {}
             c == [i \in DOMAIN u.conns \union {e.id} |-> IF i = e.id THEN old \union e.props ELSE u.conns[i]]
             v == WithConns(u, c)  w == [v EXCEPT !.service.zones = @ + 1]
  <2>1. t = v \/ t = w
    <3>1. t = FlatConnectionProps(u, e)
      BY <1>10 DEF ProcessEvent
    <3> QED BY <3>1 DEF FlatConnectionProps, WithConns
  <2>2. DOMAIN c = DOMAIN u.conns \union {e.id}
    OBVIOUS
  <2> HIDE DEF c
  <2>3. SzKept(u, v, {"conns"}) /\ v.conns = c
    BY <1>1, WithConnsIs
  <2> HIDE DEF v
  <2>4. IsSz(v)
    BY <2>3 DEF SzKept
  <2>5. SzKept(v, w, {"service"})
    BY <2>4 DEF IsSz, SzKept, SzFields
  <2> HIDE DEF w
  <2>6. SzKept(u, t, {"conns", "service"}) /\ t.conns = c
    BY <2>1, <2>3, <2>5 DEF SzKept, SzFields
  <2>7. /\ IsSz(t) /\ t.conf = u.conf /\ t.avg = u.avg /\ t.log = u.log
        /\ t.clock = u.clock /\ t.at = u.at /\ t.queue = u.queue /\ t.stats = u.stats
    BY <2>6 DEF SzKept, SzFields
  <2>8. Plus(e, "CONNECTION_START") = 0 /\ Plus(e, "CONNECTION_STOP") = 0 /\ Plus(e, "THREAD_START") = 0 /\ Plus(e, "THREAD_STOP") = 0
    BY <1>10 DEF Plus
  <2>9. \A x : /\ About(e, "CONNECTION_PROPS", x) => x \in DOMAIN t.conns
               /\ About(e, "CONNECTION_STOP", x) => x \notin DOMAIN t.conns
               /\ ~About(e, "CONNECTION_PROPS", x) /\ ~About(e, "CONNECTION_STOP", x) => (x \in DOMAIN t.conns <=> x \in DOMAIN s.conns)
    BY <1>1, <1>10, <2>2, <2>6 DEF About
  <2> QED BY <1>1, <1>2, <1>3, <1>5, <2>7, <2>8, <2>9, PopKeeps
<1>11. CASE e.ev = "SERVICE_COUNT"
  <2>1. t = ServiceCount(u, e)
    BY <1>11 DEF ProcessEvent
  <2>2. SzKept(u, t, {"service", "changed"})
    BY <1>1, <2>1 DEF ServiceCount, IsSz, SzKept, SzFields
  <2>3. /\ IsSz(t) /\ t.conf = u.conf /\ t.avg = u.avg /\ t.log = u.log /\ t.conns = u.conns
        /\ t.clock = u.clock /\ t.at = u.at /\ t.queue = u.queue /\ t.stats = u.stats
    BY <2>2 DEF SzKept, SzFields
  <2>4. Plus(e, "CONNECTION_START") = 0 /\ Plus(e, "CONNECTION_STOP") = 0 /\ Plus(e, "THREAD_START") = 0 /\ Plus(e, "THREAD_STOP") = 0
    BY <1>11 DEF Plus
  <2>5. \A x : ~About(e, "CONNECTION_PROPS", x) /\ ~About(e, "CONNECTION_STOP", x)
    BY <1>11 DEF About
  <2> QED BY <1>1, <1>2, <1>3, <1>5, <2>3, <2>4, <2>5, PopKeeps
<1>12. CASE e.ev = "TICK"
  <2> DEFINE n == s.stats.thread_number
  <2>1. t = Tick(u, e)
    BY <1>12 DEF ProcessEvent
  <2>2. SzKept(u, t, {"avg", "maxdiff", "log", "service", "changed"})
    BY <1>1, <2>1 DEF Tick, IsSz, SzKept, SzFields
  <2>0. IsSz(u)
    BY <1>1
  <2>a. t.avg = AgrAverageRate(u.avg, u.stats.thread_number, e.time)
    BY <2>0, <2>1 DEF Tick, IsSz, SzFields
  <2>b. t.log = Append(u.log, <<u.stats.thread_number, e.time>>)
    BY <2>0, <2>1 DEF Tick, IsSz, SzFields
  <2>3. t.avg = AgrAverageRate(s.avg, n, e.time)
    BY <1>1, <2>a
  <2>c. t.log = Append(s.log, <<n, e.time>>)
    BY <1>1, <2>b
  <2>4. /\ IsSz(t) /\ t.conf = u.conf /\ t.conns = u.conns /\ t.stats = u.stats
        /\ t.clock = u.clock /\ t.at = u.at /\ t.queue = u.queue
    BY <2>2 DEF SzKept, SzFields
  <2>5. Plus(e, "CONNECTION_START") = 0 /\ Plus(e, "CONNECTION_STOP") = 0 /\ Plus(e, "THREAD_START") = 0 /\ Plus(e, "THREAD_STOP") = 0
    BY <1>12 DEF Plus
  <2>6. \A x : ~About(e, "CONNECTION_PROPS", x) /\ ~About(e, "CONNECTION_STOP", x)
    BY <1>12 DEF About
  <2>7. e.time \in Int /\ IsLog(s.log)
    <3>1. 1 \in 1 .. Len(s.queue)
      BY <1>3 DEF Popped
    <3> QED BY <1>12, <3>1 DEF SzInv, SzTicks
  <2>8. Grows(s.log, t.log, n, e.time)
    <3>1. Grows(s.log, Append(s.log, <<n, e.time>>), n, e.time)
      BY <1>5, <2>7, LogGrows
    <3> QED BY <2>c, <3>1
  <2> QED BY <1>1, <1>2, <1>3, <1>5, <1>12, <2>3, <2>4, <2>5, <2>6, <2>8, PopKeeps
<1> QED BY <1>4, <1>6, <1>7, <1>8, <1>9, <1>10, <1>11, <1>12 DEF EventNames

(* z_szig_tick_callback *)
LEMMA TickKeeps ==
    ASSUME NEW s, SzInv(s), NEW t, t = SzigEvent([s EXCEPT !.clock = @ + 1], [ev |-> "TICK", time |-> s.clock + 1])
    PROVE  SzInv(t)
<1> DEFINE u == [s EXCEPT !["clock"] = s.clock + 1]  e == [ev |-> "TICK", time |-> s.clock + 1]
<1>1. IsSz(s) /\ s.clock \in Int /\ IsQueue(s.queue)
  BY DEF SzInv, SzTicks
<1>2. SzKept(s, u, {"clock"}) /\ u.clock = s.clock + 1
  BY <1>1 DEF IsSz, SzKept, SzFields
<1>3. e.ev = "TICK" /\ e.time = s.clock + 1 /\ t = SzigEvent(u, e)
  OBVIOUS
<1> HIDE DEF u, e
<1>4. SzKept(u, t, {"queue"}) /\ t.queue = Append(u.queue, e)
  <2>1. IsSz(u)
    BY <1>2 DEF SzKept
  <2> QED BY <1>3, <2>1, EventIs
<1>5. /\ IsSz(t) /\ t.conf = s.conf /\ t.stats = s.stats /\ t.conns = s.conns /\ t.avg = s.avg /\ t.log = s.log
      /\ t.clock = s.clock + 1 /\ t.at = s.at /\ u.queue = s.queue
  BY <1>2, <1>4 DEF SzKept, SzFields
<1>6. Pushed(s.queue, e, t.queue)
  <2>1. Pushed(s.queue, e, Append(s.queue, e))
    BY <1>1, QueuePush
  <2> QED BY <1>4, <1>5, <2>1
<1>7. SzTicks(t)
  BY <1>1, <1>3, <1>5, <1>6, TicksPush DEF SzInv
<1>8. IsQueue(t.queue) /\ \A i \in 1 .. Len(t.queue) : t.queue[i].ev \in EventNames
  <2>1. /\ IsQueue(t.queue) /\ Len(s.queue) \in Nat /\ Len(t.queue) = Len(s.queue) + 1
        /\ t.queue[Len(s.queue) + 1] = e /\ \A i \in 1 .. Len(s.queue) : t.queue[i] = s.queue[i]
    BY <1>6 DEF Pushed
  <2>2. \A i \in 1 .. Len(s.queue) : s.queue[i].ev \in EventNames
    BY DEF SzInv
  <2>3. ASSUME NEW i \in 1 .. Len(s.queue) + 1 PROVE t.queue[i].ev \in EventNames
    <3>1. i \in 1 .. Len(s.queue) \/ i = Len(s.queue) + 1
      BY <2>1
    <3> QED BY <1>3, <2>1, <2>2, <3>1 DEF EventNames
  <2> QED BY <2>1, <2>3
<1>9. SzLists(t)
  <2> SUFFICES ASSUME NEW y PROVE WillList(t.queue, DOMAIN t.conns, y) <=> (y \in DOMAIN t.at /\ t.at[y] \in OnList)
    BY DEF SzLists
  <2>1. WillList(t.queue, DOMAIN s.conns, y) <=>
            About(e, "CONNECTION_PROPS", y) \/ (WillList(s.queue, DOMAIN s.conns, y) /\ ~About(e, "CONNECTION_STOP", y))
    BY <1>1, <1>6, ListPush
  <2>2. WillList(s.queue, DOMAIN s.conns, y) <=> (y \in DOMAIN s.at /\ s.at[y] \in OnList)
    BY DEF SzLists, SzInv
  <2>3. ~About(e, "CONNECTION_PROPS", y) /\ ~About(e, "CONNECTION_STOP", y)
    BY <1>3 DEF About
  <2> QED BY <1>5, <2>1, <2>2, <2>3
<1>10. SzCounts(t)
  <2>1. ASSUME NEW ev, ev # "TICK" PROVE HowMany(t.queue, ev) = HowMany(s.queue, ev)
    <3>1. HowMany(t.queue, ev) = HowMany(s.queue, ev) + (IF e.ev = ev THEN 1 ELSE 0)
      BY <1>1, <1>6, CountPush
    <3>2. HowMany(s.queue, ev) \in Nat
      BY <1>1, HeldFinite
    <3> QED BY <1>3, <2>1, <3>1, <3>2
  <2>2. /\ HowMany(t.queue, "CONNECTION_START") = HowMany(s.queue, "CONNECTION_START")
        /\ HowMany(t.queue, "CONNECTION_STOP") = HowMany(s.queue, "CONNECTION_STOP")
        /\ HowMany(t.queue, "THREAD_START") = HowMany(s.queue, "THREAD_START")
        /\ HowMany(t.queue, "THREAD_STOP") = HowMany(s.queue, "THREAD_STOP")
    BY <2>1
  <2>3. SzCounts(s)
    BY DEF SzInv
  <2> QED BY <1>5, <2>2, <2>3 DEF SzCounts
<1>11. SzRate(t)
  BY <1>5 DEF SzRate, SzInv
<1> QED BY <1>5, <1>7, <1>8, <1>9, <1>10, <1>11 DEF SzInv

(* What a client of the socket changes is beside all this. *)
LEMMA LookKeeps ==
    ASSUME NEW s, SzInv(s), NEW t, SzKept(s, t, {"lock", "walk"}) PROVE SzInv(t)
<1>1. /\ IsSz(t) /\ t.conf = s.conf /\ t.stats = s.stats /\ t.conns = s.conns /\ t.avg = s.avg /\ t.log = s.log
      /\ t.clock = s.clock /\ t.at = s.at /\ t.queue = s.queue
  BY DEF SzKept, SzFields
<1>2. SzLists(t) /\ SzCounts(t)
  BY <1>1 DEF SzLists, SzCounts, SzInv
<1>3. SzTicks(t) /\ SzRate(t)
  BY <1>1 DEF SzTicks, SzRate, SzInv
<1> QED BY <1>1, <1>2, <1>3 DEF SzInv

-----------------------------------------------------------------------------
(* z_szig_init. *)
LEMMA SzStarts ==
    ASSUME NEW s \in SzigInits PROVE SzInv(s)
<1> PICK c \in SzigConfs :
      s = [conf |-> c, queue |-> <<Bare("THREAD_START"), Bare("THREAD_START")>>, conns |-> <<>>,
           stats |-> [sessions_running |-> 0, threads_running |-> 0, thread_number |-> 0, threads_max |-> 0],
           service |-> [running |-> 0, max |-> 0, zones |-> 0, nodes |-> {}], avg |-> [last |-> 0, values |-> <<>>, sum |-> 0],
           maxdiff |-> [last |-> 0, max |-> 0], at |-> [x \in c.sessions |-> "idle"], val |-> [x \in c.sessions |-> 0], num |-> 0,
           lock |-> FALSE, walk |-> [at |-> 0, n |-> 0], clock |-> 0, log |-> <<>>, changed |-> FALSE]
  BY DEF SzigInits
<1> DEFINE q == <<Bare("THREAD_START"), Bare("THREAD_START")>>
<1>1. IsSz(s)
  BY DEF IsSz, SzFields
<1>2. /\ s.conf = c /\ s.queue = q /\ s.conns = <<>> /\ s.at = [x \in c.sessions |-> "idle"] /\ s.clock = 0 /\ s.log = <<>>
      /\ s.avg = [last |-> 0, values |-> <<>>, sum |-> 0]
      /\ s.stats = [sessions_running |-> 0, threads_running |-> 0, thread_number |-> 0, threads_max |-> 0]
  OBVIOUS
<1>3. Len(q) = 2 /\ q[1].ev = "THREAD_START" /\ q[2].ev = "THREAD_START" /\ q \in Seq({Bare("THREAD_START")})
  BY DEF Bare
<1>4. IsQueue(q)
  BY <1>3 DEF IsQueue
<1> HIDE DEF q
<1>5. \A i \in 1 .. Len(q) : q[i].ev = "THREAD_START"
  BY <1>3
<1>6. IsStats(s.stats) /\ s.stats.sessions_running = 0 /\ s.stats.threads_running = 0 /\ s.stats.thread_number = 0
  BY <1>2 DEF IsStats, StatFields
<1>7. s.at \in [s.conf.sessions -> Places] /\ s.conf \in SzigConfs /\ DOMAIN s.at = c.sessions /\ \A x \in c.sessions : s.at[x] = "idle"
  BY <1>2 DEF Places
<1>8. SzLists(s)
  <2>1. \A x : ~WillList(q, {}, x)
    BY <1>5 DEF WillList, About
  <2>2. DOMAIN s.conns = {}
    BY <1>2
  <2>3. "idle" \notin OnList
    BY DEF OnList
  <2> QED BY <1>2, <1>7, <2>1, <2>2, <2>3 DEF SzLists
<1>9. SzCounts(s)
  <2>1. InPlaces(s.at, Reg) = {} /\ InPlaces(s.at, Threads) = {}
    BY <1>7 DEF InPlaces, Reg, Threads
  <2>2. Held(q, "CONNECTION_START") = {} /\ Held(q, "CONNECTION_STOP") = {} /\ Held(q, "THREAD_STOP") = {}
    BY <1>5 DEF Held
  <2>3. Held(q, "THREAD_START") = 1 .. Len(q)
    BY <1>5 DEF Held
  <2>4. Cardinality({}) = 0 /\ Cardinality(1 .. Len(q)) = 2
    <3>1. Cardinality({}) = 0
      BY FS_EmptySet
    <3>2. Len(q) \in Int
      BY <1>3
    <3>3. Cardinality(1 .. Len(q)) = IF 1 > Len(q) THEN 0 ELSE Len(q) - 1 + 1
      BY <3>2, FS_Interval, SMTT(60)
    <3> QED BY <1>3, <3>1, <3>3
  <2>5. /\ HowMany(q, "CONNECTION_START") = 0 /\ HowMany(q, "CONNECTION_STOP") = 0
        /\ HowMany(q, "THREAD_STOP") = 0 /\ HowMany(q, "THREAD_START") = 2
    BY <2>2, <2>3, <2>4 DEF HowMany
  <2>6. s.queue = q /\ Cardinality(InPlaces(s.at, Reg)) = 0 /\ Cardinality(InPlaces(s.at, Threads)) = 0
    BY <1>2, <2>1, <2>4
  <2> QED BY <1>6, <2>5, <2>6 DEF SzCounts
<1>10. IsLog(s.log) /\ Len(s.log) = 0
  BY <1>2 DEF IsLog
<1>11. SzTicks(s)
  <2>1. s.clock \in Int
    BY <1>2
  <2>2. \A i \in 1 .. Len(s.queue) : s.queue[i].ev # "TICK"
    <3>1. s.queue = q
      BY <1>2
    <3>2. \A i \in 1 .. Len(q) : q[i].ev # "TICK"
      BY <1>5
    <3> QED BY <3>1, <3>2, Zenon
  <2>3. \A k \in 1 .. Len(s.log) : FALSE
    BY <1>10
  <2> QED BY <1>10, <2>1, <2>2, <2>3, Zenon DEF SzTicks
<1>12. SzRate(s)
  <2>1. s.avg.values = <<>> /\ s.avg.sum = 0 /\ s.avg.last = 0
    BY <1>2
  <2>2. s.avg.values \in Seq(Int \X Int) /\ Len(s.avg.values) = 0
    <3>1. <<>> \in Seq(Int \X Int) /\ Len(<<>>) = 0
      OBVIOUS
    <3> QED BY <2>1, <3>1
  <2>3. Value(s.log, 0) = 0
    BY DEF Value
  <2>4. <<>> \in [1 .. 0 -> 0 + 1 .. 0]
    OBVIOUS
  <2>5. RateAt(s.avg, s.log, 0, <<>>)
    BY <1>10, <2>1, <2>2, <2>3, <2>4 DEF RateAt
  <2> QED BY <1>10, <2>5 DEF SzRate
<1> QED BY <1>1, <1>2, <1>4, <1>5, <1>6, <1>7, <1>8, <1>9, <1>11, <1>12 DEF SzInv, EventNames

(* A step of a session keeps the invariant. *)
LEMMA SzGoesKeeps ==
    ASSUME NEW s, SzInv(s), NEW x \in DOMAIN s.at, NEW t, SessionGoes(s, t, x) PROVE SzInv(t)
<1>1. PICK p \in Places : /\ SessionMoved(s, t, x, p)
                          /\ \/ <<s.at[x], p>> \in Silent /\ t.queue = s.queue
                             \/ \E e : Says(s, x, e, p) /\ t.queue = Append(s.queue, e)
  BY DEF SessionGoes
<1>2. CASE <<s.at[x], p>> \in Silent /\ t.queue = s.queue
  BY <1>1, <1>2, SilentKeeps
<1>3. ASSUME NEW e, Says(s, x, e, p), t.queue = Append(s.queue, e) PROVE SzInv(t)
  <2>1. IsQueue(s.queue)
    BY DEF SzInv
  <2>2. Pushed(s.queue, e, Append(s.queue, e))
    BY <2>1, QueuePush
  <2>3. Pushed(s.queue, e, t.queue)
    BY <1>3, <2>2
  <2> QED BY <1>1, <1>3, <2>3, SaidKeeps
<1> QED BY <1>1, <1>2, <1>3

(* So does every step. *)
LEMMA SzStep == SzInv(sz) /\ [SzigNext]_sz => SzInv(sz)'
<1> SUFFICES ASSUME SzInv(sz), [SzigNext]_sz PROVE SzInv(sz')
  OBVIOUS
<1>1. IsSz(sz) /\ sz.at \in [sz.conf.sessions -> Places] /\ IsQueue(sz.queue)
  BY DEF SzInv
<1>2. CASE SzigPop
  <2> DEFINE u == [sz EXCEPT !.queue = Tail(@)]
  <2>1. sz.queue # <<>> /\ sz' = ProcessEvent(u, Head(sz.queue))
    BY <1>2 DEF SzigPop, SzigThread
  <2>2. SzKept(sz, u, {"queue"}) /\ u.queue = Tail(sz.queue)
    BY <1>1, TailIs
  <2>3. Head(sz.queue) = sz.queue[1]
    <3>1. Popped(sz.queue, Tail(sz.queue))
      BY <1>1, <2>1, QueuePop
    <3> QED BY <3>1 DEF Popped
  <2> HIDE DEF u
  <2>4. sz' = ProcessEvent(u, sz.queue[1])
    BY <2>1, <2>3
  <2> QED BY <2>1, <2>2, <2>4, PopHandled
<1>3. CASE SzigSession
  <2>1. PICK x \in DOMAIN sz.at : sz.at[x] # "gone" /\ sz' = SessionStep(sz, x)
    BY <1>3 DEF SzigSession
  <2>2. sz.at[x] \in Places
    BY <1>1, <2>1
  <2>3. SessionGoes(sz, sz', x)
    <3>1. SessionGoes(sz, SessionStep(sz, x), x)
      BY <1>1, <2>1, <2>2, StepIs
    <3> QED BY <2>1, <3>1
  <2> QED BY <2>3, SzGoesKeeps
<1>4. CASE SzigCut
  <2>1. PICK x \in DOMAIN sz.at : sz' \in SessionCutShort(sz, x)
    BY <1>4 DEF SzigCut
  <2>3. SessionGoes(sz, sz', x)
    BY <1>1, <2>1, CutIs
  <2> QED BY <2>3, SzGoesKeeps
<1>5. CASE SzigTick
  BY <1>5, TickKeeps DEF SzigTick
<1>6. CASE SzigLock
  <2>1. sz' = [sz EXCEPT !.lock = TRUE]
    BY <1>6 DEF SzigLock
  <2>2. SzKept(sz, sz', {"lock", "walk"})
    BY <1>1, <2>1 DEF IsSz, SzKept, SzFields
  <2> QED BY <2>2, LookKeeps
<1>7. CASE SzigAnswer
  <2>1. sz' = HandleCommand(sz)
    BY <1>7 DEF SzigAnswer
  <2>2. SzKept(sz, sz', {"lock", "walk"})
    BY <1>1, <2>1 DEF HandleCommand, IsSz, SzKept, SzFields
  <2> QED BY <2>2, LookKeeps
<1>8. CASE UNCHANGED sz
  BY <1>8
<1> QED BY <1>2, <1>3, <1>4, <1>5, <1>6, <1>7, <1>8 DEF SzigNext

(* With the queue drained, the invariant says what the tree tells. *)
LEMMA SzInvAgrees == SzInv(sz) => SzigAgrees
<1> SUFFICES ASSUME SzInv(sz), sz.queue = <<>>, \A x \in DOMAIN sz.at : sz.at[x] # "start"
             PROVE  /\ DOMAIN sz.conns = Registered
                    /\ sz.stats.sessions_running = Cardinality(Registered)
                    /\ sz.stats.threads_running = 2 + Cardinality({x \in DOMAIN sz.at : sz.at[x] \in Threads})
                    /\ sz.log # <<>> => sz.avg.sum = Last(sz.log)[1] - WindowStart(Last(sz.log)[2])
  BY DEF SzigAgrees
<1>1. Registered = InPlaces(sz.at, Reg)
  BY DEF Registered, InPlaces, Reg
<1>2. {x \in DOMAIN sz.at : sz.at[x] \in Threads} = InPlaces(sz.at, Threads)
  BY DEF InPlaces
<1>3. \A ev : HowMany(sz.queue, ev) = 0
  <2>1. \A ev : Held(sz.queue, ev) = {}
    BY DEF Held
  <2> QED BY <2>1, FS_EmptySet DEF HowMany
<1>4. DOMAIN sz.conns = Registered
  <2>1. \A x : WillList(sz.queue, DOMAIN sz.conns, x) <=> x \in DOMAIN sz.conns
    BY DEF WillList
  <2>2. \A x : x \in DOMAIN sz.conns <=> (x \in DOMAIN sz.at /\ sz.at[x] \in OnList)
    BY <2>1 DEF SzInv, SzLists
  <2> QED BY <2>2 DEF Registered, OnList
<1>5. sz.stats.sessions_running = Cardinality(Registered)
  <2>1. /\ sz.stats.sessions_running \in Int
        /\ sz.stats.sessions_running + HowMany(sz.queue, "CONNECTION_START") - HowMany(sz.queue, "CONNECTION_STOP")
              = Cardinality(InPlaces(sz.at, Reg))
    BY DEF SzInv, SzCounts
  <2>2. HowMany(sz.queue, "CONNECTION_START") = 0 /\ HowMany(sz.queue, "CONNECTION_STOP") = 0
    BY <1>3
  <2> QED BY <1>1, <2>1, <2>2
<1>6. sz.stats.threads_running = 2 + Cardinality(InPlaces(sz.at, Threads))
  <2>1. /\ sz.stats.threads_running \in Int
        /\ sz.stats.threads_running + HowMany(sz.queue, "THREAD_START") - HowMany(sz.queue, "THREAD_STOP")
              = 2 + Cardinality(InPlaces(sz.at, Threads))
    BY DEF SzInv, SzCounts
  <2>2. HowMany(sz.queue, "THREAD_START") = 0 /\ HowMany(sz.queue, "THREAD_STOP") = 0
    BY <1>3
  <2> QED BY <2>1, <2>2
<1>7. ASSUME sz.log # <<>> PROVE sz.avg.sum = Last(sz.log)[1] - WindowStart(Last(sz.log)[2])
  <2> DEFINE log == sz.log  n == Len(log)  now == log[n][2]  T == {i \in 1 .. n : TooOld(log[i][2], now)}
  <2>1. IsLog(log)
    BY DEF SzInv, SzTicks
  <2>2. n \in Nat /\ n > 0 /\ Last(log) = log[n]
    BY <1>7, <2>1 DEF IsLog, Last
  <2>3. PICK b, m : RateAt(sz.avg, log, b, m) /\ Base(log, now, b)
    BY <2>2 DEF SzInv, SzRate
  <2>4. sz.avg.sum = Value(log, n) - Value(log, b)
    BY <2>3 DEF RateAt
  <2>5. b \in 0 .. n /\ \A i \in 1 .. n : TooOld(log[i][2], now) <=> i <= b
    BY <2>3 DEF Base
  <2>6. Value(log, n) = log[n][1]
    BY <2>2 DEF Value
  <2>7. WindowStart(now) = IF T = {} THEN 0 ELSE log[Max(T)][1]
    BY DEF WindowStart
  <2>8. WindowStart(now) = Value(log, b)
    <3>1. CASE b = 0
      <4>1. T = {}
        BY <2>2, <2>5, <3>1
      <4> HIDE DEF T, now
      <4> QED BY <2>7, <3>1, <4>1 DEF Value
    <3>2. CASE b # 0
      <4>1. b \in T /\ T \subseteq 0 .. n /\ \A i \in T : i <= b
        BY <2>2, <2>5, <3>2
      <4> HIDE DEF T, now
      <4>2. Max(T) \in T /\ \A y \in T : y <= Max(T)
        BY <2>2, <4>1, GreatestNat
      <4>3. Max(T) = b
        <5>1. Max(T) <= b /\ b <= Max(T) /\ Max(T) \in 0 .. n
          BY <4>1, <4>2
        <5> QED BY <2>2, <2>5, <5>1
      <4> QED BY <2>7, <3>2, <4>1, <4>3 DEF Value
    <3> QED BY <3>1, <3>2
  <2> QED BY <2>2, <2>4, <2>6, <2>8
<1> QED BY <1>2, <1>4, <1>5, <1>6, <1>7

(* For any number of sessions, ticks and walks of clients and any length of  *)
(* the averaged interval: once the SZIG thread has drained the queue, the    *)
(* tree lists the sessions that are registered and no other, its counts are  *)
(* those of the sessions and threads there are, and the averaged rate is the *)
(* number of threads started in the interval before the last tick.           *)
THEOREM SzigTellsTheTruth == SzigSpec => []SzigAgrees
<1>1. SzigInit => SzInv(sz)
  BY SzStarts DEF SzigInit
<1>2. SzInv(sz) /\ [SzigNext]_sz => SzInv(sz)'
  BY SzStep
<1>3. SzInv(sz) => SzigAgrees
  BY SzInvAgrees
<1> QED BY <1>1, <1>2, <1>3, PTL DEF SzigSpec
=============================================================================
