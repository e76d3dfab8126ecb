------------------------ MODULE GKEConnectionProofs ------------------------
(****************************************************************************)
(* What the connection layer guarantees for any goroutines, remotes,        *)
(* clusters and histories of them, any TTL and timeout, and any number of   *)
(* failed calls.                                                            *)
(****************************************************************************)
EXTENDS GKEConnection, TLAPS

\* how old what a request is sent with may be
Bound == TTL + Timeout - 1

\* Goroutine p builds a client only with the mutex and while there is none, and
\* what it has been told of its cluster is as old as its call, the lookup cache
\* and the transport allow.
ProcOK(p) ==
  LET s == proc[p]  c == s.key[1] IN
  /\ s.making => lock = p /\ built[s.key] = 0
  /\ s.pc \in {"answered", "update"} => s.v <= truth[c]
  /\ s.pc = "answered" => since[c][s.v] <= s.age
  /\ s.pc = "update" => since[c][s.v] <= Bound
  /\ s.pc = "send" /\ s.ok => CurrentWithin(s.key, Bound)

\* A state the cluster has not left has no age, and an entry of the lookup cache
\* that is still used is at most one API call older than it says.
ClusterOK(c) ==
  /\ \A v \in 1..Len(History[c]) : v >= truth[c] => since[c][v] = 0
  /\ cache[c].age < TTL => since[c][cache[c].v] <= cache[c].age + Timeout

ConnInv ==
  /\ TypeOK
  /\ cache = [c \in Clusters |-> cache[c]] /\ conn = [k \in Keys |-> conn[k]]
  /\ BuiltOnce
  /\ \A c \in Clusters : ClusterOK(c)
  /\ \A p \in Procs : ProcOK(p)
------------------------------------------------------------------------------
(****************************************************************************)
(* Keys and configurations.                                                 *)
(****************************************************************************)

LEMMA KeyCluster == \A k \in Keys : k[1] \in Clusters
BY ConnectionAssumption DEF Keys, Key

LEMMA TimeTypes ==
  /\ TTL \in Nat \ {0} /\ Timeout \in Nat /\ 0 \in 0..Timeout
  /\ 0..Timeout \subseteq Nat /\ Oldest \in Nat /\ 0..Oldest \subseteq Nat
BY ConnectionAssumption DEF Oldest

LEMMA AtRestType ==
  /\ AtRest \in ProcStates
  /\ AtRest.pc = "idle" /\ ~AtRest.making
<1>1. Keys # {}
  BY ConnectionAssumption DEF Keys
<1>2. (CHOOSE k \in Keys : TRUE) \in Keys
  BY <1>1
<1> QED BY <1>2, ConnectionAssumption DEF AtRest, ProcStates

\* whatever the endpoint and the state of the cluster, there is a host and a CA
LEMMA ConfigShape ==
  ASSUME NEW k, NEW v
  PROVE  \E h, ca : ConfigAt(k, v) = [host |-> h, ca |-> ca]
<1> DEFINE c == History[k[1]][v]
<1>1. \A h, ca : \E g, x : ipRESTConfig(h, ca) = [host |-> g, ca |-> x]
  BY DEF ipRESTConfig, NoConfig
<1>2. \E h, ca : restConfig(c, k[2]) = [host |-> h, ca |-> ca]
  <2> DEFINE P(x) == \E h, ca : x = [host |-> h, ca |-> ca]
  <2>1. /\ P([host |-> c.dns, ca |-> SystemRoots])
        /\ P(ipRESTConfig(c.private, c.ca))
        /\ P(ipRESTConfig(c.oldPrivate, c.ca))
        /\ P(ipRESTConfig(c.ip, c.ca))
        /\ P(NoConfig)
    BY <1>1 DEF NoConfig
  <2> HIDE DEF c, P
  <2>2. P(restConfig(c, k[2]))
    BY <2>1 DEF restConfig
  <2> QED BY <2>2 DEF P
<1> QED BY <1>2 DEF ConfigAt

\* a transport that is updated holds the new settings, switched or not
LEMMA SwitchResult ==
  ASSUME ConnInv, NEW k \in Keys, NEW v
  PROVE  Switch(conn[k], ConfigAt(k, v)) = ConfigAt(k, v)
<1>1. \E h, ca : conn[k] = [host |-> h, ca |-> ca]
  <2>1. conn[k] = NoConfig \/ \E u : conn[k] = ConfigAt(k, u)
    BY DEF ConnInv, TypeOK
  <2> QED BY <2>1, ConfigShape DEF NoConfig
<1>2. \E h, ca : ConfigAt(k, v) = [host |-> h, ca |-> ca]
  BY ConfigShape
<1> QED BY <1>1, <1>2 DEF Switch
------------------------------------------------------------------------------
(****************************************************************************)
(* Steps of a goroutine.                                                    *)
(****************************************************************************)

\* Goroutine p moves to s and the others stay, with what they rely on: the mutex
\* and the client they build under it, and the settings they are about to use.
Moves(p, s) ==
  /\ s \in ProcStates
  /\ proc' = [proc EXCEPT ![p] = s]
  /\ \A q \in Procs : lock = q /\ q # p => lock' = q /\ UNCHANGED built
  /\ \A k \in Keys : CurrentWithin(k, Bound) => CurrentWithin(k, Bound)'

LEMMA MovesKeep ==
  ASSUME ConnInv, NEW p \in Procs, NEW s, Moves(p, s), UNCHANGED worldVars, ProcOK(p)'
  PROVE  /\ proc' \in [Procs -> ProcStates]
         /\ \A q \in Procs : ProcOK(q)'
<1>0. proc \in [Procs -> ProcStates]
  BY DEF ConnInv, TypeOK
<1>1. proc' \in [Procs -> ProcStates] /\ \A q \in Procs : q # p => proc'[q] = proc[q]
  BY <1>0 DEF Moves
<1>2. ASSUME NEW q \in Procs, q # p PROVE ProcOK(q)'
  <2>1. ProcOK(q) /\ proc'[q] = proc[q] /\ proc[q].key \in Keys
    BY <1>0, <1>1, <1>2 DEF ConnInv, ProcStates
  <2>2. proc[q].making => lock' = q /\ built'[proc[q].key] = 0
    BY <1>2, <2>1 DEF ProcOK, Moves
  <2>3. (proc[q].pc = "send" /\ proc[q].ok => CurrentWithin(proc[q].key, Bound))'
    <3>1. ASSUME NEW k \in Keys, proc[q].key = k, proc[q].pc = "send" /\ proc[q].ok
          PROVE  CurrentWithin(k, Bound)'
      BY <2>1, <3>1 DEF ProcOK, Moves
    <3> QED BY <2>1, <3>1
  <2> QED BY <2>1, <2>2, <2>3 DEF ProcOK, worldVars
<1> QED BY <1>1, <1>2

\* most steps leave the lookup cache, the transports and the clients alone
LEMMA QuietKeeps ==
  ASSUME ConnInv, NEW p \in Procs, NEW s \in ProcStates,
         proc' = [proc EXCEPT ![p] = s],
         UNCHANGED <<worldVars, cache, conn, built>>, haveToken' \in BOOLEAN,
         lock' \in Procs \cup {NoProc}, \A q \in Procs : lock = q /\ q # p => lock' = q,
         failures' \in 0..MaxFailures, ProcOK(p)'
  PROVE  ConnInv'
<1>1. \A k \in Keys : CurrentWithin(k, Bound) => CurrentWithin(k, Bound)'
  BY DEF CurrentWithin, worldVars
<1>2. Moves(p, s)
  BY <1>1 DEF Moves
<1>3. proc' \in [Procs -> ProcStates] /\ \A q \in Procs : ProcOK(q)'
  BY <1>2, MovesKeep
<1>4. TypeOK'
  BY <1>3 DEF ConnInv, TypeOK, worldVars
<1>5. BuiltOnce' /\ \A c \in Clusters : ClusterOK(c)'
  BY DEF ConnInv, BuiltOnce, ClusterOK, worldVars
<1> QED BY <1>3, <1>4, <1>5 DEF ConnInv

\* a goroutine that has nothing relies on nothing
LEMMA IdleOK ==
  ASSUME NEW p \in Procs, ~proc'[p].making,
         proc'[p].pc \notin {"answered", "update", "send"} \/ (proc'[p].pc = "send" /\ ~proc'[p].ok)
  PROVE  ProcOK(p)'
BY DEF ProcOK

\* the type of where a goroutine is, and that builders hold the mutex
LEMMA ProcTypes ==
  ASSUME ConnInv, NEW p \in Procs
  PROVE  /\ proc[p] \in ProcStates
         /\ proc \in [Procs -> ProcStates]
         /\ lock \in Procs \cup {NoProc}
         /\ proc[p].key \in Keys
         /\ proc[p].key[1] \in Clusters
         /\ proc[p].making => lock = p /\ built[proc[p].key] = 0
BY KeyCluster DEF ConnInv, TypeOK, ProcStates, ProcOK

LEMMA AskStep ==
  ASSUME ConnInv, NEW p \in Procs, NEW r \in Remotes, Ask(p, r)
  PROVE  ConnInv'
<1> DEFINE s == [AtRest EXCEPT !.pc = "lock", !.key = Key(r)]
<1>1. s \in ProcStates /\ s.pc = "lock" /\ ~s.making
  BY AtRestType DEF Ask, Keys, ProcStates
<1>2. proc' = [proc EXCEPT ![p] = s] /\ UNCHANGED <<worldVars, connVars, lock, failures>>
  BY DEF Ask
<1> HIDE DEF s
<1>3. proc'[p] = s
  BY <1>2, ProcTypes
<1>4. ProcOK(p)'
  BY <1>1, <1>3, IdleOK
<1>5. haveToken' \in BOOLEAN /\ failures' \in 0..MaxFailures /\ lock' \in Procs \cup {NoProc}
  BY <1>2 DEF ConnInv, TypeOK, connVars
<1> QED BY <1>1, <1>2, <1>4, <1>5, QuietKeeps DEF connVars

LEMMA LockStep ==
  ASSUME ConnInv, NEW p \in Procs, LockClients(p)
  PROVE  ConnInv'
<1>0. proc[p] \in ProcStates /\ built[proc[p].key] \in Nat
  BY ProcTypes DEF ConnInv, TypeOK
<1> DEFINE missing == built[proc[p].key] = 0
           s == [proc[p] EXCEPT !.pc = "lookup", !.making = missing]
<1>1. /\ s \in ProcStates /\ s.pc = "lookup" /\ s.making = missing /\ s.key = proc[p].key
  BY <1>0 DEF ProcStates
<1>2. proc' = [proc EXCEPT ![p] = s]
  BY ProcTypes DEF LockClients
<1>3. /\ UNCHANGED <<worldVars, connVars, failures>> /\ lock = NoProc
      /\ lock' = IF missing THEN p ELSE NoProc
  BY DEF LockClients
<1> HIDE DEF s
<1>4. proc'[p] = s
  BY <1>2, ProcTypes
<1>5. ProcOK(p)'
  BY <1>1, <1>3, <1>4 DEF ProcOK, connVars
<1>6. /\ haveToken' \in BOOLEAN /\ failures' \in 0..MaxFailures
      /\ lock' \in Procs \cup {NoProc} /\ \A q \in Procs : lock # q
  BY <1>3, ConnectionAssumption DEF ConnInv, TypeOK, connVars
<1> QED BY <1>1, <1>2, <1>3, <1>5, <1>6, QuietKeeps DEF connVars

LEMMA LookupStep ==
  ASSUME ConnInv, NEW p \in Procs, Lookup(p)
  PROVE  ConnInv'
<1>0. /\ proc[p] \in ProcStates /\ proc[p].key[1] \in Clusters
      /\ proc[p].making => lock = p /\ built[proc[p].key] = 0
  BY ProcTypes
<1> DEFINE c == proc[p].key[1]
           hit == [proc[p] EXCEPT !.pc = "update", !.v = cache[c].v]
           miss == [proc[p] EXCEPT !.pc = "fetch", !.age = 0]
           s == IF cache[c].age < TTL THEN hit ELSE miss
<1>1. /\ cache[c].v \in Nat \ {0} /\ cache[c].v <= truth[c]
      /\ cache[c].age \in Nat /\ truth[c] \in Nat /\ truth[c] <= Len(History[c])
  BY <1>0 DEF ConnInv, TypeOK
<1>2. /\ hit \in ProcStates /\ hit.pc = "update" /\ hit.v = cache[c].v
      /\ hit.key = proc[p].key /\ hit.making = proc[p].making
  BY <1>0, <1>1 DEF ProcStates
<1>3. /\ miss \in ProcStates /\ miss.pc = "fetch"
      /\ miss.key = proc[p].key /\ miss.making = proc[p].making
  BY <1>0, TimeTypes DEF ProcStates
<1>4. /\ proc' = [proc EXCEPT ![p] = s]
      /\ UNCHANGED <<worldVars, cache, conn, built, lock, failures>> /\ haveToken' = TRUE
  BY ProcTypes DEF Lookup
<1>5. cache[c].age < TTL => since[c][cache[c].v] <= Bound
  <2>1. cache[c].age < TTL => since[c][cache[c].v] <= cache[c].age + Timeout
    BY <1>0 DEF ConnInv, ClusterOK
  <2>2. since[c][cache[c].v] \in Nat
    <3>1. cache[c].v \in 1..Len(History[c])
      BY <1>0, <1>1, ConnectionAssumption
    <3> QED BY <1>0, <3>1, ConnectionAssumption DEF ConnInv, TypeOK, Oldest
  <2> QED BY <1>1, <2>1, <2>2, ConnectionAssumption DEF Bound
<1> HIDE DEF hit, miss
<1>6. proc'[p] = s
  BY <1>4, ProcTypes
<1>7. ProcOK(p)'
  <2>1. UNCHANGED <<truth, since, lock, built>>
    BY <1>4 DEF worldVars
  <2>2. CASE cache[c].age < TTL
    <3>1. /\ proc'[p].pc = "update" /\ proc'[p].v = cache[c].v /\ proc'[p].key = proc[p].key
          /\ proc'[p].making = proc[p].making
      BY <1>2, <1>6, <2>2
    <3>2. proc'[p].key[1] = c
      BY <3>1
    <3> HIDE DEF c
    <3> QED BY <1>0, <1>1, <1>5, <2>1, <2>2, <3>1, <3>2 DEF ProcOK
  <2>3. CASE ~(cache[c].age < TTL)
    <3>1. /\ proc'[p].pc = "fetch" /\ proc'[p].key = proc[p].key
          /\ proc'[p].making = proc[p].making
      BY <1>3, <1>6, <2>3
    <3> QED BY <1>0, <2>1, <3>1 DEF ProcOK
  <2> QED BY <2>2, <2>3
<1>8. s \in ProcStates
  BY <1>2, <1>3
<1>9. haveToken' \in BOOLEAN /\ failures' \in 0..MaxFailures /\ lock' \in Procs \cup {NoProc}
  BY <1>4 DEF ConnInv, TypeOK
<1> HIDE DEF s
<1> QED BY <1>4, <1>7, <1>8, <1>9, QuietKeeps

\* a failed lookup ends an attempt to build a client, or leaves a request with the
\* last known settings
LEMMA FailureStep ==
  ASSUME ConnInv, NEW p \in Procs, (proc[p].making /\ GiveUp(p)) \/ LookupFails(p),
         UNCHANGED <<worldVars, connVars>>, failures' \in 0..MaxFailures
  PROVE  ConnInv'
<1>0. /\ proc[p] \in ProcStates /\ (proc[p].making => lock = p)
      /\ lock \in Procs \cup {NoProc} /\ haveToken' \in BOOLEAN
  BY ProcTypes DEF ConnInv, TypeOK, connVars
<1>1. CASE proc[p].making
  <2> DEFINE s == [AtRest EXCEPT !.pc = "rest"]
  <2>1. s \in ProcStates /\ s.pc = "rest" /\ ~s.making
    BY AtRestType DEF ProcStates
  <2>2. proc' = [proc EXCEPT ![p] = s] /\ lock' = NoProc
    BY <1>1 DEF GiveUp, LookupFails
  <2> HIDE DEF s
  <2>3. proc'[p] = s
    BY <2>2, ProcTypes
  <2>4. ProcOK(p)'
    BY <2>1, <2>3, IdleOK
  <2> QED BY <1>0, <1>1, <2>1, <2>2, <2>4, QuietKeeps, ConnectionAssumption DEF connVars
<1>2. CASE ~proc[p].making
  <2> DEFINE s == [proc[p] EXCEPT !.pc = "send", !.ok = FALSE]
  <2>1. s \in ProcStates /\ s.pc = "send" /\ ~s.ok /\ ~s.making
    BY <1>0, <1>2 DEF ProcStates
  <2>2. proc' = [proc EXCEPT ![p] = s] /\ lock' = lock
    BY <1>2, ProcTypes DEF LastKnown, LookupFails
  <2> HIDE DEF s
  <2>3. proc'[p] = s
    BY <2>2, ProcTypes
  <2>4. ProcOK(p)'
    BY <2>1, <2>3, IdleOK
  <2> QED BY <1>0, <2>1, <2>2, <2>4, QuietKeeps DEF connVars
<1> QED BY <1>1, <1>2

\* the GKE API answers with the state the cluster is in, which has no age
LEMMA AnswerStep ==
  ASSUME ConnInv, NEW p \in Procs, Answer(p)
  PROVE  ConnInv'
<1>0. /\ proc[p] \in ProcStates /\ proc[p].key[1] \in Clusters
      /\ proc[p].making => lock = p /\ built[proc[p].key] = 0
  BY ProcTypes
<1> DEFINE c == proc[p].key[1]
           s == [proc[p] EXCEPT !.pc = "answered", !.v = truth[c]]
<1>1. truth[c] \in Nat \ {0} /\ truth[c] \in 1..Len(History[c])
  BY <1>0, ConnectionAssumption DEF ConnInv, TypeOK
<1>2. /\ s \in ProcStates /\ s.pc = "answered" /\ s.v = truth[c] /\ s.key = proc[p].key
      /\ s.making = proc[p].making /\ s.age = proc[p].age /\ proc[p].age \in Nat
  <2> DEFINE t == truth[c]
  <2>1. t \in Nat \ {0} /\ proc[p].age \in 0..Timeout
    BY <1>0, <1>1 DEF ProcStates
  <2> HIDE DEF t
  <2>2. [proc[p] EXCEPT !.pc = "answered", !.v = t] \in ProcStates
    BY <1>0, <2>1 DEF ProcStates
  <2>3. s = [proc[p] EXCEPT !.pc = "answered", !.v = t]
    BY DEF t
  <2>4. s.v = t
    BY <1>0, <2>3 DEF ProcStates
  <2> QED BY <1>0, <2>1, <2>2, <2>3, <2>4, TimeTypes DEF ProcStates, t
<1>3. /\ proc' = [proc EXCEPT ![p] = s]
      /\ UNCHANGED <<worldVars, connVars, lock, failures>>
  BY ProcTypes DEF Answer
<1>4. since[c][truth[c]] = 0
  BY <1>0, <1>1 DEF ConnInv, ClusterOK
<1> HIDE DEF s
<1>5. proc'[p] = s
  BY <1>3, ProcTypes
<1>6. ProcOK(p)'
  <2>1. UNCHANGED <<truth, since, lock, built>>
    BY <1>3 DEF worldVars, connVars
  <2>2. proc'[p].key[1] = c /\ truth[c] <= truth[c] /\ since[c][truth[c]] <= s.age
    BY <1>1, <1>2, <1>4, <1>5
  <2> HIDE DEF c
  <2> QED BY <1>0, <1>2, <1>5, <2>1, <2>2 DEF ProcOK
<1>7. haveToken' \in BOOLEAN /\ failures' \in 0..MaxFailures /\ lock' \in Procs \cup {NoProc}
  BY <1>3 DEF ConnInv, TypeOK, connVars
<1> QED BY <1>2, <1>3, <1>6, <1>7, QuietKeeps DEF connVars

LEMMA SendStep ==
  ASSUME ConnInv, NEW p \in Procs, Send(p)
  PROVE  ConnInv'
<1> DEFINE s == [AtRest EXCEPT !.pc = "rest"]
<1>1. s \in ProcStates /\ s.pc = "rest" /\ ~s.making
  BY AtRestType DEF ProcStates
<1>2. /\ proc' = [proc EXCEPT ![p] = s]
      /\ UNCHANGED <<worldVars, connVars, lock, failures>>
  BY DEF Send
<1> HIDE DEF s
<1>3. proc'[p] = s
  BY <1>2, ProcTypes
<1>4. ProcOK(p)'
  BY <1>1, <1>3, IdleOK
<1>5. haveToken' \in BOOLEAN /\ failures' \in 0..MaxFailures /\ lock' \in Procs \cup {NoProc}
  BY <1>2 DEF ConnInv, TypeOK, connVars
<1> QED BY <1>1, <1>2, <1>4, <1>5, QuietKeeps DEF connVars

\* The answer of a call that took no longer than the timeout is cached as of now.
LEMMA StoreStep ==
  ASSUME ConnInv, NEW p \in Procs, Store(p)
  PROVE  ConnInv'
<1>0. /\ proc[p] \in ProcStates /\ proc[p].key[1] \in Clusters /\ ProcOK(p)
      /\ proc[p].making => lock = p /\ built[proc[p].key] = 0
  BY ProcTypes DEF ConnInv
<1> DEFINE c == proc[p].key[1]
           v == proc[p].v
           s == [proc[p] EXCEPT !.pc = "update"]
<1>1. /\ s \in ProcStates /\ s.pc = "update" /\ s.v = v /\ s.key = proc[p].key
      /\ s.making = proc[p].making
  BY <1>0 DEF ProcStates
<1>2. /\ proc' = [proc EXCEPT ![p] = s]
      /\ UNCHANGED <<worldVars, conn, built, haveToken, lock, failures>>
      /\ cache' = [cache EXCEPT ![c] = [v |-> v, age |-> 0]] /\ proc[p].pc = "answered"
  BY ProcTypes DEF Store
<1>3. v \in Nat \ {0} /\ v <= truth[c] /\ since[c][v] <= proc[p].age /\ proc[p].age \in 0..Timeout
  BY <1>0, <1>2 DEF ProcOK, ProcStates
<1>4. truth[c] \in Nat /\ truth[c] <= Len(History[c]) /\ Len(History[c]) \in Nat
  BY <1>0, ConnectionAssumption DEF ConnInv, TypeOK
<1>5. since[c][v] \in Nat /\ since[c][v] <= Timeout /\ since[c][v] <= Bound
  <2>1. v \in 1..Len(History[c])
    BY <1>3, <1>4
  <2>2. since[c][v] \in Nat
    BY <1>0, <2>1, ConnectionAssumption DEF ConnInv, TypeOK, Oldest
  <2> QED BY <1>3, <2>2, ConnectionAssumption DEF Bound
<1> HIDE DEF s
<1>6. proc'[p] = s
  BY <1>2, ProcTypes
<1>7. ProcOK(p)'
  <2>1. UNCHANGED <<truth, since, lock, built>>
    BY <1>2 DEF worldVars
  <2>2. proc'[p].key[1] = c /\ proc'[p].v = v
    BY <1>1, <1>6
  <2> HIDE DEF c, v
  <2> QED BY <1>0, <1>1, <1>3, <1>5, <1>6, <2>1, <2>2 DEF ProcOK
<1>8. Moves(p, s)
  BY <1>1, <1>2 DEF Moves, CurrentWithin, worldVars
<1>9. proc' \in [Procs -> ProcStates] /\ \A q \in Procs : ProcOK(q)'
  BY <1>2, <1>7, <1>8, MovesKeep
<1>10. ASSUME NEW d \in Clusters PROVE cache'[d] \in [v : 1..truth[d], age : 0..TTL] /\ ClusterOK(d)'
  <2>1. cache[d] \in [v : 1..truth[d], age : 0..TTL] /\ ClusterOK(d)
    BY DEF ConnInv, TypeOK
  <2>2. CASE d # c
    <3>1. cache'[d] = cache[d]
      BY <1>2, <2>2
    <3> QED BY <1>2, <2>1, <3>1 DEF ClusterOK, worldVars
  <2>3. CASE d = c
    <3>1. cache'[d] = [v |-> v, age |-> 0]
      BY <1>2, <2>3 DEF ConnInv, TypeOK
    <3> HIDE DEF v, c
    <3>2. cache'[d].v = v /\ cache'[d].age = 0
      BY <3>1
    <3>3. v \in 1..truth[d]
      BY <1>3, <1>4, <2>3
    <3>4. 0 \in 0..TTL /\ since[d][v] <= 0 + Timeout
      BY <1>5, <2>3, ConnectionAssumption
    <3>5. ClusterOK(d)'
      BY <1>2, <2>1, <3>2, <3>4 DEF ClusterOK, worldVars
    <3> QED BY <3>1, <3>3, <3>4, <3>5
  <2> QED BY <2>2, <2>3
<1>11. TypeOK'
  BY <1>2, <1>9, <1>10 DEF ConnInv, TypeOK, worldVars
<1> QED BY <1>2, <1>9, <1>10, <1>11 DEF ConnInv, BuiltOnce

\* The transport is switched to what the goroutine was told; whoever is about to
\* send on the same connection sends with that.
LEMMA UpdateStep ==
  ASSUME ConnInv, NEW p \in Procs, Update(p)
  PROVE  ConnInv'
<1>0. /\ proc[p] \in ProcStates /\ proc[p].key \in Keys /\ proc[p].key[1] \in Clusters
      /\ proc[p].making => lock = p /\ built[proc[p].key] = 0
      /\ lock \in Procs \cup {NoProc}
  BY ProcTypes
<1>1. UNCHANGED <<worldVars, cache, haveToken, failures>> /\ proc[p].pc = "update"
  BY DEF Update
<1> DEFINE k == proc[p].key
           v == proc[p].v
           config == ConfigAt(k, v)
<1>2. v \in Nat \ {0} /\ v <= truth[k[1]] /\ since[k[1]][v] <= Bound
  <2>1. ProcOK(p)
    BY DEF ConnInv
  <2> QED BY <1>0, <1>1, <2>1 DEF ProcOK, ProcStates
<1>3. v \in 1..truth[k[1]]
  <2>1. truth[k[1]] \in Nat
    BY <1>0 DEF ConnInv, TypeOK
  <2> QED BY <1>2, <2>1
<1>4. CASE config = NoConfig
  <2>1. LookupFails(p) /\ UNCHANGED <<conn, built>>
    BY <1>4 DEF Update
  <2>2. failures' \in 0..MaxFailures
    BY <1>1 DEF ConnInv, TypeOK
  <2> QED BY <1>1, <2>1, <2>2, FailureStep DEF connVars
<1>5. CASE config # NoConfig
  <2> DEFINE made == [proc[p] EXCEPT !.pc = "lookup", !.making = FALSE]
             sends == [proc[p] EXCEPT !.pc = "send"]
             s == IF proc[p].making THEN made ELSE sends
  <2>1. /\ made \in ProcStates /\ made.pc = "lookup" /\ ~made.making
        /\ sends \in ProcStates /\ sends.pc = "send" /\ sends.key = k
        /\ sends.making = proc[p].making
    BY <1>0 DEF ProcStates
  <2>2. proc' = [proc EXCEPT ![p] = s] /\ s \in ProcStates
    BY <1>5, <2>1, ProcTypes DEF Update
  <2>3. /\ built' = IF proc[p].making THEN [built EXCEPT ![k] = @ + 1] ELSE built
        /\ lock' = IF proc[p].making THEN NoProc ELSE lock
    BY <1>5 DEF Update
  <2>4. conn' = [conn EXCEPT ![k] = config]
    <3>1. conn' = [conn EXCEPT ![k] = Switch(conn[k], config)]
      BY <1>5 DEF Update
    <3> QED BY <1>0, <3>1, SwitchResult
  <2>5. /\ conn'[k] = config /\ \A j \in Keys : j # k => conn'[j] = conn[j]
        /\ conn' = [j \in Keys |-> conn'[j]]
    BY <1>0, <2>4 DEF ConnInv
  <2> HIDE DEF made, sends
  <2>6. proc'[p] = s
    BY <2>2, ProcTypes
  <2>7. \A j \in Keys : j = k => CurrentWithin(j, Bound)'
    BY <1>1, <1>2, <1>3, <2>5 DEF CurrentWithin, worldVars
  <2>8. \A j \in Keys : CurrentWithin(j, Bound) => CurrentWithin(j, Bound)'
    <3>1. ASSUME NEW j \in Keys, j # k, CurrentWithin(j, Bound) PROVE CurrentWithin(j, Bound)'
      BY <1>1, <2>5, <3>1 DEF CurrentWithin, worldVars
    <3> QED BY <2>7, <3>1
  <2>9. Moves(p, s)
    BY <1>0, <2>2, <2>3, <2>8 DEF Moves
  <2>10. ProcOK(p)'
    <3>1. CASE proc[p].making
      BY <2>1, <2>6, <3>1, IdleOK
    <3>2. CASE ~proc[p].making
      <4>1. proc'[p].pc = "send" /\ ~proc'[p].making /\ proc'[p].key = k
        BY <2>1, <2>6, <3>2
      <4>2. ASSUME NEW j \in Keys, proc'[p].key = j PROVE CurrentWithin(j, Bound)'
        BY <2>7, <4>1, <4>2
      <4> QED BY <1>0, <4>1, <4>2 DEF ProcOK
    <3> QED BY <3>1, <3>2
  <2>11. proc' \in [Procs -> ProcStates] /\ \A q \in Procs : ProcOK(q)'
    BY <1>1, <2>9, <2>10, MovesKeep
  <2>12. built' \in [Keys -> Nat] /\ BuiltOnce'
    <3>1. built \in [Keys -> Nat] /\ BuiltOnce
      BY DEF ConnInv, TypeOK
    <3>2. CASE proc[p].making
      <4>1. k \in Keys /\ built[k] = 0 /\ built' = [built EXCEPT ![k] = built[k] + 1]
        BY <1>0, <2>3, <3>2
      <4> HIDE DEF k
      <4>2. \A j \in Keys : built'[j] = IF j = k THEN 1 ELSE built[j]
        BY <3>1, <4>1
      <4>3. built' \in [Keys -> Nat]
        BY <3>1, <4>1
      <4>4. \A j \in Keys : built'[j] <= 1
        BY <3>1, <4>2 DEF BuiltOnce
      <4> QED BY <4>3, <4>4 DEF BuiltOnce
    <3> QED BY <2>3, <3>1, <3>2 DEF BuiltOnce
  <2>13. \A j \in Keys : conn'[j] \in {NoConfig} \cup {ConfigAt(j, u) : u \in 1..truth[j[1]]}
    <3>1. ASSUME NEW j \in Keys, j # k
          PROVE  conn'[j] \in {NoConfig} \cup {ConfigAt(j, u) : u \in 1..truth[j[1]]}
      BY <2>5, <3>1 DEF ConnInv, TypeOK
    <3>2. conn'[k] \in {ConfigAt(k, u) : u \in 1..truth[k[1]]}
      BY <1>3, <2>5
    <3> QED BY <3>1, <3>2
  <2>14. TypeOK'
    BY <1>0, <1>1, <2>3, <2>11, <2>12, <2>13 DEF ConnInv, TypeOK, worldVars
  <2>15. \A c \in Clusters : ClusterOK(c)'
    BY <1>1 DEF ConnInv, ClusterOK, worldVars
  <2>16. cache' = [c \in Clusters |-> cache'[c]]
    BY <1>1 DEF ConnInv
  <2> QED BY <2>5, <2>11, <2>12, <2>14, <2>15, <2>16 DEF ConnInv
<1> QED BY <1>4, <1>5
------------------------------------------------------------------------------
(****************************************************************************)
(* The clusters and the clock.                                              *)
(****************************************************************************)

LEMMA RotateStep ==
  ASSUME ConnInv, NEW c \in Clusters, Rotate(c)
  PROVE  ConnInv'
<1>0. /\ truth \in [Clusters -> Nat \ {0}] /\ truth' = [truth EXCEPT ![c] = @ + 1]
      /\ UNCHANGED <<since, connVars, lock, proc, failures>> /\ truth[c] < Len(History[c])
  BY DEF Rotate, ConnInv, TypeOK
<1>1. \A d \in Clusters : /\ truth'[d] \in Nat \ {0} /\ truth[d] <= truth'[d]
                          /\ truth'[d] <= Len(History[d])
                          /\ 1..truth[d] \subseteq 1..truth'[d]
  <2>1. ASSUME NEW d \in Clusters
        PROVE  /\ truth'[d] \in Nat \ {0} /\ truth[d] <= truth'[d]
               /\ truth'[d] <= Len(History[d])
    <3>1. Len(History[d]) \in Nat /\ truth[d] \in Nat \ {0} /\ truth[d] <= Len(History[d])
      BY <1>0, ConnectionAssumption DEF ConnInv, TypeOK
    <3>2. truth'[d] = IF d = c THEN truth[d] + 1 ELSE truth[d]
      BY <1>0
    <3> QED BY <1>0, <3>1, <3>2
  <2> QED BY <1>0, <2>1
<1>2. truth' \in [Clusters -> Nat \ {0}]
  BY <1>0
<1>3. \A k \in Keys : CurrentWithin(k, Bound) => CurrentWithin(k, Bound)'
  BY <1>0, <1>1, KeyCluster DEF CurrentWithin, connVars
<1>4. TypeOK'
  <2>1. \A d \in Clusters : cache'[d] \in [v : 1..truth'[d], age : 0..TTL]
    <3>1. ASSUME NEW d \in Clusters PROVE cache'[d] \in [v : 1..truth'[d], age : 0..TTL]
      <4>1. cache'[d] \in [v : 1..truth[d], age : 0..TTL] /\ 1..truth[d] \subseteq 1..truth'[d]
        BY <1>0, <1>1 DEF ConnInv, TypeOK, connVars
      <4> QED BY <4>1
    <3> QED BY <3>1
  <2>2. \A k \in Keys : conn'[k] \in {NoConfig} \cup {ConfigAt(k, v) : v \in 1..truth'[k[1]]}
    <3>1. \A k \in Keys : conn'[k] \in {NoConfig} \cup {ConfigAt(k, v) : v \in 1..truth[k[1]]}
      BY <1>0 DEF ConnInv, TypeOK, connVars
    <3> QED BY <1>1, <3>1, KeyCluster
  <2> QED BY <1>0, <1>1, <1>2, <2>1, <2>2 DEF ConnInv, TypeOK, connVars
<1>5. \A d \in Clusters : ClusterOK(d)'
  <2>1. ASSUME NEW d \in Clusters PROVE ClusterOK(d)'
    <3>1. ASSUME NEW v \in 1..Len(History[d]), v >= truth'[d] PROVE since'[d][v] = 0
      <4>1. v >= truth[d]
        BY <1>0, <1>1, <3>1, ConnectionAssumption
      <4> QED BY <1>0, <4>1 DEF ConnInv, ClusterOK
    <3> QED BY <1>0, <3>1 DEF ConnInv, ClusterOK, connVars
  <2> QED BY <2>1
<1>6. ASSUME NEW p \in Procs PROVE ProcOK(p)'
  <2>1. ProcOK(p) /\ proc'[p] = proc[p] /\ proc[p] \in ProcStates /\ proc[p].key \in Keys
    BY <1>0, ProcTypes DEF ConnInv
  <2>2. proc[p].pc \in {"answered", "update"} => proc[p].v <= truth'[proc[p].key[1]]
    <3>1. /\ proc[p].v \in Nat /\ truth[proc[p].key[1]] \in Nat
          /\ truth'[proc[p].key[1]] \in Nat
          /\ truth[proc[p].key[1]] <= truth'[proc[p].key[1]]
      BY <1>0, <1>1, <2>1, KeyCluster DEF ProcStates
    <3> QED BY <2>1, <3>1 DEF ProcOK
  <2>3. (proc[p].pc = "send" /\ proc[p].ok => CurrentWithin(proc[p].key, Bound))'
    <3>1. ASSUME NEW k \in Keys, proc[p].key = k, proc[p].pc = "send" /\ proc[p].ok
          PROVE  CurrentWithin(k, Bound)'
      BY <1>3, <2>1, <3>1 DEF ProcOK
    <3> QED BY <2>1, <3>1
  <2> QED BY <1>0, <2>1, <2>2, <2>3 DEF ProcOK, connVars
<1> QED BY <1>0, <1>4, <1>5, <1>6 DEF ConnInv, BuiltOnce, connVars

\* Time passes only while every goroutine waits: what is about to be sent does not
\* age, and an answer, a call and the lookup cache age together.
LEMMA TickStep ==
  ASSUME ConnInv, Tick
  PROVE  ConnInv'
<1>0. /\ UNCHANGED <<truth, conn, built, haveToken, lock, failures>>
      /\ \A p \in Procs : Waiting(p)
      /\ proc \in [Procs -> ProcStates]
  BY DEF Tick, ConnInv, TypeOK
<1>1. ASSUME NEW c \in Clusters, NEW v \in 1..Len(History[c])
      PROVE  /\ since[c][v] \in 0..Oldest /\ since'[c][v] \in 0..Oldest
             /\ since'[c][v] <= since[c][v] + 1
             /\ v >= truth[c] => since'[c][v] = 0
  <2>1. since[c][v] \in 0..Oldest /\ truth[c] \in Nat /\ v \in Nat
    BY ConnectionAssumption DEF ConnInv, TypeOK
  <2>2. since'[c][v] = IF v < truth[c] THEN Older(since[c][v]) ELSE 0
    BY DEF Tick
  <2> DEFINE a == since[c][v]
             b == since'[c][v]
  <2>3. a \in 0..Oldest /\ b = IF v < truth[c] THEN Older(a) ELSE 0
    BY <2>1, <2>2
  <2> HIDE DEF a, b
  <2>4. b \in 0..Oldest /\ b <= a + 1 /\ (v >= truth[c] => b = 0)
    BY <2>1, <2>3, TimeTypes DEF Older
  <2> QED BY <2>3, <2>4 DEF a, b
<1>2. ASSUME NEW c \in Clusters
      PROVE  /\ cache'[c] \in [v : 1..truth[c], age : 0..TTL]
             /\ cache'[c].v = cache[c].v
             /\ cache'[c].age = IF cache[c].age < TTL THEN cache[c].age + 1 ELSE cache[c].age
  <2> DEFINE e == cache[c]
  <2>1. e \in [v : 1..truth[c], age : 0..TTL]
    BY DEF ConnInv, TypeOK
  <2>2. cache'[c] = [e EXCEPT !.age = IF @ < TTL THEN @ + 1 ELSE @]
    BY DEF Tick
  <2> HIDE DEF e
  <2> DEFINE a == IF e.age < TTL THEN e.age + 1 ELSE e.age
  <2>3. a \in 0..TTL
    BY <2>1, TimeTypes
  <2>4. cache'[c] = [e EXCEPT !.age = a]
    BY <2>1, <2>2
  <2> HIDE DEF a
  <2>5. cache'[c] \in [v : 1..truth[c], age : 0..TTL] /\ cache'[c].v = e.v /\ cache'[c].age = a
    BY <2>1, <2>3, <2>4
  <2> QED BY <2>5 DEF e, a
<1>3. ASSUME NEW p \in Procs
      PROVE  /\ proc'[p] \in ProcStates
             /\ \/ /\ proc[p].pc \in {"fetch", "answered"}
                   /\ proc'[p] = [proc[p] EXCEPT !.age = @ + 1]
                \/ proc'[p] = AtRest
                \/ proc'[p] = proc[p] /\ proc[p].pc \in {"idle", "lock"}
  <2>1. proc[p] \in ProcStates /\ Waiting(p)
    BY <1>0
  <2>2. proc'[p] = CASE proc[p].pc \in {"fetch", "answered"} -> [proc[p] EXCEPT !.age = @ + 1]
                    [] proc[p].pc = "rest" -> AtRest
                    [] OTHER -> proc[p]
    BY DEF Tick
  <2>3. CASE proc[p].pc \in {"fetch", "answered"}
    <3>1. proc'[p] = [proc[p] EXCEPT !.age = @ + 1]
      BY <2>2, <2>3
    <3>2. proc[p].age + 1 \in 0..Timeout
      BY <2>1, <2>3, TimeTypes DEF Waiting, ProcStates
    <3> QED BY <2>1, <2>3, <3>1, <3>2 DEF ProcStates
  <2>4. CASE proc[p].pc = "rest"
    BY <2>2, <2>4, AtRestType
  <2>5. CASE proc[p].pc \notin {"fetch", "answered", "rest"}
    <3>1. proc'[p] = proc[p]
      BY <2>2, <2>5
    <3> QED BY <2>1, <2>5, <3>1 DEF Waiting
  <2> QED BY <2>3, <2>4, <2>5
<1>4. ASSUME NEW p \in Procs PROVE ProcOK(p)'
  <2>1. CASE proc'[p] = AtRest
    BY <2>1, AtRestType, IdleOK
  <2>2. CASE proc'[p] = proc[p] /\ proc[p].pc \in {"idle", "lock"}
    BY <1>0, <2>2 DEF ProcOK, ConnInv
  <2>3. CASE proc[p].pc \in {"fetch", "answered"} /\ proc'[p] = [proc[p] EXCEPT !.age = @ + 1]
    <3>1. /\ proc'[p].pc = proc[p].pc /\ proc'[p].v = proc[p].v /\ proc'[p].key = proc[p].key
          /\ proc'[p].making = proc[p].making /\ proc'[p].age = proc[p].age + 1
          /\ proc[p].age \in Nat /\ proc[p].v \in Nat \ {0} /\ proc[p].key \in Keys
      BY <1>0, <2>3, TimeTypes DEF ProcStates
    <3> DEFINE c == proc[p].key[1]
               v == proc[p].v
    <3>2. /\ proc[p].pc = "answered" => v <= truth[c] /\ since[c][v] <= proc[p].age
          /\ proc[p].making => lock = p /\ built[proc[p].key] = 0
      BY DEF ConnInv, ProcOK
    <3>3. proc[p].pc = "answered" => since'[c][v] <= proc[p].age + 1
      <4>1. c \in Clusters /\ truth[c] \in Nat /\ Len(History[c]) \in Nat /\ truth[c] <= Len(History[c])
        BY <3>1, KeyCluster, ConnectionAssumption DEF ConnInv, TypeOK
      <4>2. proc[p].pc = "answered" => v \in 1..Len(History[c])
        BY <3>1, <3>2, <4>1
      <4> HIDE DEF c, v
      <4>3. proc[p].pc = "answered" => /\ since[c][v] \in Nat /\ since'[c][v] \in Nat
                                      /\ since'[c][v] <= since[c][v] + 1
        BY <1>1, <4>1, <4>2, TimeTypes
      <4> QED BY <3>1, <3>2, <4>3
    <3>4. proc'[p].key[1] = c
      BY <3>1
    <3> HIDE DEF c
    <3> QED BY <1>0, <2>3, <3>1, <3>2, <3>3, <3>4 DEF ProcOK
  <2> QED BY <1>3, <2>1, <2>2, <2>3
<1>5. ASSUME NEW c \in Clusters PROVE ClusterOK(c)'
  <2> DEFINE u == cache[c].v
             a == cache[c].age
  <2>1. u \in 1..Len(History[c]) /\ a \in Nat
    BY TimeTypes, ConnectionAssumption DEF ConnInv, TypeOK
  <2>2. cache'[c].age < TTL => a < TTL /\ cache'[c].age = a + 1
    BY <1>2, <2>1, TimeTypes
  <2>3. a < TTL => since[c][u] <= a + Timeout
    BY DEF ConnInv, ClusterOK
  <2>4. since'[c][u] <= since[c][u] + 1 /\ since[c][u] \in Nat /\ since'[c][u] \in Nat
    BY <1>1, <2>1, TimeTypes
  <2>5. cache'[c].age < TTL => since'[c][cache'[c].v] <= cache'[c].age + Timeout
    <3>1. cache'[c].v = u /\ Timeout \in Nat
      BY <1>2, TimeTypes
    <3> HIDE DEF u, a
    <3>2. cache'[c].age < TTL => since'[c][u] <= a + 1 + Timeout
      BY <2>1, <2>2, <2>3, <2>4, <3>1
    <3> QED BY <2>1, <2>2, <3>1, <3>2
  <2>6. \A v \in 1..Len(History[c]) : v >= truth'[c] => since'[c][v] = 0
    BY <1>0, <1>1
  <2> QED BY <2>5, <2>6 DEF ClusterOK
<1>6. TypeOK'
  <2>1. proc' \in [Procs -> ProcStates]
    BY <1>3 DEF Tick
  <2>2. \A c \in Clusters : since'[c] \in [1..Len(History[c]) -> 0..Oldest]
    BY <1>1 DEF Tick
  <2> QED BY <1>0, <1>2, <2>1, <2>2 DEF ConnInv, TypeOK
<1>7. cache' = [c \in Clusters |-> cache'[c]]
  BY DEF Tick
<1> QED BY <1>0, <1>4, <1>5, <1>6, <1>7 DEF ConnInv, BuiltOnce
------------------------------------------------------------------------------
(****************************************************************************)
(* The theorems.                                                            *)
(****************************************************************************)

LEMMA InitConn == Init => ConnInv
<1> SUFFICES ASSUME Init PROVE ConnInv
  OBVIOUS
<1>1. ASSUME NEW c \in Clusters
      PROVE  /\ truth[c] = 1 /\ truth[c] <= Len(History[c])
             /\ since[c] \in [1..Len(History[c]) -> 0..Oldest]
             /\ cache[c] \in [v : 1..truth[c], age : 0..TTL]
             /\ ClusterOK(c)
  <2>1. Len(History[c]) \in Nat \ {0}
    BY ConnectionAssumption
  <2>2. truth[c] = 1 /\ cache[c].age = TTL /\ cache[c].v = 1
    BY DEF Init, NeverFetched
  <2>3. cache[c] \in [v : 1..truth[c], age : 0..TTL]
    BY <2>2, TimeTypes DEF Init, NeverFetched
  <2>4. since[c] \in [1..Len(History[c]) -> 0..Oldest] /\ \A v \in 1..Len(History[c]) : since[c][v] = 0
    BY TimeTypes DEF Init
  <2> QED BY <2>1, <2>2, <2>3, <2>4, TimeTypes DEF ClusterOK
<1>2. \A p \in Procs : ProcOK(p)
  BY AtRestType DEF Init, ProcOK
<1>3. TypeOK
  <2>1. truth \in [Clusters -> Nat \ {0}] /\ built \in [Keys -> Nat]
    BY DEF Init
  <2>2. proc \in [Procs -> ProcStates]
    BY AtRestType DEF Init
  <2>3. \A k \in Keys : conn[k] = NoConfig
    BY DEF Init
  <2>4. haveToken \in BOOLEAN /\ lock \in Procs \cup {NoProc} /\ failures \in 0..MaxFailures
    <3>1. MaxFailures \in Nat
      BY ConnectionAssumption
    <3>2. lock = NoProc /\ failures = MaxFailures
      BY DEF Init
    <3>3. haveToken \in BOOLEAN
      BY Zenon DEF Init
    <3>4. failures \in 0..MaxFailures
      BY <3>1, <3>2
    <3> QED BY <3>2, <3>3, <3>4
  <2> QED BY <1>1, <2>1, <2>2, <2>3, <2>4 DEF TypeOK
<1> QED BY <1>1, <1>2, <1>3 DEF Init, ConnInv, BuiltOnce

LEMMA StepConn == ConnInv /\ [Next]_vars => ConnInv'
<1> SUFFICES ASSUME ConnInv, [Next]_vars PROVE ConnInv'
  OBVIOUS
<1>1. ASSUME NEW p \in Procs, Step(p) PROVE ConnInv'
  <2>1. ASSUME Fail PROVE failures' \in 0..MaxFailures
    BY <2>1, ConnectionAssumption DEF Fail, ConnInv, TypeOK
  <2>2. CASE TokenFails(p)
    BY <2>1, <2>2, FailureStep DEF TokenFails
  <2>3. CASE FetchFails(p)
    BY <2>1, <2>3, FailureStep DEF FetchFails
  <2>4. CASE UpdateFails(p)
    BY <2>1, <2>4, FailureStep DEF UpdateFails
  <2> QED BY <1>1, <2>2, <2>3, <2>4, LockStep, LookupStep, AnswerStep, StoreStep, UpdateStep, SendStep
          DEF Step
<1>2. CASE UNCHANGED vars
  <2>1. TypeOK' /\ BuiltOnce' /\ UNCHANGED vars
    BY <1>2 DEF vars, ConnInv, TypeOK, BuiltOnce
  <2>2. \A p \in Procs : ProcOK(p)'
    BY <1>2 DEF vars, ConnInv, ProcOK, CurrentWithin
  <2> QED BY <1>2, <2>1, <2>2 DEF vars, ConnInv, ClusterOK
<1> QED BY <1>1, <1>2, AskStep, RotateStep, TickStep DEF Next

LEMMA ConnInvHolds == Spec => []ConnInv
BY InitConn, StepConn, PTL DEF Spec

\* The lookup cache and the transports hold only states the clusters have had, and
\* no call outlives its timeout.
THEOREM ConnectionTypes == Spec => []TypeOK
BY ConnInvHolds, PTL DEF ConnInv

\* However many goroutines ask for a connection that does not exist yet, and
\* however often building its client fails, one client is built.
THEOREM OneClientPerKey == Spec => []BuiltOnce
BY ConnInvHolds, PTL DEF ConnInv

\* No request whose lookup succeeded is sent with settings that the cluster left
\* more than TTL + Timeout - 1 ago, for any TTL, timeout, history and number of
\* goroutines that share the lookup cache and the transport.
THEOREM RequestsAreCurrent == Spec => StalenessBounded
<1>1. ConnInv /\ [Next]_vars =>
        [\A p \in Procs : Sends(p) => CurrentWithin(proc[p].key, TTL + Timeout - 1)]_vars
  BY DEF ConnInv, ProcOK, Sends, Bound
<1> QED BY <1>1, ConnInvHolds, PTL DEF Spec, StalenessBounded
==============================================================================
