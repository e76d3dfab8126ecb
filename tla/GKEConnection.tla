--------------------------- MODULE GKEConnection ---------------------------
(****************************************************************************)
(* How goroutines reach remote GKE clusters: remoteClientCache (one client  *)
(* per connection key, built under a mutex), GKEConfigProvider (a cluster   *)
(* lookup cache with a TTL, shared by all connections and not held locked   *)
(* during a fetch) and rotatingTransport (each request looks the cluster up *)
(* again, switches to its endpoint and CA, and is sent with what the        *)
(* transport then holds).                                                   *)
(*                                                                          *)
(* Time is discrete and kept as ages, which are capped, so it never ends.   *)
(* It passes only while goroutines wait for the network or a mutex: what    *)
(* they compute in between takes no time, and a request takes a tick.       *)
(****************************************************************************)
EXTENDS Integers, Sequences

CONSTANTS
  Procs,        \* goroutines
  NoProc,
  Remotes,      \* spec.remote values: a cluster, an endpoint, complete or not
  Clusters,     \* GKE clusters
  History,      \* History[c]: the states of cluster c, as the GKE API returns it
  NoHost,       \* an endpoint the cluster does not have
  BadCA,        \* a CA certificate that cannot be decoded
  SystemRoots,
  TTL,          \* gkeClusterTTL
  Timeout,      \* of a GKE API call
  MaxFailures   \* how many calls may fail

ASSUME ConnectionAssumption ==
  /\ NoProc \notin Procs
  /\ \A r \in Remotes : r.cluster \in Clusters /\ r.complete \in BOOLEAN
  /\ \E r \in Remotes : r.complete
  /\ \A c \in Clusters : Len(History[c]) \in Nat \ {0}
  /\ TTL \in Nat \ {0}
  /\ Timeout \in Nat
  /\ MaxFailures \in Nat

VARIABLES
  truth,      \* truth[c]: which state of its history cluster c is in
  since,      \* since[c][v]: how long ago c left state v
  cache,      \* cache[c]: the state looked up last, and its age
  conn,       \* conn[k]: what the transport of connection k holds
  built,      \* built[k]: how often a client was built for k
  haveToken,  \* the provider has its token source
  lock,       \* who holds the mutex of remoteClientCache
  proc,       \* proc[p]: what goroutine p is doing
  failures    \* how many calls may still fail

vars == <<truth, since, cache, conn, built, haveToken, lock, proc, failures>>

\* ages beyond this are not told apart
Oldest == TTL + Timeout + 1
Older(age) == IF age < Oldest THEN age + 1 ELSE age

\* no connection, no usable endpoint
NoConfig == [host |-> NoHost, ca |-> SystemRoots]

\* gkeClusterName and Key: remotes that differ in namespace or in an endpoint
\* left to its default share a connection; an incomplete remote has no key
EndpointOf(remote) == IF remote.endpoint = "" THEN "Default" ELSE remote.endpoint
Key(remote) == <<remote.cluster, EndpointOf(remote)>>
Keys == {Key(r) : r \in {x \in Remotes : x.complete}}

\* ipRESTConfig: fails if the CA cannot be decoded
ipRESTConfig(host, ca) == IF ca = BadCA THEN NoConfig ELSE [host |-> host, ca |-> ca]

\* restConfig: the host and CA to reach cluster state c through an endpoint.  The
\* DNS endpoint is trusted through the system roots.
restConfig(c, endpoint) ==
  CASE endpoint = "DNS" /\ c.dns # NoHost /\ c.dnsExternal ->
         [host |-> c.dns, ca |-> SystemRoots]
    [] endpoint = "PrivateIP" /\ c.private # NoHost -> ipRESTConfig(c.private, c.ca)
    [] endpoint = "PrivateIP" /\ c.private = NoHost /\ c.oldPrivate # NoHost ->
         ipRESTConfig(c.oldPrivate, c.ca)
    [] endpoint = "Default" /\ c.ip # NoHost -> ipRESTConfig(c.ip, c.ca)
    [] OTHER -> NoConfig

ConfigAt(k, v) == restConfig(History[k[1]][v], k[2])

NeverFetched == [v |-> 1, age |-> TTL]
AtRest == [pc |-> "idle", key |-> CHOOSE k \in Keys : TRUE, v |-> 1, age |-> 0,
           making |-> FALSE, ok |-> TRUE]

Init ==
  /\ truth = [c \in Clusters |-> 1]
  /\ since = [c \in Clusters |-> [v \in 1..Len(History[c]) |-> 0]]
  /\ cache = [c \in Clusters |-> NeverFetched]
  /\ conn = [k \in Keys |-> NoConfig]
  /\ built = [k \in Keys |-> 0]
  /\ haveToken = FALSE
  /\ lock = NoProc
  /\ proc = [p \in Procs |-> AtRest]
  /\ failures = MaxFailures
------------------------------------------------------------------------------
(****************************************************************************)
(* remoteClientCache.get, then a request with the client.                   *)
(****************************************************************************)

connVars == <<cache, conn, built, haveToken>>
worldVars == <<truth, since>>

Fail == failures > 0 /\ failures' = failures - 1

\* a goroutine asks for a client; without a key it gets an error and stays idle
Ask(p, r) ==
  /\ proc[p].pc = "idle"
  /\ r.complete
  /\ proc' = [proc EXCEPT ![p] = [AtRest EXCEPT !.pc = "lock", !.key = Key(r)]]
  /\ UNCHANGED <<worldVars, connVars, lock, failures>>

\* mutant: the map is read without the mutex
LockClientsRacy(p) ==
  /\ proc[p].pc = "lock"
  /\ proc' = [proc EXCEPT ![p].pc = "lookup", ![p].making = (built[proc[p].key] = 0)]
  /\ UNCHANGED <<worldVars, connVars, lock, failures>>

\* The mutex is held while a missing client is built, a cached one is returned.
LockClients(p) ==
  LET missing == built[proc[p].key] = 0 IN
  /\ proc[p].pc = "lock"
  /\ lock = NoProc
  /\ lock' = IF missing THEN p ELSE NoProc
  /\ proc' = [proc EXCEPT ![p].pc = "lookup", ![p].making = missing]
  /\ UNCHANGED <<worldVars, connVars, failures>>

\* mutant: the mutex is not released when the client cannot be built
GiveUpLocked(p) ==
  /\ proc' = [proc EXCEPT ![p] = [AtRest EXCEPT !.pc = "rest"]]
  /\ UNCHANGED lock

\* RESTConfig returns an error: nothing is cached and the mutex is released
GiveUp(p) ==
  /\ proc' = [proc EXCEPT ![p] = [AtRest EXCEPT !.pc = "rest"]]
  /\ lock' = NoProc

\* a request whose lookup failed goes out with the last known settings
LastKnown(p) ==
  /\ proc' = [proc EXCEPT ![p].pc = "send", ![p].ok = FALSE]
  /\ UNCHANGED lock

LookupFails(p) == IF proc[p].making THEN GiveUp(p) ELSE LastKnown(p)

\* mutant: a hit renews the entry
LookupRenews(p) ==
  LET c == proc[p].key[1]  hit == cache[c].age < TTL IN
  /\ proc[p].pc = "lookup"
  /\ haveToken' = TRUE
  /\ cache' = [cache EXCEPT ![c].age = IF hit THEN 0 ELSE @]
  /\ proc' = [proc EXCEPT ![p] =
                IF hit THEN [@ EXCEPT !.pc = "update", !.v = cache[c].v]
                ELSE [@ EXCEPT !.pc = "fetch", !.age = 0]]
  /\ UNCHANGED <<worldVars, conn, built, lock, failures>>

\* the first half of cluster(), under the provider's mutex
Lookup(p) ==
  LET c == proc[p].key[1] IN
  /\ proc[p].pc = "lookup"
  /\ haveToken' = TRUE
  /\ proc' = [proc EXCEPT ![p] =
                IF cache[c].age < TTL
                THEN [@ EXCEPT !.pc = "update", !.v = cache[c].v]
                ELSE [@ EXCEPT !.pc = "fetch", !.age = 0]]
  /\ UNCHANGED <<worldVars, cache, conn, built, lock, failures>>

\* tokenSource: no default credentials
TokenFails(p) ==
  /\ proc[p].pc = "lookup" /\ proc[p].making
  /\ ~haveToken
  /\ Fail
  /\ GiveUp(p)
  /\ UNCHANGED <<worldVars, connVars>>

\* fetchCluster, without any mutex: the GKE API reads the state of the cluster...
Answer(p) ==
  /\ proc[p].pc = "fetch"
  /\ proc' = [proc EXCEPT ![p].pc = "answered", ![p].v = truth[proc[p].key[1]]]
  /\ UNCHANGED <<worldVars, connVars, lock, failures>>

\* ... or the call fails, times out or returns what cannot be decoded
FetchFails(p) ==
  /\ proc[p].pc \in {"fetch", "answered"}
  /\ Fail
  /\ LookupFails(p)
  /\ UNCHANGED <<worldVars, connVars>>

\* The second half of cluster(): the answer is cached as of now, whoever else
\* fetched and stored in the meantime.
Store(p) ==
  LET c == proc[p].key[1] IN
  /\ proc[p].pc = "answered"
  /\ cache' = [cache EXCEPT ![c] = [v |-> proc[p].v, age |-> 0]]
  /\ proc' = [proc EXCEPT ![p].pc = "update"]
  /\ UNCHANGED <<worldVars, conn, built, haveToken, lock, failures>>

\* mutant: only the host is compared, so a new CA at the same address is missed
SwitchOnHost(old, new) == IF old.host = new.host THEN old ELSE new

\* rotatingTransport.update: switch if the endpoint or the CA differ
Switch(old, new) == IF old.host = new.host /\ old.ca = new.ca THEN old ELSE new

\* restConfig and rotatingTransport.update, for a new client or for a request
Update(p) ==
  LET k == proc[p].key  config == ConfigAt(k, proc[p].v) IN
  /\ proc[p].pc = "update"
  /\ IF config = NoConfig
     THEN LookupFails(p) /\ UNCHANGED <<conn, built>>
     ELSE /\ conn' = [conn EXCEPT ![k] = Switch(@, config)]
          /\ IF proc[p].making
             THEN /\ built' = [built EXCEPT ![k] = @ + 1]
                  /\ lock' = NoProc
                  /\ proc' = [proc EXCEPT ![p].pc = "lookup", ![p].making = FALSE]
             ELSE /\ proc' = [proc EXCEPT ![p].pc = "send"]
                  /\ UNCHANGED <<built, lock>>
  /\ UNCHANGED <<worldVars, cache, haveToken, failures>>

\* newClusterTransport for new settings, or client.New, returns an error: a transport
\* in use keeps its settings, one for a new client is dropped
UpdateFails(p) ==
  LET k == proc[p].key  config == ConfigAt(k, proc[p].v) IN
  /\ proc[p].pc = "update"
  /\ config # NoConfig
  /\ proc[p].making \/ Switch(conn[k], config) # conn[k]
  /\ Fail
  /\ LookupFails(p)
  /\ UNCHANGED <<worldVars, connVars>>

\* the transport and the host are read, together, and the request is sent
Send(p) ==
  /\ proc[p].pc = "send"
  /\ proc' = [proc EXCEPT ![p] = [AtRest EXCEPT !.pc = "rest"]]
  /\ UNCHANGED <<worldVars, connVars, lock, failures>>

Step(p) ==
  \/ LockClients(p) \/ Lookup(p) \/ TokenFails(p) \/ Answer(p) \/ FetchFails(p)
  \/ Store(p) \/ Update(p) \/ UpdateFails(p) \/ Send(p)
------------------------------------------------------------------------------
(****************************************************************************)
(* The clusters and the clock.                                              *)
(****************************************************************************)

\* an operator changes the cluster: credential rotation, endpoints
Rotate(c) ==
  /\ truth[c] < Len(History[c])
  /\ truth' = [truth EXCEPT ![c] = @ + 1]
  /\ UNCHANGED <<since, connVars, lock, proc, failures>>

\* mutant: calls to the GKE API have no timeout
WaitingNoTimeout(p) ==
  \/ proc[p].pc \in {"idle", "rest", "fetch", "answered"}
  \/ proc[p].pc = "lock" /\ lock # NoProc

\* p is waiting: for work, for a response or a backoff, for the mutex or for the
\* GKE API
Waiting(p) ==
  \/ proc[p].pc \in {"idle", "rest"}
  \/ proc[p].pc = "lock" /\ lock # NoProc
  \/ proc[p].pc \in {"fetch", "answered"} /\ proc[p].age < Timeout

Tick ==
  /\ \A p \in Procs : Waiting(p)
  /\ since' = [c \in Clusters |-> [v \in 1..Len(History[c]) |->
                 IF v < truth[c] THEN Older(since[c][v]) ELSE 0]]
  /\ cache' = [c \in Clusters |-> [cache[c] EXCEPT !.age = IF @ < TTL THEN @ + 1 ELSE @]]
  /\ proc' = [p \in Procs |->
                CASE proc[p].pc \in {"fetch", "answered"} -> [proc[p] EXCEPT !.age = @ + 1]
                  [] proc[p].pc = "rest" -> AtRest
                  [] OTHER -> proc[p]]
  /\ UNCHANGED <<truth, conn, built, haveToken, lock, failures>>

Next ==
  \/ \E p \in Procs, r \in Remotes : Ask(p, r)
  \/ \E p \in Procs : Step(p)
  \/ \E c \in Clusters : Rotate(c)
  \/ Tick

Spec == Init /\ [][Next]_vars

\* Goroutines run, time passes, and a mutex of Go is handed to whoever waits
\* long enough, so nobody waits for it for ever while others take turns.
Fairness ==
  /\ \A p \in Procs : WF_vars(Step(p)) /\ SF_vars(LockClients(p))
  /\ WF_vars(Tick)

FairSpec == Spec /\ Fairness
------------------------------------------------------------------------------
(****************************************************************************)
(* Properties.                                                              *)
(****************************************************************************)

ProcStates ==
  [pc : {"idle", "lock", "lookup", "fetch", "answered", "update", "send", "rest"},
   key : Keys, v : Nat \ {0}, age : 0..Timeout, making : BOOLEAN, ok : BOOLEAN]

\* Types and bounds: the cache and the transports only hold states the cluster has
\* had, and no GKE API call outlives its timeout (fetchCluster).
TypeOK ==
  /\ truth \in [Clusters -> Nat \ {0}]
  /\ \A c \in Clusters :
       /\ truth[c] <= Len(History[c])
       /\ since[c] \in [1..Len(History[c]) -> 0..Oldest]
       /\ cache[c] \in [v : 1..truth[c], age : 0..TTL]
  /\ \A k \in Keys : conn[k] \in {NoConfig} \cup {ConfigAt(k, v) : v \in 1..truth[k[1]]}
  /\ built \in [Keys -> Nat]
  /\ haveToken \in BOOLEAN
  /\ lock \in Procs \cup {NoProc}
  /\ proc \in [Procs -> ProcStates]
  /\ failures \in 0..MaxFailures

\* Every connection key has one client, however many goroutines ask for it while
\* it does not exist, and the clients share one transport.
BuiltOnce == \A k \in Keys : built[k] <= 1

\* p sends its request now, after a lookup that succeeded
Sends(p) == proc[p].pc = "send" /\ proc'[p].pc = "rest" /\ proc[p].ok

\* the settings of connection k were those of the cluster no longer ago than d
CurrentWithin(k, d) ==
  \E v \in 1..truth[k[1]] : since[k[1]][v] <= d /\ conn[k] = ConfigAt(k, v)

\* A request whose lookup succeeded is sent to an endpoint, with a CA, that the
\* cluster had less than TTL plus one API timeout ago, although lookups are not
\* serialised, a slow answer may replace a newer one in the cache, and another
\* goroutine may switch the transport back between this one's switch and its
\* send.
StalenessBounded ==
  [][\A p \in Procs : Sends(p) => CurrentWithin(proc[p].key, TTL + Timeout - 1)]_vars

\* Once a cluster stops changing and calls stop failing, every request is sent
\* with its current settings (if there are any for the endpoint), without a
\* restart: connections follow a rotation.
Converges ==
  <>[][\A p \in Procs :
         LET k == proc[p].key IN
         proc[p].pc = "send" /\ ConfigAt(k, truth[k[1]]) # NoConfig
           => proc'[p].pc = "send" \/ conn[k] = ConfigAt(k, truth[k[1]])]_vars

\* A goroutine that waits for a client gets it or an error, although the mutex is
\* held during calls to the GKE API.
NobodyStarves == \A p \in Procs : proc[p].pc = "lock" ~> proc[p].pc # "lock"
==============================================================================
