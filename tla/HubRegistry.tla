---------------------------- MODULE HubRegistry ----------------------------
(***************************************************************************)
(* The hub's registry of live repositories (internal/hub): tunnels that    *)
(* hosts open, register under a repository ID and lose again; the expiry   *)
(* of registrations nobody refreshes; the revocation of hosts; and the     *)
(* event queues of the browsers that follow the list.                      *)
(*                                                                         *)
(* One handler goroutine (acceptTunnel) runs per connection, one goroutine *)
(* expires registrations, and Server.mu covers each step that touches the  *)
(* maps, never two of them.  A connection slot is used again once its      *)
(* handler has returned.  Time passes in ticks; Late bounds how long a     *)
(* handler may be late for its own ticker, so Late is the one thing this   *)
(* model assumes about scheduling.                                         *)
(***************************************************************************)
EXTENDS Naturals, FiniteSets

CONSTANTS Hosts,    \* enrolled agent hosts, by certificate common name
          Ids,      \* repository IDs
          Conns,    \* tunnel connections
          Subs,     \* event streams of browsers
          NoConn,   \* null value
          TTL,      \* repositoryTTL
          Period,   \* tunnelHostCheckInterval
          Late,     \* how late a handler may serve its ticker
          QueueCap  \* capacity of a subscriber's channel

ASSUME RegistryAssumption ==
    /\ NoConn \notin Conns
    /\ TTL \in Nat /\ Period \in Nat /\ Late \in Nat
    /\ QueueCap \in Nat \ {0}

VARIABLES
    allowed,   \* hosts in the identity store
    pc,        \* what the handler of each connection does next
    host, id,  \* certificate and registration of each connection
    open,      \* connections whose session is not closed
    old,       \* the session a handler has replaced and will close
    timer,     \* time since the handler last served its ticker
    sessions,  \* Server.sessions: the connection registered under an ID
    repos,     \* Server.repos: the connection whose data the list shows
    age,       \* time since lastSeen of each listed repository
    expiring,  \* the expiry goroutine has removed and not yet published
    subs,      \* Server.subs
    queue,     \* events in each subscriber's channel
    owed       \* history: streams whose last event is older than the list

conns == <<pc, host, id, open, old, timer>>
maps  == <<sessions, repos, age>>
feed  == <<subs, queue>>
vars  == <<allowed, pc, host, id, open, old, timer, sessions, repos, age,
           expiring, subs, queue, owed>>

------------------------------------------------------------------------------
\* Handlers between registering a session and returning.
Active == {"close_old", "announce", "serving", "recheck"}
Registered(k) == pc[k] \in Active

At(k, from, to) == pc[k] = from /\ pc' = [pc EXCEPT ![k] = to]

\* The list as browsers see it has changed: every stream is owed an event.
ListChanged == owed' = subs

\* Mutant: publish does not drop at a full channel.
Push_Unbounded(n) == n + 1
\* Server.publish: a full channel drops the event.
Push(n) == IF n < QueueCap THEN n + 1 ELSE n
Publish == queue' = [b \in Subs |-> IF b \in subs THEN Push(queue[b]) ELSE queue[b]]

------------------------------------------------------------------------------
(* acceptTunnel, step by step.                                             *)

\* A host connects with its certificate; its handler starts.
Dial(k, h, i) ==
    /\ At(k, "free", "dialed")
    /\ \A j \in Conns : old[j] # k
    /\ host' = [host EXCEPT ![k] = h]
    /\ id' = [id EXCEPT ![k] = i]
    /\ open' = open \cup {k}
    /\ UNCHANGED <<allowed, old, timer, maps, expiring, feed, owed>>

\* The handler returns without having registered a session.
Refuse(k) ==
    /\ pc' = [pc EXCEPT ![k] = "free"]
    /\ open' = open \ {k}
    /\ UNCHANGED <<allowed, host, id, old, timer, maps, expiring, feed, owed>>

CheckHost(k) ==
    /\ pc[k] = "dialed"
    /\ IF host[k] \in allowed
       THEN /\ pc' = [pc EXCEPT ![k] = "enrolled"]
            /\ UNCHANGED <<allowed, host, id, open, old, timer, maps, expiring, feed, owed>>
       ELSE Refuse(k)

\* The connection is upgraded, the registration read, and the owner of its ID
\* looked up under the read lock: another host's session refuses it, otherwise
\* "ready" is written.
CheckOwner(k) ==
    /\ pc[k] = "enrolled"
    /\ LET owner == sessions[id[k]] IN
       IF k \notin open \/ (owner # NoConn /\ host[owner] # host[k])
       THEN Refuse(k)
       ELSE /\ pc' = [pc EXCEPT ![k] = "ready"]
            /\ UNCHANGED <<allowed, host, id, open, old, timer, maps, expiring, feed, owed>>

\* Mutant: the second look at the owner is left out.
MayRegister_Unchecked(k) == TRUE
\* Under the lock the owner is looked up again, and the session takes the ID.
MayRegister(k) ==
    sessions[id[k]] # NoConn => host[sessions[id[k]]] = host[k]
Register(k) ==
    /\ At(k, "ready", "close_old")
    /\ MayRegister(k)
    /\ old' = [old EXCEPT ![k] = sessions[id[k]]]
    /\ timer' = [timer EXCEPT ![k] = 0]
    /\ sessions' = [sessions EXCEPT ![id[k]] = k]
    /\ repos' = [repos EXCEPT ![id[k]] = k]
    /\ age' = [age EXCEPT ![id[k]] = 0]
    /\ ListChanged
    /\ UNCHANGED <<allowed, host, id, open, expiring, feed>>
RegisterRefused(k) == pc[k] = "ready" /\ ~MayRegister(k) /\ Refuse(k)

\* Outside the lock, the session that was replaced is closed.
CloseOld(k) ==
    /\ At(k, "close_old", "announce")
    /\ open' = open \ {old[k]}
    /\ old' = [old EXCEPT ![k] = NoConn]
    /\ UNCHANGED <<allowed, host, id, timer, maps, expiring, feed, owed>>
Announce(k) ==
    /\ At(k, "announce", "serving")
    /\ Publish
    /\ UNCHANGED <<allowed, host, id, open, old, timer, maps, expiring, subs, owed>>

\* The ticker fires: lastSeen is refreshed if the session is still the current
\* one, and then, without the lock, the host is looked up again.
Refresh(k) ==
    /\ At(k, "serving", "recheck")
    /\ timer[k] >= Period
    /\ timer' = [timer EXCEPT ![k] = 0]
    /\ age' = IF sessions[id[k]] = k THEN [age EXCEPT ![id[k]] = 0] ELSE age
    /\ UNCHANGED <<allowed, host, id, open, old, sessions, repos, expiring, feed, owed>>
\* Mutant: the host is only looked up when the tunnel connects.
Recheck_Never(k) ==
    /\ At(k, "recheck", "serving")
    /\ UNCHANGED <<allowed, host, id, open, old, timer, maps, expiring, feed, owed>>
Recheck(k) ==
    /\ At(k, "recheck", "serving")
    /\ open' = IF host[k] \in allowed THEN open ELSE open \ {k}
    /\ UNCHANGED <<allowed, host, id, old, timer, maps, expiring, feed, owed>>

\* Mutant: the removal does not look whether the session is still current.
RemoveSession_Any(k) ==
    /\ pc[k] = "serving" /\ k \notin open
    /\ timer' = [timer EXCEPT ![k] = 0]
    /\ pc' = [pc EXCEPT ![k] = "leaving"]
    /\ sessions' = [sessions EXCEPT ![id[k]] = NoConn]
    /\ repos' = [repos EXCEPT ![id[k]] = NoConn]
    /\ age' = [age EXCEPT ![id[k]] = 0]
    /\ ListChanged
    /\ UNCHANGED <<allowed, host, id, open, old, expiring, feed>>
\* The session is closed: removeSession takes it out of the maps unless another
\* session has taken its place, and only then publishes.
RemoveSession(k) ==
    /\ pc[k] = "serving" /\ k \notin open
    /\ timer' = [timer EXCEPT ![k] = 0]
    /\ IF sessions[id[k]] = k
       THEN /\ pc' = [pc EXCEPT ![k] = "leaving"]
            /\ sessions' = [sessions EXCEPT ![id[k]] = NoConn]
            /\ repos' = [repos EXCEPT ![id[k]] = NoConn]
            /\ age' = [age EXCEPT ![id[k]] = 0]
            /\ ListChanged
       ELSE /\ pc' = [pc EXCEPT ![k] = "free"]
            /\ UNCHANGED <<maps, owed>>
    /\ UNCHANGED <<allowed, host, id, open, old, expiring, feed>>
AnnounceGone(k) ==
    /\ At(k, "leaving", "free")
    /\ Publish
    /\ UNCHANGED <<allowed, host, id, open, old, timer, maps, expiring, subs, owed>>

------------------------------------------------------------------------------
(* The rest of the hub and its surroundings.                               *)

\* expireAt removes what nobody has refreshed; the sessions stay open.
Overdue == {i \in Ids : repos[i] # NoConn /\ age[i] > TTL}
\* Mutant: the expiry takes the repository out of the list but not its session.
Expire_KeepsSessions ==
    /\ ~expiring /\ Overdue # {}
    /\ repos' = [i \in Ids |-> IF i \in Overdue THEN NoConn ELSE repos[i]]
    /\ age' = [i \in Ids |-> IF i \in Overdue THEN 0 ELSE age[i]]
    /\ expiring' = TRUE
    /\ ListChanged
    /\ UNCHANGED <<allowed, conns, sessions, feed>>
Expire ==
    /\ ~expiring /\ Overdue # {}
    /\ sessions' = [i \in Ids |-> IF i \in Overdue THEN NoConn ELSE sessions[i]]
    /\ repos' = [i \in Ids |-> IF i \in Overdue THEN NoConn ELSE repos[i]]
    /\ age' = [i \in Ids |-> IF i \in Overdue THEN 0 ELSE age[i]]
    /\ expiring' = TRUE
    /\ ListChanged
    /\ UNCHANGED <<allowed, conns, feed>>
\* Mutant: expire forgets to tell the browsers.
AnnounceExpired_Silent ==
    /\ expiring /\ expiring' = FALSE
    /\ UNCHANGED <<allowed, conns, maps, subs, queue, owed>>
AnnounceExpired ==
    /\ expiring /\ expiring' = FALSE
    /\ Publish
    /\ UNCHANGED <<allowed, conns, maps, subs, owed>>

\* git-review-hub revoke removes the host from the identity store.
Revoke(h) ==
    /\ h \in allowed
    /\ allowed' = allowed \ {h}
    /\ UNCHANGED <<conns, maps, expiring, feed, owed>>

\* The agent goes away, the network fails or yamux stops hearing from its peer.
Drop(k) ==
    /\ k \in open
    /\ open' = open \ {k}
    /\ UNCHANGED <<allowed, pc, host, id, old, timer, maps, expiring, feed, owed>>

\* Time passes, unless a handler has put its ticker off for as long as it may;
\* no one looks at an age beyond TTL + 1.
Older(i) == IF repos[i] # NoConn /\ age[i] <= TTL THEN age[i] + 1 ELSE age[i]
Tick ==
    /\ \E k \in Conns : Registered(k)
    /\ \A k \in Conns : Registered(k) => timer[k] < Period + Late
    /\ timer' = [k \in Conns |-> IF Registered(k) THEN timer[k] + 1 ELSE timer[k]]
    /\ age' = [i \in Ids |-> Older(i)]
    /\ UNCHANGED <<allowed, pc, host, id, open, old, sessions, repos, expiring, feed, owed>>

\* A browser opens an event stream, is sent an event, or goes away.
Subscribe(b) ==
    /\ b \notin subs
    /\ subs' = subs \cup {b}
    /\ queue' = [queue EXCEPT ![b] = 0]
    /\ UNCHANGED <<allowed, conns, maps, expiring, owed>>
SendEvent(b) ==
    /\ b \in subs /\ queue[b] > 0
    /\ queue' = [queue EXCEPT ![b] = @ - 1]
    /\ owed' = owed \ {b}
    /\ UNCHANGED <<allowed, conns, maps, expiring, subs>>
Unsubscribe(b) ==
    /\ b \in subs
    /\ subs' = subs \ {b}
    /\ queue' = [queue EXCEPT ![b] = 0]
    /\ owed' = owed \ {b}
    /\ UNCHANGED <<allowed, conns, maps, expiring>>

------------------------------------------------------------------------------
Init ==
    /\ allowed = Hosts
    /\ pc = [k \in Conns |-> "free"]
    /\ host \in [Conns -> Hosts] /\ id \in [Conns -> Ids]
    /\ open = {}
    /\ old = [k \in Conns |-> NoConn]
    /\ timer = [k \in Conns |-> 0]
    /\ sessions = [i \in Ids |-> NoConn]
    /\ repos = [i \in Ids |-> NoConn]
    /\ age = [i \in Ids |-> 0]
    /\ expiring = FALSE
    /\ subs = {}
    /\ queue = [b \in Subs |-> 0]
    /\ owed = {}

Handler(k) ==
    \/ CheckHost(k) \/ CheckOwner(k) \/ Register(k) \/ RegisterRefused(k)
    \/ CloseOld(k) \/ Announce(k) \/ Refresh(k) \/ Recheck(k)
    \/ RemoveSession(k) \/ AnnounceGone(k)
Browser(b) == Subscribe(b) \/ SendEvent(b) \/ Unsubscribe(b)

Next ==
    \/ \E k \in Conns : Handler(k) \/ Drop(k)
    \/ \E k \in Conns, h \in Hosts, i \in Ids : Dial(k, h, i)
    \/ \E h \in Hosts : Revoke(h)
    \/ \E b \in Subs : Browser(b)
    \/ Expire \/ AnnounceExpired \/ Tick

Spec == Init /\ [][Next]_vars

------------------------------------------------------------------------------
Slots == {NoConn} \cup Conns
States == {"free", "dialed", "enrolled", "ready", "leaving"} \cup Active

\* Every variable stays in its domain, and a handler that has not registered
\* holds neither a replaced session nor a running ticker.
TypeOK ==
    /\ allowed \subseteq Hosts
    /\ pc \in [Conns -> States]
    /\ host \in [Conns -> Hosts] /\ id \in [Conns -> Ids]
    /\ open \subseteq Conns
    /\ old \in [Conns -> Slots]
    /\ timer \in [Conns -> Nat]
    /\ sessions \in [Ids -> Slots] /\ repos \in [Ids -> Slots]
    /\ age \in [Ids -> Nat]
    /\ expiring \in BOOLEAN
    /\ subs \subseteq Subs
    /\ queue \in [Subs -> 0..QueueCap]
    /\ owed \subseteq subs
    /\ \A k \in Conns : old[k] # NoConn => pc[k] = "close_old"
    /\ \A k \in Conns : timer[k] # 0 => Registered(k)

(* Safety.                                                                 *)

\* The list and the proxy agree: a repository is listed exactly while it has a
\* session, the session of the tunnel that registered the listed data, whose
\* handler is still there to remove it.
ListMatchesSessions ==
    \A i \in Ids :
        /\ repos[i] = sessions[i]
        /\ sessions[i] # NoConn => Registered(sessions[i]) /\ id[sessions[i]] = i

\* A tunnel that is up and registered is reachable: it is the session of its
\* ID, unless a newer tunnel of the same ID is about to close it.  This is what
\* the expiry needs the ticker for, and the ticker's lateness bound.
Reachable(k) ==
    \/ sessions[id[k]] = k
    \/ \E j \in Conns : pc[j] = "close_old" /\ old[j] = k
LiveTunnelsListed ==
    \A k \in Conns : Registered(k) /\ k \in open => Reachable(k)

\* Although full channels drop events and the list is published after the lock
\* is released, no browser is left with an old list: whenever the list changed
\* after the last event it was sent, another event is queued or on its way.
Publishing ==
    expiring \/ \E k \in Conns : pc[k] \in {"close_old", "announce", "leaving"}
NoMissedChange ==
    \A b \in owed : queue[b] > 0 \/ Publishing

\* An ID in use never passes to another host: the handler's two looks at the
\* owner leave no gap.
HostKeepsRepository ==
    [][\A i \in Ids :
         sessions[i] # NoConn /\ sessions'[i] # NoConn =>
            host'[sessions'[i]] = host[sessions[i]]]_vars

(* Liveness.                                                               *)

\* "Revocation closes active tunnels during the next liveness check and rejects
\* subsequent connections" (SECURITY.md): from some point after the revocation
\* on, the host has no session, even if a handler had passed its checks.
HasSession(h) == \E i \in Ids : sessions[i] # NoConn /\ host[sessions[i]] = h
RevokedHostsLeave ==
    \A h \in Hosts : h \notin allowed ~> [](~HasSession(h))
==============================================================================
