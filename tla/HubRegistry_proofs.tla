------------------------ MODULE HubRegistry_proofs ------------------------
(***************************************************************************)
(* Theorems about HubRegistry for any number of hosts, repositories,       *)
(* tunnels and browsers.  Registry is the part of the invariant that needs *)
(* no assumption on time; Timely bounds the age of a registration by its   *)
(* handler's ticker, and with it a live tunnel never expires.              *)
(***************************************************************************)
EXTENDS HubRegistry, TLAPS

Registry == TypeOK /\ ListMatchesSessions

\* No handler is later than it may be, and a registration is no older than the
\* time its handler last served its ticker.
Timely ==
    /\ \A k \in Conns : timer[k] <= Period + Late
    /\ \A i \in Ids : sessions[i] # NoConn => age[i] <= timer[sessions[i]]

------------------------------------------------------------------------------
(* The steps of Next, named once for every proof by cases below.           *)

\* The initial states satisfy every invariant.
LEMMA InitHolds ==
    Init => Registry /\ NoMissedChange /\ Timely /\ LiveTunnelsListed
<1> SUFFICES ASSUME Init
             PROVE  Registry /\ NoMissedChange /\ Timely /\ LiveTunnelsListed
    OBVIOUS
<1> USE RegistryAssumption DEF Init, States, Slots, Active, Registered
<1>1. TypeOK
    <2>1. allowed \subseteq Hosts /\ subs \subseteq Subs /\ owed \subseteq subs
        OBVIOUS
    <2>4. queue \in [Subs -> 0..QueueCap]
        OBVIOUS
    <2>5. expiring \in BOOLEAN
        OBVIOUS
    <2>2. /\ pc \in [Conns -> States] /\ open \subseteq Conns
          /\ old \in [Conns -> Slots] /\ timer \in [Conns -> Nat]
          /\ \A k \in Conns : old[k] = NoConn /\ timer[k] = 0
        OBVIOUS
    <2>3. /\ sessions \in [Ids -> Slots] /\ repos \in [Ids -> Slots]
          /\ age \in [Ids -> Nat]
        OBVIOUS
    <2> QED
        BY <2>1, <2>2, <2>3, <2>4, <2>5 DEF TypeOK
<1>2. ListMatchesSessions
    BY DEF ListMatchesSessions
<1>3. NoMissedChange /\ Timely /\ LiveTunnelsListed
    BY DEF NoMissedChange, Timely, LiveTunnelsListed
<1> QED
    BY <1>1, <1>2, <1>3 DEF Registry

\* A push into a subscriber's channel keeps it within its capacity and leaves
\* an event in it, also when the channel was full.
LEMMA PushType ==
    ASSUME NEW n \in 0..QueueCap
    PROVE  Push(n) \in 0..QueueCap /\ Push(n) > 0
BY RegistryAssumption DEF Push

\* Every step of a handler keeps the types, and the list and the sessions equal.
LEMMA HandlerRegistry ==
    ASSUME Registry, NEW k \in Conns, Handler(k)
    PROVE  Registry'
<1> USE RegistryAssumption DEF Registry, TypeOK, ListMatchesSessions, States,
        Slots, Active, Registered, At, maps, feed
<1>1. CASE CheckHost(k)
    BY <1>1 DEF CheckHost, Refuse
<1>2. CASE CheckOwner(k)
    BY <1>2 DEF CheckOwner, Refuse
<1>3. CASE Register(k)
    BY <1>3 DEF Register, ListChanged
<1>4. CASE RegisterRefused(k)
    BY <1>4 DEF RegisterRefused, Refuse
<1>5. CASE CloseOld(k)
    BY <1>5 DEF CloseOld
<1>6. CASE Announce(k)
    BY <1>6, PushType DEF Announce, Publish
<1>7. CASE Refresh(k)
    BY <1>7 DEF Refresh
<1>8. CASE Recheck(k)
    BY <1>8 DEF Recheck
<1>9. CASE RemoveSession(k)
    <2>1. TypeOK'
        <3>1. CASE sessions[id[k]] = k
            BY <1>9, <3>1 DEF RemoveSession, ListChanged
        <3>2. CASE sessions[id[k]] # k
            BY <1>9, <3>2 DEF RemoveSession
        <3> QED
            BY <3>1, <3>2
    <2>2. ListMatchesSessions'
        <3>1. CASE sessions[id[k]] = k
            BY <1>9, <3>1 DEF RemoveSession
        <3>2. CASE sessions[id[k]] # k
            BY <1>9, <3>2 DEF RemoveSession
        <3> QED
            BY <3>1, <3>2
    <2> QED
        BY <2>1, <2>2
<1>10. CASE AnnounceGone(k)
    BY <1>10, PushType DEF AnnounceGone, Publish
<1> QED
    BY <1>1, <1>2, <1>3, <1>4, <1>5, <1>6, <1>7, <1>8, <1>9, <1>10 DEF Handler

\* So does every step of the hub's surroundings, of the expiry and of time.
LEMMA StepRegistry ==
    ASSUME Registry, [Next]_vars
    PROVE  Registry'
<1> USE RegistryAssumption DEF Registry, TypeOK, ListMatchesSessions, States,
        Slots, Active, Registered, At, conns, maps, feed
<1>1. ASSUME NEW k \in Conns, Handler(k) PROVE Registry'
    BY <1>1, HandlerRegistry
<1>2. ASSUME NEW k \in Conns, Drop(k) PROVE Registry'
    BY <1>2 DEF Drop
<1>3. ASSUME NEW k \in Conns, NEW h \in Hosts, NEW i \in Ids, Dial(k, h, i)
      PROVE  Registry'
    BY <1>3 DEF Dial
<1>4. ASSUME NEW h \in Hosts, Revoke(h) PROVE Registry'
    BY <1>4 DEF Revoke
<1>5. ASSUME NEW b \in Subs, Browser(b) PROVE Registry'
    <2>1. CASE Subscribe(b)
        BY <2>1 DEF Subscribe
    <2>2. CASE SendEvent(b)
        BY <2>2 DEF SendEvent
    <2>3. CASE Unsubscribe(b)
        BY <2>3 DEF Unsubscribe
    <2> QED
        BY <1>5, <2>1, <2>2, <2>3 DEF Browser
<1>6. CASE Expire
    <2>1. /\ UNCHANGED <<allowed, pc, host, id, open, old, timer, subs, queue>>
          /\ \A i \in Ids : sessions'[i] \in {NoConn, sessions[i]}
          /\ \A i \in Ids : repos'[i] = sessions'[i]
        BY <1>6 DEF Expire, Overdue
    <2>2. TypeOK'
        BY <1>6, <2>1 DEF Expire, ListChanged
    <2> QED
        BY <2>1, <2>2
<1>7. CASE AnnounceExpired
    BY <1>7, PushType DEF AnnounceExpired, Publish
<1>8. CASE Tick
    BY <1>8 DEF Tick, Older
<1>9. CASE UNCHANGED vars
    BY <1>9 DEF vars
<1> QED
    BY <1>1, <1>2, <1>3, <1>4, <1>5, <1>6, <1>7, <1>8, <1>9 DEF Next


(* What the types say of the list: the first two theorems.                 *)

\* The registry stays well formed for any hosts, repositories and browsers.
THEOREM TypeCorrect == Spec => []TypeOK
<1>1. Init => Registry
    BY InitHolds
<1>2. Registry /\ [Next]_vars => Registry'
    BY StepRegistry
<1>3. Registry => TypeOK
    BY DEF Registry
<1> QED
    BY <1>1, <1>2, <1>3, PTL DEF Spec

\* What the hub lists and what it proxies to are the same tunnels.
THEOREM ListedTunnels == Spec => []ListMatchesSessions
<1>1. Init => Registry
    BY InitHolds
<1>2. Registry /\ [Next]_vars => Registry'
    BY StepRegistry
<1>3. Registry => ListMatchesSessions
    BY DEF Registry
<1> QED
    BY <1>1, <1>2, <1>3, PTL DEF Spec

------------------------------------------------------------------------------
(* No browser misses a change of the list.                                 *)

\* After a publication every stream has an event to send.
LEMMA PublishFills ==
    ASSUME TypeOK, Publish, subs' = subs
    PROVE  \A b \in subs : queue'[b] > 0
BY PushType DEF Publish, TypeOK

\* A step leaves no stream behind an old list with nothing on its way: a step
\* that changes the list has its publication ahead of it.
LEMMA StepNoMissedChange ==
    ASSUME Registry, NoMissedChange, [Next]_vars
    PROVE  NoMissedChange'
<1> USE DEF Registry, TypeOK, NoMissedChange, Publishing, At, conns, maps, feed
<1>1. ASSUME NEW k \in Conns, CheckHost(k) \/ CheckOwner(k) \/ RegisterRefused(k)
                              \/ Refresh(k) \/ Recheck(k)
      PROVE  NoMissedChange'
    BY <1>1 DEF CheckHost, CheckOwner, RegisterRefused, Refuse, Refresh, Recheck
<1>2. ASSUME NEW k \in Conns, Register(k) PROVE NoMissedChange'
    BY <1>2 DEF Register, ListChanged
<1>3. ASSUME NEW k \in Conns, CloseOld(k) PROVE NoMissedChange'
    BY <1>3 DEF CloseOld
<1>4. ASSUME NEW k \in Conns, Announce(k) \/ AnnounceGone(k) PROVE NoMissedChange'
    BY <1>4, PublishFills DEF Announce, AnnounceGone
<1>5. ASSUME NEW k \in Conns, RemoveSession(k) PROVE NoMissedChange'
    <2>1. CASE sessions[id[k]] = k
        BY <1>5, <2>1 DEF RemoveSession, ListChanged
    <2>2. CASE sessions[id[k]] # k
        BY <1>5, <2>2 DEF RemoveSession
    <2> QED
        BY <2>1, <2>2
<1>6. ASSUME NEW k \in Conns, Drop(k) PROVE NoMissedChange'
    BY <1>6 DEF Drop
<1>7. ASSUME NEW k \in Conns, NEW h \in Hosts, NEW i \in Ids, Dial(k, h, i)
      PROVE  NoMissedChange'
    BY <1>7 DEF Dial
<1>8. ASSUME NEW h \in Hosts, Revoke(h) PROVE NoMissedChange'
    BY <1>8 DEF Revoke
<1>9. ASSUME NEW b \in Subs, Browser(b) PROVE NoMissedChange'
    BY <1>9 DEF Browser, Subscribe, SendEvent, Unsubscribe
<1>10. CASE Expire
    BY <1>10 DEF Expire, ListChanged
<1>11. CASE AnnounceExpired
    BY <1>11, PublishFills DEF AnnounceExpired
<1>12. CASE Tick
    BY <1>12 DEF Tick
<1>13. CASE UNCHANGED vars
    BY <1>13 DEF vars
<1> QED
    BY <1>1, <1>2, <1>3, <1>4, <1>5, <1>6, <1>7, <1>8, <1>9, <1>10, <1>11,
       <1>12, <1>13 DEF Next, Handler

\* Every browser stream is sent an event after every change of the list,
\* however many events its full channel has dropped.
THEOREM ChangesReachBrowsers == Spec => []NoMissedChange
<1>1. Init => Registry /\ NoMissedChange
    BY InitHolds
<1>2. Registry /\ NoMissedChange /\ [Next]_vars => (Registry /\ NoMissedChange)'
    BY StepRegistry, StepNoMissedChange
<1> QED
    BY <1>1, <1>2, PTL DEF Spec
------------------------------------------------------------------------------
(* A live tunnel stays listed: its ticker is faster than the expiry.       *)

\* Every step keeps the handlers' tickers and the ages of their registrations
\* within bounds.
LEMMA StepTimely ==
    ASSUME Registry, Timely, [Next]_vars
    PROVE  Timely'
<1> USE RegistryAssumption DEF Registry, TypeOK, ListMatchesSessions, Slots,
        Registered, Active, Timely, At, conns, maps, feed
<1>1. ASSUME NEW k \in Conns,
             CheckHost(k) \/ CheckOwner(k) \/ RegisterRefused(k) \/ CloseOld(k)
             \/ Announce(k) \/ Recheck(k) \/ AnnounceGone(k) \/ Drop(k)
      PROVE  Timely'
    BY <1>1 DEF CheckHost, CheckOwner, RegisterRefused, Refuse, CloseOld,
       Announce, Recheck, AnnounceGone, Drop
<1>2. ASSUME NEW k \in Conns, Register(k) PROVE Timely'
    BY <1>2 DEF Register
<1>3. ASSUME NEW k \in Conns, Refresh(k) PROVE Timely'
    BY <1>3 DEF Refresh
<1>4. ASSUME NEW k \in Conns, RemoveSession(k) PROVE Timely'
    <2>1. CASE sessions[id[k]] = k
        BY <1>4, <2>1 DEF RemoveSession
    <2>2. CASE sessions[id[k]] # k
        BY <1>4, <2>2 DEF RemoveSession
    <2> QED
        BY <2>1, <2>2
<1>5. ASSUME NEW k \in Conns, NEW h \in Hosts, NEW i \in Ids, Dial(k, h, i)
      PROVE  Timely'
    BY <1>5 DEF Dial
<1>6. ASSUME NEW h \in Hosts, Revoke(h) PROVE Timely'
    BY <1>6 DEF Revoke
<1>7. ASSUME NEW b \in Subs, Browser(b) PROVE Timely'
    BY <1>7 DEF Browser, Subscribe, SendEvent, Unsubscribe
<1>8. CASE Expire
    <2>1. /\ timer' = timer
          /\ \A i \in Ids : sessions'[i] # NoConn =>
                sessions'[i] = sessions[i] /\ age'[i] = age[i]
        BY <1>8 DEF Expire, Overdue
    <2> QED
        BY <2>1
<1>9. CASE AnnounceExpired
    BY <1>9 DEF AnnounceExpired
<1>10. CASE Tick
    <2>1. \A k \in Conns : timer'[k] <= Period + Late
        BY <1>10 DEF Tick
    <2>2. ASSUME NEW i \in Ids, sessions'[i] # NoConn
          PROVE  age'[i] <= timer'[sessions'[i]]
        <3>1. /\ sessions[i] \in Conns /\ Registered(sessions[i])
              /\ age[i] <= timer[sessions[i]]
            BY <1>10, <2>2 DEF Tick
        <3>2. timer'[sessions[i]] = timer[sessions[i]] + 1
            BY <1>10, <3>1 DEF Tick
        <3>3. age'[i] \in {age[i], age[i] + 1}
            BY <1>10 DEF Tick, Older
        <3>4. sessions' = sessions /\ age[i] \in Nat /\ timer[sessions[i]] \in Nat
            BY <1>10, <3>1 DEF Tick
        <3> HIDE DEF Registry, TypeOK, Timely, ListMatchesSessions
        <3> QED
            BY <3>1, <3>2, <3>3, <3>4
    <2> QED
        BY <2>1, <2>2
<1>11. CASE UNCHANGED vars
    BY <1>11 DEF vars
<1> QED
    BY <1>1, <1>2, <1>3, <1>4, <1>5, <1>6, <1>7, <1>8, <1>9, <1>10, <1>11
    DEF Next, Handler

\* While handlers are not late for longer than the TTL allows, nothing that is
\* up expires.
LEMMA NothingOverdue ==
    ASSUME Registry, Timely, Period + Late <= TTL
    PROVE  Overdue = {}
<1> SUFFICES ASSUME NEW i \in Ids, repos[i] # NoConn
             PROVE  ~(age[i] > TTL)
    BY DEF Overdue
<1>1. sessions[i] \in Conns /\ age[i] <= timer[sessions[i]]
    BY DEF Registry, TypeOK, ListMatchesSessions, Slots, Timely
<1> QED
    BY <1>1, RegistryAssumption DEF Registry, TypeOK, Timely

\* Every step leaves each tunnel that is up reachable: the one that replaces it
\* is about to close it.
LEMMA StepLive ==
    ASSUME Registry, Timely, LiveTunnelsListed, Period + Late <= TTL, [Next]_vars
    PROVE  LiveTunnelsListed'
<1> USE RegistryAssumption DEF Registry, TypeOK, ListMatchesSessions, Slots,
        Registered, Active, LiveTunnelsListed, Reachable, At, conns, maps, feed
<1>1. ASSUME NEW k \in Conns, CheckHost(k) \/ CheckOwner(k) \/ RegisterRefused(k)
      PROVE  LiveTunnelsListed'
    BY <1>1 DEF CheckHost, CheckOwner, RegisterRefused, Refuse
<1>2. ASSUME NEW k \in Conns, Register(k) PROVE LiveTunnelsListed'
    <2> SUFFICES ASSUME NEW l \in Conns, Registered(l)', l \in open'
                 PROVE  Reachable(l)'
        OBVIOUS
    <2>1. CASE id[l] = id[k]
        <3>1. CASE l = k
            BY <1>2, <3>1 DEF Register
        <3>2. CASE l # k /\ sessions[id[k]] = l
            BY <1>2, <2>1, <3>2 DEF Register
        <3>3. CASE l # k /\ sessions[id[k]] # l
            BY <1>2, <2>1, <3>3 DEF Register
        <3> QED
            BY <3>1, <3>2, <3>3
    <2>2. CASE id[l] # id[k]
        BY <1>2, <2>2 DEF Register
    <2> QED
        BY <2>1, <2>2
<1>3. ASSUME NEW k \in Conns, CloseOld(k) PROVE LiveTunnelsListed'
    BY <1>3 DEF CloseOld
<1>4. ASSUME NEW k \in Conns,
             Announce(k) \/ Refresh(k) \/ Recheck(k) \/ AnnounceGone(k) \/ Drop(k)
      PROVE  LiveTunnelsListed'
    BY <1>4 DEF Announce, Refresh, Recheck, AnnounceGone, Drop
<1>5. ASSUME NEW k \in Conns, RemoveSession(k) PROVE LiveTunnelsListed'
    <2>1. CASE sessions[id[k]] = k
        BY <1>5, <2>1 DEF RemoveSession
    <2>2. CASE sessions[id[k]] # k
        BY <1>5, <2>2 DEF RemoveSession
    <2> QED
        BY <2>1, <2>2
<1>6. ASSUME NEW k \in Conns, NEW h \in Hosts, NEW i \in Ids, Dial(k, h, i)
      PROVE  LiveTunnelsListed'
    BY <1>6 DEF Dial
<1>7. ASSUME NEW h \in Hosts, Revoke(h) PROVE LiveTunnelsListed'
    BY <1>7 DEF Revoke
<1>8. ASSUME NEW b \in Subs, Browser(b) PROVE LiveTunnelsListed'
    BY <1>8 DEF Browser, Subscribe, SendEvent, Unsubscribe
<1>9. ~Expire
    BY NothingOverdue DEF Expire
<1>10. CASE AnnounceExpired
    BY <1>10 DEF AnnounceExpired
<1>11. CASE Tick
    BY <1>11 DEF Tick
<1>12. CASE UNCHANGED vars
    BY <1>12 DEF vars
<1> QED
    BY <1>1, <1>2, <1>3, <1>4, <1>5, <1>6, <1>7, <1>8, <1>9, <1>10, <1>11, <1>12
    DEF Next, Handler

\* As long as a handler serves its ticker within the TTL, no live tunnel is
\* ever missing from the registry: neither the expiry nor a handler that tidies
\* up after an older tunnel takes it out.
THEOREM LiveTunnels ==
    ASSUME Period + Late <= TTL
    PROVE  Spec => []LiveTunnelsListed
<1> DEFINE Inv == Registry /\ Timely /\ LiveTunnelsListed
<1>1. Init => Inv
    BY InitHolds
<1>2. Inv /\ [Next]_vars => Inv'
    BY StepRegistry, StepTimely, StepLive, Period + Late <= TTL
<1>3. Inv => LiveTunnelsListed
    OBVIOUS
<1> HIDE DEF Inv
<1> QED
    BY <1>1, <1>2, <1>3, PTL DEF Spec

------------------------------------------------------------------------------
(* Ownership of a repository ID.                                           *)

Owned(i) == sessions[i] # NoConn /\ sessions'[i] # NoConn

\* No step hands an ID in use to another host.
LEMMA StepKeepsHost ==
    ASSUME Registry, [Next]_vars, NEW i \in Ids, Owned(i)
    PROVE  host'[sessions'[i]] = host[sessions[i]]
<1> USE DEF Registry, TypeOK, ListMatchesSessions, Slots, Registered, Active,
        Owned, At, conns, maps, feed
<1> DEFINE Kept == host'[sessions'[i]] = host[sessions[i]]
<1>1. ASSUME NEW k \in Conns,
             CheckHost(k) \/ CheckOwner(k) \/ RegisterRefused(k) \/ CloseOld(k)
             \/ Announce(k) \/ Refresh(k) \/ Recheck(k) \/ AnnounceGone(k) \/ Drop(k)
      PROVE  Kept
    BY <1>1 DEF CheckHost, CheckOwner, RegisterRefused, Refuse, CloseOld,
       Announce, Refresh, Recheck, AnnounceGone, Drop
<1>2. ASSUME NEW k \in Conns, Register(k) PROVE Kept
    BY <1>2 DEF Register, MayRegister
<1>3. ASSUME NEW k \in Conns, RemoveSession(k) PROVE Kept
    BY <1>3 DEF RemoveSession
<1>4. ASSUME NEW k \in Conns, NEW h \in Hosts, NEW r \in Ids, Dial(k, h, r)
      PROVE  Kept
    BY <1>4 DEF Dial
<1>5. ASSUME NEW h \in Hosts, Revoke(h) PROVE Kept
    BY <1>5 DEF Revoke
<1>6. ASSUME NEW b \in Subs, Browser(b) PROVE Kept
    BY <1>6 DEF Browser, Subscribe, SendEvent, Unsubscribe
<1>7. CASE Expire
    BY <1>7 DEF Expire
<1>8. CASE AnnounceExpired
    BY <1>8 DEF AnnounceExpired
<1>9. CASE Tick
    BY <1>9 DEF Tick
<1>10. CASE UNCHANGED vars
    BY <1>10 DEF vars
<1> QED
    BY <1>1, <1>2, <1>3, <1>4, <1>5, <1>6, <1>7, <1>8, <1>9, <1>10
    DEF Next, Handler

\* A repository ID stays with the host that holds it for as long as it is held.
THEOREM HostsKeepRepositories == Spec => HostKeepsRepository
<1> DEFINE Keeps == \A i \in Ids :
                sessions[i] # NoConn /\ sessions'[i] # NoConn =>
                    host'[sessions'[i]] = host[sessions[i]]
<1>1. Init => Registry
    BY InitHolds
<1>2. Registry /\ [Next]_vars => Registry'
    BY StepRegistry
<1>3. Registry /\ [Next]_vars => Keeps
    BY StepKeepsHost DEF Owned
<1> HIDE DEF Keeps
<1>4. Spec => [][Keeps]_vars
    BY <1>1, <1>2, <1>3, PTL DEF Spec
<1> QED
    BY <1>4 DEF HostKeepsRepository, Keeps
==============================================================================
