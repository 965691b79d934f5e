------------------------ MODULE TunnelAgent_proofs ------------------------
(***************************************************************************)
(* Theorems about TunnelAgent for any number of hosts, daemons, tunnels    *)
(* and browsers: the composition implements the hub's registry, so what is *)
(* proved of the registry holds with its daemons too, and the two ends of  *)
(* a tunnel agree on it.                                                   *)
(***************************************************************************)
EXTENDS TunnelAgent, HubRegistry_proofs

\* A handler that has returned, or has removed its session, has no connection.
Closed == \A k \in Conns : pc[k] \in {"free", "leaving"} => k \notin open

\* What a daemon holds is its own, and what it serves has been answered.
Answers ==
    /\ \A k \in told : pc[k] \notin {"dialed", "enrolled"}
    /\ \A i \in Ids : agent[i] = "serving" => conn[i] \in told
Owns ==
    \A i \in Ids : conn[i] \in open =>
        id[conn[i]] = i /\ host[conn[i]] = hostOf[i]

AgentInv == AgentTypeOK /\ Closed /\ Answers /\ Owns

------------------------------------------------------------------------------
(* The daemons drive the hub and add nothing to it.                        *)

\* A step of the composition is a step of the hub or leaves the hub alone.
LEMMA StepOfHub ==
    ASSUME [AgentNext]_avars, AgentTypeOK
    PROVE  [Next]_vars
<1>1. ASSUME NEW i \in Ids, Agent(i)
      PROVE  [Next]_vars
    <2>1. ASSUME NEW k \in Conns, Connect(i, k)
          PROVE  [Next]_vars
        <3>1. hostOf[i] \in Hosts
            BY DEF AgentTypeOK
        <3>2. Dial(k, hostOf[i], i)
            BY <2>1 DEF Connect
        <3> QED
            BY <3>1, <3>2 DEF Next
    <2>2. ASSUME ReadReady(i) \/ NoticeClosed(i) \/ Lose(i) \/ Stop(i)
          PROVE  UNCHANGED vars
        BY <2>2 DEF ReadReady, NoticeClosed, Lose, Stop
    <2> QED
        BY <1>1, <2>1, <2>2 DEF Agent
<1>2. ASSUME NEW k \in Conns, Handle(k) \/ HubNotices(k) \/ HubLoses(k)
      PROVE  [Next]_vars
    <2>1. Handler(k) \/ Drop(k)
        BY <1>2 DEF Handle, HubNotices, HubLoses
    <2> QED
        BY <2>1 DEF Next
<1>3. CASE Elsewhere
    BY <1>3 DEF Elsewhere, Next
<1>4. CASE UNCHANGED avars
    BY <1>4 DEF avars
<1> QED
    BY <1>1, <1>2, <1>3, <1>4 DEF AgentNext

------------------------------------------------------------------------------
(* The daemons' own invariant.                                             *)

\* It holds initially.
LEMMA AgentInitHolds ==
    AgentInit => AgentInv
BY RegistryAssumption, AgentAssumption
   DEF AgentInit, Init, AgentInv, AgentTypeOK, AgentStates, Slots, Closed,
       Answers, Owns

\* The daemons' variables stay in their domains, connections are not shared.
LEMMA StepAgentType ==
    ASSUME AgentTypeOK, [AgentNext]_avars
    PROVE  AgentTypeOK'
<1> USE RegistryAssumption, AgentAssumption
    DEF AgentTypeOK, AgentStates, Slots, Become, Held
<1>1. ASSUME NEW i \in Ids, NEW k \in Conns, Connect(i, k)
      PROVE  AgentTypeOK'
    BY <1>1 DEF Connect
<1>2. ASSUME NEW i \in Ids, ReadReady(i)
      PROVE  AgentTypeOK'
    BY <1>2 DEF ReadReady
<1>3. ASSUME NEW i \in Ids, NoticeClosed(i)
      PROVE  AgentTypeOK'
    BY <1>3 DEF NoticeClosed, ServeReturns
<1>4. ASSUME NEW i \in Ids, Lose(i)
      PROVE  AgentTypeOK'
    BY <1>4 DEF Lose, ServeReturns
<1>5. ASSUME NEW i \in Ids, Stop(i)
      PROVE  AgentTypeOK'
    BY <1>5 DEF Stop
<1>6. ASSUME NEW k \in Conns, Handle(k)
      PROVE  AgentTypeOK'
    BY <1>6 DEF Handle
<1>7. ASSUME NEW k \in Conns, HubNotices(k) \/ HubLoses(k)
      PROVE  AgentTypeOK'
    BY <1>7 DEF HubNotices, HubLoses, agents
<1>8. CASE Elsewhere \/ UNCHANGED avars
    BY <1>8 DEF Elsewhere, agents, avars
<1> QED
    BY <1>1, <1>2, <1>3, <1>4, <1>5, <1>6, <1>7, <1>8 DEF AgentNext, Agent

\* What a step of a handler does to the fields the invariant is about.
LEMMA HandlerSteps ==
    ASSUME TypeOK, Closed, NEW k \in Conns, Handler(k)
    PROVE  /\ id' = id /\ host' = host /\ open' \subseteq open
           /\ \A j \in Conns : j # k => pc'[j] = pc[j]
           /\ pc'[k] \in {"free", "leaving"} => k \notin open'
           /\ pc'[k] # "dialed"
           /\ pc'[k] = "enrolled" => pc[k] = "dialed"
<1> USE DEF TypeOK, Closed, At, States, Active, Registered
<1>1. CASE CheckHost(k) \/ CheckOwner(k)
    BY <1>1 DEF CheckHost, CheckOwner, Refuse
<1>2. CASE Register(k) \/ RegisterRefused(k)
    BY <1>2 DEF Register, RegisterRefused, Refuse
<1>3. CASE CloseOld(k) \/ Announce(k)
    BY <1>3 DEF CloseOld, Announce
<1>4. CASE Refresh(k) \/ Recheck(k)
    BY <1>4 DEF Refresh, Recheck
<1>5. CASE RemoveSession(k) \/ AnnounceGone(k)
    BY <1>5 DEF RemoveSession, AnnounceGone
<1> QED
    BY <1>1, <1>2, <1>3, <1>4, <1>5 DEF Handler

\* What is held, answered and owned stays so over every step.
LEMMA StepAgentInv ==
    ASSUME AgentInv, TypeOK, [AgentNext]_avars
    PROVE  AgentInv'
<1>0. AgentTypeOK'
    BY StepAgentType DEF AgentInv
<1> USE DEF AgentInv, AgentTypeOK, TypeOK, Slots
<1>1. ASSUME NEW i \in Ids, NEW k \in Conns, Connect(i, k)
      PROVE  (Closed /\ Answers /\ Owns)'
    <2>1. /\ pc' = [pc EXCEPT ![k] = "dialed"]
          /\ host' = [host EXCEPT ![k] = hostOf[i]] /\ id' = [id EXCEPT ![k] = i]
          /\ open' = open \cup {k} /\ told' = told \ {k} /\ hostOf' = hostOf
          /\ agent' = [agent EXCEPT ![i] = "dialed"]
          /\ conn' = [conn EXCEPT ![i] = k]
          /\ \A j \in Ids : conn[j] # k
        BY <1>1 DEF Connect, Dial, At, Become, Held
    <2> QED
        BY <2>1, RegistryAssumption DEF Closed, Answers, Owns
<1>2. ASSUME NEW i \in Ids, ReadReady(i)
      PROVE  (Closed /\ Answers /\ Owns)'
    BY <1>2 DEF ReadReady, Become, vars, conns, Closed, Answers, Owns
<1>3. ASSUME NEW i \in Ids, NoticeClosed(i) \/ Lose(i) \/ Stop(i)
      PROVE  (Closed /\ Answers /\ Owns)'
    <2>1. /\ UNCHANGED <<pc, host, id, open, hostOf, told>>
          /\ conn' = [conn EXCEPT ![i] = NoConn]
          /\ \E s \in {"failed", "backoff", "stopped"} : agent' = [agent EXCEPT ![i] = s]
        BY <1>3 DEF NoticeClosed, Lose, Stop, ServeReturns, Become, vars, conns
    <2> QED
        BY <2>1, RegistryAssumption DEF Closed, Answers, Owns
<1>4. ASSUME NEW k \in Conns, Handle(k)
      PROVE  (Closed /\ Answers /\ Owns)'
    <2>1. /\ UNCHANGED <<hostOf, agent, conn>>
          /\ told \subseteq told' /\ told' \subseteq told \cup {k}
          /\ k \in told' => k \in told \/ pc'[k] = "ready"
          /\ Handler(k)
        BY <1>4 DEF Handle
    <2> QED
        BY <2>1, HandlerSteps DEF Closed, Answers, Owns
<1>5. ASSUME NEW k \in Conns, HubNotices(k) \/ HubLoses(k)
      PROVE  (Closed /\ Answers /\ Owns)'
    BY <1>5 DEF HubNotices, HubLoses, Drop, agents, Closed, Answers, Owns
<1>6. CASE Elsewhere \/ UNCHANGED avars
    <2>1. UNCHANGED <<pc, host, id, open, hostOf, agent, conn, told>>
        BY <1>6 DEF Elsewhere, Revoke, Browser, Subscribe, SendEvent, Unsubscribe,
                    Expire, AnnounceExpired, Tick, avars, vars, conns, agents
    <2> QED
        BY <1>0, <2>1 DEF Closed, Answers, Owns
<1> QED
    BY <1>0, <1>1, <1>2, <1>3, <1>4, <1>5, <1>6 DEF AgentNext, Agent

------------------------------------------------------------------------------
(* The theorems.                                                           *)

\* Whatever daemons do - dial, lose a tunnel, dial again, stop -, the hub sees
\* only what HubRegistry allows its clients, so each of that module's theorems
\* is one about the composition.
THEOREM AgentsImplementHub == AgentSpec => Spec
<1>1. AgentInit => Init /\ AgentTypeOK
    BY AgentInitHolds DEF AgentInit, AgentInv
<1>2. AgentTypeOK /\ [AgentNext]_avars => AgentTypeOK'
    BY StepAgentType
<1>3. AgentTypeOK /\ [AgentNext]_avars => [Next]_vars
    BY StepOfHub
<1> QED
    BY <1>1, <1>2, <1>3, PTL DEF AgentSpec, Spec

\* The daemons' variables stay in their domains, and no two daemons ever hold
\* one connection.
THEOREM AgentTypeCorrect == AgentSpec => []AgentTypeOK
<1>1. AgentInit => AgentTypeOK
    BY AgentInitHolds DEF AgentInv
<1>2. AgentTypeOK /\ [AgentNext]_avars => AgentTypeOK'
    BY StepAgentType
<1> QED
    BY <1>1, <1>2, PTL DEF AgentSpec

\* If handlers serve their ticker in time, the daemon and the hub mean the same
\* tunnel: what a daemon holds and the hub has registered is the session of its
\* repository, or about to be closed under it.
THEOREM EndsAgree ==
    ASSUME Period + Late <= TTL
    PROVE  AgentSpec => []TunnelsAgree
<1>1. AgentInit => AgentInv
    BY AgentInitHolds
<1>2. AgentInv /\ TypeOK /\ [AgentNext]_avars => AgentInv'
    BY StepAgentInv
<1>3. AgentInv /\ TypeOK /\ LiveTunnelsListed => TunnelsAgree
    <2> SUFFICES ASSUME AgentInv, TypeOK, LiveTunnelsListed,
                        NEW i \in Ids, conn[i] \in open
                 PROVE  /\ pc[conn[i]] # "free"
                        /\ id[conn[i]] = i /\ host[conn[i]] = hostOf[i]
                        /\ agent[i] = "serving" => pc[conn[i]] \notin {"dialed", "enrolled"}
                        /\ Registered(conn[i]) => Reachable(conn[i])
        BY DEF TunnelsAgree
    <2>1. conn[i] \in Conns
        BY DEF TypeOK
    <2> QED
        BY <2>1 DEF AgentInv, Closed, Answers, Owns, LiveTunnelsListed
<1>4. AgentSpec => []TypeOK /\ []LiveTunnelsListed
    BY AgentsImplementHub, TypeCorrect, LiveTunnels, PTL
<1> QED
    BY <1>1, <1>2, <1>3, <1>4, PTL DEF AgentSpec
===========================================================================
