---------------------------- MODULE TunnelAgent ----------------------------
(***************************************************************************)
(* Daemons keeping themselves registered with the hub                      *)
(* (internal/registration), composed with the hub's registry: each daemon  *)
(* dials, waits for "ready", serves requests, and after a loss dials       *)
(* again, after a delay, until it stops.  A daemon whose first attempt     *)
(* fails gives up.                                                         *)
(*                                                                         *)
(* A daemon's random repository ID names it here.  The two ends of a       *)
(* tunnel learn of its loss on their own: a daemon may have dialled again  *)
(* while the hub still takes the old tunnel for open.  Losses are bounded, *)
(* since the property is about what happens once they end.                 *)
(***************************************************************************)
EXTENDS HubRegistry

CONSTANT MaxFaults   \* bound on the losses the network causes

ASSUME AgentAssumption == MaxFaults \in Nat

VARIABLES
    hostOf,   \* the host each daemon runs on
    agent,    \* what each daemon's Maintain does
    conn,     \* its end of a connection
    first,    \* daemons that have never been ready
    told,     \* connections on which the hub has written "ready"
    faults    \* losses so far

agents == <<hostOf, agent, conn, first, told, faults>>
avars  == <<vars, agents>>

------------------------------------------------------------------------------
Held(k) == \E i \in Ids : conn[i] = k
Become(i, state, k) ==
    /\ agent' = [agent EXCEPT ![i] = state]
    /\ conn' = [conn EXCEPT ![i] = k]

\* Mutant: Maintain returns when a tunnel it served ends.
ServeReturns_Last(i) ==
    /\ Become(i, "failed", NoConn)
    /\ UNCHANGED <<hostOf, first, told>>
\* Mutant: serve keeps its connection when it returns.
ServeReturns_Unclosed(i) ==
    /\ Become(i, IF i \in first THEN "failed" ELSE "backoff", conn[i])
    /\ UNCHANGED <<hostOf, first, told>>
\* serve returns: the first failure is reported and final, later ones are
\* followed by a delay and another attempt.
ServeReturns(i) ==
    /\ Become(i, IF i \in first THEN "failed" ELSE "backoff", NoConn)
    /\ UNCHANGED <<hostOf, first, told>>

\* Maintain dials, when it starts and after each delay.
Connect(i, k) ==
    /\ agent[i] \in {"starting", "backoff"} /\ ~Held(k)
    /\ Dial(k, hostOf[i], i)
    /\ Become(i, "dialed", k)
    /\ told' = told \ {k}
    /\ UNCHANGED <<hostOf, first, faults>>

\* Mutant: the session is served without waiting for the answer.
ReadReady_Early(i) ==
    /\ agent[i] = "dialed"
    /\ Become(i, "serving", conn[i])
    /\ first' = first \ {i}
    /\ UNCHANGED <<vars, hostOf, told, faults>>
\* The hub's answer "ready" arrives; the backoff is reset, the session served.
ReadReady(i) ==
    /\ agent[i] = "dialed" /\ conn[i] \in told
    /\ Become(i, "serving", conn[i])
    /\ first' = first \ {i}
    /\ UNCHANGED <<vars, hostOf, told, faults>>

\* The daemon notices that the hub has closed its connection.
NoticeClosed(i) ==
    /\ agent[i] \in {"dialed", "serving"} /\ conn[i] \notin open
    /\ ServeReturns(i)
    /\ UNCHANGED <<vars, faults>>

\* The network fails between the daemon and the hub, before the connection is
\* made or on it, and the daemon notices first.
Lose(i) ==
    /\ agent[i] \in {"starting", "backoff", "dialed", "serving"}
    /\ faults < MaxFaults /\ faults' = faults + 1
    /\ ServeReturns(i)
    /\ UNCHANGED vars

\* The daemon stops or dies.
Stop(i) ==
    /\ agent[i] \notin {"failed", "stopped"}
    /\ Become(i, "stopped", NoConn)
    /\ UNCHANGED <<vars, hostOf, first, told, faults>>

\* A step of the handler of a connection; "ready" is noted.
Handle(k) ==
    /\ Handler(k)
    /\ told' = IF pc[k] = "enrolled" /\ pc'[k] = "ready" THEN told \cup {k} ELSE told
    /\ UNCHANGED <<hostOf, agent, conn, first, faults>>

\* The hub notices that a daemon has left a connection, or loses it first.
HubNotices(k) ==
    /\ ~Held(k) /\ Drop(k)
    /\ UNCHANGED agents
HubLoses(k) ==
    /\ Held(k) /\ Drop(k)
    /\ faults < MaxFaults /\ faults' = faults + 1
    /\ UNCHANGED <<hostOf, agent, conn, first, told>>

\* The rest of the hub.
Elsewhere ==
    /\ \/ \E h \in Hosts : Revoke(h)
       \/ \E b \in Subs : Browser(b)
       \/ Expire \/ AnnounceExpired \/ Tick
    /\ UNCHANGED agents

------------------------------------------------------------------------------
AgentInit ==
    /\ Init
    /\ hostOf \in [Ids -> Hosts]
    /\ agent = [i \in Ids |-> "starting"]
    /\ conn = [i \in Ids |-> NoConn]
    /\ first = Ids
    /\ told = {}
    /\ faults = 0

Agent(i) ==
    \/ \E k \in Conns : Connect(i, k)
    \/ ReadReady(i) \/ NoticeClosed(i) \/ Lose(i) \/ Stop(i)
AgentNext ==
    \/ \E i \in Ids : Agent(i)
    \/ \E k \in Conns : Handle(k) \/ HubNotices(k) \/ HubLoses(k)
    \/ Elsewhere

AgentSpec == AgentInit /\ [][AgentNext]_avars

\* A daemon dials again after its delay and reads what arrives; handlers run; a
\* hub finds out, by its keepalives, that its peer has left; time passes.
AgentFairness ==
    /\ \A i \in Ids :
          /\ SF_avars(\E k \in Conns : Connect(i, k))
          /\ WF_avars(ReadReady(i)) /\ WF_avars(NoticeClosed(i))
    /\ \A k \in Conns :
          /\ WF_avars(Handle(k)) /\ WF_avars(HubNotices(k))
          /\ SF_avars(RemoveSession(k) /\ Handle(k))
    /\ WF_avars(Tick /\ UNCHANGED agents)
FairAgentSpec == AgentSpec /\ AgentFairness

------------------------------------------------------------------------------
AgentStates == {"starting", "dialed", "serving", "backoff", "failed", "stopped"}

\* Every variable stays in its domain, and two daemons never hold one connection.
AgentTypeOK ==
    /\ hostOf \in [Ids -> Hosts]
    /\ agent \in [Ids -> AgentStates]
    /\ conn \in [Ids -> Slots]
    /\ first \subseteq Ids
    /\ told \subseteq Conns
    /\ faults \in 0..MaxFaults
    /\ \A i \in Ids : conn[i] # NoConn <=> agent[i] \in {"dialed", "serving"}
    /\ \A i, j \in Ids : conn[i] = conn[j] /\ conn[i] # NoConn => i = j

\* The daemon and the hub mean the same tunnel: an open connection that a daemon
\* holds is served by a handler for that daemon and host; a daemon that serves
\* has been answered; and once registered the connection is the session of its
\* repository, or is about to be closed by another tunnel of the same daemon - a
\* handler of a tunnel the daemon has left may register late and replace it -,
\* so the daemon will notice and dial again.
TunnelsAgree ==
    \A i \in Ids : conn[i] \in open =>
        /\ pc[conn[i]] # "free" /\ id[conn[i]] = i /\ host[conn[i]] = hostOf[i]
        /\ agent[i] = "serving" => pc[conn[i]] \notin {"dialed", "enrolled"}
        /\ Registered(conn[i]) => Reachable(conn[i])

\* A daemon that has come up once and is not stopped is listed again after every
\* loss: once losses end, the hub's session of its repository is the connection
\* the daemon serves, for good.
Persists(i) == i \notin first /\ agent[i] # "stopped" /\ hostOf[i] \in allowed
AgentsComeBack ==
    \A i \in Ids :
        <>[]Persists(i) => <>[](agent[i] = "serving" /\ sessions[i] = conn[i])
==============================================================================
