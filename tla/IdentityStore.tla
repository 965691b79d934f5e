--------------------------- MODULE IdentityStore ---------------------------
(***************************************************************************)
(* What the hub's identity store promises its callers, whatever happens to *)
(* the processes that share its file (internal/identity/store.go): the     *)
(* enrollment codes and the hosts change in single steps, each step is one *)
(* of the three below, and nothing is ever taken back.                     *)
(***************************************************************************)
EXTENDS Naturals

CONSTANTS Codes,    \* one-time enrollment codes
          Hosts,    \* certificate serial numbers, which name the hosts
          NoCode    \* null value

VARIABLES
    offered,   \* codes that were created
    pending,   \* codes that may still be used
    enrolledBy,\* the code each host was enrolled with
    revoked    \* hosts that were revoked

store == <<offered, pending, enrolledBy, revoked>>

Init ==
    /\ offered = {} /\ pending = {}
    /\ enrolledBy = [h \in Hosts |-> NoCode]
    /\ revoked = {}

\* A code is created; codes that have expired may be thrown away with it.
Offer(c) ==
    /\ c \notin offered
    /\ offered' = offered \cup {c}
    /\ c \in pending' /\ pending' \subseteq pending \cup {c}
    /\ UNCHANGED <<enrolledBy, revoked>>

\* A code is used up and its host enrolled, in one step.
Enroll(c, h) ==
    /\ c \in pending /\ enrolledBy[h] = NoCode
    /\ pending' = pending \ {c}
    /\ enrolledBy' = [enrolledBy EXCEPT ![h] = c]
    /\ UNCHANGED <<offered, revoked>>

\* A host is revoked, for good.
Revoke(h) ==
    /\ enrolledBy[h] # NoCode
    /\ revoked' = revoked \cup {h}
    /\ UNCHANGED <<offered, pending, enrolledBy>>

Next ==
    \/ \E c \in Codes : Offer(c) \/ \E h \in Hosts : Enroll(c, h)
    \/ \E h \in Hosts : Revoke(h)

Spec == Init /\ [][Next]_store
=============================================================================
