---------------------------- MODULE SessionStore ----------------------------
(***************************************************************************)
(* What the session save handler promises when session locking is on and   *)
(* locks do not expire: each session has at most one holder, and only its  *)
(* holder changes its data.  The store itself may forget a session at any  *)
(* time (memcached is a cache); it never makes one up.                     *)
(***************************************************************************)
CONSTANTS Workers, Sids, Payloads, Empty, NoWorker

VARIABLES
    holder,   \* holder[s]: the worker that holds session s, or NoWorker
    data      \* data[s]: the session's data

Init ==
    /\ holder = [s \in Sids |-> NoWorker]
    /\ data = [s \in Sids |-> Empty]

Acquire(w, s) ==
    /\ holder[s] = NoWorker
    /\ holder' = [holder EXCEPT ![s] = w]
    /\ UNCHANGED data

\* The holder saves the session, or destroys it (v = Empty).
Update(w, s, v) ==
    /\ holder[s] = w
    /\ data' = [data EXCEPT ![s] = v]
    /\ UNCHANGED holder

Release(w, s) ==
    /\ holder[s] = w
    /\ holder' = [holder EXCEPT ![s] = NoWorker]
    /\ UNCHANGED data

Forget(s) ==
    /\ data' = [data EXCEPT ![s] = Empty]
    /\ UNCHANGED holder

Next ==
    \E s \in Sids :
        \/ Forget(s)
        \/ \E w \in Workers :
              \/ Acquire(w, s)
              \/ Release(w, s)
              \/ \E v \in Payloads : Update(w, s, v)

Spec == Init /\ [][Next]_<<holder, data>>
=============================================================================
