----------------------------- MODULE RemoteCall -----------------------------
(***************************************************************************)
(* What a caller may rely on when it invokes an agent through a broker:    *)
(* a call is handed to an agent at most once and only while the caller     *)
(* still waits, and it succeeds only if it was.  A call that failed may    *)
(* have been executed all the same.  AgentRelay implements this module.    *)
(***************************************************************************)
CONSTANT Call

VARIABLES call,       \* the caller's view of each call
          delivered   \* the calls some agent was handed

Init == /\ call = [c \in Call |-> "idle"]
        /\ delivered = {}

Ask(c) == /\ call[c] = "idle"
          /\ call' = [call EXCEPT ![c] = "asked"]
          /\ UNCHANGED delivered

Deliver(c) == /\ call[c] = "asked"
              /\ c \notin delivered
              /\ delivered' = delivered \cup {c}
              /\ UNCHANGED call

Succeed(c) == /\ call[c] = "asked"
              /\ c \in delivered
              /\ call' = [call EXCEPT ![c] = "succeeded"]
              /\ UNCHANGED delivered

\* Several calls fail at once when the broker goes down.
Fail == \E lost \in SUBSET {c \in Call : call[c] \in {"idle", "asked"}} :
          /\ call' = [c \in Call |-> IF c \in lost THEN "failed" ELSE call[c]]
          /\ UNCHANGED delivered

Next == \/ Fail
        \/ \E c \in Call : Ask(c) \/ Deliver(c) \/ Succeed(c)

Spec == Init /\ [][Next]_<<call, delivered>>
=============================================================================
