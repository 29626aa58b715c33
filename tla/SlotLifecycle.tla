---------------------------- MODULE SlotLifecycle ----------------------------
(***************************************************************************)
(* What a client slot of the server promises to the packet layer above it: *)
(* it serves one session after another, never two at a time, and the end   *)
(* of each session is reported (OnClose) before the next one can begin.    *)
(***************************************************************************)
EXTENDS Naturals

CONSTANT Clients

VARIABLES
  state,     \* "free", "armed" (waiting for a peer) or "open", per slot
  session,   \* sessions begun so far
  reported   \* the end of the newest session has been reported

vars == <<state, session, reported>>

Init ==
  /\ state = [c \in Clients |-> "free"]
  /\ session = [c \in Clients |-> 0]
  /\ reported = [c \in Clients |-> FALSE]

\* A free slot whose last session has been reported starts a new session; it
\* waits for a peer, or stays free when it cannot.
Arm(c) ==
  /\ state[c] = "free"
  /\ session[c] > 0 => reported[c]
  /\ session' = [session EXCEPT ![c] = @ + 1]
  /\ reported' = [reported EXCEPT ![c] = FALSE]
  /\ \/ state' = [state EXCEPT ![c] = "armed"]
     \/ UNCHANGED state

\* A peer connects to an armed slot.
Open(c) ==
  /\ state[c] = "armed"
  /\ state' = [state EXCEPT ![c] = "open"]
  /\ UNCHANGED <<session, reported>>

\* The slot is closed, or gives up waiting.
Release(c) ==
  /\ state[c] # "free"
  /\ state' = [state EXCEPT ![c] = "free"]
  /\ UNCHANGED <<session, reported>>

\* OnClose.
Report(c) ==
  /\ state[c] = "free"
  /\ session[c] > 0
  /\ reported' = [reported EXCEPT ![c] = TRUE]
  /\ UNCHANGED <<state, session>>

Next == \E c \in Clients : Arm(c) \/ Open(c) \/ Release(c) \/ Report(c)

Spec == Init /\ [][Next]_vars
=============================================================================
