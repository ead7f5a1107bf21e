----------------------------- MODULE LogonGate ------------------------------
(***************************************************************************)
(* What the pool promises a domain controller that counts failed logons    *)
(* (the second section of transport/pool.rs): until a server has accepted  *)
(* a handshake, one request at a time runs one; a request runs at most     *)
(* one; and a request spared by another's refusal runs none.  LanePool     *)
(* implements it: how lanes, permits, turns and counts bring it about is   *)
(* that module's business.                                                 *)
(***************************************************************************)
CONSTANTS Requests, Origins, OriginOf

VARIABLES
    trying,     \* requests running a handshake
    tried,      \* requests that have run theirs
    accepted,   \* origins whose server has accepted one
    spared      \* requests refused with another's handshake

gateVars == <<trying, tried, accepted, spared>>

Init == trying = {} /\ tried = {} /\ accepted = {} /\ spared = {}

Alone(r) == \A s \in trying : OriginOf[s] # OriginOf[r]

Begin(r) ==
    /\ r \notin trying \cup tried \cup spared
    /\ Alone(r) \/ OriginOf[r] \in accepted
    /\ trying' = trying \cup {r}
    /\ UNCHANGED <<tried, accepted, spared>>

\* The handshake ends, accepted or not.
End(r) ==
    /\ r \in trying
    /\ trying' = trying \ {r}
    /\ tried' = tried \cup {r}
    /\ accepted' \in {accepted, accepted \cup {OriginOf[r]}}
    /\ UNCHANGED spared

\* A refusal is shared with some of the requests that have not begun.
Spare(shared) ==
    /\ shared \cap (trying \cup tried) = {}
    /\ spared' = spared \cup shared
    /\ UNCHANGED <<trying, tried, accepted>>

Next ==
    \/ \E r \in Requests : Begin(r) \/ End(r)
    \/ \E shared \in SUBSET Requests : Spare(shared)

Spec == Init /\ [][Next]_gateVars

=============================================================================
