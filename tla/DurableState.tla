---------------------------- MODULE DurableState ----------------------------
(***************************************************************************)
(* What the bridge server expects of its data directory, as one cell.  The *)
(* runtime state moves on in memory; an answered request makes it durable; *)
(* a process that comes back has the last acknowledged state or a later    *)
(* one.  Damaged storage may cost newer states or make the server refuse   *)
(* to start; it never makes it start empty.  SnapshotStore implements this *)
(* cell with files; OutboundRelay and WebRelayLoop rely on it for `disk'.  *)
(***************************************************************************)
CONSTANTS
    States,     \* the runtime states
    Empty,      \* the state of a server without a data directory
    Refused     \* the outcome of a start that throws

VARIABLES
    mem,        \* the state in memory
    acked,      \* the state at the last answered request
    may,        \* what the next start can come up with
    damaged     \* has a file been damaged from outside?

vars == <<mem, acked, may, damaged>>

Init == mem = Empty /\ acked = Empty /\ may = {Empty} /\ damaged = FALSE

\* A request changes the state.
Change == /\ mem' \in States \ {Empty}
          /\ UNCHANGED <<acked, may, damaged>>

\* The changed state can already come back, but need not.
Expose == /\ may' = may \cup {mem}
          /\ UNCHANGED <<mem, acked, damaged>>

\* The request is answered: nothing else can come back any more, and least of
\* all the empty state if the storage is damaged.
Acknowledge == /\ acked' = mem
               /\ \/ may' = {mem}
                  \/ damaged /\ may' \subseteq may \ {Empty}
               /\ UNCHANGED <<mem, damaged>>

\* The operating system wrote something back, or the power failed.
Settle == /\ may' \subseteq may
          /\ may' # {}
          /\ UNCHANGED <<mem, acked, damaged>>

Recover == /\ mem' \in may \ {Refused}
           /\ UNCHANGED <<acked, may, damaged>>

Damage == /\ damaged' = TRUE
          /\ may' \subseteq States \cup {Refused}
          /\ acked # Empty => Empty \notin may'
          /\ UNCHANGED <<mem, acked>>

Next == Change \/ Expose \/ Acknowledge \/ Settle \/ Recover \/ Damage

Spec == Init /\ [][Next]_vars
=============================================================================
