------------------------------ MODULE Instance ------------------------------
(***************************************************************************)
(* What the user is told about named instances: starting the editor        *)
(* creates a single instance, and while it runs every further start hands  *)
(* its files over to it.                                                   *)
(***************************************************************************)
CONSTANTS
    Procs,      \* processes
    Nobody      \* "no instance is running"

VARIABLES
    server,     \* the running instance
    pending,    \* starts whose files the instance still has to open
    done        \* starts whose files were opened by an instance

Init ==
    /\ server = Nobody
    /\ pending = {}
    /\ done = {}

Become(p) ==
    /\ server = Nobody
    /\ server' = p
    /\ UNCHANGED <<pending, done>>

HandOver(c) ==
    /\ server # Nobody
    /\ c \notin pending \cup done
    /\ pending' = pending \cup {c}
    /\ UNCHANGED <<server, done>>

\* The instance opens the files, or drops the request of a start that died.
Handle(c) ==
    /\ c \in pending
    /\ pending' = pending \ {c}
    /\ done' \in {done, done \cup {c}}
    /\ UNCHANGED server

Leave ==
    /\ server # Nobody
    /\ server' = Nobody
    /\ pending' = {}
    /\ UNCHANGED done

Next ==
    \/ \E p \in Procs : Become(p) \/ HandOver(p) \/ Handle(p)
    \/ Leave

Spec == Init /\ [][Next]_<<server, pending, done>>
=============================================================================
