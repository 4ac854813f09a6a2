--------------------------- MODULE SingleInstance ---------------------------
(***************************************************************************)
(* How processes with the same server name find each other: InterProc over *)
(* a Unix socket, as AppClass::init and AppClass::exit use it.             *)
(*                                                                         *)
(* A start looks for the socket (ClientSend).  If a server answers, it     *)
(* gets the command line and the start exits.  Otherwise the start opens   *)
(* its window - which executes its own command line, and takes as long as  *)
(* the user needs for the dialogs - and only then makes the socket         *)
(* (StartServer).  Every system call is a step.                            *)
(***************************************************************************)
CONSTANTS
    Procs,          \* the processes, each of which is started at most once
    Nobody,         \* "there is no socket file"
    StartsOverlap,  \* may a start begin while another one is starting?
    StopsOverlap    \* may a start and a regular exit overlap?

ASSUME InstanceAssumption ==
    /\ Nobody \notin Procs
    /\ StartsOverlap \in BOOLEAN
    /\ StopsOverlap \in BOOLEAN

VARIABLES
    pc,         \* where a process is
    sock,       \* whose socket the file in the servers directory is
    listening,  \* processes whose socket accepts connections
    inbox,      \* connections a process has not handled: accepted or queued
    peer,       \* the server a client connected to
    done        \* starts whose command line was handed over and executed

vars == <<pc, sock, listening, inbox, peer, done>>

Starting == {"probe", "connect", "write", "window", "stat", "unlink", "bind",
             "listen"}

TypeOK ==
    /\ pc \in [Procs -> Starting \cup
                {"off", "serve", "stop", "sent", "failed", "quit", "dead"}]
    /\ sock \in Procs \cup {Nobody}
    /\ listening \subseteq Procs
    /\ inbox \in [Procs -> SUBSET Procs]
    /\ peer \in [Procs -> Procs \cup {Nobody}]
    /\ done \subseteq Procs
    /\ \A p \in Procs : pc[p] \in {"write", "sent"} => peer[p] \in Procs

Init ==
    /\ pc = [p \in Procs |-> "off"]
    /\ sock = Nobody
    /\ listening = {}
    /\ inbox = [p \in Procs |-> {}]
    /\ peer = [p \in Procs |-> Nobody]
    /\ done = {}

Goto(p, l) == pc' = [pc EXCEPT ![p] = l]

At(labels) == {p \in Procs : pc[p] \in labels}

Start(p) ==
    /\ pc[p] = "off"
    /\ StartsOverlap \/ At(Starting) = {}
    /\ StopsOverlap \/ At({"stop"}) = {}
    /\ Goto(p, "probe")
    /\ UNCHANGED <<sock, listening, inbox, peer, done>>

(***************************************************************************)
(* The client: ClientSend.                                                 *)
(***************************************************************************)

\* Mutated Probe: an existing socket is never tried.
ProbeSkips(p) ==
    /\ pc[p] = "probe"
    /\ Goto(p, "window")
    /\ UNCHANGED <<sock, listening, inbox, peer, done>>

\* FXStat::statFile
Probe(p) ==
    /\ pc[p] = "probe"
    /\ Goto(p, IF sock = Nobody THEN "window" ELSE "connect")
    /\ UNCHANGED <<sock, listening, inbox, peer, done>>

Accepts == sock \in listening

\* connect: the file may be gone by now, which is an error; a socket nobody
\* listens on means that this process has to become the server.
Connect(p) ==
    /\ pc[p] = "connect"
    /\ \/ sock = Nobody /\ Goto(p, "failed") /\ UNCHANGED <<inbox, peer>>
       \/ sock # Nobody /\ ~Accepts /\ Goto(p, "window") /\ UNCHANGED <<inbox, peer>>
       \/ /\ Accepts
          /\ Goto(p, "write")
          /\ inbox' = [inbox EXCEPT ![sock] = @ \cup {p}]
          /\ peer' = [peer EXCEPT ![p] = sock]
    /\ UNCHANGED <<sock, listening, done>>

\* write and close: a failed write is not told from a complete one, the process
\* exits with 0 in both cases.
Write(p) ==
    /\ pc[p] = "write"
    /\ Goto(p, "sent")
    /\ UNCHANGED <<sock, listening, inbox, peer, done>>

(***************************************************************************)
(* The server: StartServer.                                                *)
(***************************************************************************)

\* The window is up and the own command line has been executed.
Window(p) ==
    /\ pc[p] = "window"
    /\ Goto(p, "stat")
    /\ UNCHANGED <<sock, listening, inbox, peer, done>>

\* Mutated StatSocket: an old socket file is not removed.
StatSocketKeeps(p) ==
    /\ pc[p] = "stat"
    /\ Goto(p, "bind")
    /\ UNCHANGED <<sock, listening, inbox, peer, done>>

StatSocket(p) ==
    /\ pc[p] = "stat"
    /\ Goto(p, IF sock = Nobody THEN "bind" ELSE "unlink")
    /\ UNCHANGED <<sock, listening, inbox, peer, done>>

\* unlink of whatever is there now; without a file it fails and so does the start.
Unlink(p) ==
    /\ pc[p] = "unlink"
    /\ Goto(p, IF sock = Nobody THEN "failed" ELSE "bind")
    /\ sock' = Nobody
    /\ UNCHANGED <<listening, inbox, peer, done>>

Bind(p) ==
    /\ pc[p] = "bind"
    /\ \/ sock = Nobody /\ sock' = p /\ Goto(p, "listen")
       \/ sock # Nobody /\ UNCHANGED sock /\ Goto(p, "failed")
    /\ UNCHANGED <<listening, inbox, peer, done>>

Listen(p) ==
    /\ pc[p] = "listen"
    /\ listening' = listening \cup {p}
    /\ Goto(p, "serve")
    /\ UNCHANGED <<sock, inbox, peer, done>>

\* Mutated Execute: a connection is closed before its client has written.
ExecuteEarly(p, c) ==
    /\ pc[p] = "serve"
    /\ c \in inbox[p]
    /\ inbox' = [inbox EXCEPT ![p] = @ \ {c}]
    /\ done' = IF pc[c] = "sent" THEN done \cup {c} ELSE done
    /\ UNCHANGED <<pc, sock, listening, peer>>

\* onSocketRead reads until the client has closed its end, then executes what
\* arrived; of a client that died it executes a part.
Execute(p, c) ==
    /\ pc[p] = "serve"
    /\ c \in inbox[p]
    /\ pc[c] # "write"
    /\ inbox' = [inbox EXCEPT ![p] = @ \ {c}]
    /\ done' = IF pc[c] = "sent" THEN done \cup {c} ELSE done
    /\ UNCHANGED <<pc, sock, listening, peer>>

(***************************************************************************)
(* The end: StopServer, or a crash.                                        *)
(***************************************************************************)

\* The listening socket is closed first, and no more requests are handled ...
Quit(p) ==
    /\ pc[p] = "serve"
    /\ StopsOverlap \/ At(Starting) = {}
    /\ Goto(p, "stop")
    /\ listening' = listening \ {p}
    /\ inbox' = [inbox EXCEPT ![p] = {}]
    /\ UNCHANGED <<sock, peer, done>>

\* ... then the socket file is removed, whoever made it.
RemoveSocket(p) ==
    /\ pc[p] = "stop"
    /\ Goto(p, "quit")
    /\ sock' = Nobody
    /\ UNCHANGED <<listening, inbox, peer, done>>

Crash(p) ==
    /\ pc[p] \in Starting \cup {"serve", "stop"}
    /\ Goto(p, "dead")
    /\ listening' = listening \ {p}
    /\ inbox' = [inbox EXCEPT ![p] = {}]
    /\ UNCHANGED <<sock, peer, done>>

Proceed(p) ==
    \/ Probe(p) \/ Connect(p) \/ Write(p)
    \/ Window(p) \/ StatSocket(p) \/ Unlink(p) \/ Bind(p) \/ Listen(p)
    \/ RemoveSocket(p)

Next ==
    \E p \in Procs :
        \/ Start(p) \/ Proceed(p) \/ Quit(p) \/ Crash(p)
        \/ \E c \in Procs : Execute(p, c)

Spec == Init /\ [][Next]_vars

\* A process that is started keeps running, and a server handles its events.
Fairness ==
    \A p \in Procs : WF_vars(Proceed(p)) /\ \A c \in Procs : WF_vars(Execute(p, c))

FairSpec == Spec /\ Fairness

(***************************************************************************)
(* What is promised.                                                       *)
(***************************************************************************)

\* There is a single instance for a name.
OneServer == \A p, q \in At({"serve"}) : p = q

\* A running instance can be found by every later start: the socket file is its
\* own.
ServerIsFound == \A p \in At({"serve"}) : sock = p /\ Accepts

\* Every start ends in a window or hands over its command line, even if an
\* earlier server crashed and left its socket file behind.
StartSucceeds ==
    \A p \in Procs : pc[p] = "probe" ~> pc[p] \in {"serve", "sent", "dead"}

\* A command line that was handed over is executed, unless the server ends.
SentIsExecuted ==
    \A c \in Procs : pc[c] = "sent" ~>
        c \in done \/ peer[c] \in At({"stop", "quit", "dead"})

\* The instance the user sees: the one that serves.
server == IF At({"serve"}) = {} THEN Nobody ELSE CHOOSE p \in Procs : pc[p] = "serve"
pending == IF server = Nobody THEN {} ELSE inbox[server]

Abstract == INSTANCE Instance
    WITH Procs <- Procs, Nobody <- Nobody, server <- server, pending <- pending, done <- done

\* Starts and exits that do not overlap implement the single instance.
Implements == Abstract!Spec
=============================================================================
