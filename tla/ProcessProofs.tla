--------------------------- MODULE ProcessProofs ---------------------------
(***************************************************************************)
(* Theorems about the processes of the editor.                             *)
(*                                                                         *)
(* SingleInstance, for any number of processes: the types with every       *)
(* overlap of starts and exits; and without overlaps that there is one     *)
(* server, that it is found, and that the system calls implement Instance. *)
(* Crashes may happen at every system call.                                *)
(*                                                                         *)
(* Commands, in one of the processes: through every nesting of shell       *)
(* commands, filters and macros the flags, the accelerators and what the   *)
(* user is told stay right.                                                *)
(***************************************************************************)
EXTENDS SingleInstance, Commands, SequenceTheorems, TLAPS

Serial == ~StartsOverlap /\ ~StopsOverlap

(***************************************************************************)
(* The types of SingleInstance.                                            *)
(***************************************************************************)

LEMMA TypeInit == Init => TypeOK
BY InstanceAssumption DEF Init, TypeOK

LEMMA TypeStep == TypeOK /\ [Next]_vars => TypeOK'
<1> SUFFICES ASSUME TypeOK, [Next]_vars PROVE TypeOK'
    OBVIOUS
<1> USE InstanceAssumption DEF TypeOK, Goto, Starting
<1>1. ASSUME NEW p \in Procs, Start(p) PROVE TypeOK'
    BY <1>1 DEF Start
<1>2. ASSUME NEW p \in Procs, Proceed(p) PROVE TypeOK'
    <2>1. CASE Probe(p) BY <2>1 DEF Probe
    <2>2. CASE Connect(p) BY <2>2 DEF Connect, Accepts
    <2>3. CASE Write(p) BY <2>3 DEF Write
    <2>4. CASE Window(p) BY <2>4 DEF Window
    <2>5. CASE StatSocket(p) BY <2>5 DEF StatSocket
    <2>6. CASE Unlink(p) BY <2>6 DEF Unlink
    <2>7. CASE Bind(p) BY <2>7 DEF Bind
    <2>8. CASE Listen(p) BY <2>8 DEF Listen
    <2>9. CASE RemoveSocket(p) BY <2>9 DEF RemoveSocket
    <2> QED BY <1>2, <2>1, <2>2, <2>3, <2>4, <2>5, <2>6, <2>7, <2>8, <2>9 DEF Proceed
<1>3. ASSUME NEW p \in Procs, Quit(p) PROVE TypeOK'
    BY <1>3 DEF Quit
<1>4. ASSUME NEW p \in Procs, Crash(p) PROVE TypeOK'
    BY <1>4 DEF Crash
<1>5. ASSUME NEW p \in Procs, NEW c \in Procs, Execute(p, c) PROVE TypeOK'
    BY <1>5 DEF Execute
<1>6. CASE UNCHANGED vars
    BY <1>6 DEF vars
<1> QED BY <1>1, <1>2, <1>3, <1>4, <1>5, <1>6 DEF Next

\* No order of system calls, crashes and requests leaves a variable outside its
\* type; in particular a request that was written has a server it was written to.
THEOREM TypeCorrect == Spec => []TypeOK
BY TypeInit, TypeStep, PTL DEF Spec

(***************************************************************************)
(* The inductive invariant of SingleInstance.                              *)
(***************************************************************************)

\* At most one process is on its way to become the server, none while a server
\* is being stopped, and at most one serves or stops.
OneAtATime ==
    /\ \A p, q \in Procs : pc[p] \in Starting /\ pc[q] \in Starting => p = q
    /\ \A p, q \in Procs : pc[p] \in {"serve", "stop"} /\ pc[q] \in {"serve", "stop"} => p = q
    /\ \A p, q \in Procs : pc[p] = "stop" => pc[q] \notin Starting

\* Only the server listens and has requests, and the socket file is its own, from
\* the moment it was bound.
SocketIsOwn ==
    /\ \A p \in Procs : pc[p] \in {"listen", "serve"} => sock = p
    /\ \A p \in Procs : p \in listening <=> pc[p] = "serve"
    /\ \A p \in Procs : pc[p] # "serve" => inbox[p] = {}

\* A start that has decided to become the server is right: there is none.
NoneYet ==
    \A p, q \in Procs :
        pc[p] \in {"window", "stat", "unlink", "bind", "listen"} => pc[q] # "serve"

\* A process that has not connected yet has left no request.
NotAsked ==
    \A p \in Procs : pc[p] \in {"off", "probe", "connect"} =>
        p \notin done /\ \A q \in Procs : p \notin inbox[q]

SerialInv == TypeOK /\ OneAtATime /\ SocketIsOwn /\ NoneYet /\ NotAsked

LEMMA SerialInit == Init => SerialInv
BY TypeInit DEF Init, SerialInv, OneAtATime, SocketIsOwn, NoneYet, NotAsked, Starting

LEMMA SerialStep == ASSUME Serial PROVE SerialInv /\ [Next]_vars => SerialInv'
<1> SUFFICES ASSUME SerialInv, [Next]_vars PROVE SerialInv'
    OBVIOUS
<1>0. TypeOK'
    BY TypeStep DEF SerialInv
<1> SUFFICES OneAtATime' /\ SocketIsOwn' /\ NoneYet' /\ NotAsked'
    BY <1>0 DEF SerialInv
<1> USE InstanceAssumption
        DEF SerialInv, TypeOK, OneAtATime, SocketIsOwn, NoneYet, NotAsked, Goto, Starting
<1>1. ASSUME NEW p \in Procs, Start(p)
      PROVE OneAtATime' /\ SocketIsOwn' /\ NoneYet' /\ NotAsked'
    BY <1>1 DEF Start, Serial, At
<1>2. ASSUME NEW p \in Procs, Probe(p)
      PROVE OneAtATime' /\ SocketIsOwn' /\ NoneYet' /\ NotAsked'
    BY <1>2 DEF Probe
<1>3. ASSUME NEW p \in Procs, Connect(p)
      PROVE OneAtATime' /\ SocketIsOwn' /\ NoneYet' /\ NotAsked'
    BY <1>3 DEF Connect, Accepts
<1>4. ASSUME NEW p \in Procs, Write(p)
      PROVE OneAtATime' /\ SocketIsOwn' /\ NoneYet' /\ NotAsked'
    BY <1>4 DEF Write
<1>5. ASSUME NEW p \in Procs, Window(p)
      PROVE OneAtATime' /\ SocketIsOwn' /\ NoneYet' /\ NotAsked'
    BY <1>5 DEF Window
<1>6. ASSUME NEW p \in Procs, StatSocket(p)
      PROVE OneAtATime' /\ SocketIsOwn' /\ NoneYet' /\ NotAsked'
    BY <1>6 DEF StatSocket
<1>7. ASSUME NEW p \in Procs, Unlink(p)
      PROVE OneAtATime' /\ SocketIsOwn' /\ NoneYet' /\ NotAsked'
    BY <1>7 DEF Unlink
<1>8. ASSUME NEW p \in Procs, Bind(p)
      PROVE OneAtATime' /\ SocketIsOwn' /\ NoneYet' /\ NotAsked'
    BY <1>8 DEF Bind
<1>9. ASSUME NEW p \in Procs, Listen(p)
      PROVE OneAtATime' /\ SocketIsOwn' /\ NoneYet' /\ NotAsked'
    BY <1>9 DEF Listen
<1>10. ASSUME NEW p \in Procs, RemoveSocket(p)
       PROVE OneAtATime' /\ SocketIsOwn' /\ NoneYet' /\ NotAsked'
    BY <1>10 DEF RemoveSocket
<1>11. ASSUME NEW p \in Procs, Quit(p)
       PROVE OneAtATime' /\ SocketIsOwn' /\ NoneYet' /\ NotAsked'
    BY <1>11 DEF Quit, Serial, At
<1>12. ASSUME NEW p \in Procs, Crash(p)
       PROVE OneAtATime' /\ SocketIsOwn' /\ NoneYet' /\ NotAsked'
    BY <1>12 DEF Crash
<1>13. ASSUME NEW p \in Procs, NEW c \in Procs, Execute(p, c)
       PROVE OneAtATime' /\ SocketIsOwn' /\ NoneYet' /\ NotAsked'
    BY <1>13 DEF Execute
<1>14. CASE UNCHANGED vars
    BY <1>14 DEF vars
<1> QED
    BY <1>1, <1>2, <1>3, <1>4, <1>5, <1>6, <1>7, <1>8, <1>9, <1>10, <1>11, <1>12,
       <1>13, <1>14 DEF Next, Proceed

LEMMA SerialInvariance == ASSUME Serial PROVE Spec => []SerialInv
BY SerialInit, SerialStep, PTL DEF Spec

\* While starts and regular exits do not overlap, never more than one process
\* serves, wherever earlier ones crashed.
THEOREM OneServerHolds == ASSUME Serial PROVE Spec => []OneServer
<1>1. SerialInv => OneServer
    BY DEF SerialInv, OneAtATime, OneServer, At
<1> QED BY <1>1, SerialInvariance, PTL

\* And the socket file always leads to it.
THEOREM ServerIsFoundHolds == ASSUME Serial PROVE Spec => []ServerIsFound
<1>1. SerialInv => ServerIsFound
    BY DEF SerialInv, SocketIsOwn, ServerIsFound, Accepts, At
<1> QED BY <1>1, SerialInvariance, PTL

(***************************************************************************)
(* Refinement of Instance.                                                 *)
(***************************************************************************)

\* What the process that serves is for the user.
LEMMA ServerIs ==
    ASSUME SerialInv, NEW p \in Procs, pc[p] = "serve"
    PROVE  server = p /\ pending = inbox[p] /\ server # Nobody
BY InstanceAssumption DEF SerialInv, OneAtATime, server, pending, At

LEMMA NoServerIs ==
    ASSUME \A p \in Procs : pc[p] # "serve"
    PROVE  server = Nobody /\ pending = {}
BY DEF server, pending, At

\* A step that leaves the server and its requests alone is not seen.
LEMMA Unseen ==
    ASSUME SerialInv, SerialInv', UNCHANGED done,
           \A p \in Procs : pc'[p] = "serve" <=> pc[p] = "serve",
           \A p \in Procs : pc[p] = "serve" => inbox'[p] = inbox[p]
    PROVE  UNCHANGED <<server, pending, done>>
<1>1. CASE \A p \in Procs : pc[p] # "serve"
    <2>1. server = Nobody /\ pending = {} BY <1>1, NoServerIs
    <2>2. server' = Nobody /\ pending' = {} BY <1>1 DEF server, pending, At
    <2> QED BY <2>1, <2>2
<1>2. ASSUME NEW p \in Procs, pc[p] = "serve" PROVE UNCHANGED <<server, pending, done>>
    <2>1. server = p /\ pending = inbox[p] BY <1>2, ServerIs
    <2>2. server' = p /\ pending' = inbox'[p]
        BY <1>2, InstanceAssumption DEF SerialInv, OneAtATime, server, pending, At
    <2> QED BY <1>2, <2>1, <2>2
<1> QED BY <1>1, <1>2

LEMMA RefinesStep ==
    SerialInv /\ SerialInv' /\ [Next]_vars => [Abstract!Next]_<<server, pending, done>>
<1> SUFFICES ASSUME SerialInv, SerialInv', [Next]_vars
             PROVE  [Abstract!Next]_<<server, pending, done>>
    OBVIOUS
<1> USE InstanceAssumption DEF Goto
<1>1. ASSUME NEW p \in Procs, Start(p) \/ Probe(p) \/ Write(p) \/ Window(p) \/ StatSocket(p)
                              \/ Unlink(p) \/ Bind(p) \/ RemoveSocket(p)
      PROVE  UNCHANGED <<server, pending, done>>
    BY <1>1, Unseen
       DEF Start, Probe, Write, Window, StatSocket, Unlink, Bind, RemoveSocket, SerialInv, TypeOK
<1>2. ASSUME NEW p \in Procs, Connect(p) PROVE [Abstract!Next]_<<server, pending, done>>
    <2>1. CASE ~Accepts
        BY <1>2, <2>1, Unseen DEF Connect, SerialInv, TypeOK
    <2>2. CASE Accepts
        <3>1. sock \in Procs /\ pc[sock] = "serve" /\ sock # Nobody
            BY <2>2 DEF Accepts, SerialInv, SocketIsOwn, TypeOK
        <3>2. /\ pc[p] = "connect" /\ pc'[sock] = "serve" /\ done' = done
              /\ inbox' = [inbox EXCEPT ![sock] = @ \cup {p}]
            BY <1>2, <2>2, <3>1 DEF Connect, SerialInv, TypeOK
        <3>3. server = sock /\ pending = inbox[sock] /\ server # Nobody
            BY <3>1, ServerIs
        <3>4. server' = sock /\ pending' = inbox'[sock]
            BY <3>1, <3>2 DEF SerialInv, OneAtATime, server, pending, At
        <3>5. inbox'[sock] = inbox[sock] \cup {p}
            BY <3>1, <3>2 DEF SerialInv, TypeOK
        <3>6. p \notin pending \cup done
            BY <3>1, <3>2, <3>3 DEF SerialInv, NotAsked
        <3>7. Abstract!HandOver(p)
            BY <3>2, <3>3, <3>4, <3>5, <3>6 DEF Abstract!HandOver
        <3> QED BY <3>7 DEF Abstract!Next
    <2> QED BY <2>1, <2>2
<1>3. ASSUME NEW p \in Procs, Listen(p) PROVE [Abstract!Next]_<<server, pending, done>>
    <2>1. /\ \A q \in Procs : pc[q] # "serve"
          /\ pc'[p] = "serve" /\ inbox'[p] = {} /\ done' = done
        BY <1>3 DEF Listen, SerialInv, TypeOK, NoneYet, SocketIsOwn
    <2>2. server = Nobody /\ pending = {}
        BY <2>1, NoServerIs
    <2>3. server' = p /\ pending' = {}
        BY <2>1 DEF SerialInv, OneAtATime, server, pending, At
    <2>4. Abstract!Become(p)
        BY <2>1, <2>2, <2>3 DEF Abstract!Become
    <2> QED BY <2>4 DEF Abstract!Next
<1>4. ASSUME NEW p \in Procs, NEW c \in Procs, Execute(p, c)
      PROVE  [Abstract!Next]_<<server, pending, done>>
    <2>1. /\ pc[p] = "serve" /\ pc'[p] = "serve" /\ c \in inbox[p]
          /\ inbox'[p] = inbox[p] \ {c}
          /\ done' \in {done, done \cup {c}}
        BY <1>4 DEF Execute, SerialInv, TypeOK
    <2>2. server = p /\ pending = inbox[p]
        BY <2>1, ServerIs
    <2>3. server' = p /\ pending' = inbox'[p]
        BY <2>1 DEF SerialInv, OneAtATime, server, pending, At
    <2>4. Abstract!Handle(c)
        BY <2>1, <2>2, <2>3 DEF Abstract!Handle
    <2> QED BY <2>4 DEF Abstract!Next
<1>5. ASSUME NEW p \in Procs, Quit(p) \/ Crash(p)
      PROVE  [Abstract!Next]_<<server, pending, done>>
    <2>1. CASE pc[p] # "serve"
        BY <1>5, <2>1, Unseen DEF Quit, Crash, SerialInv, TypeOK
    <2>2. CASE pc[p] = "serve"
        <3>1. server # Nobody
            BY <2>2, ServerIs
        <3>2. done' = done /\ \A q \in Procs : pc'[q] # "serve"
            BY <1>5, <2>2 DEF Quit, Crash, SerialInv, TypeOK, OneAtATime
        <3>3. server' = Nobody /\ pending' = {}
            BY <3>2 DEF server, pending, At
        <3>4. Abstract!Leave
            BY <3>1, <3>2, <3>3 DEF Abstract!Leave
        <3> QED BY <3>4 DEF Abstract!Next
    <2> QED BY <2>1, <2>2
<1>6. CASE UNCHANGED vars
    BY <1>6, Unseen DEF vars
<1> QED BY <1>1, <1>2, <1>3, <1>4, <1>5, <1>6 DEF Next, Proceed

\* To the user the system calls are a single instance: one that takes over, gets
\* requests, executes or drops each at most once, and leaves.
THEOREM ImplementsHolds == ASSUME Serial PROVE Spec => Implements
<1>1. Init => Abstract!Init
    BY NoServerIs DEF Init, Abstract!Init
<1> QED
    BY <1>1, SerialInvariance, RefinesStep, PTL DEF Spec, Implements, Abstract!Spec

(***************************************************************************)
(* The inductive invariant of Commands.                                    *)
(***************************************************************************)

\* A process that was waited for has ended, and its status is the one kept.
Reaped(f) == f.reaped => f.proc = "exited" /\ f.status = f.code

Stacked == stack \in Seq(Frames) /\ \A i \in 1 .. Len(stack) : Reaped(stack[i])

\* The key for cancelling is in the window while a filter runs, else put aside.
KeysAreKept ==
    /\ UIFollowsFilter
    /\ accels \in [{"temp", "window", "saved"} -> {"none", "menu", "kill"}]
    /\ accels.temp \in {"none", "kill"}

ToldIsReal ==
    /\ result \in [ok : BOOLEAN, code : {0, 1}, late : BOOLEAN]
    /\ SuccessIsReal

Switches == timeout \in BOOLEAN /\ frozen \in BOOLEAN /\ orphan \in BOOLEAN

CmdInv ==
    /\ Stacked
    /\ FlagsMatchStack
    /\ InnermostIsExclusive
    /\ KeysAreKept
    /\ ToldIsReal
    /\ Switches

(***************************************************************************)
(* The stack.                                                              *)
(***************************************************************************)

LEMMA FramesOfStack ==
    ASSUME Stacked
    PROVE  /\ Len(stack) \in Nat /\ DOMAIN stack = 1 .. Len(stack)
           /\ \A i \in 1 .. Len(stack) : stack[i] \in Frames /\ Reaped(stack[i])
           /\ \A i \in 1 .. Len(stack) : stack[i].kind \in Kinds
<1>1. Len(stack) \in Nat /\ DOMAIN stack = 1 .. Len(stack)
    BY LenProperties DEF Stacked
<1>2. \A i \in 1 .. Len(stack) : stack[i] \in Frames /\ Reaped(stack[i])
    BY ElementOfSeq DEF Stacked
<1>3. \A f \in Frames : f.kind \in Kinds
    BY DEF Frames
<1> QED BY <1>1, <1>2, <1>3

\* The innermost command, and the ones around it.
LEMMA TopOfStack ==
    ASSUME Stacked, stack # <<>>
    PROVE  /\ Len(stack) \in Nat \ {0} /\ Len(stack) \in DOMAIN stack
           /\ Top = stack[Len(stack)] /\ Top \in Frames /\ Reaped(Top)
           /\ Pop \in Seq(Frames)
           /\ DOMAIN Pop = 1 .. Len(stack) - 1 /\ Len(Pop) = Len(stack) - 1
           /\ \A i \in 1 .. Len(stack) - 1 : Pop[i] = stack[i]
<1>1. Len(stack) \in Nat \ {0} /\ DOMAIN stack = 1 .. Len(stack)
    BY EmptySeq, LenProperties DEF Stacked
<1>2. /\ Pop \in Seq(Frames) /\ Len(Pop) = Len(stack) - 1
      /\ \A i \in 1 .. Len(stack) - 1 : Pop[i] = stack[i]
    BY <1>1, SubSeqProperties DEF Pop, Stacked
<1>3. DOMAIN Pop = 1 .. Len(stack) - 1
    BY <1>2, LenProperties
<1> QED BY <1>1, <1>2, <1>3 DEF Top, Stacked

\* At most one shell command is around another command.
LEMMA AtMostTwo ==
    ASSUME Stacked, FlagsMatchStack, InnermostIsExclusive
    PROVE  Len(stack) \leq 2
<1> SUFFICES ASSUME Len(stack) > 2 PROVE FALSE
    BY LenProperties DEF Stacked
<1>1. 1 \in DOMAIN stack /\ 2 \in DOMAIN stack /\ Len(stack) \in Nat
    BY LenProperties DEF Stacked
<1>2. stack[1].kind \in Kinds /\ stack[2].kind \in Kinds
    BY <1>1, FramesOfStack
<1>3. stack[1].kind = "shell" /\ stack[2].kind = "shell"
    BY <1>1, <1>2 DEF InnermostIsExclusive, Kinds
<1> QED BY <1>1, <1>3 DEF FlagsMatchStack

LEMMA InitCmdInv == CmdInit => CmdInv
<1> SUFFICES ASSUME CmdInit PROVE CmdInv
    OBVIOUS
<1>1. Len(stack) = 0 /\ stack \in Seq(Frames) /\ DOMAIN stack = {}
    BY DEF CmdInit
<1>2. KeysAreKept
    BY <1>1, CommandsAssumption DEF CmdInit, KeysAreKept, UIFollowsFilter
<1>3. Stacked /\ FlagsMatchStack /\ InnermostIsExclusive
    BY <1>1 DEF CmdInit, Stacked, FlagsMatchStack, InnermostIsExclusive
<1>4. ToldIsReal /\ Switches
    BY DEF CmdInit, ToldIsReal, SuccessIsReal, Switches
<1> QED
    BY <1>2, <1>3, <1>4 DEF CmdInv

(***************************************************************************)
(* The elementary steps: a frame is pushed, replaced or popped.            *)
(***************************************************************************)

LEMMA RunKeeps == ASSUME CmdInv, NEW k \in Kinds, Run(k) PROVE CmdInv'
<1> DEFINE n == Len(stack)
<1>1. n \in Nat /\ DOMAIN stack = 1 .. n /\ stack \in Seq(Frames)
    BY LenProperties DEF CmdInv, Stacked
<1>2. NewFrame(k) \in Frames /\ Reaped(NewFrame(k)) /\ NewFrame(k).kind = k
    BY DEF NewFrame, Frames, Reaped, Kinds
<1>3. /\ stack' \in Seq(Frames) /\ Len(stack') = n + 1 /\ DOMAIN stack' = 1 .. n + 1
      /\ \A i \in 1 .. n : stack'[i] = stack[i]
      /\ stack'[n + 1] = NewFrame(k)
    BY <1>1, <1>2, AppendProperties, LenProperties DEF Run
<1>4. \A i \in 1 .. n : stack[i].kind \in Kinds /\ stack[i].kind \in commands
    BY <1>1, FramesOfStack DEF CmdInv, FlagsMatchStack
<1>5. \A i \in 1 .. n : stack[i].kind = "shell"
    BY <1>4 DEF Run, Ready, Kinds
<1>6. k # "shell" \/ n = 0
    <2> SUFFICES ASSUME k = "shell", n # 0 PROVE FALSE
        OBVIOUS
    <2>1. stack[1].kind \in commands /\ stack[1].kind = "shell"
        BY <1>1, <1>4, <1>5
    <2> QED BY <2>1 DEF Run, Ready
<1>7. Stacked'
    BY <1>1, <1>2, <1>3 DEF Stacked, CmdInv
<1>8. FlagsMatchStack'
    <2>1. \A i \in 1 .. n + 1 : stack'[i].kind = IF i = n + 1 THEN k ELSE stack[i].kind
        BY <1>1, <1>2, <1>3
    <2>2. commands' = commands \cup {k} /\ commands = {stack[i].kind : i \in 1 .. n}
        BY <1>1 DEF Run, CmdInv, FlagsMatchStack
    <2>3. commands' = {stack'[i].kind : i \in 1 .. n + 1}
        BY <1>1, <2>1, <2>2
    <2>4. \A i, j \in 1 .. n + 1 : stack'[i].kind = stack'[j].kind => i = j
        BY <1>1, <1>5, <1>6, <2>1 DEF CmdInv, FlagsMatchStack
    <2> QED BY <1>3, <2>3, <2>4 DEF FlagsMatchStack
<1>9. InnermostIsExclusive'
    BY <1>1, <1>3, <1>5 DEF InnermostIsExclusive
<1>10. KeysAreKept'
    <2>1. ~\E i \in DOMAIN stack : stack[i].kind = "filter"
        BY <1>1, <1>5
    <2>2. (\E i \in DOMAIN stack' : stack'[i].kind = "filter") <=> k = "filter"
        BY <1>1, <1>2, <1>3, <1>5
    <2>3. ~frozen /\ accels.window = "menu" /\ accels.saved = "none" /\ accels.temp = "kill"
        BY <2>1 DEF CmdInv, KeysAreKept, UIFollowsFilter, Run, Ready
    <2>4. CASE k = "filter"
        BY <2>2, <2>3, <2>4 DEF Run, DisableUI, KeysAreKept, UIFollowsFilter
    <2>5. CASE k # "filter"
        BY <2>2, <2>3, <2>5 DEF Run, ui, KeysAreKept, UIFollowsFilter, CmdInv
    <2> QED BY <2>4, <2>5
<1>11. ToldIsReal' /\ Switches'
    BY DEF Run, DisableUI, ui, CmdInv, ToldIsReal, SuccessIsReal, Switches
<1> QED BY <1>7, <1>8, <1>9, <1>10, <1>11 DEF CmdInv

\* A command goes on, or its child does: it stays what it is.
LEMMA ChangeKeeps ==
    ASSUME CmdInv, NEW i \in DOMAIN stack, NEW f \in Frames, Reaped(f),
           f.kind = stack[i].kind, stack' = [stack EXCEPT ![i] = f],
           UNCHANGED <<commands, timeout, ui, result, orphan>>
    PROVE  CmdInv'
<1>1. /\ stack' \in Seq(Frames) /\ Len(stack') = Len(stack) /\ DOMAIN stack' = DOMAIN stack
      /\ DOMAIN stack = 1 .. Len(stack)
    BY ExceptSeq, LenProperties DEF CmdInv, Stacked
<1>2. /\ \A j \in DOMAIN stack : stack'[j] = IF j = i THEN f ELSE stack[j]
      /\ \A j \in DOMAIN stack : stack'[j].kind = stack[j].kind
    BY DEF CmdInv, Stacked
<1>3. Stacked'
    BY <1>1, <1>2 DEF CmdInv, Stacked
<1>4. FlagsMatchStack'
    BY <1>1, <1>2 DEF CmdInv, FlagsMatchStack
<1>5. InnermostIsExclusive'
    BY <1>1, <1>2 DEF CmdInv, InnermostIsExclusive
<1>6. KeysAreKept'
    BY <1>1, <1>2 DEF CmdInv, KeysAreKept, UIFollowsFilter, ui
<1>7. ToldIsReal' /\ Switches'
    BY DEF CmdInv, ToldIsReal, SuccessIsReal, ui, Switches
<1> QED BY <1>3, <1>4, <1>5, <1>6, <1>7 DEF CmdInv

\* A command ends, and with it its flag.
LEMMA EndKeeps ==
    ASSUME CmdInv, stack # <<>>, NEW ok \in BOOLEAN, End(ok, TRUE),
           Top.kind = "shell" /\ ok => Top.code = 0 \/ ~Top.reaped
    PROVE  CmdInv'
<1> DEFINE n == Len(stack)
<1>1. /\ n \in Nat \ {0} /\ DOMAIN stack = 1 .. n
      /\ Top = stack[n] /\ Top \in Frames
      /\ stack' \in Seq(Frames) /\ DOMAIN stack' = 1 .. n - 1 /\ Len(stack') = n - 1
      /\ \A i \in 1 .. n - 1 : stack'[i] = stack[i]
    BY TopOfStack, LenProperties DEF End, CmdInv, Stacked
<1>2. \A i \in 1 .. n - 1 : stack[i].kind = "shell" /\ stack[i].kind # Top.kind
    <2> SUFFICES ASSUME NEW i \in 1 .. n - 1
                 PROVE  stack[i].kind = "shell" /\ stack[i].kind # Top.kind
        OBVIOUS
    <2>1. i \in 1 .. n /\ n \in 1 .. n /\ i # n
        <3>1. n \in Nat \ {0} BY <1>1
        <3> HIDE DEF n
        <3> QED BY <3>1
    <2>2. stack[i].kind \in Kinds
        BY <2>1, FramesOfStack DEF CmdInv
    <2> QED BY <1>1, <2>1, <2>2 DEF CmdInv, FlagsMatchStack, InnermostIsExclusive, Kinds
<1>3. Stacked'
    BY <1>1 DEF CmdInv, Stacked
<1>4. FlagsMatchStack'
    <2>1. commands = {stack[i].kind : i \in 1 .. n} /\ commands' = commands \ {stack[n].kind}
        BY <1>1 DEF CmdInv, FlagsMatchStack, End
    <2>2. commands' = {stack[i].kind : i \in 1 .. n - 1}
        BY <1>1, <1>2, <2>1
    <2>3. {stack[i].kind : i \in 1 .. n - 1} = {stack'[i].kind : i \in 1 .. n - 1}
        BY <1>1
    <2>4. \A i, j \in 1 .. n - 1 : stack'[i].kind = stack'[j].kind => i = j
        BY <1>1 DEF CmdInv, FlagsMatchStack
    <2> QED BY <1>1, <2>2, <2>3, <2>4 DEF FlagsMatchStack
<1>5. InnermostIsExclusive'
    BY <1>1, <1>2 DEF InnermostIsExclusive
<1>6. KeysAreKept'
    <2>1. ~\E i \in DOMAIN stack' : stack'[i].kind = "filter"
        BY <1>1, <1>2
    <2>2. (\E i \in DOMAIN stack : stack[i].kind = "filter") <=> Top.kind = "filter"
        BY <1>1, <1>2
    <2>3. CASE Top.kind = "filter"
        BY <2>1, <2>2, <2>3 DEF CmdInv, End, DisableUI, KeysAreKept, UIFollowsFilter
    <2>4. CASE Top.kind # "filter"
        BY <2>1, <2>2, <2>4 DEF CmdInv, End, ui, KeysAreKept, UIFollowsFilter
    <2> QED BY <2>3, <2>4
<1>7. ToldIsReal'
    <2>1. Top.code \in {0, 1} /\ Top.reaped \in BOOLEAN
        BY <1>1 DEF Frames
    <2>2. orphan' = orphan /\ ~orphan
        BY DEF End, CmdInv, ToldIsReal, SuccessIsReal, Switches
    <2>3. CASE Top.kind = "shell"
        BY <2>1, <2>2, <2>3 DEF End, ToldIsReal, SuccessIsReal
    <2>4. CASE Top.kind # "shell"
        BY <2>2, <2>4 DEF End, CmdInv, ToldIsReal, SuccessIsReal
    <2> QED BY <2>3, <2>4
<1>8. Switches'
    BY DEF End, DisableUI, ui, CmdInv, Switches, ToldIsReal, SuccessIsReal
<1> QED BY <1>3, <1>4, <1>5, <1>6, <1>7, <1>8 DEF CmdInv

(***************************************************************************)
(* All steps.                                                              *)
(***************************************************************************)

LEMMA StartKeeps == ASSUME CmdInv, NEW k \in Kinds, StartCommand(k) PROVE CmdInv'
<1>1. CASE Run(k)
    BY <1>1, RunKeeps
<1>2. CASE RunFails(k)
    <2>1. ToldIsReal'
        BY <1>2 DEF RunFails, CmdInv, ToldIsReal, SuccessIsReal
    <2>2. KeysAreKept' /\ FlagsMatchStack' /\ InnermostIsExclusive' /\ Stacked'
        BY <1>2 DEF RunFails, CmdInv, KeysAreKept, UIFollowsFilter, FlagsMatchStack,
                    InnermostIsExclusive, Stacked, ui
    <2> QED BY <1>2, <2>1, <2>2 DEF RunFails, CmdInv, ui, Switches
<1> QED BY <1>1, <1>2 DEF StartCommand

LEMMA ProgressKeeps == ASSUME CmdInv, Progress PROVE CmdInv'
<1>1. /\ stack # <<>> /\ Len(stack) \in DOMAIN stack
      /\ Top = stack[Len(stack)] /\ Top \in Frames /\ Reaped(Top)
    BY TopOfStack DEF CmdInv, Progress, Loop, Return, Cancel, Finish, AtHead
<1>2. CASE Loop
    <2> DEFINE reap == Top.proc # "running" /\ ~Top.reaped
               f == [Top EXCEPT !.at = "events", !.reaped = @ \/ reap,
                                !.status = IF reap THEN Top.code ELSE @]
    <2>1. f \in Frames /\ Reaped(f) /\ f.kind = Top.kind
        BY <1>1 DEF Frames, Reaped
    <2>2. stack' = [stack EXCEPT ![Len(stack)] = f]
        BY <1>2 DEF Loop, SetTop
    <2>3. UNCHANGED <<commands, timeout, ui, result, orphan>>
        BY <1>2 DEF Loop
    <2> HIDE DEF f
    <2> QED BY <1>1, <2>1, <2>2, <2>3, ChangeKeeps
<1>3. CASE Return
    <2> DEFINE f == [Top EXCEPT !.at = "head"]
    <2>1. f \in Frames /\ Reaped(f) /\ f.kind = Top.kind
        BY <1>1 DEF Frames, Reaped
    <2>2. stack' = [stack EXCEPT ![Len(stack)] = f]
        BY <1>3 DEF Return, SetTop
    <2>3. UNCHANGED <<commands, timeout, ui, result, orphan>>
        BY <1>3 DEF Return
    <2> HIDE DEF f
    <2> QED BY <1>1, <2>1, <2>2, <2>3, ChangeKeeps
<1>4. CASE Cancel
    BY <1>1, <1>4, EndKeeps DEF Cancel
<1>5. CASE Finish
    <2>1. (Top.status = 0) \in BOOLEAN /\ End(Top.status = 0, TRUE)
        BY <1>5 DEF Finish
    <2>2. Top.status = 0 => Top.code = 0 \/ ~Top.reaped
        BY <1>1 DEF Reaped
    <2> QED BY <1>1, <2>1, <2>2, EndKeeps
<1> QED BY <1>2, <1>3, <1>4, <1>5 DEF Progress

LEMMA MacroEndsKeeps == ASSUME CmdInv, MacroEnds PROVE CmdInv'
BY EndKeeps DEF MacroEnds

LEMMA ChildrenKeeps == ASSUME CmdInv, Children PROVE CmdInv'
<1> SUFFICES ASSUME NEW i \in DOMAIN stack,
                    \/ \E pipe \in {"out", "err"} : ChildCloses(i, pipe) \/ ReadEnd(i, pipe)
                    \/ \E code \in {0, 1} : ChildExits(i, code)
             PROVE  CmdInv'
    BY DEF Children
<1>1. stack[i] \in Frames /\ Reaped(stack[i])
    BY FramesOfStack DEF CmdInv
<1>2. ASSUME NEW pipe \in {"out", "err"}, ChildCloses(i, pipe) PROVE CmdInv'
    <2> DEFINE f == [stack[i] EXCEPT !.closed = @ \cup {pipe}]
    <2>1. f \in Frames /\ Reaped(f) /\ f.kind = stack[i].kind
        BY <1>1 DEF Frames, Reaped
    <2>2. stack' = [stack EXCEPT ![i] = f]
        BY <1>2 DEF ChildCloses
    <2> HIDE DEF f
    <2> QED BY <1>2, <2>1, <2>2, ChangeKeeps DEF ChildCloses
<1>3. ASSUME NEW pipe \in {"out", "err"}, ReadEnd(i, pipe) PROVE CmdInv'
    <2> DEFINE f == [stack[i] EXCEPT !.eof = @ \cup {pipe}]
    <2>1. f \in Frames /\ Reaped(f) /\ f.kind = stack[i].kind
        BY <1>1 DEF Frames, Reaped
    <2>2. stack' = [stack EXCEPT ![i] = f]
        BY <1>3 DEF ReadEnd
    <2> HIDE DEF f
    <2> QED BY <1>3, <2>1, <2>2, ChangeKeeps DEF ReadEnd
<1>4. ASSUME NEW code \in {0, 1}, ChildExits(i, code) PROVE CmdInv'
    <2> DEFINE f == [[stack[i] EXCEPT !.proc = "exited"] EXCEPT !.code = code]
    <2>1. f \in Frames /\ Reaped(f) /\ f.kind = stack[i].kind
        BY <1>1, <1>4 DEF Frames, Reaped, ChildExits
    <2>2. stack' = [stack EXCEPT ![i] = f]
        BY <1>4 DEF ChildExits
    <2> HIDE DEF f
    <2> QED BY <1>4, <2>1, <2>2, ChangeKeeps DEF ChildExits
<1> QED BY <1>2, <1>3, <1>4

LEMMA KeyKeeps == ASSUME CmdInv, Kill \/ SetKillKey \/ UNCHANGED cmdVars PROVE CmdInv'
<1>1. Stacked' /\ FlagsMatchStack' /\ InnermostIsExclusive'
    BY DEF Kill, SetKillKey, cmdVars, CmdInv, Stacked, FlagsMatchStack, InnermostIsExclusive
<1>2. KeysAreKept'
    BY DEF Kill, SetKillKey, cmdVars, ui, CmdInv, KeysAreKept, UIFollowsFilter
<1>3. ToldIsReal'
    BY DEF Kill, SetKillKey, cmdVars, ui, CmdInv, ToldIsReal, SuccessIsReal
<1>4. Switches'
    BY DEF Kill, SetKillKey, cmdVars, ui, CmdInv, Switches
<1> QED BY <1>1, <1>2, <1>3, <1>4 DEF CmdInv

LEMMA StepKeeps == CmdInv /\ [CmdNext]_cmdVars => CmdInv'
BY StartKeeps, ProgressKeeps, MacroEndsKeeps, ChildrenKeeps, KeyKeeps DEF CmdNext

LEMMA CmdInvariance == CmdSpec => []CmdInv
BY InitCmdInv, StepKeeps, PTL DEF CmdSpec

(***************************************************************************)
(* What follows for the commands.                                          *)
(***************************************************************************)

\* Never more than two commands are nested, and everything keeps its type.
THEOREM CommandsTypeCorrect == CmdSpec => []CmdTypeOK
<1>1. CmdInv => CmdTypeOK
    <2> SUFFICES ASSUME CmdInv PROVE CmdTypeOK
        OBVIOUS
    <2>1. Len(stack) \leq 2
        BY AtMostTwo DEF CmdInv
    <2>2. \A i \in DOMAIN stack : stack[i] \in Frames /\ stack[i].kind \in Kinds
        BY FramesOfStack DEF CmdInv
    <2>3. commands \subseteq Kinds
        BY <2>2 DEF CmdInv, FlagsMatchStack
    <2> QED BY <2>1, <2>2, <2>3 DEF CmdInv, KeysAreKept, ToldIsReal, Switches, CmdTypeOK
<1> QED BY <1>1, CmdInvariance, PTL

\* The flags that decide what may start are those of the commands that run, in
\* every nesting, failure and cancellation.
THEOREM FlagsMatchStackHolds == CmdSpec => []FlagsMatchStack
<1>1. CmdInv => FlagsMatchStack BY DEF CmdInv
<1> QED BY <1>1, CmdInvariance, PTL

\* Nothing ever starts above a filter or a macro.
THEOREM InnermostIsExclusiveHolds == CmdSpec => []InnermostIsExclusive
<1>1. CmdInv => InnermostIsExclusive BY DEF CmdInv
<1> QED BY <1>1, CmdInvariance, PTL

\* The window is frozen exactly while a filter runs, and the menu's keys come back.
THEOREM UIFollowsFilterHolds == CmdSpec => []UIFollowsFilter
<1>1. CmdInv => UIFollowsFilter BY DEF CmdInv, KeysAreKept
<1> QED BY <1>1, CmdInvariance, PTL

\* What the user is told of a command is true, but for a status that came late.
THEOREM SuccessIsRealHolds == CmdSpec => []SuccessIsReal
<1>1. CmdInv => SuccessIsReal BY DEF CmdInv, ToldIsReal
<1> QED BY <1>1, CmdInvariance, PTL
=============================================================================
