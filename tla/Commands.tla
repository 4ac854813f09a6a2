------------------------------ MODULE Commands ------------------------------
(***************************************************************************)
(* Shell commands, filters and macros.  All of them run inside an event    *)
(* handler of the main window and call the event loop themselves, so that  *)
(* a handler may start the next one: the running ones form a stack, and    *)
(* only the top one makes progress.  CommandUtils decides who may start;   *)
(* CmdIO::run feeds and reads a child process; one flag, command_timeout,  *)
(* cancels.                                                                *)
(*                                                                         *)
(* The names of the specification begin with Cmd, so that a module can     *)
(* extend it together with SingleInstance.                                 *)
(***************************************************************************)
EXTENDS Naturals, Sequences

CONSTANTS
    KeyValid    \* can the configured key for cancelling be parsed?

ASSUME CommandsAssumption == KeyValid \in BOOLEAN

Kinds == {"shell", "filter", "macro"}

VARIABLES
    stack,      \* the running commands, innermost last
    commands,   \* CommandUtils::commands
    timeout,    \* TopWindowBase::command_timeout
    accels,     \* CommandUtils::temp_accels, the window's, saved_accels
    frozen,     \* are the widgets disabled?
    result,     \* of the shell command that ended last: what the user is told, how
                \*   its process ended, and whether the loop did not see that
    orphan      \* history: did a shell command end before its process?

cmdVars == <<stack, commands, timeout, accels, frozen, result, orphan>>
ui == <<accels, frozen>>

\* Where a command is: at the head of the loop in CmdIO::run, or in the event
\* loop, with the pipes it has read to the end.  Macros are always in the latter.
Frames ==
    [kind : Kinds, at : {"head", "events"}, eof : SUBSET {"out", "err"},
     proc : {"running", "exited"}, closed : SUBSET {"out", "err"},
     code : {0, 1}, reaped : BOOLEAN, status : {0, 1}]

CmdTypeOK ==
    /\ \A i \in DOMAIN stack : stack[i] \in Frames
    /\ Len(stack) \leq 2
    /\ commands \subseteq Kinds
    /\ {timeout, frozen, orphan} \subseteq BOOLEAN
    /\ accels \in [{"temp", "window", "saved"} -> {"none", "menu", "kill"}]
    /\ result \in [ok : BOOLEAN, code : {0, 1}, late : BOOLEAN]

CmdInit ==
    /\ stack = <<>>
    /\ commands = {}
    /\ timeout = FALSE
    /\ accels = [temp |-> IF KeyValid THEN "kill" ELSE "none",
                 window |-> "menu", saved |-> "none"]
    /\ frozen = FALSE
    /\ result = [ok |-> TRUE, code |-> 0, late |-> FALSE]
    /\ orphan = FALSE

Top == stack[Len(stack)]
Pop == SubSeq(stack, 1, Len(stack) - 1)
SetTop(f) == [stack EXCEPT ![Len(stack)] = f]

\* Events are handled by the main loop or by the innermost command.
Handling == stack # <<>> => Top.at = "events"

(***************************************************************************)
(* Starting.                                                               *)
(***************************************************************************)

\* Mutated Ready: a running macro does not keep others from starting.
ReadyNoMacro(k) ==
    /\ accels.temp # "none"
    /\ commands \cap {"filter", k} = {}

\* CommandUtils::IsCommandReady.  A command that is refused changes nothing; while
\* a filter runs the first test refuses it already, with the wrong reason.
Ready(k) ==
    /\ accels.temp # "none"
    /\ commands \cap {"filter", "macro"} = {}
    /\ k = "shell" => "shell" \notin commands

NewFrame(k) ==
    [kind |-> k, at |-> IF k = "macro" THEN "events" ELSE "head", eof |-> {},
     proc |-> "running", closed |-> {}, code |-> 0, reaped |-> FALSE, status |-> 0]

\* Mutated DisableUI: the menu's accelerators stay with the window.
DisableUIKeeps(disabled) ==
    /\ accels' = IF disabled
                 THEN [accels EXCEPT !.temp = "none", !.saved = accels.window]
                 ELSE [accels EXCEPT !.temp = accels.window, !.saved = "none"]
    /\ frozen' = disabled

\* CommandUtils::DisableUI exchanges the accelerators and freezes the widgets.
DisableUI(disabled) ==
    /\ accels' = IF disabled
                 THEN [temp |-> "none", window |-> accels.temp, saved |-> accels.window]
                 ELSE [temp |-> accels.window, window |-> accels.saved, saved |-> "none"]
    /\ frozen' = disabled

Run(k) ==
    /\ Ready(k)
    /\ commands' = commands \cup {k}
    /\ timeout' = FALSE
    /\ stack' = Append(stack, NewFrame(k))
    /\ IF k = "filter" THEN DisableUI(TRUE) ELSE UNCHANGED ui
    /\ UNCHANGED <<result, orphan>>

\* The fork or a pipe failed: the command ends where it began.
RunFails(k) ==
    /\ Ready(k)
    /\ k # "macro"
    /\ timeout' = FALSE
    /\ result' = IF k = "shell" THEN [ok |-> FALSE, code |-> 1, late |-> FALSE] ELSE result
    /\ UNCHANGED <<stack, commands, ui, orphan>>

\* The user needs a menu or a key for it; a macro can also be sent by another
\* process with -e.
StartCommand(k) ==
    /\ Handling
    /\ frozen => k = "macro"
    /\ Run(k) \/ RunFails(k)

(***************************************************************************)
(* The loop of CmdIO::run.                                                 *)
(***************************************************************************)

\* Mutated End: the flags of the other commands are cleared too.
EndForgets(ok, dead) ==
    /\ stack' = Pop
    /\ commands' = {}
    /\ IF Top.kind = "filter" THEN DisableUI(FALSE) ELSE UNCHANGED ui
    /\ result' = IF Top.kind = "shell" THEN [ok |-> ok, code |-> Top.code, late |-> ~Top.reaped]
               ELSE result
    /\ orphan' = (orphan \/ ~dead)
    /\ UNCHANGED timeout

\* What follows CmdIO::run, or the interpreter, in the caller.
End(ok, dead) ==
    /\ stack' = Pop
    /\ commands' = commands \ {Top.kind}
    /\ IF Top.kind = "filter" THEN DisableUI(FALSE) ELSE UNCHANGED ui
    /\ result' = IF Top.kind = "shell" THEN [ok |-> ok, code |-> Top.code, late |-> ~Top.reaped]
               ELSE result
    /\ orphan' = (orphan \/ ~dead)
    /\ UNCHANGED timeout

AtHead == stack # <<>> /\ Top.at = "head"
AllRead(f) == f.eof = {"out", "err"}

\* Mutated Loop: each waitpid replaces the status.
LoopOverwrites ==
    /\ AtHead
    /\ ~AllRead(Top)
    /\ LET reap == Top.proc # "running" /\ ~Top.reaped
       IN  stack' = SetTop([Top EXCEPT !.at = "events",
                                       !.reaped = @ \/ reap,
                                       !.status = IF reap THEN Top.code ELSE 0])
    /\ UNCHANGED <<commands, timeout, ui, result, orphan>>

\* waitpid(WNOHANG), then runWhileEvents.
Loop ==
    /\ AtHead
    /\ ~AllRead(Top)
    /\ LET reap == Top.proc # "running" /\ ~Top.reaped
       IN  stack' = SetTop([Top EXCEPT !.at = "events",
                                       !.reaped = @ \/ reap,
                                       !.status = IF reap THEN Top.code ELSE @])
    /\ UNCHANGED <<commands, timeout, ui, result, orphan>>

\* Mutated Return: the loop goes on although it was cancelled.
ReturnAlways ==
    /\ stack # <<>>
    /\ Top.kind # "macro"
    /\ Top.at = "events"
    /\ stack' = SetTop([Top EXCEPT !.at = "head"])
    /\ UNCHANGED <<commands, timeout, ui, result, orphan>>

\* runWhileEvents returns, and the command was not cancelled.
Return ==
    /\ stack # <<>>
    /\ Top.kind # "macro"
    /\ Top.at = "events"
    /\ ~timeout
    /\ stack' = SetTop([Top EXCEPT !.at = "head"])
    /\ UNCHANGED <<commands, timeout, ui, result, orphan>>

\* runWhileEvents returns, and the command was cancelled: SIGKILL.
Cancel ==
    /\ stack # <<>>
    /\ Top.kind # "macro"
    /\ Top.at = "events"
    /\ timeout
    /\ End(FALSE, TRUE)

\* Mutated Finish: the last waitpid does not wait.
FinishAtOnce ==
    /\ AtHead
    /\ AllRead(Top)
    /\ End(Top.status = 0, Top.proc # "running")

\* The blocking waitpid puts its result into wstatus, which is not looked at.
Finish ==
    /\ AtHead
    /\ AllRead(Top)
    /\ Top.proc # "running"
    /\ End(Top.status = 0, TRUE)

\* A macro ends by itself, or because debug_hook finds it cancelled.
MacroEnds ==
    /\ stack # <<>>
    /\ Top.kind = "macro"
    /\ End(TRUE, TRUE)

(***************************************************************************)
(* Events.                                                                 *)
(***************************************************************************)

\* onKillCommand, or the key is found down by IsMacroCancelled.
Kill ==
    /\ Handling
    /\ ~timeout
    /\ timeout' = TRUE
    /\ UNCHANGED <<stack, commands, ui, result, orphan>>

\* onData for any of the commands: the end of a pipe is read.
ReadEnd(i, pipe) ==
    /\ Handling
    /\ pipe \in stack[i].closed \ stack[i].eof
    /\ stack' = [stack EXCEPT ![i].eof = @ \cup {pipe}]
    /\ UNCHANGED <<commands, timeout, ui, result, orphan>>

\* A new key for cancelling is entered in the preferences.
SetKillKey ==
    /\ Handling
    /\ ~frozen
    /\ accels' = [accels EXCEPT !.temp = "kill"]
    /\ UNCHANGED <<stack, commands, timeout, frozen, result, orphan>>

(***************************************************************************)
(* The child processes.                                                    *)
(***************************************************************************)

ChildCloses(i, pipe) ==
    /\ stack[i].kind # "macro"
    /\ pipe \notin stack[i].closed
    /\ stack' = [stack EXCEPT ![i].closed = @ \cup {pipe}]
    /\ UNCHANGED <<commands, timeout, ui, result, orphan>>

ChildExits(i, code) ==
    /\ stack[i].kind # "macro"
    /\ stack[i].proc = "running"
    /\ stack' = [stack EXCEPT ![i].proc = "exited", ![i].code = code]
    /\ UNCHANGED <<commands, timeout, ui, result, orphan>>

Progress == Loop \/ Return \/ Cancel \/ Finish

Children ==
    \E i \in DOMAIN stack :
        \/ \E pipe \in {"out", "err"} : ChildCloses(i, pipe) \/ ReadEnd(i, pipe)
        \/ \E code \in {0, 1} : ChildExits(i, code)

CmdNext ==
    \/ \E k \in Kinds : StartCommand(k)
    \/ Progress \/ MacroEnds \/ Kill \/ SetKillKey \/ Children

CmdSpec == CmdInit /\ [][CmdNext]_cmdVars

\* CmdIO::run goes on whenever it can, and a cancelled macro that is not
\* optimized() ends.  Nothing says that a child, or a macro that is not
\* cancelled, ever ends.
CmdFairSpec ==
    /\ CmdSpec
    /\ WF_cmdVars(Progress)
    /\ WF_cmdVars(timeout /\ MacroEnds)

(***************************************************************************)
(* Properties.                                                             *)
(***************************************************************************)

\* The flags that decide what may start are those of the commands that run,
\* through every nesting: none is lost (two commands would share a flag, the
\* output pane or the interpreter's globals) and none is left behind (nothing
\* could be started any more).  Two commands of a kind never run at once.
FlagsMatchStack ==
    /\ commands = {stack[i].kind : i \in DOMAIN stack}
    /\ \A i, j \in DOMAIN stack : stack[i].kind = stack[j].kind => i = j

\* Nothing starts above a filter, whose document must not change, or above a
\* macro: "Disallow anything else while a macro is already running".
InnermostIsExclusive ==
    \A i \in DOMAIN stack : stack[i].kind \in {"filter", "macro"} => i = Len(stack)

\* Whatever ran inside or around it, a filter freezes the window and leaves it
\* only the key that cancels, and afterwards the menu's keys are back.
UIFollowsFilter ==
    LET filtering == \E i \in DOMAIN stack : stack[i].kind = "filter"
    IN  /\ frozen <=> filtering
        /\ accels.window = IF filtering THEN "kill" ELSE "menu"
        /\ accels.saved = IF filtering THEN "menu" ELSE "none"

\* Only a newly started command undoes a cancellation; otherwise every running
\* command ends, the inner ones first, unless run() waits in waitpid for a
\* process that has closed its output but goes on.
CancelEndsAll ==
    timeout /\ stack # <<>> ~>
        \/ stack = <<>> \/ ~timeout
        \/ AtHead /\ AllRead(Top) /\ Top.proc = "running"

\* What the user is told is true.  A command that was not cancelled is over when its
\* process is: its files are written by then.  And "Command succeeded." is shown only
\* for a process that succeeded, or that ended after the loop had looked for the
\* last time: the waitpid behind the loop keeps what it is told where nobody looks.
SuccessIsReal ==
    /\ ~orphan
    /\ result.ok => result.code = 0 \/ result.late
=============================================================================
