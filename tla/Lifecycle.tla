------------------------------ MODULE Lifecycle ------------------------------
(***************************************************************************)
(* What a generator of installation scripts promises, whatever commands    *)
(* its scripts are made of.                                                *)
(*                                                                         *)
(* install only adds, start only brings up, stop only takes down, clean    *)
(* only removes; and a script in which nothing went wrong ends in what its *)
(* last line says, when it began from a state that it is made for.         *)
(* ClusterScripts, TraditionalScripts and DockerScripts each implement     *)
(* this module.                                                            *)
(***************************************************************************)
VARIABLES
    part,     \* what keeps data on a machine: storage and computing nodes
    process,  \* what runs: the servers of the parts, and the managers
    revives,  \* processes that the machine itself may bring up again
    script,   \* the script being run, or "none"
    base,     \* what it began from
    smooth,   \* nothing has failed or crashed since it began
    present,  \* parts with data
    up        \* processes that run

configuration == <<part, process>>
vars == <<configuration, revives, script, base, smooth, present, up>>

Scripts == {"install", "start", "stop", "clean"}
Bases == {"pristine", "installed", "tracked", "other"}

\* What a script is made for: install for clean machines, start and stop for a
\* complete installation, clean for all whose processes can be found.
MadeFor(a) ==
    CASE a = "install"           -> {"pristine"}
      [] a \in {"start", "stop"} -> {"installed"}
      [] OTHER                   -> Bases \ {"other"}

Outcome(a) ==
    CASE a \in {"install", "start"} -> present = part /\ up = process
      [] a = "stop"                 -> present = part /\ up = {}
      [] OTHER                      -> present = {} /\ up = {}

Init ==
    /\ script = "none" /\ base = "other" /\ smooth = TRUE
    /\ present = {} /\ up = {}

Begin(a) ==
    /\ script = "none"
    /\ script' = a /\ smooth' = TRUE
    /\ base' \in Bases
    /\ base' = "pristine" => present = {} /\ up = {}
    /\ base' = "installed" => present = part
    /\ UNCHANGED <<present, up>>

\* A command of the script, which may fail.
Work ==
    /\ script # "none"
    /\ smooth' \in {smooth, FALSE}
    /\ CASE script = "install" -> present \subseteq present' /\ up \subseteq up'
         [] script = "start"   -> present' = present /\ up \subseteq up'
         [] script = "stop"    -> present' = present /\ up' \subseteq up
         [] OTHER              -> present' \subseteq present /\ up' \subseteq up
    /\ present' \subseteq part /\ up' \subseteq process
    /\ UNCHANGED <<script, base>>

Finish ==
    /\ script # "none"
    /\ smooth /\ base \in MadeFor(script) => Outcome(script)
    /\ script' = "none"
    /\ UNCHANGED <<base, smooth, present, up>>

\* Only a script that something went wrong with ends before its last command.
Abort ==
    /\ script # "none"
    /\ smooth' \in {smooth, FALSE}
    /\ smooth' => base \notin MadeFor(script)
    /\ script' = "none"
    /\ present \subseteq present' /\ present' \subseteq part
    /\ UNCHANGED <<base, up>>

\* Processes die; those that the machine watches over may come back.
Crash ==
    /\ smooth' = FALSE
    /\ up' \subseteq up \cup revives
    /\ UNCHANGED <<script, base, present>>

\* A configuration stays as it is; what a machine brings up does not.
Next ==
    /\ (\E a \in Scripts : Begin(a)) \/ Work \/ Finish \/ Abort \/ Crash
    /\ UNCHANGED configuration

Spec == Init /\ [][Next]_vars
=============================================================================
