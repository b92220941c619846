------------------------------ MODULE Program ------------------------------
(***************************************************************************)
(* One invocation of the program (internal/cli/root.go): a scan that is    *)
(* printed, the interactive session, the maintenance of the cached scans   *)
(* or of the skill files.  The components of the other commands do not     *)
(* move.                                                                   *)
(***************************************************************************)
EXTENDS Scan, Session, IndexStore, Skills

VARIABLE command

vars == <<command, scanVars, sessionVars, indexVars, skillVars>>

CommandNames == {"scan", "tui", "state", "skills"}

\* The components that are not used are as they begin, at one of their
\* beginnings.
ScanIdles ==
    /\ world = CHOOSE w \in Worlds : TRUE
    /\ phase = "refused" /\ cancelled = FALSE /\ faults = 0
    /\ frame = [d \in Dirs |-> NoFrame] /\ node = [d \in Dirs |-> NoNode]
    /\ leaves = {} /\ claimed = {} /\ edges = {} /\ counted = {}
    /\ tally = [files |-> 0, dirs |-> 0, errors |-> 0]
    /\ out = <<>> /\ shown = <<>> /\ settled = "pending"

SessionIdles == setup = (CHOOSE s \in Setups : TRUE) /\ SessionInit
IndexIdles == entry = (CHOOSE c \in Contents : TRUE) /\ IndexInit

Init ==
    \/ command = "scan" /\ ScanInit /\ SessionIdles /\ IndexIdles /\ SkillsInit
    \/ command = "tui" /\ ScanIdles /\ SessionInit /\ IndexIdles /\ SkillsInit
    \/ command = "state" /\ ScanIdles /\ SessionIdles /\ IndexInit /\ SkillsInit
    \/ command = "skills" /\ ScanIdles /\ SessionIdles /\ IndexIdles /\ SkillsInit

OnlyMoves(moving) ==
    /\ UNCHANGED command
    /\ moving # "scan" => UNCHANGED scanVars
    /\ moving # "tui" => UNCHANGED sessionVars
    /\ moving # "state" => UNCHANGED indexVars
    /\ moving # "skills" => UNCHANGED skillVars

Next ==
    \/ command = "scan" /\ ScanNext /\ OnlyMoves("scan")
    \/ command = "tui" /\ SessionNext /\ OnlyMoves("tui")
    \/ command = "state" /\ IndexNext /\ OnlyMoves("state")
    \/ command = "skills" /\ SkillsNext /\ OnlyMoves("skills")

\* The command is over, or the user leaves the session at that.
Rests ==
    /\ \/ command = "scan" /\ phase \in {"returned", "refused"}
       \/ command = "tui"
       \/ command = "state" /\ \A p \in Procs : proc[p].pc \in {"over", "dead"}
       \/ command = "skills" /\ \A c \in Commands : asked[c].pc = "over"
    /\ UNCHANGED vars

Spec ==
    /\ Init /\ [][Next \/ Rests]_vars
    /\ WF_vars(command = "scan" /\ ScanStep /\ OnlyMoves("scan"))
    /\ WF_vars(command = "scan" /\ Deliver /\ OnlyMoves("scan"))

-----------------------------------------------------------------------------

TypeOK ==
    /\ command \in CommandNames
    /\ ScanTypeOK /\ SessionTypeOK /\ IndexTypeOK /\ SkillsTypeOK

=============================================================================
