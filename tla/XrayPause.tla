------------------------------- MODULE XrayPause -------------------------------
(***************************************************************************)
(* XrayControl, with a memory of the operator's last wish: xrayStop of     *)
(* web/controller/api_panel.go is there to pause a node.                   *)
(***************************************************************************)
EXTENDS XrayControl

VARIABLE paused  \* history: the operator has stopped xray, and nobody has asked for it since

Stopped == p = NoProc \/ ~Live(p)

\* A stop that found xray running (of one that is not, StopXray is an error) has ended
\* with xray stopped, and no restart was on its way.
Pauses(g) ==
    /\ job[g] = "stop" /\ pc[g] = "halting" /\ pc'[g] = "idle"
    /\ Stopped' /\ ~Notice /\ \A other \in Goroutine \ {g} : pc[other] = "idle"

\* A request that changes the tables, restarts xray or replaces it, or a reload.
Asks == tbl' # tbl \/ \E g \in Goroutine : pc[g] = "idle" /\ pc'[g] = "lock" /\ job'[g] # "tick"

Remembers == paused' = (~Asks /\ (paused \/ \E g \in Goroutine : Pauses(g)))

PauseInit == Init /\ paused = FALSE
PauseNext == Next /\ Remembers
PauseSpec == PauseInit /\ [][PauseNext]_<<vars, paused>>

\* api_panel.go:459: after the operator has stopped xray, the crons leave it stopped
\* until something is changed or restarted.
StopHolds == paused => Stopped
=============================================================================
