---------------------------- MODULE MCFEXServer ----------------------------
(***************************************************************************)
(* Two builds of FEXServer side by side; the initial state chooses one.    *)
(*   plain: the instance of the cfg, with the abstract socket;             *)
(*   steam: FEX_STEAM_SUPPORT, with only the socket in the file system.    *)
(***************************************************************************)
EXTENDS FEXServer

CONSTANT SteamRuns

VARIABLE machine

OnSteam == INSTANCE FEXServer WITH Steam <- TRUE, MaxRuns <- SteamRuns

MCInit ==
  \/ machine = "plain" /\ Init
  \/ machine = "steam" /\ OnSteam!Init

MCNext ==
  /\ \/ machine = "plain" /\ Next
     \/ machine = "steam" /\ OnSteam!Next
  /\ UNCHANGED machine

AServerStep(s) ==
  \/ machine = "plain" /\ ServerStep(s)
  \/ machine = "steam" /\ OnSteam!ServerStep(s)

(* The fairness of FEXServer, of the machine chosen.                       *)
MCSpec ==
  /\ MCInit /\ [][MCNext]_<<vars, machine>>
  /\ \A c \in Clients : WF_<<vars, machine>>(ClientStep(c) /\ UNCHANGED machine)
  /\ \A s \in Servers :
       /\ WF_<<vars, machine>>(AServerStep(s) /\ UNCHANGED machine)
       /\ WF_<<vars, machine>>(RequestTimeout(s) /\ UNCHANGED machine)
=============================================================================
