------------------------------- MODULE MCTools -------------------------------
(***************************************************************************)
(* The two programs around the client, gate-hunt.ps1 and wademo.  Each     *)
(* behaviour is one of the two.                                            *)
(***************************************************************************)
EXTENDS GateHunt, Demo

NoHunt ==
    /\ hunt = "none" /\ fresh = {} /\ version = 0 /\ out = {} /\ tried = Versions /\ alert = 0
    /\ file = "absent" /\ user = "off" /\ everPaired = FALSE
    /\ pinned = 0 /\ tracked = 0 /\ accepted = {}
    /\ runsOf = [v \in Versions |-> 0] /\ shown = {} /\ kills = 0 /\ misses = 0

NoDemo ==
    /\ worker = "none" /\ result = "none" /\ reads = 0 /\ parts = 0 /\ incoming = <<>> /\ sent = 0
    /\ genuine = FALSE /\ others = 0 /\ channel = <<>> /\ verdict = "not run"

ToolsInit == (GateInit /\ NoDemo) \/ (DemoInit /\ NoHunt)

ToolsNext ==
    \/ hunt # "none" /\ GateNext /\ UNCHANGED demoVars
    \/ worker # "none" /\ DemoNext /\ UNCHANGED gvars

ToolsSpec ==
    /\ ToolsInit /\ [][ToolsNext]_<<gvars, demoVars>>
    /\ GateFairness
==============================================================================
