------------------------------- MODULE GateHunt -------------------------------
(***************************************************************************)
(* tools/gate-hunt.ps1: a scheduled script that runs `wapair` once with    *)
(* every client version it learns of, until the server accepts one, beside *)
(* the user, who pairs with the version the script announces.  Both share  *)
(* wapair-session.json.                                                    *)
(*                                                                         *)
(* A version is a number, the newer the larger.  Of a run of wapair only   *)
(* what it prints and what it does to the session file are modelled; the   *)
(* module Pairing has the rest.  It need not return: wapair can wait on    *)
(* its network for ever, and the script has no timeout for it.             *)
(***************************************************************************)
EXTENDS Naturals, FiniteSets

CONSTANTS
    Versions,       \* the versions that come out
    Taken,          \* how many of the tracker's versions are candidates: 3 in the script
    MaxFaults       \* bound: fetches that fail, and hunts that are killed

ASSUME GateAssumption == Versions \subseteq Nat \ {0} /\ Taken \in Nat /\ MaxFaults \in Nat

VARIABLES
    hunt,       \* where the script is: "idle", "remove", "run", "mark" or "judge"
    fresh,      \* $fresh: the candidates of this hunt still to be tried
    version,    \* $v
    out,        \* what in $out the script looks for
    tried,      \* .gate-tried.txt
    alert,      \* the version in GATE-OPEN.txt, or 0
    file,       \* wapair-session.json: "absent", "unpaired" or "paired"
    user,       \* the user's own wapair: "off", or "qr" while it shows a QR code
    pinned,     \* the version whatsmeow pins
    tracked,    \* the newest version of the tracker
    accepted,   \* the versions the server accepts
    runsOf,     \* history: how often each version was run, counted up to MaxFaults + 2
    shown,      \* history: versions with a run that showed a QR and met no failure
    everPaired, \* history: whether the user has paired
    kills, misses   \* counted for MaxFaults

huntVars == <<hunt, fresh, version, out, tried, alert, runsOf, shown, kills, misses>>
worldVars == <<pinned, tracked, accepted>>
gvars == <<huntVars, worldVars, file, user, everPaired>>

Marks == {"waiting", "qr", "failure"}

GateInit ==
    /\ hunt = "idle" /\ fresh = {} /\ version = 0 /\ out = {} /\ tried = {} /\ alert = 0
    /\ file = "absent" /\ user = "off" /\ everPaired = FALSE
    /\ pinned \in Versions /\ tracked \in Versions /\ accepted = {}
    /\ runsOf = [v \in Versions |-> 0] /\ shown = {} /\ kills = 0 /\ misses = 0

\* The newest versions of the tracker.
Tracked ==
    LET listed == {v \in Versions : v <= tracked}
    IN  {v \in listed : Cardinality({w \in listed : w > v}) < Taken}

\* What a source that answers contributes.
Candidates(answers) ==
    (IF "whatsmeow" \in answers THEN {pinned} ELSE {})
        \cup (IF "tracker" \in answers THEN Tracked ELSE {})

(***************************************************************************)
(* The script.                                                             *)
(***************************************************************************)

\* The candidates are what the sources that answer name; what was tried is
\* left out, and with nothing left the script ends.
Fetch ==
    /\ hunt = "idle"
    /\ \E answers \in SUBSET {"whatsmeow", "tracker"} :
          /\ misses' = misses + 2 - Cardinality(answers)
          /\ misses' <= MaxFaults
          /\ fresh' = Candidates(answers) \ tried
          /\ hunt' = IF fresh' = {} THEN "idle" ELSE "remove"
    /\ UNCHANGED <<version, out, tried, alert, runsOf, shown, kills, worldVars,
                   file, user, everPaired>>

\* The candidates come in the order of their texts, which need not be that of the
\* versions.  The next one gets an identity of its own, unless the session file
\* cannot be removed, which the script does not notice.
Remove ==
    /\ hunt = "remove" /\ hunt' = "run"
    /\ \E v \in fresh : version' = v /\ fresh' = fresh \ {v}
    /\ file' \in {"absent", file}
    /\ UNCHANGED <<out, tried, alert, runsOf, shown, kills, misses, worldVars, user, everPaired>>

\* What wapair prints: with a paired session it logs in, or is refused; else it
\* may not get through, waits, and is refused or shown a QR code, which is no
\* guard against a failure later in the run.
Prints(v) ==
    IF file = "paired" THEN {{}, {"failure"}}
    ELSE {{}, {"waiting"}, {"waiting", "failure"}}
         \cup IF v \in accepted THEN {{"waiting", "qr"}, {"waiting", "qr", "failure"}} ELSE {}

Run ==
    /\ hunt = "run" /\ hunt' = "mark"
    /\ out' \in Prints(version)
    /\ file' = IF file = "absent" THEN "unpaired" ELSE file
    /\ runsOf' = [runsOf EXCEPT ![version] = IF @ < MaxFaults + 2 THEN @ + 1 ELSE @]
    /\ shown' = IF "qr" \in out' /\ "failure" \notin out' THEN shown \cup {version} ELSE shown
    /\ UNCHANGED <<fresh, version, tried, alert, kills, misses, worldVars, user, everPaired>>

\* Mutant: only a version that was refused is marked.
Mark_OnlyRefused ==
    /\ hunt = "mark" /\ hunt' = "judge"
    /\ tried' = IF "failure" \in out THEN tried \cup {version} ELSE tried
    /\ UNCHANGED <<fresh, version, out, alert, runsOf, shown, kills, misses, worldVars,
                   file, user, everPaired>>

\* Add-Content: whatever came of it, the version was tried.
Mark ==
    /\ hunt = "mark" /\ hunt' = "judge"
    /\ tried' = tried \cup {version}
    /\ UNCHANGED <<fresh, version, out, alert, runsOf, shown, kills, misses, worldVars,
                   file, user, everPaired>>

\* Mutant: the status line "waiting for pair-device" counts as a success.
IsOpen_Waiting(marks) == "waiting" \in marks

\* A failure outweighs a QR code.
IsOpen(marks) == "failure" \notin marks /\ "qr" \in marks

\* The alert ends the hunt; else the next candidate is tried, if there is one.
Judge ==
    /\ hunt = "judge"
    /\ \/ /\ IsOpen(out) /\ alert' = version
          /\ hunt' = "idle" /\ fresh' = {}
       \/ /\ ~IsOpen(out) /\ UNCHANGED <<alert, fresh>>
          /\ hunt' = IF fresh = {} THEN "idle" ELSE "remove"
    /\ UNCHANGED <<version, out, tried, runsOf, shown, kills, misses, worldVars,
                   file, user, everPaired>>

\* The script is stopped wherever it is, its run of wapair with it.
Kill ==
    /\ hunt # "idle" /\ kills < MaxFaults
    /\ kills' = kills + 1 /\ hunt' = "idle" /\ fresh' = {}
    /\ UNCHANGED <<version, out, tried, alert, runsOf, shown, misses, worldVars,
                   file, user, everPaired>>

(***************************************************************************)
(* The user, who follows the alert, and the world.                         *)
(***************************************************************************)

\* A session that is paired is logged in with; any other shows a QR code.
StartWapair ==
    /\ alert # 0 /\ user = "off" /\ file # "paired"
    /\ user' = "qr" /\ file' = "unpaired"
    /\ UNCHANGED <<huntVars, worldVars, everPaired>>

\* The phone scans the code, and wapair saves the account.
Scan ==
    /\ user = "qr" /\ alert \in accepted
    /\ user' = "off" /\ file' = "paired" /\ everPaired' = TRUE
    /\ UNCHANGED <<huntVars, worldVars>>

Quit ==
    /\ user = "qr" /\ user' = "off"
    /\ UNCHANGED <<huntVars, worldVars, file, everPaired>>

\* A newer version comes out at one of the sources.
Publish ==
    /\ \E v \in Versions :
          \/ pinned < v /\ pinned' = v /\ UNCHANGED tracked
          \/ tracked < v /\ tracked' = v /\ UNCHANGED pinned
    /\ UNCHANGED <<huntVars, accepted, file, user, everPaired>>

\* The server moves on: it accepts one version and no older one.
MoveGate ==
    /\ \E v \in Versions : accepted \subseteq 0..v /\ accepted' = {v} /\ v \notin accepted
    /\ UNCHANGED <<huntVars, pinned, tracked, file, user, everPaired>>

GateNext ==
    \/ Fetch \/ Remove \/ Run \/ Mark \/ Judge \/ Kill
    \/ StartWapair \/ Scan \/ Quit \/ Publish \/ MoveGate

\* The script is scheduled again and again, its fetches have a timeout and its
\* own commands return.  Nothing is asked of the run of wapair.
GateFairness ==
    /\ WF_gvars(Fetch) /\ WF_gvars(Remove)
    /\ WF_gvars(Mark) /\ WF_gvars(Judge)

GateSpec == GateInit /\ [][GateNext]_gvars

(***************************************************************************)
(* Properties.                                                             *)
(***************************************************************************)

\* The announced version is one with which wapair was given a QR code and was
\* not refused.
AlertIsTrue == alert # 0 => alert \in shown

\* No version is run twice, but for the runs a kill cut off before the version
\* was marked.
OncePerVersion == \A v \in Versions : runsOf[v] <= 1 + kills

\* A version that stays pinned is tried, whatever became of the others, also
\* after a hunt that was killed.  Only a run of wapair that never returns and that
\* nobody kills holds it up (gate-hunt.ps1:57 has no timeout).
PinnedIsTried ==
    \A v \in Versions : pinned = v ~> (v \in tried \/ pinned # v \/ [](hunt = "run"))

\* "Persist the paired account so we can log back in without re-pairing"
\* (wapair/src/main.rs:200): once paired, the user is shown no QR code again.
NoRePairing == everPaired => user # "qr"
===============================================================================
