----------------------------- MODULE ToolsProofs -----------------------------
(***************************************************************************)
(* Proofs about the two programs around the client, for any versions,      *)
(* bounds and lengths.                                                     *)
(***************************************************************************)
EXTENDS GateHunt, Demo, TLAPS

(***************************************************************************)
(* The version hunt.                                                       *)
(***************************************************************************)

HuntType ==
    /\ hunt \in {"idle", "remove", "run", "mark", "judge"}
    /\ pinned \in Versions /\ tracked \in Versions
    /\ fresh \subseteq Versions \ tried
    /\ runsOf \in [Versions -> Nat] /\ kills \in Nat

\* What is between its run and its end.
UnderTest ==
    /\ hunt \in {"run", "mark", "judge"} => version \in Versions \ fresh
    /\ hunt = "run" => version \notin tried
    /\ hunt \in {"mark", "judge"} /\ IsOpen(out) => version \in shown

\* A version that is not marked was run once, if it is being tried, but for the
\* hunts that were killed.
RunsAreMarked ==
    \A v \in Versions :
        runsOf[v] <= kills + IF v \in tried \/ (hunt = "mark" /\ v = version) THEN 1 ELSE 0

HuntInv == HuntType /\ UnderTest /\ RunsAreMarked /\ AlertIsTrue

LEMMA HuntInductive == HuntInv /\ [GateNext]_gvars => HuntInv'
<1> SUFFICES ASSUME HuntInv, [GateNext]_gvars PROVE HuntInv'
  OBVIOUS
<1> USE DEF HuntInv
<1>1. CASE Fetch
  <2>1. \A answers : Candidates(answers) \subseteq Versions
    BY DEF HuntType, Candidates, Tracked
  <2>2. HuntType'
    BY <1>1, <2>1 DEF Fetch, HuntType, worldVars
  <2>3. UnderTest' /\ AlertIsTrue'
    BY <1>1 DEF Fetch, UnderTest, AlertIsTrue
  <2>4. RunsAreMarked'
    BY <1>1 DEF Fetch, RunsAreMarked
  <2> QED
    BY <2>2, <2>3, <2>4
<1>2. CASE Remove
  <2>1. HuntType'
    BY <1>2 DEF Remove, HuntType, worldVars
  <2>2. UnderTest' /\ AlertIsTrue'
    BY <1>2 DEF Remove, UnderTest, AlertIsTrue, HuntType
  <2>3. RunsAreMarked'
    BY <1>2 DEF Remove, RunsAreMarked
  <2> QED
    BY <2>1, <2>2, <2>3
<1>3. CASE Run
  <2>1. version \in Versions /\ version \notin tried
    BY <1>3 DEF Run, UnderTest
  <2>2. HuntType'
    BY <1>3, <2>1, GateAssumption DEF Run, HuntType, worldVars
  <2>3. UnderTest' /\ AlertIsTrue'
    BY <1>3 DEF Run, UnderTest, AlertIsTrue, IsOpen
  <2>4. ASSUME NEW v \in Versions
        PROVE  runsOf'[v] <= kills' + IF v \in tried' \/ (hunt' = "mark" /\ v = version')
                                      THEN 1 ELSE 0
    <3>1. CASE v = version
      <4>1. runsOf[v] <= kills
        BY <1>3, <2>1, <3>1 DEF Run, RunsAreMarked, HuntType
      <4>2. runsOf'[v] <= runsOf[v] + 1
        BY <1>3, <3>1, GateAssumption DEF Run, HuntType
      <4> QED
        BY <1>3, <3>1, <4>1, <4>2, <2>2 DEF Run, HuntType
    <3>2. CASE v # version
      BY <1>3, <3>2 DEF Run, RunsAreMarked, HuntType
    <3> QED
      BY <3>1, <3>2
  <2> QED
    BY <2>2, <2>3, <2>4 DEF RunsAreMarked
<1>4. CASE Mark
  <2>1. HuntType'
    BY <1>4 DEF Mark, HuntType, UnderTest, worldVars
  <2>2. UnderTest' /\ AlertIsTrue'
    BY <1>4 DEF Mark, UnderTest, AlertIsTrue
  <2>3. RunsAreMarked'
    BY <1>4 DEF Mark, RunsAreMarked, HuntType
  <2> QED
    BY <2>1, <2>2, <2>3
<1>5. CASE Judge
  <2>1. HuntType'
    BY <1>5 DEF Judge, HuntType, worldVars
  <2>2. UnderTest' /\ AlertIsTrue'
    BY <1>5 DEF Judge, UnderTest, AlertIsTrue
  <2>3. RunsAreMarked'
    BY <1>5 DEF Judge, RunsAreMarked
  <2> QED
    BY <2>1, <2>2, <2>3
<1>6. CASE Kill
  <2>1. HuntType'
    BY <1>6 DEF Kill, HuntType, worldVars
  <2>2. UnderTest' /\ AlertIsTrue'
    BY <1>6 DEF Kill, UnderTest, AlertIsTrue
  <2>3. RunsAreMarked'
    BY <1>6, <2>1 DEF Kill, RunsAreMarked, HuntType
  <2> QED
    BY <2>1, <2>2, <2>3
<1>7. CASE StartWapair \/ Scan \/ Quit \/ Publish \/ MoveGate \/ UNCHANGED gvars
  <2>1. UNCHANGED huntVars /\ (Publish \/ UNCHANGED <<pinned, tracked>>)
    BY <1>7 DEF StartWapair, Scan, Quit, MoveGate, Publish, gvars, worldVars
  <2>2. HuntType'
    BY <2>1 DEF HuntType, Publish, huntVars
  <2>3. UnderTest' /\ AlertIsTrue' /\ RunsAreMarked'
    BY <2>1 DEF UnderTest, AlertIsTrue, RunsAreMarked, huntVars
  <2> QED
    BY <2>2, <2>3
<1> QED
  BY <1>1, <1>2, <1>3, <1>4, <1>5, <1>6, <1>7 DEF GateNext

LEMMA HuntInvariant == GateSpec => []HuntInv
<1>1. GateInit => HuntInv
  BY DEF GateInit, HuntInv, HuntType, UnderTest, RunsAreMarked, AlertIsTrue
<1> QED
  BY <1>1, HuntInductive, PTL DEF GateSpec

\* gate-hunt.ps1:63-68: only a version with which wapair showed a QR code and
\* met no failure is ever announced.
THEOREM AlertTrue == GateSpec => []AlertIsTrue
<1>1. HuntInv => AlertIsTrue
  BY DEF HuntInv
<1> QED
  BY <1>1, HuntInvariant, PTL

\* gate-hunt.ps1:40-59: a version is run once, and once more for each hunt that
\* was killed before the mark.
THEOREM TriedOnce == GateSpec => []OncePerVersion
<1>1. HuntInv => OncePerVersion
  BY DEF HuntInv, HuntType, RunsAreMarked, OncePerVersion
<1> QED
  BY <1>1, HuntInvariant, PTL

(***************************************************************************)
(* The demo.                                                               *)
(***************************************************************************)

\* The result is that of the handshake: there is none before the thread returns,
\* and none in the channel before the thread has sent it.
ResultIsTrue ==
    /\ parts \in Nat
    /\ \/ worker \in {"connect", "read"} /\ parts < Parts
       \/ worker \in {"return", "done"} /\ result = "ok" /\ genuine /\ parts = Parts
       \/ worker \in {"return", "done"} /\ result = "error" /\ ~(genuine /\ parts = Parts)
    /\ channel = IF worker = "done" THEN <<result>> ELSE <<>>

DemoInv == ResultIsTrue /\ VerdictIsTrue

LEMMA DemoInductive == DemoInv /\ [DemoNext]_demoVars => DemoInv'
<1> SUFFICES ASSUME DemoInv, [DemoNext]_demoVars PROVE DemoInv'
  OBVIOUS
<1> USE DemoAssumption DEF DemoInv
<1>1. CASE Connect \/ ReadError
  <2>1. /\ parts \in Nat /\ parts < Parts /\ verdict = "none" /\ channel = <<>>
        /\ UNCHANGED <<parts, genuine, verdict, channel>>
    BY <1>1 DEF Connect, ReadError, Running, ResultIsTrue
  <2>2. worker' = "read" \/ (worker' = "return" /\ result' = "error")
    BY <1>1 DEF Connect, ReadError, Return
  <2> QED
    BY <2>1, <2>2 DEF ResultIsTrue, VerdictIsTrue
<1>2. CASE ServerSends
  BY <1>2 DEF ServerSends, Running, ResultIsTrue, VerdictIsTrue
<1>3. CASE ReadMessage
  <2> DEFINE m == Head(incoming)
  <2>1. /\ parts \in Nat /\ parts < Parts /\ worker = "read" /\ channel = <<>>
        /\ parts' = IF m = "part" THEN parts + 1 ELSE parts
        /\ verdict = "none" /\ UNCHANGED <<genuine, verdict, channel>>
    BY <1>3 DEF ReadMessage, Running, ResultIsTrue
  <2>2. CASE Outcome(m) = "continue"
    <3>1. worker' = worker
      BY <1>3, <2>2 DEF ReadMessage
    <3>2. parts' < Parts /\ parts' \in Nat
      BY <2>1, <2>2 DEF Outcome
    <3> QED
      BY <2>1, <3>1, <3>2 DEF ResultIsTrue, VerdictIsTrue
  <2>3. CASE Outcome(m) = "ok"
    <3>1. worker' = "return" /\ result' = "ok"
      BY <1>3, <2>3 DEF ReadMessage, Return
    <3>2. genuine /\ parts' = Parts
      BY <2>1, <2>3 DEF Outcome
    <3> QED
      BY <2>1, <3>1, <3>2 DEF ResultIsTrue, VerdictIsTrue
  <2>4. CASE Outcome(m) = "error"
    <3>1. worker' = "return" /\ result' = "error"
      BY <1>3, <2>4 DEF ReadMessage, Return
    <3>2. ~(genuine /\ parts' = Parts) /\ parts' \in Nat
      BY <2>1, <2>4 DEF Outcome
    <3> QED
      BY <2>1, <3>1, <3>2 DEF ResultIsTrue, VerdictIsTrue
  <2>5. Outcome(m) \in {"continue", "ok", "error"}
    BY DEF Outcome
  <2> QED
    BY <2>2, <2>3, <2>4, <2>5
<1>4. CASE SendResult
  <2>1. /\ worker = "return" /\ worker' = "done" /\ channel' = <<result>>
        /\ verdict = "none" /\ UNCHANGED <<result, parts, genuine, verdict>>
    BY <1>4 DEF SendResult, Running
  <2> QED
    BY <2>1 DEF ResultIsTrue, VerdictIsTrue
<1>5. CASE Report
  <2>1. /\ channel # <<>>
        /\ verdict' = IF Head(channel) = "ok" THEN "completed" ELSE "incomplete"
        /\ UNCHANGED <<worker, result, parts, genuine, channel>>
    BY <1>5 DEF Report
  <2>2. worker = "done" /\ Head(channel) = result
    BY <2>1 DEF ResultIsTrue
  <2> QED
    BY <2>1, <2>2 DEF ResultIsTrue, VerdictIsTrue
<1>6. CASE TimeOut
  <2>1. /\ channel = <<>> /\ verdict' = "timed out"
        /\ UNCHANGED <<worker, result, parts, genuine, channel>>
    BY <1>6 DEF TimeOut
  <2>2. ResultIsTrue'
    BY <2>1 DEF ResultIsTrue
  <2>3. <<result>> # <<>>
    OBVIOUS
  <2>4. worker # "done"
    BY <2>1, <2>3 DEF ResultIsTrue
  <2> QED
    BY <2>1, <2>2, <2>4 DEF VerdictIsTrue
<1>7. CASE UNCHANGED demoVars
  BY <1>7 DEF demoVars, ResultIsTrue, VerdictIsTrue
<1> QED
  BY <1>1, <1>2, <1>3, <1>4, <1>5, <1>6, <1>7 DEF DemoNext

\* wademo main.rs:97-111: a verdict on the handshake is true, for any number of
\* reads and parts, and a timeout hides no result that was sent, wherever it
\* strikes between the last read and the send.
THEOREM VerdictTrue == DemoSpec => []VerdictIsTrue
<1>1. DemoInit => DemoInv
  BY DemoAssumption DEF DemoInit, DemoInv, ResultIsTrue, VerdictIsTrue
<1>2. DemoInv => VerdictIsTrue
  BY DEF DemoInv
<1> QED
  BY <1>1, <1>2, DemoInductive, PTL DEF DemoSpec
==============================================================================
