--------------------------------- MODULE Demo ---------------------------------
(***************************************************************************)
(* Part 2 of `wademo` (crates/wademo/src/main.rs): a thread makes half of  *)
(* a handshake with the server, the main thread waits for its result for   *)
(* 20 seconds and prints a verdict.                                        *)
(***************************************************************************)
EXTENDS Naturals, Sequences

CONSTANTS
    MaxReads,   \* messages the thread reads: 8 in the code
    Parts,      \* messages the frame of the ServerHello comes in
    MaxOthers   \* bound: messages of the server that are not binary

ASSUME DemoAssumption == MaxReads \in Nat \ {0} /\ Parts \in Nat \ {0} /\ MaxOthers \in Nat

VARIABLES
    worker,     \* the thread: "connect", "read", "return" or "done"
    result,     \* what try_live_handshake returns: "ok", "error", or "none" so far
    reads,      \* messages it has read
    parts,      \* parts of the ServerHello among them
    incoming,   \* messages from the server
    sent,       \* parts the server has sent
    genuine,    \* whether the ServerHello is one, for this ClientHello
    others,     \* counted for MaxOthers
    channel,    \* the results the thread has sent: at most one
    verdict     \* what main printed, or "none"

demoVars == <<worker, result, reads, parts, incoming, sent, genuine, others, channel, verdict>>

DemoInit ==
    /\ worker = "connect" /\ result = "none" /\ reads = 0 /\ parts = 0 /\ incoming = <<>> /\ sent = 0
    /\ genuine \in BOOLEAN /\ others = 0 /\ channel = <<>> /\ verdict = "none"

\* The thread lives as long as main.
Running == verdict = "none"

Return(r) == worker' = "return" /\ result' = r

\* The connection is made and the ClientHello sent, or not.
Connect ==
    /\ Running /\ worker = "connect"
    /\ (worker' = "read" /\ UNCHANGED result) \/ Return("error")
    /\ UNCHANGED <<reads, parts, incoming, sent, genuine, others, channel, verdict>>

ServerSends ==
    /\ Running /\ worker = "read"
    /\ \/ /\ sent < Parts /\ sent' = sent + 1 /\ incoming' = Append(incoming, "part")
          /\ UNCHANGED others
       \/ /\ others < MaxOthers /\ others' = others + 1 /\ UNCHANGED sent
          /\ \E m \in {"ping", "close"} : incoming' = Append(incoming, m)
    /\ UNCHANGED <<worker, result, reads, parts, genuine, channel, verdict>>

\* Mutant: the messages are counted before the frame is looked at.
Outcome_CountsFirst(m) ==
    CASE m = "close" -> "error"
      [] reads + 1 = MaxReads -> "error"
      [] m = "part" /\ parts + 1 = Parts -> IF genuine THEN "ok" ELSE "error"
      [] OTHER -> "continue"

\* What a message leads to: the frame is whole, or the loop goes on to its end.
Outcome(m) ==
    CASE m = "close" -> "error"
      [] m = "part" /\ parts + 1 = Parts -> IF genuine THEN "ok" ELSE "error"
      [] OTHER -> IF reads + 1 = MaxReads THEN "error" ELSE "continue"

ReadMessage ==
    /\ Running /\ worker = "read" /\ incoming # <<>>
    /\ incoming' = Tail(incoming) /\ reads' = reads + 1
    /\ parts' = IF Head(incoming) = "part" THEN parts + 1 ELSE parts
    /\ IF Outcome(Head(incoming)) = "continue" THEN UNCHANGED <<worker, result>>
       ELSE Return(Outcome(Head(incoming)))
    /\ UNCHANGED <<sent, genuine, others, channel, verdict>>

\* The connection breaks.
ReadError ==
    /\ Running /\ worker = "read"
    /\ Return("error")
    /\ UNCHANGED <<reads, parts, incoming, sent, genuine, others, channel, verdict>>

\* tx.send: the timeout may have struck since the result was there.
SendResult ==
    /\ Running /\ worker = "return"
    /\ worker' = "done" /\ channel' = <<result>>
    /\ UNCHANGED <<result, reads, parts, incoming, sent, genuine, others, verdict>>

Report ==
    /\ Running /\ channel # <<>>
    /\ verdict' = IF Head(channel) = "ok" THEN "completed" ELSE "incomplete"
    /\ UNCHANGED <<worker, result, reads, parts, incoming, sent, genuine, others, channel>>

\* recv_timeout gives up only while there is no result.
TimeOut ==
    /\ Running /\ channel = <<>>
    /\ verdict' = "timed out"
    /\ UNCHANGED <<worker, result, reads, parts, incoming, sent, genuine, others, channel>>

DemoNext ==
    \/ Connect \/ ServerSends \/ ReadMessage \/ ReadError \/ SendResult
    \/ Report \/ TimeOut

DemoSpec == DemoInit /\ [][DemoNext]_demoVars

\* The demo claims a handshake only when the thread got a whole, genuine
\* ServerHello, and a failed one only when it did not, also when it was in the last
\* message the thread reads.  A timeout says nothing of the handshake, which may be
\* complete by then, but it never hides a result that was sent.
VerdictIsTrue ==
    /\ verdict = "completed" => genuine /\ parts = Parts
    /\ verdict = "incomplete" => ~(genuine /\ parts = Parts)
    /\ verdict = "timed out" => worker # "done"
===============================================================================
