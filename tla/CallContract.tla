---------------------------- MODULE CallContract ----------------------------
(***************************************************************************)
(* What sendCall promises its caller (OCPPClient.h, sendCall and           *)
(* PendingCall), without connectors, queues, clocks or threads: a call is  *)
(* judged at most once, in favour only if the central system answered with *)
(* a CallResult, and the caller gets the verdict, or false when it stops   *)
(* waiting before there is one.                                            *)
(***************************************************************************)
CONSTANT Calls

VARIABLES
  phase,     \* "idle", "called", or what sendCall returned
  answers,   \* the kinds of answer received from the central system
  verdict    \* "open" until the call is judged

cvars == <<phase, answers, verdict>>

Kinds == {"CallResult", "CallError"}

Init ==
  /\ phase = [c \in Calls |-> "idle"]
  /\ answers = [c \in Calls |-> {}]
  /\ verdict = [c \in Calls |-> "open"]

Call(c) ==
  /\ phase[c] = "idle"
  /\ phase' = [phase EXCEPT ![c] = "called"]
  /\ UNCHANGED <<answers, verdict>>

Refuse(c) ==
  /\ phase[c] = "idle"
  /\ phase' = [phase EXCEPT ![c] = "false"]
  /\ UNCHANGED <<answers, verdict>>

Answer(c, kind) ==
  /\ answers' = [answers EXCEPT ![c] = @ \cup {kind}]
  /\ UNCHANGED <<phase, verdict>>

Judge(c, kind) ==
  /\ verdict[c] = "open"
  /\ kind \in answers[c]
  /\ verdict' = [verdict EXCEPT ![c] =
                   IF kind = "CallResult" THEN "true" ELSE "false"]
  /\ UNCHANGED <<phase, answers>>

(* Any number of calls that are still open expire together.                *)
Expire(late) ==
  /\ \A c \in late : verdict[c] = "open"
  /\ verdict' = [c \in Calls |-> IF c \in late THEN "false" ELSE verdict[c]]
  /\ UNCHANGED <<phase, answers>>

Return(c) ==
  /\ phase[c] = "called"
  /\ phase' = [phase EXCEPT ![c] =
                 IF verdict[c] = "true" THEN "true" ELSE "false"]
  /\ UNCHANGED <<answers, verdict>>

Next ==
  \/ \E c \in Calls : Call(c) \/ Refuse(c) \/ Return(c)
  \/ \E c \in Calls, kind \in Kinds : Answer(c, kind) \/ Judge(c, kind)
  \/ \E late \in SUBSET Calls : Expire(late)

Spec == Init /\ [][Next]_cvars
=============================================================================
