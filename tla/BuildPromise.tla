---------------------------- MODULE BuildPromise ----------------------------
(***************************************************************************)
(* What LinuxKernelBuilder::build promises its caller, without profiles    *)
(* tried in turn, discovery strategies or a hint cache: a request is       *)
(* answered at most once, with an answer that is sound for it, and is      *)
(* refused only if it need not be answered.  The process may die instead.  *)
(***************************************************************************)
CONSTANTS
  Builders,
  Requests, Answers,
  Sound(_, _),     \* Sound(r, a): a is a correct answer to request r
  MustAnswer(_)    \* MustAnswer(r): build may not fail on r

VARIABLES status, request, answer

vars == <<status, request, answer>>

Init ==
  /\ status = [b \in Builders |-> "idle"]
  /\ request \in [Builders -> Requests]
  /\ answer = [b \in Builders |-> {}]

Ask(b) ==
  /\ status[b] = "idle"
  /\ \E r \in Requests : request' = [request EXCEPT ![b] = r]
  /\ status' = [status EXCEPT ![b] = "running"]
  /\ UNCHANGED answer

Answer(b) ==
  /\ status[b] = "running"
  /\ \E a \in Answers : Sound(request[b], a) /\ answer' = [answer EXCEPT ![b] = {a}]
  /\ status' = [status EXCEPT ![b] = "answered"]
  /\ UNCHANGED request

Refuse(b) ==
  /\ status[b] = "running"
  /\ ~MustAnswer(request[b])
  /\ status' = [status EXCEPT ![b] = "refused"]
  /\ UNCHANGED <<request, answer>>

\* The caller takes the result, or the process dies before there is one.
Forget(b) ==
  /\ status[b] # "idle"
  /\ status' = [status EXCEPT ![b] = "idle"]
  /\ \E r \in Requests : request' = [request EXCEPT ![b] = r]
  /\ answer' = [answer EXCEPT ![b] = {}]

Next == \E b \in Builders : Ask(b) \/ Answer(b) \/ Refuse(b) \/ Forget(b)

Spec == Init /\ [][Next]_vars
============================================================================
