--------------------------- MODULE RequestService ---------------------------
(***************************************************************************)
(* What the FUSE transport promises to the file system driver, with no     *)
(* queue, semaphore, daemon or backend in sight: a thread that issues a    *)
(* request is answered once, with an outcome its opcode allows, and then   *)
(* returns with that outcome.  UkfsBridge implements this specification.   *)
(***************************************************************************)

CONSTANTS
  Threads,      \* threads that call into the mounted file system
  Opcodes,      \* the operations a request can ask for
  Outcomes,     \* what a call of each opcode can return: a function on Opcodes
  Discards,     \* per opcode: errors that replace an answer the caller cannot keep
  Refusals      \* errors of calls that fail before there is a request

VARIABLES
  phase,        \* "idle", "pending" or "answered", per thread
  asked,        \* opcode of the thread's current call
  answer,       \* the answer given to the thread's current call
  returned      \* what the thread's last call returned

svars == <<phase, asked, answer, returned>>

NoAnswer == "none yet"
NoCall == "nothing"

ServiceInit ==
  /\ phase = [t \in Threads |-> "idle"]
  /\ asked = [t \in Threads |-> NoCall]
  /\ answer = [t \in Threads |-> NoAnswer]
  /\ returned = [t \in Threads |-> NoAnswer]

(* A thread calls with opcode o and waits.                                 *)
Call(t, o) ==
  /\ phase[t] = "idle"
  /\ phase' = [phase EXCEPT ![t] = "pending"]
  /\ asked' = [asked EXCEPT ![t] = o]
  /\ UNCHANGED <<answer, returned>>

(* A call fails before any request exists.                                 *)
Refuse(t) ==
  /\ phase[t] = "idle"
  /\ \E e \in Refusals : returned' = [returned EXCEPT ![t] = e]
  /\ UNCHANGED <<phase, asked, answer>>

(* The service answers a pending call, once.                               *)
Answer(t) ==
  /\ phase[t] = "pending"
  /\ phase' = [phase EXCEPT ![t] = "answered"]
  /\ \E a \in Outcomes[asked[t]] : answer' = [answer EXCEPT ![t] = a]
  /\ UNCHANGED <<asked, returned>>

(* The caller returns with the answer, or with the error it met keeping it. *)
Return(t) ==
  /\ phase[t] = "answered"
  /\ phase' = [phase EXCEPT ![t] = "idle"]
  /\ \E r \in {answer[t]} \cup Discards[asked[t]] : returned' = [returned EXCEPT ![t] = r]
  /\ answer' = [answer EXCEPT ![t] = NoAnswer]
  /\ asked' = [asked EXCEPT ![t] = NoCall]

ServiceNext ==
  \E t \in Threads :
    \/ \E o \in Opcodes : Call(t, o)
    \/ Refuse(t)
    \/ Answer(t)
    \/ Return(t)

ServiceSpec == ServiceInit /\ [][ServiceNext]_svars

FairServiceSpec ==
  ServiceSpec /\ \A t \in Threads : WF_svars(Answer(t)) /\ WF_svars(Return(t))
=============================================================================
