---------------------------- MODULE CommandService ----------------------------
(***************************************************************************)
(* What the broker core promises to callers and producers, without its     *)
(* maps, budgets and timers (BrokerState implements it).                   *)
(*                                                                         *)
(* A session has one owner, a socket has one session.  The unsettled       *)
(* commands of a session wait in the order they were admitted; the first   *)
(* of them is with the owner, and only that one can be answered.  Whoever  *)
(* loses a session loses its commands with it, and nobody else's are       *)
(* touched.  A caller gets one answer.                                     *)
(***************************************************************************)
EXTENDS Integers, Sequences

CONSTANTS Sid, Socket, NoSocket, Request

VARIABLES
    owner,    \* [Sid -> the socket that owns it, or NoSocket]
    queue,    \* [Sid -> its unsettled commands; the first is with the owner]
    answer    \* [Request -> none, pending or what the caller was told]

serviceVars == <<owner, queue, answer>>

ServiceInit ==
    /\ owner = [s \in Sid |-> NoSocket]
    /\ queue = [s \in Sid |-> <<>>]
    /\ answer = [r \in Request |-> "none"]

(* A new command waits its turn; one that would be first may be refused.   *)
Admit(s) ==
    \E r \in Request :
        /\ owner[s] # NoSocket
        /\ answer[r] = "none"
        /\ \/ /\ queue' = [queue EXCEPT ![s] = Append(@, r)]
              /\ answer' = [answer EXCEPT ![r] = "pending"]
           \/ /\ queue[s] = <<>>
              /\ queue' = queue
              /\ answer' = [answer EXCEPT ![r] = "rejected"]
        /\ owner' = owner

Without(q, i) == [j \in 1..(Len(q) - 1) |-> IF j < i THEN q[j] ELSE q[j + 1]]

(* The i-th command of s is answered or times out.  If it was the first,   *)
(* the next ones are offered to the owner, who may refuse n of them.       *)
Finish(s, i, how, n) ==
    LET rest == Without(queue[s], i)
    IN  /\ i > 1 => how = "timedOut" /\ n = 0
        /\ n <= Len(rest)
        /\ queue' = [queue EXCEPT ![s] = SubSeq(rest, n + 1, Len(rest))]
        /\ answer' = [r \in Request |->
                        IF r = queue[s][i] THEN how
                        ELSE IF r \in {rest[j] : j \in 1..n} THEN "rejected"
                        ELSE answer[r]]
        /\ owner' = owner

(* Sessions are claimed, taken over, released or swept.                    *)
ChangeHands ==
    LET kept == {s \in Sid : owner'[s] = owner[s]}
    IN  /\ owner' \in [Sid -> Socket \cup {NoSocket}]
        /\ \A s, t \in Sid : owner'[s] = owner'[t] /\ owner'[s] # NoSocket => s = t
        /\ queue' = [s \in Sid |-> IF s \in kept THEN queue[s] ELSE <<>>]
        /\ answer' = [r \in Request |->
                        IF \E s \in Sid \ kept : \E i \in 1..Len(queue[s]) : queue[s][i] = r
                        THEN "rejected" ELSE answer[r]]

ServiceNext ==
    \/ \E s \in Sid : Admit(s)
    \/ \E s \in Sid : \E i \in 1..Len(queue[s]), n \in 0..Len(queue[s]) :
          \E how \in {"resolved", "failed", "timedOut"} : Finish(s, i, how, n)
    \/ ChangeHands

ServiceSpec == ServiceInit /\ [][ServiceNext]_serviceVars
===============================================================================
