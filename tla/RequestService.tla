----------------------------- MODULE RequestService -----------------------------
(***************************************************************************)
(* What a controller of MCsim promises, whatever the schedulers inside it  *)
(* do: every accepted request waits until a column command is chosen for   *)
(* exactly this request, it is chosen once, and a requestor's accesses of  *)
(* one kind to one address are never reordered.  DuetController implements *)
(* this specification, DataPath relies on it.                              *)
(***************************************************************************)
EXTENDS Naturals, Sequences, SequencesExt

CONSTANTS
    Requestors,   \* the cores that send requests
    Requests      \* the request objects [id, addr, type]

VARIABLES
    waiting,      \* the requests of every requestor that still wait for a command
    serving       \* the request whose column command was chosen last

serviceVars == <<waiting, serving>>

NoService == [requestor |-> "none"]

ServiceInit ==
    /\ waiting = [r \in Requestors |-> <<>>]
    /\ serving = NoService

Accept(r, q) ==
    /\ \A k \in 1..Len(waiting[r]) : waiting[r][k].id # q.id
    /\ waiting' = [waiting EXCEPT ![r] = Append(@, q)]
    /\ UNCHANGED serving

Serve(r, k) ==
    LET q == waiting[r][k]
    IN  /\ \A j \in 1..(k - 1) : <<waiting[r][j].addr, waiting[r][j].type>> # <<q.addr, q.type>>
        /\ waiting' = [waiting EXCEPT ![r] = RemoveAt(@, k)]
        /\ serving' = [requestor |-> r, req |-> q]

\* No column command is chosen.
Pause == serving' = NoService /\ UNCHANGED waiting

ServiceNext ==
    \/ \E r \in Requestors, q \in Requests : Accept(r, q)
    \/ \E r \in Requestors : \E k \in 1..Len(waiting[r]) : Serve(r, k)
    \/ Pause

ServiceSpec == ServiceInit /\ [][ServiceNext]_serviceVars
================================================================================
