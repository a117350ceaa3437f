--------------------------------- MODULE Wire ---------------------------------
(***************************************************************************)
(* What the two ends of a connection take it for, and what module KVServer *)
(* models: whole messages, each of which arrives once and in order, a      *)
(* server that answers each request before it takes the next, and a client *)
(* that may call again before it has read the answer.  After a tear (one   *)
(* end no longer knows where a message begins) nothing is promised.        *)
(***************************************************************************)
EXTENDS Integers

VARIABLES
  requests,   \* the numbers of the requests on their way
  held,       \* the request in the hands of the handler thread, or 0
  answers,    \* the requests whose answers are on their way
  delivered,  \* the last answer that the client took
  torn

vars == <<requests, held, answers, delivered, torn>>

Oldest(s, i) == i \in s /\ \A j \in s : i <= j

Init == requests = {} /\ held = 0 /\ answers = {} /\ delivered = 0 /\ torn = FALSE

(* A request is younger than all that are under way.                       *)
Send ==
  /\ \E i \in requests' :
       /\ requests' = requests \cup {i}
       /\ \A j \in requests \cup answers \cup {held, delivered} : j < i
  /\ UNCHANGED <<held, answers, delivered>>

Take ==
  /\ held = 0
  /\ \E i \in requests : Oldest(requests, i) /\ held' = i /\ requests' = requests \ {i}
  /\ UNCHANGED <<answers, delivered>>

Answer ==
  /\ held # 0
  /\ answers' = answers \cup {held}
  /\ held' = 0
  /\ UNCHANGED <<requests, delivered>>

Deliver ==
  /\ \E i \in answers : Oldest(answers, i) /\ delivered' = i /\ answers' = answers \ {i}
  /\ UNCHANGED <<requests, held>>

Next == torn' \/ (~torn' /\ ~torn /\ (Send \/ Take \/ Answer \/ Deliver))

Spec == Init /\ [][Next]_vars
===============================================================================
