----------------------------- MODULE SingleLink -----------------------------
(***************************************************************************)
(* What a RouterConn promises its users, without its mutex: at any time    *)
(* there is at most one link to the router, every link is a fresh one,     *)
(* commands run on the current link, and the link is taken down only when  *)
(* no command is running on it.                                            *)
(***************************************************************************)
EXTENDS Naturals

CONSTANTS Procs,    \* the goroutines that use the connection
          MaxDials  \* bound: how many links are established in a behaviour

VARIABLES link,   \* the current link, 0 when there is none
          made,   \* how many links have been established so far
          busy    \* the goroutines whose command is running on the link

linkVars == <<link, made, busy>>

LinkInit == link = 0 /\ made = 0 /\ busy = {}

\* A link is established only when there is none, and never re-used.
Establish ==
  /\ link = 0
  /\ made < MaxDials
  /\ link' = made + 1
  /\ made' = made + 1
  /\ UNCHANGED busy

\* The link is taken down only when no command is running on it.
TakeDown ==
  /\ link # 0
  /\ busy = {}
  /\ link' = 0
  /\ UNCHANGED <<made, busy>>

BeginCommand(p) ==
  /\ link # 0
  /\ p \notin busy
  /\ busy' = busy \cup {p}
  /\ UNCHANGED <<link, made>>

EndCommand(p) ==
  /\ p \in busy
  /\ busy' = busy \ {p}
  /\ UNCHANGED <<link, made>>

LinkNext ==
  \/ Establish
  \/ TakeDown
  \/ \E p \in Procs : BeginCommand(p) \/ EndCommand(p)

LinkSpec == LinkInit /\ [][LinkNext]_linkVars
=============================================================================
