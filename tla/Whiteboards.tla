------------------------------ MODULE Whiteboards ------------------------------
(***************************************************************************)
(* What the backend promises: whiteboards that clients share.  A           *)
(* whiteboard is created by its host; everybody else is let in by the      *)
(* host, and leaves at will; its members, and nobody else, change what is  *)
(* on it; when the host goes it ends, for good.                            *)
(*                                                                         *)
(* One variable for each fact: where the code keeps the members of a       *)
(* whiteboard in an array and the state of each connection in another      *)
(* object, here a client is a member or is not.  Session and Server are    *)
(* shown to implement this.                                                *)
(***************************************************************************)
CONSTANTS Clients, Boards,
          NoClient  \* the host of a whiteboard that was not created yet

VARIABLES
  phase,       \* "unused", "running" or "ended"
  host,        \* who created it
  members,     \* who sees it
  applicants,  \* who asked to be let in
  former,      \* who has left
  content,     \* what is on it
  actor        \* who did the last step: a client, or NoClient

boards == <<phase, host, members, applicants, former, content>>
-----------------------------------------------------------------------------
(* A client is in one whiteboard at a time, as a member or waiting for it. *)
Nowhere(c) == \A b \in Boards : c \notin members[b] \cup applicants[b]

Init ==
  /\ phase      = [b \in Boards |-> "unused"]
  /\ host       = [b \in Boards |-> NoClient]
  /\ members    = [b \in Boards |-> {}]
  /\ applicants = [b \in Boards |-> {}]
  /\ former     = [b \in Boards |-> {}]

(* Who comes, who waits and who goes.                                      *)
Create(c, b) ==
  /\ actor' = c
  /\ phase[b] = "unused" /\ Nowhere(c)
  /\ phase'   = [phase EXCEPT ![b] = "running"]
  /\ host'    = [host EXCEPT ![b] = c]
  /\ members' = [members EXCEPT ![b] = {c}]
  /\ UNCHANGED <<applicants, former>>

Apply(c, b) ==
  /\ actor' = c
  /\ phase[b] = "running" /\ Nowhere(c)
  /\ applicants' = [applicants EXCEPT ![b] = @ \cup {c}]
  /\ UNCHANGED <<phase, host, members, former>>

(* The host decides about c.                                               *)
Decide(c, b) ==
  /\ actor' = host[b]
  /\ phase[b] = "running" /\ c \in applicants[b]
  /\ applicants' = [applicants EXCEPT ![b] = @ \ {c}]
  /\ \/ members' = [members EXCEPT ![b] = @ \cup {c}]
     \/ UNCHANGED members
  /\ UNCHANGED <<phase, host, former>>

(* A member leaves, or its connection is lost; the whiteboard goes on.     *)
Leave(c, b) ==
  /\ actor' \in {c, NoClient}
  /\ phase[b] = "running" /\ c \in members[b] \ {host[b]}
  /\ members' = [members EXCEPT ![b] = @ \ {c}]
  /\ former'  = [former EXCEPT ![b] = @ \cup {c}]
  /\ UNCHANGED <<phase, host, applicants>>

(* The host leaves, and with it everybody.  Who asked to be let in is not  *)
(* told, and stays where it is.                                            *)
End(b) ==
  /\ actor' \in {host[b], NoClient}
  /\ phase[b] = "running"
  /\ phase'   = [phase EXCEPT ![b] = "ended"]
  /\ members' = [members EXCEPT ![b] = {}]
  /\ UNCHANGED <<host, applicants, former>>

ComeOrGo(b) ==
  \/ End(b)
  \/ \E c \in Clients : Create(c, b) \/ Apply(c, b) \/ Decide(c, b) \/ Leave(c, b)

(* A member changes what is on the whiteboard.                             *)
Edit(c, b) ==
  /\ actor' = c
  /\ phase[b] = "running" /\ c \in members[b]
  /\ \A x \in Boards \ {b} : content'[x] = content[x]
  /\ UNCHANGED <<phase, host, members, applicants, former>>

Next ==
  \E b \in Boards :
    \/ ComeOrGo(b) /\ UNCHANGED content
    \/ \E c \in Clients : Edit(c, b)

(* A step that changes nothing of a whiteboard may be anything.            *)
Spec == Init /\ [][Next]_boards
=============================================================================
