------------------------------- MODULE Replicas --------------------------------
(***************************************************************************)
(* What browsers and backend promise together: each member of a whiteboard *)
(* has a copy of it, and hears of every change, once and in the order in   *)
(* which the whiteboard changed.  Whoever comes is told so much that its   *)
(* copy will be right, although the whiteboard changes meanwhile.          *)
(*                                                                         *)
(* A figure is named by its kind and its id.  App is shown to implement    *)
(* this, with one channel for everything that a browser is told.           *)
(***************************************************************************)
EXTENDS Sequences, SequencesExt

CONSTANTS Readers, Boards,
          Figures,  \* pairs of a kind and an id
          Nobody,   \* a reader that is no member of a whiteboard
          Blank     \* the whiteboard without figures

VARIABLES
  content,  \* of every whiteboard: its figures
  reader    \* of every reader that is a member, a record of
  (* board  the whiteboard whose changes it hears of                       *)
  (* news   the changes that it has not heard of yet                       *)
  (* copy   what it knows of the whiteboard                                *)

replicaVars == <<content, reader>>
-----------------------------------------------------------------------------
Applied(figures, change) == [figures EXCEPT ![change.kind][change.id] = change.now]

(* Once it has heard all its news, a reader has the right copy.            *)
WillBeRight(r) == FoldLeft(Applied, r.copy, r.news) = content[r.board]

Init ==
  /\ content = [b \in Boards |-> Blank]
  /\ \A c \in Readers :
       reader[c] = Nobody \/ (reader[c].news = <<>> /\ reader[c].copy = Blank)

(* A figure of b becomes something, and all members of b will hear of it.  *)
Change(b, kind, id) ==
  LET now == content'[b][kind][id]
  IN  /\ content' = [content EXCEPT ![b][kind][id] = now]
      /\ reader' = [c \in Readers |->
           IF reader[c] = Nobody \/ reader[c].board # b THEN reader[c]
           ELSE [reader[c] EXCEPT !.news = Append(@, [kind |-> kind, id |-> id, now |-> now])]]

Hear(c) ==
  /\ reader[c] # Nobody /\ reader[c].news # <<>>
  /\ reader' = [reader EXCEPT ![c].copy = Applied(@, Head(reader[c].news)),
                              ![c].news = Tail(@)]
  /\ UNCHANGED content

(* Readers come and go, several at once when a whiteboard ends.            *)
Stays(c) == reader'[c] = reader[c]
Goes(c)  == reader'[c] = Nobody
Comes(c) == reader[c] = Nobody /\ WillBeRight(reader[c])'

ComeAndGo ==
  /\ \A c \in Readers : Stays(c) \/ Goes(c) \/ Comes(c)
  /\ UNCHANGED content

Next ==
  \/ ComeAndGo
  \/ \E c \in Readers : Hear(c)
  \/ \E b \in Boards, f \in Figures : Change(b, f[1], f[2])

Spec == Init /\ [][Next]_replicaVars
=============================================================================
