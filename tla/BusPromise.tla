----------------------------- MODULE BusPromise -----------------------------
(***************************************************************************)
(* What the message bus promises its subscribers, whatever the threads do: *)
(* messages are taken in the order in which they were accepted, a message  *)
(* that is taken is owed to every handler interested in it, and each debt  *)
(* is paid once.  Nothing is given to anyone that is not owed.             *)
(***************************************************************************)
EXTENDS Sequences

CONSTANTS
  Messages,   \* all messages
  Handlers,   \* all handlers
  Interest    \* the handlers interested in a message

VARIABLES
  known,      \* messages accepted so far
  waiting,    \* those not yet taken, oldest first
  owed,       \* pairs of handler and message still to be given
  given       \* what each handler was given, in order

promised == <<known, waiting, owed, given>>

Init ==
  /\ known = {}
  /\ waiting = << >>
  /\ owed = {}
  /\ given = [h \in Handlers |-> << >>]

Accept(m) ==
  /\ m \notin known
  /\ known' = known \cup {m}
  /\ waiting' = Append(waiting, m)
  /\ owed' = owed
  /\ given' = given

Take ==
  /\ waiting # << >>
  /\ waiting' = Tail(waiting)
  /\ owed' = owed \cup (Interest[Head(waiting)] \X {Head(waiting)})
  /\ known' = known
  /\ given' = given

Give(h, m) ==
  /\ <<h, m>> \in owed
  /\ owed' = owed \ {<<h, m>>}
  /\ given' = [given EXCEPT ![h] = Append(@, m)]
  /\ known' = known
  /\ waiting' = waiting

Next ==
  \/ \E m \in Messages : Accept(m)
  \/ Take
  \/ \E h \in Handlers, m \in Messages : Give(h, m)

Spec == Init /\ [][Next]_promised
=============================================================================
