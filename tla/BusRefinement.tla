--------------------------- MODULE BusRefinement ---------------------------
(***************************************************************************)
(* The bus of bus.py keeps the promise of BusPromise.  A message is taken  *)
(* by get_nowait, in either thread; what is owed are the handlers that the *)
(* threads still have to call for the messages in their hands.             *)
(***************************************************************************)
EXTENDS MessageBus

OwedBy(t) == IF pc[t] = "handle" THEN todo[t] \X {msg[t]} ELSE {}
Owed == OwedBy(Main) \cup OwedBy(Dispatcher)

(* A handler is interested in the topics that agree with its pattern        *)
(* segment by segment, where a last segment "*" behind others is any one.   *)
Interested ==
  [m \in Message |-> {i \in DOMAIN Subs :
     /\ Len(m.topic) = Len(Subs[i])
     /\ \A k \in DOMAIN Subs[i] :
          \/ m.topic[k] = Subs[i][k]
          \/ k > 1 /\ k = Len(Subs[i]) /\ Subs[i][k] = "*"}]

Promise ==
  INSTANCE BusPromise WITH
    Messages <- Message, Handlers <- DOMAIN Subs, Interest <- Interested,
    known <- accepted, waiting <- queue, owed <- Owed, given <- seen

(* The bus implements its promise: every step of a thread gives one handler *)
(* what it is owed, takes the oldest message, accepts a new one, or changes *)
(* nothing a subscriber can tell.  In particular a handler that raises does *)
(* not cost the handlers after it their call, no handler is called twice    *)
(* with a message although two threads drain, a trailing wildcard takes one *)
(* segment and no more, and a dropped message is given to nobody.           *)
PromiseKept == Promise!Spec
=============================================================================
