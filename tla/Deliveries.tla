------------------------------ MODULE Deliveries ------------------------------
(***************************************************************************)
(* What an extension may rely on about what it posts: each kind of post is *)
(* handled in the order posted, each post at most once, and an event of a  *)
(* type the catalogue lacks never; a callback is answered or failed once,  *)
(* and only once its handling has begun.                                   *)
(***************************************************************************)
EXTENDS Naturals, Sequences

CONSTANTS
  Ports,         \* those an extension posts events to
  CallbackPort,  \* the port callbacks come to
  Nameless       \* where an event goes whose type the catalogue lacks

VARIABLES
  posted,   \* of each kind, where every post of it was for, oldest first
  handled,  \* of each kind, the number of the last one handled
  answers   \* what came back for each callback

deliveryVars == <<posted, handled, answers>>

Kinds == {"event", "callback"}

Targets(kind) == IF kind = "callback" THEN {CallbackPort} ELSE Ports \cup {Nameless}

Init ==
  /\ posted = [k \in Kinds |-> <<>>]
  /\ handled = [k \in Kinds |-> 0]
  /\ answers = <<>>

Post(k, to) ==
  /\ posted' = [posted EXCEPT ![k] = Append(@, to)]
  /\ answers' = IF k = "callback" THEN Append(answers, "awaited") ELSE answers
  /\ UNCHANGED handled

\* The first that can be delivered of those not handled.
Handle(k, n) ==
  /\ n \in handled[k] + 1 .. Len(posted[k])
  /\ posted[k][n] # Nameless
  /\ \A m \in handled[k] + 1 .. n - 1 : posted[k][m] = Nameless
  /\ handled' = [handled EXCEPT ![k] = n]
  /\ UNCHANGED <<posted, answers>>

\* Several callbacks fail at once when a stop ends a call within a call.
Answer(some, as) ==
  /\ \A n \in some : answers[n] = "awaited"
  /\ answers' = [n \in DOMAIN answers |-> IF n \in some THEN as ELSE answers[n]]
  /\ UNCHANGED <<posted, handled>>

Next ==
  \/ \E k \in Kinds : \E to \in Targets(k) : Post(k, to)
  \/ \E k \in Kinds : \E n \in 1 .. Len(posted[k]) : Handle(k, n)
  \/ \E some \in SUBSET (1 .. handled["callback"]), as \in {"answered", "failed"} :
       Answer(some, as)

Spec == Init /\ [][Next]_deliveryVars
=============================================================================
