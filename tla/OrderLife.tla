------------------------------ MODULE OrderLife ------------------------------
(***************************************************************************)
(* What anyone who keeps a record of orders promises about them: an order  *)
(* keeps its terms, fills only while it is open and never beyond its size, *)
(* ends once, and once a cancellation is complete is split exactly into    *)
(* what was filled and what was not.  The book (OrderBookSim) and the      *)
(* trader that learns of it through delayed updates (AlgoExecution) are    *)
(* shown to keep this promise; nothing here says how.                      *)
(***************************************************************************)
EXTENDS Integers

CONSTANT OrderIds

VARIABLE life   \* the recorded orders: [terms, size, filled, cancelled, phase]

\* "ending": marked cancelled, the cancelled quantity not yet known.
Phases == {"open", "ending", "done", "refused"}

Sound(l) ==
    /\ l.phase \in Phases
    /\ 0 <= l.filled /\ l.filled <= l.size
    /\ l.phase \in {"open", "ending"} => l.filled < l.size /\ l.cancelled = 0
    /\ l.phase = "done" => l.filled + l.cancelled = l.size
    /\ l.phase = "refused" => l.filled = 0 /\ l.cancelled = 0

\* What the record of one order may turn into.  A record kept at a distance may
\* miss any number of steps in between, never see them undone.
Advances(l, m) ==
    /\ m.terms = l.terms /\ m.size = l.size
    /\ l.filled <= m.filled
    /\ \/ l.phase = "open"
       \/ l.phase = "ending" /\ m.phase = "done" /\ m.filled = l.filled
       \/ m = l

Others(id) == \A other \in DOMAIN life \ {id} : life'[other] = life[other]

Init == life = <<>>

\* The record of an order begins.
Learn(id) ==
    /\ id \notin DOMAIN life
    /\ DOMAIN life' = DOMAIN life \cup {id}
    /\ Sound(life'[id])
    /\ Others(id)

\* One order moves on.
Advance(id) ==
    /\ id \in DOMAIN life
    /\ DOMAIN life' = DOMAIN life
    /\ Sound(life'[id]) /\ Advances(life[id], life'[id])
    /\ Others(id)

\* The record is closed, with all its orders.
Forget == DOMAIN life' = {}

Next == (\E id \in OrderIds : Learn(id) \/ Advance(id)) \/ Forget

Spec == Init /\ [][Next]_life
=============================================================================
