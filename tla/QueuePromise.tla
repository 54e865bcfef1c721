---------------------------- MODULE QueuePromise ----------------------------
(***************************************************************************)
(* What a session's queue promises the user who leaves messages in it,     *)
(* without dispatchers, leases, runs or restore checks: an accepted        *)
(* message waits until it is deleted, received by a run in the text that   *)
(* was saved last, or given back; one message at a time is on its way to a *)
(* run of its own; and a session closes only when no message waits.        *)
(* SessionQueue implements it.                                             *)
(*                                                                         *)
(* The promise has two weak points, each an action of its own, and no      *)
(* others: a message on its way may be lost (the application dies), and a  *)
(* received one may be on its way again (another run starts before it is   *)
(* checked whether the message's own run had).                             *)
(***************************************************************************)
EXTENDS Naturals

CONSTANT Messages

VARIABLES place,  \* of each message: "new", "queued", "held", "received", "gone"
          text,   \* the revision of each message that was saved last
          got,    \* the revision that a run received last
          open    \* messages are accepted

deliveryVars == <<place, text, got, open>>

DeliveryInit == /\ place = [m \in Messages |-> "new"]
                /\ text = [m \in Messages |-> 0]
                /\ got = [m \in Messages |-> 0]
                /\ open = TRUE

In(where) == {m \in Messages : place[m] = where}

Move(m, to) == place' = [place EXCEPT ![m] = to] /\ UNCHANGED <<text, got, open>>
Accept(m) == Move(m, "queued")
Erase(m) == Move(m, "gone")
Edit(m) == text' = [text EXCEPT ![m] = @ + 1] /\ UNCHANGED <<place, got, open>>

\* One message at a time is on its way to a run of its own, which it reaches,
\* or it is given back.
Take(m) == Move(m, "held") /\ In("held") = {}
GiveBack(m) == Move(m, "queued")
Receive(some) ==
  /\ place' = [m \in Messages |-> IF m \in some THEN "received" ELSE place[m]]
  /\ got' = [m \in Messages |-> IF m \in some THEN text[m] ELSE got[m]]
  /\ UNCHANGED <<text, open>>
Start(m) == Receive({m})

\* Any number of waiting messages goes into a run that is under way.
Steer(some) == some # {} /\ Receive(some)

\* The two weak points.
Lose(m) == Move(m, "gone")
Reclaim(m) == Move(m, "held") /\ In("held") = {}

Close == /\ open' = FALSE
         /\ In("queued") = {} /\ In("held") = {}
         /\ UNCHANGED <<place, text, got>>

\* What may happen to a message depends on where it is.
DeliveryNext ==
  /\ open
  /\ \/ \E m \in In("new") : Accept(m)
     \/ \E m \in In("queued") : Edit(m) \/ Erase(m) \/ Take(m)
     \/ \E m \in In("held") : GiveBack(m) \/ Start(m) \/ Lose(m)
     \/ \E m \in In("received") : Reclaim(m)
     \/ \E some \in SUBSET In("queued") : Steer(some)
     \/ Close

DeliverySpec == DeliveryInit /\ [][DeliveryNext]_deliveryVars
=============================================================================
