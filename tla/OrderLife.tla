----------------------------- MODULE OrderLife ------------------------------
(***************************************************************************)
(* The life of an order as the engine may rely on it, without the maps,    *)
(* the identifiers and the threads of the feed.                            *)
(*                                                                         *)
(* The broker decides an order once.  When the feed has handled an         *)
(* execution event for it, the order is heard: its status is the verdict,  *)
(* it is not waited for any more, it never becomes PENDING again and no    *)
(* timeout rejects it.  Only a reconcile after a lost connection, which    *)
(* knows positions and not orders, may still call it FILLED.               *)
(***************************************************************************)
CONSTANTS Order,
          Verdicts   \* what the broker may decide

VARIABLES
    status,    \* the status the engine sees
    stage,     \* of the request: new, entered (not sent yet), sent or over
    verdict,   \* the broker's decision
    open,      \* orders the feed waits for
    lost,      \* orders a lost connection left undecided
    heard      \* orders whose execution verdict the feed has handled

lifeVars == <<status, stage, verdict, open, lost, heard>>

Init == /\ status = [o \in Order |-> "NEW"]
        /\ stage = [o \in Order |-> "new"]
        /\ verdict = [o \in Order |-> "none"]
        /\ open = {} /\ lost = {} /\ heard = {}

Becomes(o, s) == status' = [status EXCEPT ![o] = s]
Enters(o, g) == stage' = [stage EXCEPT ![o] = g]
Relapse(S) == status' = [o \in Order |-> IF o \in S THEN "PENDING" ELSE status[o]]

\* Not allowed, or no connection.
Refuse(o) == /\ stage[o] = "new" /\ status[o] = "NEW"
             /\ \E s \in {"REJECTED", "PENDING"} : Becomes(o, s)
             /\ Enters(o, "over")
             /\ UNCHANGED <<verdict, open, lost, heard>>

Build(o) == /\ stage[o] = "new" /\ status[o] = "NEW"
            /\ Becomes(o, "PENDING")
            /\ UNCHANGED <<stage, verdict, open, lost, heard>>

Await(o) == /\ stage[o] = "new" /\ status[o] = "PENDING"
            /\ Enters(o, "entered")
            /\ open' = open \cup {o}
            /\ UNCHANGED <<status, verdict, lost, heard>>

Send(o) == /\ stage[o] = "entered"
           /\ Enters(o, "sent")
           /\ UNCHANGED <<status, verdict, open, lost, heard>>

\* The client is gone before the request was handed to it.
Abort(o) == /\ stage[o] = "entered"
            /\ Becomes(o, "REJECTED")
            /\ Enters(o, "over")
            /\ UNCHANGED <<verdict, open, lost, heard>>

Decide(o) == /\ stage[o] = "sent" /\ verdict[o] = "none"
             /\ \E v \in Verdicts : verdict' = [verdict EXCEPT ![o] = v]
             /\ UNCHANGED <<status, stage, open, lost, heard>>

\* An execution event; an order error.
Hear(o) == /\ stage[o] = "sent" /\ verdict[o] \in {"FILLED", "REJECTED", "CANCELLED"}
           /\ Becomes(o, verdict[o])
           /\ open' = open \ {o}
           /\ heard' = heard \cup {o}
           /\ UNCHANGED <<stage, verdict, lost>>

Fail(o) == /\ stage[o] = "sent" /\ verdict[o] = "ERROR"
           /\ Becomes(o, "REJECTED")
           /\ open' = open \ {o}
           /\ UNCHANGED <<stage, verdict, lost, heard>>

\* The request's own timeout.
GiveUp(o) == /\ stage[o] = "sent" /\ o \notin heard
             /\ Becomes(o, "REJECTED")
             /\ UNCHANGED <<stage, verdict, open, lost, heard>>

\* The connection is lost; the feed is stopped; an order entered while the
\* disconnect was being handled is dropped.
Lose == /\ Relapse(open)
        /\ lost' = lost \cup open
        /\ open' = {}
        /\ UNCHANGED <<stage, verdict, heard>>

Stop == /\ Relapse(open)
        /\ open' = {}
        /\ UNCHANGED <<stage, verdict, lost, heard>>

Forget == /\ open' = {}
          /\ UNCHANGED <<status, stage, verdict, lost, heard>>

\* Reconcile: some of the lost orders are taken to be filled, and later some
\* are no longer looked for.
Guess(S) == /\ S \subseteq lost
            /\ status' = [o \in Order |-> IF o \in S THEN "FILLED" ELSE status[o]]
            /\ UNCHANGED <<stage, verdict, open, lost, heard>>

Drop == /\ lost' \in SUBSET lost
        /\ UNCHANGED <<status, stage, verdict, open, heard>>

Next == \/ \E o \in Order : \/ Refuse(o) \/ Build(o) \/ Await(o) \/ Send(o) \/ Abort(o)
                            \/ Decide(o) \/ Hear(o) \/ Fail(o) \/ GiveUp(o)
        \/ \E S \in SUBSET Order : Guess(S)
        \/ Lose \/ Stop \/ Forget \/ Drop

Spec == Init /\ [][Next]_lifeVars
=============================================================================
