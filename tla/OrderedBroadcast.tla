-------------------------- MODULE OrderedBroadcast --------------------------
(***************************************************************************)
(* What the event bus promises its users, without its channel, batches or  *)
(* thread.  Offered events are accepted in some order or not at all; every *)
(* sink receives the accepted events in that order, without gaps or        *)
(* repeats, each sink at its own pace; once a close was asked for the bus  *)
(* may finish, but only when every sink has received all that was accepted *)
(* before the close was asked for.                                         *)
(***************************************************************************)
EXTENDS Naturals, Sequences

CONSTANTS Sinks,      \* who receives
          Events,     \* what can be offered
          NotAsked    \* no close was asked for yet

VARIABLES accepted,   \* the accepted events, in order
          got,        \* got[s]: what sink s received, in order
          asked,      \* how many were accepted when the close was asked for
          done        \* the bus has finished

broadcastVars == <<accepted, got, asked, done>>

Init == /\ accepted = <<>>
        /\ got = [s \in Sinks |-> <<>>]
        /\ asked = NotAsked
        /\ done = FALSE

Accept == /\ ~done
          /\ \E e \in Events : accepted' = Append(accepted, e)
          /\ UNCHANGED <<got, asked, done>>

Deliver(s) == /\ ~done
              /\ \E n \in Len(got[s]) + 1 .. Len(accepted) :
                   got' = [got EXCEPT ![s] = SubSeq(accepted, 1, n)]
              /\ UNCHANGED <<accepted, asked, done>>

AskClose == /\ asked = NotAsked
            /\ asked' = Len(accepted)
            /\ UNCHANGED <<accepted, got, done>>

Finish == /\ ~done
          /\ asked # NotAsked
          /\ \A s \in Sinks : Len(got[s]) >= asked
          /\ done' = TRUE
          /\ UNCHANGED <<accepted, got, asked>>

Next == Accept \/ (\E s \in Sinks : Deliver(s)) \/ AskClose \/ Finish

Spec == Init /\ [][Next]_broadcastVars
=============================================================================
