------------------------------- MODULE MCStores -------------------------------
(***************************************************************************)
(* A small instance of all that is stored: the two event stores, and the   *)
(* files of DataReporter, with two entities and two hours, so that a file  *)
(* is left for another one and come back to.  The files share no variable, *)
(* no thread and no lock with the stores, and no property speaks of both,  *)
(* so that their steps need not be interleaved: a behaviour here is one of *)
(* either, while the other stays as it was at first.                       *)
(***************************************************************************)
EXTENDS EventStores, DataReporter, TLC

VARIABLE part    \* which of the two this behaviour is about

StoredInit ==
    /\ Init /\ ReporterInit
    /\ part \in {"events", "files"}
    /\ part = "files" => now = 0 /\ \A d \in Durations : suppression_duration_ <= d

StoredNext ==
    /\ UNCHANGED part
    /\ \/ part = "events" /\ Next /\ UNCHANGED reporterVars
       \/ part = "files" /\ ReporterNext /\ UNCHANGED vars

StoredSpec == StoredInit /\ [][StoredNext]_<<vars, reporterVars, part>>

\* All are compared for equality only.  Since the two parts never meet, the
\* clients and the entities are the same model values here, and so are the
\* keys and the hours, which leaves fewer permutations to try.
Symmetries == Permutations(Clients \cup SEs) \cup Permutations(Keys \cup Hours)

===============================================================================
