--------------------------- MODULE MCIngestionSync ---------------------------
(***************************************************************************)
(* Instances of IngestionSync for TLC.  A behaviour is of one of three     *)
(* kinds, chosen at the start.  "overlapping": jobs of several tasks       *)
(* overlap, the source waits for them and the connector has no resume      *)
(* tokens.  "resumable", "plain": one task runs, of a connector with or    *)
(* without resume tokens, and the source is edited meanwhile; in the last  *)
(* kind only the first file is.  New contents come in a fixed order: which *)
(* of those that a file has not held comes first makes no difference.      *)
(***************************************************************************)
EXTENDS IngestionSync

CONSTANTS
    f1, f2, c1, c2, c3, w1,
    MaxKindClock    \* bound on edits and new tasks of each kind of behaviour

VARIABLE kind

\* Two sites of one file each: a job can fail after one site is complete.
TwoSites == <<{f1}, {f2}>>

\* The third version of a file takes two edits and three syncs.
Clocks == [overlapping |-> 3, resumable |-> 4, plain |-> 5]

MCvars == <<vars, kind>>

MCInit == Init /\ kind \in DOMAIN MaxKindClock /\ (config.resumable <=> kind = "resumable")

Waits == past' # past => \A t \in Tasks : ~Running(t)
Alone == \A t \in Tasks \ {w1} : task'[t].pc = "off"
Ends == past' = past /\ \A t \in Tasks : task[t].pc = "off" => task'[t].pc = "off"

MCNext ==
    /\ Next /\ kind' = kind
    /\ IF kind = "overlapping" THEN Waits ELSE Alone
    /\ kind = "plain" => past'[f2] = past[f2]
    /\ clock >= MaxKindClock[kind] => Ends
    /\ Reverting \/ \A i \in Items : IsPrefix(past'[i], <<c1, c2, c3>>)

MCSpec == MCInit /\ [][MCNext]_MCvars /\ \A t \in Tasks : SF_vars(Work(t))
=============================================================================
