------------------------------- MODULE Requests -------------------------------
(***************************************************************************)
(* HTTP requests to the server: each runs its handler from one await to    *)
(* the next, and the steps of several handlers interleave.  What a handler *)
(* holds in memory is the record job of its request, with op for the       *)
(* handler, at for the step that comes next and whatever it has read.      *)
(***************************************************************************)
EXTENDS Integers, FiniteSets

CONSTANTS
    Requests,       \* requests made to the server
    MaxInFlight,    \* bound: handlers at work at the same time, when they overlap
    MaxFaults       \* bound: handlers that end early

ASSUME RequestBoundsAssumption == MaxInFlight \in Nat /\ MaxFaults \in Nat

VARIABLES
    job,        \* what the handler of each request holds
    inSeries,   \* whether requests are made one at a time
    faults      \* handlers that have ended early

requestVars == <<job, inSeries, faults>>

Waiting == [op |-> "waiting"]
Done == [op |-> "done"]

RequestsInit ==
    /\ job = [r \in Requests |-> Waiting]
    /\ inSeries \in BOOLEAN
    /\ faults = 0

Running == {r \in Requests : job[r] \notin {Waiting, Done}}

(* The handler of request r begins and goes on with j. *)
Begin(r, j) ==
    /\ job[r] = Waiting
    /\ Cardinality(Running) < IF inSeries THEN 1 ELSE MaxInFlight
    /\ job' = [job EXCEPT ![r] = j]
    /\ UNCHANGED <<inSeries, faults>>

(* The handler op of r goes through the step at. *)
At(r, op, step) == job[r] \notin {Waiting, Done} /\ job[r].op = op /\ job[r].at = step

Continue(r, j) ==
    /\ job' = [job EXCEPT ![r] = j]
    /\ UNCHANGED <<inSeries, faults>>

Finish(r) == Continue(r, Done)

(* A statement or a call throws, or the process stops: the rest of the     *)
(* handler is not run.                                                     *)
Break(r) ==
    /\ r \in Running
    /\ faults < MaxFaults
    /\ faults' = faults + 1
    /\ job' = [job EXCEPT ![r] = Done]
    /\ UNCHANGED inSeries

(* All columns are written. *)
Saved_Bug(row, copy, new) == new

(* BaseModel.save() writes the columns in which the model differs from     *)
(* what was read, over the row as it is by then.                           *)
Saved(row, copy, new) ==
    [c \in DOMAIN row |-> IF new[c] = copy[c] THEN row[c] ELSE new[c]]

=============================================================================
