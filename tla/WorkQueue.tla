------------------------------ MODULE WorkQueue ------------------------------
(***************************************************************************)
(* The driver's work queue (hal/atbm_task.c): a table of work functions, a *)
(* bit map of those to run and one thread that runs them in turn.  A user  *)
(* keeps the index of its entry and may cancel the entry at any time; the  *)
(* bit of a cancelled entry stays set.                                     *)
(***************************************************************************)
EXTENDS Integers, FiniteSets, FiniteSetsExt

CONSTANTS
    MaxWorks,       \* ATBM_WIFI_MAX_WORKQUEUE
    Works,          \* the functions that are registered
    NoWork          \* no function: an entry that is not valid, an idle thread

ASSUME WorksAssumption == MaxWorks \in Nat \ {0} /\ NoWork \notin Works \cup {"null"}

VARIABLES
    work_queue_table,   \* of an entry: its function, or NoWork (valid is 0)
    work_map,           \* the entries whose bit is set
    work_id,            \* where the thread's loop over the entries stands
    working,            \* the function the thread runs, "null" if it calls none
    asked,              \* history: of a set bit, the function it was set for
    wrongWork           \* history: see Connect!OwnWork

workVars == <<work_queue_table, work_map, work_id, working, asked, wrongWork>>

WorkIds == 0 .. MaxWorks - 1
Unused(table) == {id \in WorkIds : table[id] = NoWork}

\* atbm_init_work: the index of the first entry that is not valid; MaxWorks,
\* and nothing is registered, when there is none.
FirstUnused(table) == IF Unused(table) = {} THEN MaxWorks ELSE Min(Unused(table))
Registered(table, fun) ==
    IF Unused(table) = {} THEN table ELSE [table EXCEPT ![FirstUnused(table)] = fun]

\* atbm_cancel_work: the entry only, neither its bit nor a run under way.
Cancelled(table, id) == [table EXCEPT ![id] = NoWork]

\* atbm_queue_work: an entry that is not valid is refused.
\* Mutant: it is not.
QueueWorkAnyway(id) ==
    /\ work_map' = work_map \cup {id}
    /\ asked' = [asked EXCEPT ![id] = work_queue_table[id]]
QueueWork(id) ==
    IF work_queue_table[id] = NoWork
      THEN UNCHANGED <<work_map, asked>>
      ELSE /\ work_map' = work_map \cup {id}
           /\ asked' = [asked EXCEPT ![id] = work_queue_table[id]]

\* The next set bit from work_id upwards; after a last one the loop starts over.
NextWork ==
    LET above == {id \in work_map : id >= work_id}
    IN IF above = {} THEN Min(work_map) ELSE Min(above)

\* atbm_task_work clears the bit and calls the entry's function.  (A cancel
\* between the two has the outcome of a cancel before them.)
TakeWork ==
    /\ working = NoWork /\ work_map # {}
    /\ LET id  == NextWork
           fun == work_queue_table[id]
       IN /\ work_map' = work_map \ {id}
          /\ work_id' = id + 1
          /\ working' = IF fun = NoWork THEN "null" ELSE fun
          /\ wrongWork' = (wrongWork \/ fun # asked[id])
          /\ asked' = [asked EXCEPT ![id] = NoWork]
    /\ UNCHANGED work_queue_table

\* The function returns; the loop ends when no bit is set.
WorkReturns ==
    /\ working' = NoWork
    /\ work_id' = IF work_map = {} THEN 0 ELSE work_id

WorkInit(table) ==
    /\ work_queue_table = table
    /\ work_map = {} /\ work_id = 0 /\ working = NoWork
    /\ asked = [id \in WorkIds |-> NoWork] /\ wrongWork = FALSE

WorkTypeOK ==
    /\ work_queue_table \in [WorkIds -> Works \cup {NoWork}]
    /\ asked \in [WorkIds -> Works \cup {NoWork}]
    /\ work_map \subseteq WorkIds /\ work_id \in 0 .. MaxWorks
    /\ working \in Works \cup {NoWork, "null"}
    /\ wrongWork \in BOOLEAN
=============================================================================
