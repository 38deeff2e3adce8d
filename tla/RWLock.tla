------------------------------- MODULE RWLock -------------------------------
(***************************************************************************)
(* What a reader-writer lock promises its users: any number of readers or  *)
(* one writer, never both.  It says nothing of semaphores, counters or     *)
(* waiting.                                                                *)
(***************************************************************************)
CONSTANT Threads

VARIABLES readers, writers

vars == <<readers, writers>>

TypeOK == readers \subseteq Threads /\ writers \subseteq Threads

Init == readers = {} /\ writers = {}

EnterReader(t) ==
    /\ writers = {}
    /\ t \notin readers
    /\ readers' = readers \cup {t}
    /\ UNCHANGED writers

LeaveReader(t) ==
    /\ t \in readers
    /\ readers' = readers \ {t}
    /\ UNCHANGED writers

EnterWriter(t) ==
    /\ readers = {} /\ writers = {}
    /\ writers' = {t}
    /\ UNCHANGED readers

LeaveWriter(t) ==
    /\ t \in writers
    /\ writers' = writers \ {t}
    /\ UNCHANGED readers

Next == \E t \in Threads : \/ EnterReader(t) \/ LeaveReader(t)
                           \/ EnterWriter(t) \/ LeaveWriter(t)

Spec == Init /\ [][Next]_vars
=============================================================================
